--------------------------- MODULE MCUsageReports ---------------------------
(***************************************************************************)
(* An instance of UsageReports for TLC: two records of one key and one of  *)
(* another; days 1 and 2 are in month 1 of year 1, day 3 is in month 2,    *)
(* which begins year 2.                                                    *)
(***************************************************************************)
EXTENDS UsageReports

CONSTANTS k1, k2, route

MCRecords == 1 .. 3
MCKeys    == {k1, k2}
MCRoutes  == {route}
MCDays    == 1 .. 3
MCMonths  == 1 .. 2
MCMonthOf == [d \in MCDays |-> IF d < 3 THEN 1 ELSE 2]
MCYearOf  == [m \in MCMonths |-> m]

MCUsage == [r \in MCRecords |-> [key |-> IF r = 3 THEN k2 ELSE k1, route |-> route,
                                 prompt |-> r, completion |-> 1]]

MCStamps == [r \in MCRecords |-> IF r = 1 THEN {1, 2} ELSE {2}]

NoOptions == [start |-> Unset, end |-> Unset, monthly |-> FALSE, year |-> 0,
              verbose |-> FALSE, count |-> MaxCount]

MCAsked ==
    {NoOptions,
     [NoOptions EXCEPT !.start = 2],
     [NoOptions EXCEPT !.end = Malformed],
     [NoOptions EXCEPT !.monthly = TRUE, !.start = Malformed],
     [NoOptions EXCEPT !.verbose = TRUE, !.count = 0],
     [NoOptions EXCEPT !.verbose = TRUE, !.monthly = TRUE]}

MCSent ==
    {EmptyRequest,
     [EmptyRequest EXCEPT !.mode = "verbose"],
     [EmptyRequest EXCEPT !.mode = "other"]}

(* Reports are only compared. *)
Symmetry == Permutations(Calls)
=============================================================================
