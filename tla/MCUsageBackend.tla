--------------------------- MODULE MCUsageBackend ---------------------------
(***************************************************************************)
(* Instances of UsageBackend for TLC: two keys on one route, days 1 and 2  *)
(* in the first month and day 3 in the second, and records whose amounts   *)
(* are all different, so that no two sets of records have the same totals. *)
(***************************************************************************)
EXTENDS UsageBackend

CONSTANTS k1, k2, route, jan, feb

MCRecords == 1 .. 3
MCKeys    == {k1, k2}
MCRoutes  == {route}
MCDays    == 1 .. 3
MCMonths  == {jan, feb}
MCMonthOf == [d \in 1 .. 3 |-> IF d < 3 THEN jan ELSE feb]

MCUsage ==
    [r \in 1 .. 3 |->
        [key |-> IF r = 3 THEN k2 ELSE k1, route |-> route,
         prompt |-> r, completion |-> 2 * (r - 1)]]
=============================================================================
