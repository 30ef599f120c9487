---------------------------- MODULE UsageReports ----------------------------
(***************************************************************************)
(* The usage reports: `stats` of the CLI (cmd/cli/stats.go), the GetStats  *)
(* handler (grpc/handler.go) and the three queries (internal/usage/        *)
(* store.go), against a database to which the pipeline keeps posting.  The *)
(* command reads the clock, sends one request and waits at most five       *)
(* seconds; the handler reads the clock again where the request leaves     *)
(* something out, and then runs one SELECT, which sees one committed state.*)
(*                                                                         *)
(* The pipeline is taken at the level of UsageLedger.  Dates are numbers,  *)
(* ordered as their strings are; the time of the last activity and the     *)
(* client addresses that the tables also show are not modelled.            *)
(***************************************************************************)
EXTENDS UsageSchema, Integers, SequencesExt

CONSTANTS
    YearOf,        \* the year of a month
    StartDay,      \* the day on which the reports begin
    DefaultCount,  \* rows of a verbose report if none is asked for (100)
    MaxCount,      \* the most rows the CLI asks for (1000)
    Stamps,        \* bound: the days on which each record may be emitted
    Calls,         \* report requests
    Asked,         \* bound: the options that `stats` is called with
    Sent,          \* bound: the requests of gRPC clients other than the CLI
    Unset,         \* a date that was not given
    Malformed,     \* a date that is not of the form YYYY-MM-DD
    None           \* a value that is not there

ASSUME TimeAssumption ==
    /\ Days \subseteq Nat /\ Months \subseteq Nat /\ StartDay \in Days
    /\ YearOf \in [Months -> Nat \ {0}]
    /\ \A d, e \in Days : d <= e => MonthOf[d] <= MonthOf[e]
ASSUME UnsetAssumption == Unset \notin Days
ASSUME StampsAssumption == Stamps \in [Records -> SUBSET Days]
ASSUME CountAssumption == DefaultCount \in Nat \ {0} /\ MaxCount \in Nat \ {0}

(* statsCLIOptions and GetStatsRequest. *)
Options  == [start: Nat \cup {Unset, Malformed}, end: Nat \cup {Unset, Malformed},
             monthly: BOOLEAN, year: Int, verbose: BOOLEAN, count: Int]
Requests == [mode: {"daily", "monthly", "verbose", "other"},
             start: Nat \cup {Unset}, end: Nat \cup {Unset}, year: Int, count: Int]

ASSUME AskedAssumption == Asked \subseteq Options /\ Sent \subseteq Requests

VARIABLES
    logs, daily, monthly,   \* the committed usage database
    today,     \* the date time.Now() formats to
    pc,        \* how far each report has got
    req,       \* the request of each report
    answer,    \* the rows its query returned
    issue,     \* history: who asked, when, what the log held, what was shown
    seen       \* history: the length of the log that its query saw

Ledger == INSTANCE UsageLedger

ledger == <<logs, daily, monthly>>
vars   == <<ledger, today, pc, req, answer, issue, seen>>

Init ==
    /\ Ledger!Init
    /\ today = StartDay
    /\ pc = [c \in Calls |-> "idle"]
    /\ req = [c \in Calls |-> None]
    /\ answer = [c \in Calls |-> None]
    /\ issue = [c \in Calls |-> None]
    /\ seen = [c \in Calls |-> None]

-----------------------------------------------------------------------------
(* parseStatsOptions: the two modes exclude each other, and dates are only *)
(* looked at in daily mode.                                                *)
ParseError(o) ==
    \/ o.monthly /\ o.verbose
    \/ ~o.monthly /\ ~o.verbose /\ Malformed \in {o.start, o.end}

Clamp(n) == IF n < 1 THEN 1 ELSE IF n > MaxCount THEN MaxCount ELSE n

EmptyRequest == [mode |-> "daily", start |-> Unset, end |-> Unset, year |-> 0, count |-> 0]

OrToday(date) == IF date = Unset THEN today ELSE date

ThisYear == YearOf[MonthOf[today]]

(* Mutant: the dates are passed on as given, for the handler to fill in. *)
RequestAsGiven(o) ==
    IF o.verbose \/ o.monthly THEN EmptyRequest
    ELSE [EmptyRequest EXCEPT !.start = o.start, !.end = o.end]

(* The request that handleStatsCommand builds. *)
RequestOf(o) ==
    CASE o.verbose -> [EmptyRequest EXCEPT !.mode = "verbose", !.count = Clamp(o.count)]
      [] o.monthly -> [EmptyRequest EXCEPT !.mode = "monthly",
                                           !.year = IF o.year = 0 THEN ThisYear ELSE o.year]
      [] OTHER     -> [EmptyRequest EXCEPT !.start = OrToday(o.start), !.end = OrToday(o.end)]

Issue(c, who, r) ==
    /\ pc[c] = "idle"
    /\ pc' = [pc EXCEPT ![c] = "sent"]
    /\ req' = [req EXCEPT ![c] = r]
    /\ issue' = [issue EXCEPT ![c] =
          [who |-> who, day |-> today, logged |-> Len(logs), after |-> {d \in Calls : pc[d] = "shown"}]]
    /\ UNCHANGED <<ledger, today, answer, seen>>

(* The caller gets an error; what the handler still does is of no account. *)
Fail(c) ==
    /\ pc' = [pc EXCEPT ![c] = "failed"]
    /\ req' = [req EXCEPT ![c] = None]
    /\ answer' = [answer EXCEPT ![c] = None]
    /\ issue' = [issue EXCEPT ![c] = None]
    /\ seen' = [seen EXCEPT ![c] = None]
    /\ UNCHANGED <<ledger, today>>

(* `ai.local-cli stats ...`: a command line that does not parse makes no   *)
(* request.                                                                *)
Stats(c, o) == ~ParseError(o) /\ Issue(c, o, RequestOf(o))

StatsRejected(c, o) ==
    /\ pc[c] = "idle"
    /\ ParseError(o)
    /\ Fail(c)

(* Another gRPC client sends a request of its own. *)
Call(c, r) == Issue(c, None, r)

(* GetStats up to the query: fill in what the request leaves out.          *)
GetStats(c) ==
    /\ pc[c] = "sent"
    /\ req[c].mode # "other"
    /\ pc' = [pc EXCEPT ![c] = "query"]
    /\ req' = [req EXCEPT
          ![c].start = IF req[c].mode = "daily" THEN OrToday(@) ELSE @,
          ![c].end   = IF req[c].mode = "daily" THEN OrToday(@) ELSE @,
          ![c].year  = IF req[c].mode = "monthly" /\ @ <= 0 THEN ThisYear ELSE @,
          ![c].count = IF req[c].mode = "verbose" /\ @ <= 0 THEN DefaultCount ELSE @]
    /\ UNCHANGED <<ledger, today, answer, issue, seen>>

(* The rows of a cache table: those that have been upserted. *)
Rows(table, cells) == {[cell |-> x, sums |-> table[x]] :
                          x \in {y \in cells : table[y]["requests"] > 0}}

(* ORDER BY the third column of the key DESC, total_combined DESC; SQL     *)
(* leaves the order of ties open.                                          *)
Orderings(rows) ==
    {s \in SetToSeqs(rows) :
        \A i, j \in DOMAIN s : i < j =>
            \/ s[i].cell[3] > s[j].cell[3]
            \/ s[i].cell[3] = s[j].cell[3] /\ s[i].sums["tokens"] >= s[j].sums["tokens"]}

Return(c, rows) ==
    /\ pc' = [pc EXCEPT ![c] = "answered"]
    /\ answer' = [answer EXCEPT ![c] = rows]
    /\ seen' = [seen EXCEPT ![c] = Len(logs)]
    /\ UNCHANGED <<ledger, today, req, issue>>

(* Mutant: the end of the range is left out. *)
GetDailyStatsBefore(c) ==
    /\ pc[c] = "query" /\ req[c].mode = "daily"
    /\ \E rows \in Orderings(Rows(daily,
             {x \in DailyCells : req[c].start <= x[3] /\ x[3] < req[c].end})) : Return(c, rows)

GetDailyStats(c) ==
    /\ pc[c] = "query" /\ req[c].mode = "daily"
    /\ \E rows \in Orderings(Rows(daily,
             {x \in DailyCells : req[c].start <= x[3] /\ x[3] <= req[c].end})) : Return(c, rows)

(* Mutant: one row per month is enough. *)
GetMonthlyTop(c) ==
    /\ pc[c] = "query" /\ req[c].mode = "monthly"
    /\ \E rows \in Orderings(Rows(monthly,
             {x \in MonthlyCells : YearOf[x[3]] = req[c].year})) :
          Return(c, SelectSeq(rows, LAMBDA x : x = rows[1]))

GetMonthlyStats(c) ==
    /\ pc[c] = "query" /\ req[c].mode = "monthly"
    /\ \E rows \in Orderings(Rows(monthly,
             {x \in MonthlyCells : YearOf[x[3]] = req[c].year})) : Return(c, rows)

(* ORDER BY id DESC LIMIT: the id of a log row is its position. *)
GetVerboseLogs(c) ==
    /\ pc[c] = "query" /\ req[c].mode = "verbose"
    /\ Return(c, LET n == IF req[c].count < Len(logs) THEN req[c].count ELSE Len(logs)
                 IN  [i \in 1 .. n |-> [id  |-> Len(logs) + 1 - i,
                                        row |-> logs[Len(logs) + 1 - i]]])

(* An unsupported mode, or a query that fails: the caller gets an error.   *)
GetStatsFails(c) ==
    /\ pc[c] = "query" \/ (pc[c] = "sent" /\ req[c].mode = "other")
    /\ Fail(c)

(* The answer arrives and the table of its mode is printed. *)
Receive(c) ==
    /\ pc[c] = "answered"
    /\ pc' = [pc EXCEPT ![c] = "shown"]
    /\ UNCHANGED <<ledger, today, req, answer, issue, seen>>

(* The deadline of the call, or a lost connection. *)
GiveUp(c) ==
    /\ pc[c] \in {"sent", "query", "answered"}
    /\ Fail(c)

(* The pipeline posts a record, stamped today or on an earlier day. *)
Post(r, d) ==
    /\ d \in Stamps[r] /\ d <= today
    /\ Ledger!Post(r, d)
    /\ UNCHANGED <<today, pc, req, answer, issue, seen>>

NextDay ==
    /\ today + 1 \in Days
    /\ today' = today + 1
    /\ UNCHANGED <<ledger, pc, req, answer, issue, seen>>

Next ==
    \/ \E c \in Calls :
          \/ \E o \in Asked : Stats(c, o) \/ StatsRejected(c, o)
          \/ \E r \in Sent : Call(c, r)
          \/ GetStats(c) \/ GetStatsFails(c)
          \/ GetDailyStats(c) \/ GetMonthlyStats(c) \/ GetVerboseLogs(c)
          \/ Receive(c) \/ GiveUp(c)
    \/ \E r \in Records, d \in Days : Post(r, d)
    \/ NextDay

Spec == Init /\ [][Next]_vars

-----------------------------------------------------------------------------
Shown(mode) == {c \in Calls : pc[c] = "shown" /\ req[c].mode = mode}

(* The part of the audit log that the report of c was made from. *)
Audit(c) == SubSeq(logs, 1, seen[c])

(* The rows that a report of these cells should have, from the audit log. *)
Expected(log, cells, RowsOf(_, _)) ==
    {[cell |-> x, sums |-> [k \in Columns |-> Total(log, RowsOf(log, x), k)]] :
        x \in {y \in cells : RowsOf(log, y) # {}}}

Exactly(report, rows) == ToSet(report) = rows /\ IsInjective(report)

(* A report says what the audit log said at one instant: the daily and the *)
(* monthly tables, read from the caches, hold every key and route that was *)
(* active in the period, once, with the totals of its log rows; the        *)
(* verbose table holds the last rows of the log, newest first, at most as  *)
(* many as asked for (GetDailyStats, GetMonthlyStats, GetVerboseLogs).     *)
ReportIsAudit ==
    /\ \A c \in Shown("daily") :
          Exactly(answer[c], Expected(Audit(c), Keys \X Routes \X
                      {d \in Days : req[c].start <= d /\ d <= req[c].end}, DailyRows))
    /\ \A c \in Shown("monthly") :
          Exactly(answer[c], Expected(Audit(c), Keys \X Routes \X
                      {m \in Months : YearOf[m] = req[c].year}, MonthlyRows))
    /\ \A c \in Shown("verbose") :
          LET s == [i \in DOMAIN answer[c] |-> answer[c][i].row]
          IN  IsSuffix(Reverse(s), Audit(c)) /\ (Len(s) < req[c].count => Len(s) = seen[c])

(* What report c says about a key and a route in the month of day d: its   *)
(* monthly row, or the rows of that day.                                   *)
Says(c, k, r, d, col) ==
    LET hits == {i \in DOMAIN answer[c] :
                    answer[c][i].cell = IF req[c].mode = "monthly"
                                        THEN <<k, r, MonthOf[d]>> ELSE <<k, r, d>>}
    IN  IF hits = {} THEN 0 ELSE answer[c][CHOOSE i \in hits : TRUE].sums[col]

Covers(c, d) ==
    IF req[c].mode = "monthly" THEN YearOf[MonthOf[d]] = req[c].year
                               ELSE req[c].start <= d /\ d <= req[c].end

(* A report that was asked for after another one had been shown never      *)
(* shows less: no day shrinks, no month shrinks, and a month never shows   *)
(* less than an earlier report showed for one of its days, although days   *)
(* and months are read from different tables.                              *)
LaterReportShowsMore ==
    \A c, e \in Shown("daily") \cup Shown("monthly") :
        c \in issue[e].after /\ (req[c].mode = "daily" \/ req[e].mode = "monthly") =>
            \A k \in Keys, r \in Routes, d \in Days, col \in Columns :
                Covers(c, d) /\ Covers(e, d) => Says(c, k, r, d, col) <= Says(e, k, r, d, col)

(* `stats` without dates shows the whole day on which it was entered, up   *)
(* to that moment at least, even if the day ends while the request is on   *)
(* its way (handleStatsCommand fills in the dates before it sends).        *)
TodayIsComplete ==
    \A c \in Shown("daily") :
        issue[c].who # None /\ issue[c].who.start = Unset /\ issue[c].who.end = Unset =>
            LET then == SubSeq(logs, 1, issue[c].logged)
            IN  \A k \in Keys, r \in Routes :
                   Says(c, k, r, issue[c].day, "tokens") >=
                      Total(then, DailyRows(then, <<k, r, issue[c].day>>), "tokens")
=============================================================================
