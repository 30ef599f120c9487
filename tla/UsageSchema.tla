----------------------------- MODULE UsageSchema -----------------------------
(***************************************************************************)
(* The usage database of ai.local (schema/usage.sql) and the record that   *)
(* travels to it (internal/usage/record.go): one immutable audit log and   *)
(* two caches of running totals, one per day and one per month.            *)
(*                                                                         *)
(* A usage record is an opaque identity r; Usage[r] holds the fields that  *)
(* the tables aggregate.  Client addresses and timestamps finer than a day *)
(* are not modelled.                                                       *)
(***************************************************************************)
EXTENDS Naturals, Sequences, FiniteSets

CONSTANTS
    Records,   \* identities of usage records, one per proxied request
    Keys,      \* internal keys (local_key)
    Routes,    \* route paths (route_path)
    Days,      \* calendar days (usage_date)
    Months,    \* calendar months (usage_month)
    MonthOf,   \* the month a day belongs to
    Usage      \* what each record reports: key, route, prompt, completion

ASSUME CalendarAssumption == MonthOf \in [Days -> Months]

ASSUME UsageAssumption ==
    Usage \in [Records -> [key: Keys, route: Routes, prompt: Nat, completion: Nat]]

(* The aggregated columns of daily_usages and monthly_usages. *)
Columns == {"requests", "prompt", "completion", "tokens"}

(* A row of a cache table.  A missing row and a row of zeros are the same  *)
(* to every query (COALESCE, and ErrNoRows read as 0).                     *)
Row == [Columns -> Nat]

ZeroRow == [c \in Columns |-> 0]

(* The primary keys of the two cache tables. *)
DailyCells   == Keys \X Routes \X Days
MonthlyCells == Keys \X Routes \X Months

DailyTable   == [DailyCells -> Row]
MonthlyTable == [MonthlyCells -> Row]

(* One row of usage_logs. *)
LogRow == [rec: Records, day: Days]

(* What record r contributes to a column; TotalTokens is computed by the   *)
(* proxy as prompt plus completion.                                        *)
Contribution(r) ==
    [c \in Columns |->
        CASE c = "requests"   -> 1
          [] c = "prompt"     -> Usage[r].prompt
          [] c = "completion" -> Usage[r].completion
          [] c = "tokens"     -> Usage[r].prompt + Usage[r].completion]

DailyCell(r, d)   == <<Usage[r].key, Usage[r].route, d>>
MonthlyCell(r, d) == <<Usage[r].key, Usage[r].route, MonthOf[d]>>

(* INSERT ... ON CONFLICT DO UPDATE: add the record to the running totals. *)
Upsert(table, cell, r) ==
    [table EXCEPT ![cell] = [c \in Columns |-> @[c] + Contribution(r)[c]]]

(* The three tables together: what one connection sees. *)
Database == [logs: Seq(LogRow), daily: DailyTable, monthly: MonthlyTable]

EmptyDatabase ==
    [logs    |-> <<>>,
     daily   |-> [cell \in DailyCells |-> ZeroRow],
     monthly |-> [cell \in MonthlyCells |-> ZeroRow]]

(* The sum of a function with finitely many natural values, taken by       *)
(* counting: argument x stands for the f[x] pairs <<x, 1>>, <<x, 2>>, ...  *)
Units(f) == UNION {{x} \X (1 .. f[x]) : x \in DOMAIN f}
SumOf(f) == Cardinality(Units(f))

(* The records that have a row in the audit log. *)
Logged(logs) == {logs[i].rec : i \in DOMAIN logs}

(* The total of column c over a set of rows of the audit log. *)
Amounts(log, rows, c) == [i \in rows |-> Contribution(log[i].rec)[c]]
Total(log, rows, c)   == SumOf(Amounts(log, rows, c))

DailyRows(log, cell) ==
    {i \in DOMAIN log : DailyCell(log[i].rec, log[i].day) = cell}

MonthlyRows(log, cell) ==
    {i \in DOMAIN log : MonthlyCell(log[i].rec, log[i].day) = cell}

(* The caches hold, for every cell and column, the total of the log. *)
CachesMatch(log, days, months) ==
    /\ \A cell \in DailyCells : \A c \in Columns :
          days[cell][c] = Total(log, DailyRows(log, cell), c)
    /\ \A cell \in MonthlyCells : \A c \in Columns :
          months[cell][c] = Total(log, MonthlyRows(log, cell), c)
=============================================================================
