----------------------------- MODULE UsageLedger -----------------------------
(***************************************************************************)
(* What the usage pipeline promises, without queue, worker or transaction: *)
(* a ledger to which a record is posted at most once, and then into the    *)
(* audit log and both caches at one instant.                               *)
(***************************************************************************)
EXTENDS UsageSchema

VARIABLES logs, daily, monthly

ledger == <<logs, daily, monthly>>

Init ==
    /\ logs    = EmptyDatabase.logs
    /\ daily   = EmptyDatabase.daily
    /\ monthly = EmptyDatabase.monthly

Post(r, d) ==
    /\ r \notin Logged(logs)
    /\ logs'    = Append(logs, [rec |-> r, day |-> d])
    /\ daily'   = Upsert(daily, DailyCell(r, d), r)
    /\ monthly' = Upsert(monthly, MonthlyCell(r, d), r)

Next == \E r \in Records, d \in Days : Post(r, d)

Spec == Init /\ [][Next]_ledger

-----------------------------------------------------------------------------
(* The caches are exactly the totals of the audit log: executeTripleWrite  *)
(* never leaves "the audit log and the quota caches out of sync".          *)
CachesMatchLog == CachesMatch(logs, daily, monthly)
=============================================================================
