------------------------- MODULE UsageBackendProofs -------------------------
(***************************************************************************)
(* Proofs about the usage pipeline, for every queue size, any number of    *)
(* records and restarts, and every calendar.                               *)
(***************************************************************************)
EXTENDS UsageBackend, UsageSchemaProofs, SequenceTheorems

USE DEF worker, process, history

(* Types.  Each action keeps them; the interesting one is the capacity of  *)
(* the channel, and that a row never reaches the log without a date.       *)
LEMMA EmptyQueueType == <<>> \in Seq(Item) /\ Len(<<>>) <= QueueSize
  BY QueueAssumption

(* The initial state is well typed. *)
LEMMA TypeInit == Init => TypeOK
  <1>. SUFFICES ASSUME Init PROVE TypeOK
    OBVIOUS
  <1>1. queue \in Seq(Item) /\ Len(queue) <= QueueSize
    BY EmptyQueueType DEF Init
  <1>2. tx \in Database /\ db \in Database
    BY EmptyDatabaseType DEF Init
  <1>3. ticket \in [Records -> Nat] /\ today \in Days /\ boots \in 0 .. MaxBoots
    BY DayAssumption, BootAssumption DEF Init
  <1>. QED
    BY <1>1, <1>2, <1>3 DEF Init, TypeOK, WorkerPoints, Writing, MainPoints

(* An emission respects the capacity of the channel. *)
LEMMA TypeEmit ==
    ASSUME TypeOK, NEW r \in Records, Emit(r)
    PROVE  TypeOK'
  <1>1. NewItem(r) \in Item
    BY StampAssumption DEF NewItem, Item, TypeOK
  <1>2. queue' \in Seq(Item) /\ Len(queue') <= QueueSize
    BY <1>1, QueueAssumption DEF Emit, TakeTicket, TypeOK
  <1>3. /\ dropped' \in Nat
        /\ ticket' \in [Records -> Nat]
        /\ emissions' \in Nat
        /\ warned' \subseteq Records
    BY DEF Emit, TakeTicket, TypeOK
  <1>. QED
    BY <1>2, <1>3 DEF Emit, TakeTicket, TypeOK

(* So does every step of the worker; a record has a date once begun. *)
LEMMA TypeWorker ==
    ASSUME TypeOK, WorkerStep
    PROVE  TypeOK'
  <1>. USE DEF TypeOK, WorkerPoints, Writing
  <1>1. CASE Receive
    <2>1. /\ Head(queue) \in Item
          /\ Tail(queue) \in Seq(Item)
          /\ Len(Tail(queue)) <= QueueSize
      BY <1>1, QueueAssumption, HeadTailProperties DEF Receive
    <2>. QED
      BY <1>1, <2>1 DEF Receive
  <1>2. CASE SeeDone
    BY <1>2 DEF SeeDone
  <1>3. CASE Drained
    BY <1>3 DEF Drained
  <1>4. CASE TxBegin
    <2>1. hand' \in LogRow /\ hand' \in Item
      BY <1>4 DEF TxBegin, Item, LogRow
    <2>. QED
      BY <1>4, <2>1 DEF TxBegin
  <1>5. CASE TxInsertLog
    <2>1. tx.logs \in Seq(LogRow) /\ hand \in LogRow
      BY <1>5 DEF TxInsertLog, Database
    <2>2. Append(tx.logs, hand) \in Seq(LogRow)
      BY <2>1
    <2>3. tx' \in Database
      BY <1>5, <2>2 DEF TxInsertLog, Database
    <2>. QED
      BY <1>5, <2>3 DEF TxInsertLog
  <1>6. CASE TxUpsertDaily
    <2>1. hand.rec \in Records /\ hand.day \in Days
      BY <1>6 DEF TxUpsertDaily, LogRow
    <2>2. Upsert(tx.daily, DailyCell(hand.rec, hand.day), hand.rec) \in DailyTable
      <3>1. tx.daily \in [DailyCells -> Row]
        BY DEF Database, DailyTable
      <3>2. DailyCell(hand.rec, hand.day) \in DailyCells
        BY <2>1, CellTypes
      <3>. QED
        BY <2>1, <3>1, <3>2, UpsertCell DEF DailyTable
    <2>3. tx' \in Database
      BY <1>6, <2>2 DEF TxUpsertDaily, Database
    <2>. QED
      BY <1>6, <2>3 DEF TxUpsertDaily
  <1>7. CASE TxUpsertMonthly
    <2>1. hand.rec \in Records /\ hand.day \in Days
      BY <1>7 DEF TxUpsertMonthly, LogRow
    <2>2. Upsert(tx.monthly, MonthlyCell(hand.rec, hand.day), hand.rec) \in MonthlyTable
      <3>1. tx.monthly \in [MonthlyCells -> Row]
        BY DEF Database, MonthlyTable
      <3>2. MonthlyCell(hand.rec, hand.day) \in MonthlyCells
        BY <2>1, CellTypes
      <3>. QED
        BY <2>1, <3>1, <3>2, UpsertCell DEF MonthlyTable
    <2>3. tx' \in Database
      BY <1>7, <2>2 DEF TxUpsertMonthly, Database
    <2>. QED
      BY <1>7, <2>3 DEF TxUpsertMonthly
  <1>8. CASE TxCommit
    BY <1>8 DEF TxCommit
  <1>9. CASE TxFail
    <2>1. hand.rec \in Records
      BY <1>9 DEF TxFail, Item
    <2>. QED
      BY <1>9, <2>1 DEF TxFail, UntouchedByTxFail
  <1>. QED
    BY <1>1, <1>2, <1>3, <1>4, <1>5, <1>6, <1>7, <1>8, <1>9 DEF WorkerStep

(* What is in memory is records. *)
LEMMA InMemoryType == TypeOK => InMemory \subseteq Records
  <1>. SUFFICES ASSUME TypeOK PROVE InMemory \subseteq Records
    OBVIOUS
  <1>1. \A i \in DOMAIN queue : queue[i] \in Item
    BY DEF TypeOK
  <1>2. pc \in Writing => hand \in Item
    BY DEF TypeOK
  <1>. QED
    BY <1>1, <1>2 DEF InMemory, QueuedRecords, HandRecords, Item

(* Stop, the end of the process and a restart keep the types. *)
LEMMA TypeMain ==
    ASSUME TypeOK, MainStep
    PROVE  TypeOK'
  <1>. USE DEF TypeOK, WorkerPoints, Writing, MainPoints
  <1>1. CASE Stop
    BY <1>1 DEF Stop
  <1>2. CASE StopReturn
    BY <1>2 DEF StopReturn
  <1>3. CASE Exit
    BY <1>3, EmptyQueueType, InMemoryType DEF Exit, MemoryGone
  <1>4. CASE Crash
    BY <1>4, EmptyQueueType, InMemoryType DEF Crash, MemoryGone
  <1>5. CASE Boot
    <2>1. boots' \in 0 .. MaxBoots
      BY <1>5, BootAssumption DEF Boot
    <2>2. hand = None
      BY <1>5 DEF Boot
    <2>. QED
      BY <1>5, <2>1, <2>2 DEF Boot
  <1>. QED
    BY <1>1, <1>2, <1>3, <1>4, <1>5 DEF MainStep

(* Every step keeps the types. *)
LEMMA TypeNext == TypeOK /\ [Next]_vars => TypeOK'
  <1>1. ASSUME TypeOK, UNCHANGED vars PROVE TypeOK'
    BY <1>1 DEF TypeOK, vars
  <1>2. ASSUME TypeOK, NextDay PROVE TypeOK'
    BY <1>2 DEF TypeOK, NextDay
  <1>. QED
    BY <1>1, <1>2, TypeEmit, TypeWorker, TypeMain DEF Next

(* Type correctness of the pipeline, the bound of its channel included.    *)
THEOREM TypeCorrect == Spec => []TypeOK
  BY TypeInit, TypeNext, PTL DEF Spec

-----------------------------------------------------------------------------
(* Inside a transaction: how far the private view has moved from what is   *)
(* committed, by the statement to execute next.                            *)
TxInv ==
    /\ pc = "log" => tx.logs = db.logs
    /\ pc \in {"daily", "monthly", "commit"} => tx.logs = Append(db.logs, hand)
    /\ pc \in {"log", "daily"} => tx.daily = db.daily
    /\ pc \in {"monthly", "commit"} =>
          tx.daily = Upsert(db.daily, DailyCell(hand.rec, hand.day), hand.rec)
    /\ pc \in {"log", "daily", "monthly"} => tx.monthly = db.monthly
    /\ pc = "commit" =>
          tx.monthly = Upsert(db.monthly, MonthlyCell(hand.rec, hand.day), hand.rec)

(* No transaction is open at the start. *)
LEMMA TxInit == Init => TxInv
  BY DEF Init, TxInv

(* Every step keeps the private view in step with its statement. *)
LEMMA TxNext == TypeOK /\ TxInv /\ [Next]_vars => TxInv'
  <1>. SUFFICES ASSUME TypeOK, TxInv, [Next]_vars PROVE TxInv'
    OBVIOUS
  <1>. USE DEF TxInv
  <1>1. CASE UNCHANGED vars
    BY <1>1 DEF vars
  <1>2. ASSUME NEW r \in Records, Emit(r) PROVE TxInv'
    BY <1>2 DEF Emit, TakeTicket
  <1>3. CASE Receive
    BY <1>3 DEF Receive
  <1>4. CASE SeeDone
    BY <1>4 DEF SeeDone
  <1>5. CASE Drained
    BY <1>5 DEF Drained
  <1>6. CASE TxBegin
    BY <1>6 DEF TxBegin
  <1>7. CASE TxInsertLog
    <2>1. tx' = [tx EXCEPT !.logs = Append(tx.logs, hand)] /\ tx \in Database
      BY <1>7 DEF TxInsertLog, TypeOK
    <2>2. /\ tx'.logs = Append(tx.logs, hand)
          /\ tx'.daily = tx.daily /\ tx'.monthly = tx.monthly
      BY <2>1 DEF Database
    <2>. QED
      BY <1>7, <2>2 DEF TxInsertLog
  <1>8. CASE TxUpsertDaily
    <2>1. /\ tx' = [tx EXCEPT !.daily = Upsert(tx.daily, DailyCell(hand.rec, hand.day), hand.rec)]
          /\ tx \in Database
      BY <1>8 DEF TxUpsertDaily, TypeOK
    <2>2. /\ tx'.daily = Upsert(tx.daily, DailyCell(hand.rec, hand.day), hand.rec)
          /\ tx'.logs = tx.logs /\ tx'.monthly = tx.monthly
      BY <2>1 DEF Database
    <2>. QED
      BY <1>8, <2>2 DEF TxUpsertDaily
  <1>9. CASE TxUpsertMonthly
    <2>1. /\ tx' = [tx EXCEPT !.monthly = Upsert(tx.monthly, MonthlyCell(hand.rec, hand.day), hand.rec)]
          /\ tx \in Database
      BY <1>9 DEF TxUpsertMonthly, TypeOK
    <2>2. /\ tx'.monthly = Upsert(tx.monthly, MonthlyCell(hand.rec, hand.day), hand.rec)
          /\ tx'.logs = tx.logs /\ tx'.daily = tx.daily
      BY <2>1 DEF Database
    <2>. QED
      BY <1>9, <2>2 DEF TxUpsertMonthly
  <1>10. CASE TxCommit
    BY <1>10 DEF TxCommit, TypeOK
  <1>11. CASE TxFail
    BY <1>11 DEF TxFail, TypeOK
  <1>12. CASE Stop
    BY <1>12 DEF Stop
  <1>13. CASE StopReturn
    BY <1>13 DEF StopReturn
  <1>14. CASE Exit
    BY <1>14 DEF Exit, MemoryGone
  <1>15. CASE Crash
    BY <1>15 DEF Crash, MemoryGone
  <1>16. CASE Boot
    BY <1>16 DEF Boot
  <1>17. CASE NextDay
    BY <1>17 DEF NextDay
  <1>. QED
    BY <1>1, <1>2, <1>3, <1>4, <1>5, <1>6, <1>7, <1>8, <1>9, <1>10, <1>11, <1>12,
       <1>13, <1>14, <1>15, <1>16, <1>17 DEF Next, WorkerStep, MainStep

-----------------------------------------------------------------------------
(* Order of emission.  It is inductive together with the bounds on the     *)
(* tickets of the records that are under way or logged: a record without a *)
(* ticket is nowhere, so giving it one disturbs no order.                  *)
TicketsIssued ==
    \A r \in Logged(db.logs) \cup InMemory : 0 < ticket[r] /\ ticket[r] <= emissions

OrderInv == ChargedInOrder /\ TicketsIssued

(* What is in the log is records. *)
LEMMA LoggedType == TypeOK => Logged(db.logs) \subseteq Records
  <1>. SUFFICES ASSUME TypeOK PROVE Logged(db.logs) \subseteq Records
    OBVIOUS
  <1>1. \A i \in DOMAIN db.logs : db.logs[i] \in LogRow
    BY DEF TypeOK, Database
  <1>. QED
    BY <1>1 DEF Logged, LogRow

(* Nothing is emitted at the start. *)
LEMMA OrderInit == Init => OrderInv
  BY DEF Init, OrderInv, ChargedInOrder, TicketsIssued, InMemory, QueuedRecords,
         HandRecords, Logged, EmptyDatabase, Writing

(* A step that adds nothing to the log, the hand or the queue and leaves   *)
(* the tickets alone keeps the order.                                      *)
LEMMA OrderSame ==
    ASSUME OrderInv, UNCHANGED <<queue, ticket, emissions>>, db'.logs = db.logs,
           HandRecords' \subseteq HandRecords
    PROVE  OrderInv'
  <1>1. InMemory' \subseteq InMemory /\ QueuedRecords' = QueuedRecords
    BY DEF InMemory, QueuedRecords
  <1>2. Logged(db.logs)' = Logged(db.logs)
    BY DEF Logged
  <1>. QED
    BY <1>1, <1>2 DEF OrderInv, ChargedInOrder, TicketsIssued, Older

(* A new record gets the latest ticket and the last place. *)
LEMMA OrderEmit ==
    ASSUME TypeOK, OrderInv, NEW r \in Records, Emit(r)
    PROVE  OrderInv'
  <1>1. /\ ticket[r] = 0
        /\ ticket' = [ticket EXCEPT ![r] = emissions + 1]
        /\ emissions' = emissions + 1
        /\ db' = db /\ HandRecords' = HandRecords
    BY DEF Emit, TakeTicket, HandRecords
  <1>2. Logged(db.logs)' = Logged(db.logs)
    BY <1>1 DEF Logged
  <1>3. /\ emissions \in Nat
        /\ ticket \in [Records -> Nat]
        /\ queue \in Seq(Item)
    BY DEF TypeOK
  <1>4. Logged(db.logs) \cup InMemory \subseteq Records
    BY InMemoryType, LoggedType
  <1>5. r \notin Logged(db.logs) \cup InMemory
    BY <1>1, <1>3 DEF OrderInv, TicketsIssued
  <1>6. /\ \A s \in Logged(db.logs) \cup InMemory : ticket'[s] = ticket[s]
        /\ ticket'[r] = emissions + 1
    BY <1>1, <1>3, <1>4, <1>5
  <1>7. CASE queue' = queue
    <2>1. InMemory' = InMemory /\ QueuedRecords' = QueuedRecords
      BY <1>1, <1>7 DEF InMemory, QueuedRecords
    <2>2. TicketsIssued'
      BY <1>1, <1>2, <1>3, <1>4, <1>6, <2>1 DEF OrderInv, TicketsIssued
    <2>3. ChargedInOrder'
      BY <1>1, <1>2, <1>6, <1>7, <2>1
         DEF OrderInv, ChargedInOrder, Older, InMemory, QueuedRecords, Logged
    <2>. QED
      BY <2>2, <2>3 DEF OrderInv
  <1>8. CASE queue' = Append(queue, NewItem(r))
    <2>1. /\ DOMAIN queue' = DOMAIN queue \cup {Len(queue) + 1}
          /\ \A i \in DOMAIN queue : queue'[i] = queue[i] /\ i < Len(queue) + 1
          /\ queue'[Len(queue) + 1].rec = r
      BY <1>3, <1>8 DEF NewItem
    <2>2. QueuedRecords' = QueuedRecords \cup {r} /\ InMemory' = InMemory \cup {r}
      BY <1>1, <2>1 DEF InMemory, QueuedRecords
    <2>3. TicketsIssued'
      BY <1>1, <1>2, <1>3, <1>4, <1>6, <2>2 DEF OrderInv, TicketsIssued
    <2>4. \A s \in Logged(db.logs) \cup InMemory : ticket'[s] < ticket'[r]
      BY <1>3, <1>4, <1>6 DEF OrderInv, TicketsIssued
    <2>5. \A i, j \in DOMAIN queue' : i < j => Older(queue[i].rec, queue[j].rec)'
      <3>. SUFFICES ASSUME NEW i \in DOMAIN queue', NEW j \in DOMAIN queue', i < j
                    PROVE  ticket'[queue'[i].rec] < ticket'[queue'[j].rec]
        BY DEF Older
      <3>1. i \in DOMAIN queue
        BY <1>3, <2>1
      <3>2. queue[i].rec \in InMemory
        BY <3>1 DEF InMemory, QueuedRecords
      <3>3. CASE j = Len(queue) + 1
        BY <2>1, <2>4, <3>1, <3>2, <3>3
      <3>4. CASE j \in DOMAIN queue
        <4>1. queue[j].rec \in InMemory
          BY <3>4 DEF InMemory, QueuedRecords
        <4>. QED
          BY <1>6, <2>1, <3>1, <3>2, <3>4, <4>1 DEF OrderInv, ChargedInOrder, Older
      <3>. QED
        BY <2>1, <3>3, <3>4
    <2>6. ChargedInOrder'
      BY <1>1, <1>2, <1>6, <2>2, <2>4, <2>5
         DEF OrderInv, ChargedInOrder, Older, InMemory, Logged
    <2>. QED
      BY <2>3, <2>6 DEF OrderInv
  <1>. QED
    BY <1>7, <1>8 DEF Emit

(* The oldest queued record moves to the worker's hands. *)
LEMMA OrderReceive ==
    ASSUME TypeOK, OrderInv, Receive
    PROVE  OrderInv'
  <1>1. /\ queue \in Seq(Item) /\ queue # <<>>
        /\ queue' = Tail(queue) /\ hand' = Head(queue) /\ pc' = "begin"
        /\ pc \notin Writing
        /\ UNCHANGED <<db, ticket, emissions>>
    BY DEF Receive, TypeOK, Writing
  <1>2. /\ \A i \in DOMAIN queue' : i + 1 \in DOMAIN queue /\ queue'[i] = queue[i + 1]
        /\ DOMAIN queue' \subseteq Nat
        /\ 1 \in DOMAIN queue /\ Head(queue) = queue[1]
    BY <1>1, HeadTailProperties
  <1>3. HandRecords = {} /\ HandRecords' = {queue[1].rec}
    BY <1>1, <1>2 DEF HandRecords, Writing
  <1>4. /\ QueuedRecords' \subseteq QueuedRecords
        /\ queue[1].rec \in QueuedRecords
        /\ InMemory' \subseteq InMemory
    BY <1>2, <1>3 DEF QueuedRecords, InMemory
  <1>5. Logged(db.logs)' = Logged(db.logs)
    BY <1>1 DEF Logged
  <1>6. TicketsIssued'
    BY <1>1, <1>4, <1>5 DEF OrderInv, TicketsIssued
  <1>7. \A i, j \in DOMAIN queue' : i < j => Older(queue'[i].rec, queue'[j].rec)
    <2>. SUFFICES ASSUME NEW i \in DOMAIN queue', NEW j \in DOMAIN queue', i < j
                  PROVE  Older(queue'[i].rec, queue'[j].rec)
      OBVIOUS
    <2>1. i + 1 \in DOMAIN queue /\ j + 1 \in DOMAIN queue /\ i + 1 < j + 1
      BY <1>2
    <2>. QED
      BY <1>2, <2>1 DEF OrderInv, ChargedInOrder
  <1>8. \A s \in QueuedRecords' : Older(queue[1].rec, s)
    <2>. SUFFICES ASSUME NEW i \in DOMAIN queue' PROVE Older(queue[1].rec, queue'[i].rec)
      BY DEF QueuedRecords
    <2>1. i + 1 \in DOMAIN queue /\ 1 < i + 1
      BY <1>1, <1>2
    <2>. QED
      BY <1>2, <2>1 DEF OrderInv, ChargedInOrder
  <1>9. \A r, s : Older(r, s)' <=> Older(r, s)
    BY <1>1 DEF Older
  <1>10. ChargedInOrder'
    BY <1>1, <1>3, <1>4, <1>5, <1>7, <1>8, <1>9 DEF OrderInv, ChargedInOrder
  <1>. QED
    BY <1>6, <1>10 DEF OrderInv

(* The record in hand, younger than all logged ones, is logged. *)
LEMMA OrderCommit ==
    ASSUME TypeOK, TxInv, OrderInv, TxCommit
    PROVE  OrderInv'
  <1>1. /\ db.logs \in Seq(LogRow)
        /\ db'.logs = Append(db.logs, hand)
        /\ pc \in Writing /\ pc' \notin Writing
        /\ UNCHANGED <<queue, ticket, emissions>>
    BY DEF TxCommit, TypeOK, Database, TxInv, Writing
  <1>2. HandRecords = {hand.rec} /\ HandRecords' = {}
    BY <1>1 DEF HandRecords
  <1>3. QueuedRecords' = QueuedRecords /\ InMemory' = QueuedRecords
    BY <1>1, <1>2 DEF QueuedRecords, InMemory
  <1>4. /\ DOMAIN db'.logs = DOMAIN db.logs \cup {Len(db.logs) + 1}
        /\ \A i \in DOMAIN db.logs : db'.logs[i] = db.logs[i] /\ i < Len(db.logs) + 1
        /\ db'.logs[Len(db.logs) + 1] = hand
    BY <1>1
  <1>5. Logged(db.logs)' = Logged(db.logs) \cup {hand.rec}
    BY <1>4 DEF Logged
  <1>6. TicketsIssued'
    BY <1>1, <1>2, <1>3, <1>5 DEF OrderInv, TicketsIssued, InMemory
  <1>7. \A i, j \in DOMAIN db'.logs : i < j => Older(db'.logs[i].rec, db'.logs[j].rec)
    <2>. SUFFICES ASSUME NEW i \in DOMAIN db'.logs, NEW j \in DOMAIN db'.logs, i < j
                  PROVE  Older(db'.logs[i].rec, db'.logs[j].rec)
      OBVIOUS
    <2>1. i \in DOMAIN db.logs
      BY <1>1, <1>4
    <2>2. db.logs[i].rec \in Logged(db.logs)
      BY <2>1 DEF Logged
    <2>3. CASE j = Len(db.logs) + 1
      BY <1>2, <1>4, <2>1, <2>2, <2>3 DEF OrderInv, ChargedInOrder, InMemory
    <2>4. CASE j \in DOMAIN db.logs
      BY <1>4, <2>1, <2>4 DEF OrderInv, ChargedInOrder
    <2>. QED
      BY <1>4, <2>3, <2>4
  <1>8. \A r, s : Older(r, s)' <=> Older(r, s)
    BY <1>1 DEF Older
  <1>9. ChargedInOrder'
    BY <1>1, <1>2, <1>3, <1>5, <1>7, <1>8 DEF OrderInv, ChargedInOrder, InMemory
  <1>. QED
    BY <1>6, <1>9 DEF OrderInv

(* The end of the process empties the queue and the worker's hands. *)
LEMMA OrderGone ==
    ASSUME OrderInv, MemoryGone, UNCHANGED <<db, ticket, emissions>>
    PROVE  OrderInv'
  <1>1. InMemory' = {} /\ QueuedRecords' = {} /\ HandRecords' = {} /\ DOMAIN queue' = {}
    BY DEF MemoryGone, InMemory, QueuedRecords, HandRecords, Writing
  <1>. QED
    BY <1>1 DEF OrderInv, ChargedInOrder, TicketsIssued, Older, Logged

(* Every step keeps the order. *)
LEMMA OrderNext == TypeOK /\ TxInv /\ OrderInv /\ [Next]_vars => OrderInv'
  <1>. SUFFICES ASSUME TypeOK, TxInv, OrderInv, [Next]_vars PROVE OrderInv'
    OBVIOUS
  <1>1. CASE UNCHANGED vars
    BY <1>1, OrderSame DEF vars, HandRecords
  <1>2. ASSUME NEW r \in Records, Emit(r) PROVE OrderInv'
    BY <1>2, OrderEmit
  <1>3. CASE Receive
    BY <1>3, OrderReceive
  <1>4. CASE SeeDone
    BY <1>4, OrderSame DEF SeeDone, HandRecords, Writing
  <1>5. CASE Drained
    BY <1>5, OrderSame DEF Drained, HandRecords, Writing
  <1>6. CASE TxBegin
    <2>1. hand'.rec = hand.rec
      BY <1>6 DEF TxBegin, TypeOK, Item, Writing
    <2>. QED
      BY <1>6, <2>1, OrderSame DEF TxBegin, HandRecords, Writing
  <1>7. CASE TxInsertLog
    BY <1>7, OrderSame DEF TxInsertLog, HandRecords, Writing
  <1>8. CASE TxUpsertDaily
    BY <1>8, OrderSame DEF TxUpsertDaily, HandRecords, Writing
  <1>9. CASE TxUpsertMonthly
    BY <1>9, OrderSame DEF TxUpsertMonthly, HandRecords, Writing
  <1>10. CASE TxCommit
    BY <1>10, OrderCommit
  <1>11. CASE TxFail
    BY <1>11, OrderSame DEF TxFail, UntouchedByTxFail, HandRecords, Writing, TypeOK
  <1>12. CASE Stop
    BY <1>12, OrderSame DEF Stop, HandRecords
  <1>13. CASE StopReturn
    BY <1>13, OrderSame DEF StopReturn, HandRecords
  <1>14. CASE Exit
    BY <1>14, OrderGone DEF Exit
  <1>15. CASE Crash
    BY <1>15, OrderGone DEF Crash
  <1>16. CASE Boot
    BY <1>16, OrderSame DEF Boot, HandRecords, Writing
  <1>17. CASE NextDay
    BY <1>17, OrderSame DEF NextDay, HandRecords
  <1>. QED
    BY <1>1, <1>2, <1>3, <1>4, <1>5, <1>6, <1>7, <1>8, <1>9, <1>10, <1>11, <1>12,
       <1>13, <1>14, <1>15, <1>16, <1>17 DEF Next, WorkerStep, MainStep

(* Types, transaction and order together. *)
PipelineInv == TypeOK /\ TxInv /\ OrderInv

(* Types, transaction and order hold together. *)
LEMMA PipelineInvariant == Spec => []PipelineInv
  <1>1. Init => PipelineInv
    BY TypeInit, TxInit, OrderInit DEF PipelineInv
  <1>2. PipelineInv /\ [Next]_vars => PipelineInv'
    BY TypeNext, TxNext, OrderNext DEF PipelineInv
  <1>. QED
    BY <1>1, <1>2, PTL DEF Spec

(* The audit log holds the records in the order of their emission, none    *)
(* twice, and everything in it is older than what is still queued or being *)
(* written, through any number of failures, crashes and restarts.          *)
THEOREM InOrder == Spec => []ChargedInOrder
  <1>1. PipelineInv => ChargedInOrder
    BY DEF PipelineInv, OrderInv
  <1>. QED
    BY <1>1, PipelineInvariant, PTL

-----------------------------------------------------------------------------
(* The instance of the ledger reads the same schema as the pipeline does.  *)
LEMMA SameSchema ==
    /\ \A log : Ledger!Logged(log) = Logged(log)
    /\ \A r, d : Ledger!DailyCell(r, d) = DailyCell(r, d)
    /\ \A r, d : Ledger!MonthlyCell(r, d) = MonthlyCell(r, d)
    /\ \A t, x, r : Ledger!Upsert(t, x, r) = Upsert(t, x, r)
    /\ Ledger!EmptyDatabase = EmptyDatabase
  BY DEF Logged, Ledger!Logged, DailyCell, Ledger!DailyCell, MonthlyCell, Ledger!MonthlyCell,
         Upsert, Ledger!Upsert, Columns, Ledger!Columns, Contribution, Ledger!Contribution,
         EmptyDatabase, Ledger!EmptyDatabase, DailyCells, Ledger!DailyCells,
         MonthlyCells, Ledger!MonthlyCells, ZeroRow, Ledger!ZeroRow

(* A commit posts the record in the worker's hands, which was not posted   *)
(* before because everything in the log is older than it.                  *)
LEMMA CommitPosts ==
    ASSUME PipelineInv, TxCommit
    PROVE  hand.rec \in Records /\ hand.day \in Days /\ Ledger!Post(hand.rec, hand.day)
  <1>1. /\ hand \in LogRow /\ pc = "commit" /\ db' = tx
        /\ ticket \in [Records -> Nat]
    BY DEF PipelineInv, TypeOK, TxCommit, Writing
  <1>2. hand = [rec |-> hand.rec, day |-> hand.day] /\ hand.rec \in Records /\ hand.day \in Days
    BY <1>1 DEF LogRow
  <1>3. hand.rec \notin Logged(db.logs)
    <2>1. hand.rec \in InMemory
      BY <1>1 DEF InMemory, HandRecords, Writing
    <2>2. hand.rec \in Logged(db.logs) => ticket[hand.rec] < ticket[hand.rec]
      BY <2>1 DEF PipelineInv, OrderInv, ChargedInOrder, Older
    <2>. QED
      BY <1>1, <1>2, <2>2
  <1>4. /\ db'.logs = Append(db.logs, [rec |-> hand.rec, day |-> hand.day])
        /\ db'.daily = Upsert(db.daily, DailyCell(hand.rec, hand.day), hand.rec)
        /\ db'.monthly = Upsert(db.monthly, MonthlyCell(hand.rec, hand.day), hand.rec)
    BY <1>1, <1>2 DEF PipelineInv, TxInv
  <1>. QED
    BY <1>2, <1>3, <1>4, SameSchema DEF Ledger!Post

(* No other step touches what is committed. *)
LEMMA OnlyCommitWrites == [Next]_vars => TxCommit \/ db' = db
  BY DEF Next, WorkerStep, MainStep, vars, Emit, TakeTicket, Receive, SeeDone, Drained,
         TxBegin, TxInsertLog, TxUpsertDaily, TxUpsertMonthly, TxFail,
         Stop, StopReturn, Exit, Crash, Boot, NextDay

(* The pipeline implements the ledger: whatever is emitted, dropped, fails *)
(* or crashes, the committed tables change by posting one new record to    *)
(* all three of them at once (executeTripleWrite), and by nothing else.    *)
THEOREM Refinement == Spec => ImplementsLedger
  <1>1. Init => Ledger!Init
    BY SameSchema DEF Init, Ledger!Init
  <1>2. PipelineInv /\ [Next]_vars => [Ledger!Next]_(Ledger!ledger)
    <2>. SUFFICES ASSUME PipelineInv, [Next]_vars PROVE [Ledger!Next]_(Ledger!ledger)
      OBVIOUS
    <2>1. CASE TxCommit
      BY <2>1, CommitPosts DEF Ledger!Next
    <2>2. CASE db' = db
      BY <2>2 DEF Ledger!ledger
    <2>. QED
      BY <2>1, <2>2, OnlyCommitWrites
  <1>. QED
    BY <1>1, <1>2, PipelineInvariant, PTL DEF Spec, ImplementsLedger, Ledger!Spec

-----------------------------------------------------------------------------
BalanceInv == Balanced(db.logs, db.daily, db.monthly)

(* The committed caches are the totals of the committed audit log at every *)
(* instant, and so after every crash: a transaction that did not commit    *)
(* leaves no trace, one that did moves all three tables (TxInv).           *)
THEOREM CachesInBalance == Spec => []CachesMatchLog
  <1>1. Init => BalanceInv
    BY EmptyBalanced DEF Init, BalanceInv
  <1>2. PipelineInv /\ BalanceInv /\ [Next]_vars => BalanceInv'
    <2>. SUFFICES ASSUME PipelineInv, BalanceInv, [Next]_vars PROVE BalanceInv'
      OBVIOUS
    <2>1. CASE TxCommit
      <3>1. /\ hand \in LogRow /\ db \in Database
            /\ db'.logs = Append(db.logs, hand)
            /\ db'.daily = Upsert(db.daily, DailyCell(hand.rec, hand.day), hand.rec)
            /\ db'.monthly = Upsert(db.monthly, MonthlyCell(hand.rec, hand.day), hand.rec)
        BY <2>1 DEF PipelineInv, TypeOK, TxInv, TxCommit, Writing
      <3>. QED
        BY <3>1, PostBalanced DEF BalanceInv, Database
    <2>2. CASE db' = db
      BY <2>2 DEF BalanceInv
    <2>. QED
      BY <2>1, <2>2, OnlyCommitWrites
  <1>3. BalanceInv => CachesMatchLog
    BY DEF BalanceInv, Balanced, CachesMatchLog
  <1>. QED
    BY <1>1, <1>2, <1>3, PipelineInvariant, PTL DEF Spec

-----------------------------------------------------------------------------
(* Shutdown.  The worker drains or has ended only if done is closed, done  *)
(* is closed only once main has left "serving", and what the worker left   *)
(* behind when it found the buffer empty came in after Stop was called.    *)
Draining == pc \in {"drain", "exited"} \/ (pc \in Writing /\ loop = "drain")

DrainInv ==
    /\ stopMark <= emissions
    /\ Up /\ Draining => done
    /\ Up /\ done => main # "serving"
    /\ main = "returned" => pc = "exited"
    /\ Up /\ pc = "exited" => \A r \in QueuedRecords : ticket[r] > stopMark

(* A new record has a later ticket than the mark that Stop set. *)
LEMMA DrainEmit ==
    ASSUME TypeOK, DrainInv, NEW r \in Records, Emit(r)
    PROVE  DrainInv'
  <1>1. /\ ticket' = [ticket EXCEPT ![r] = emissions + 1] /\ emissions' = emissions + 1
        /\ UNCHANGED <<main, pc, loop, done, stopMark>>
        /\ emissions \in Nat /\ stopMark \in Nat /\ ticket \in [Records -> Nat]
        /\ queue \in Seq(Item)
    BY DEF Emit, TakeTicket, TypeOK
  <1>2. QueuedRecords' \subseteq QueuedRecords \cup {r}
    <2>1. CASE queue' = queue
      BY <2>1 DEF QueuedRecords
    <2>2. CASE queue' = Append(queue, NewItem(r))
      <3>1. /\ DOMAIN queue' = DOMAIN queue \cup {Len(queue) + 1}
            /\ \A i \in DOMAIN queue : queue'[i] = queue[i]
            /\ queue'[Len(queue) + 1].rec = r
        BY <1>1, <2>2 DEF NewItem
      <3>. QED
        BY <3>1 DEF QueuedRecords
    <2>. QED
      BY <2>1, <2>2 DEF Emit
  <1>3. QueuedRecords \subseteq Records
    BY InMemoryType DEF InMemory
  <1>4. \A s \in QueuedRecords' : \/ ticket'[s] = ticket[s] /\ s \in QueuedRecords
                                  \/ ticket'[s] > stopMark'
    BY <1>1, <1>2, <1>3 DEF DrainInv
  <1>. QED
    BY <1>1, <1>4 DEF DrainInv, Draining, Up

(* Every step keeps what the shutdown relies on. *)
LEMMA DrainNext == TypeOK /\ DrainInv /\ [Next]_vars => DrainInv'
  <1>. SUFFICES ASSUME TypeOK, DrainInv, [Next]_vars PROVE DrainInv'
    OBVIOUS
  <1>. USE DEF DrainInv, Draining, Up, Writing, QueuedRecords
  <1>1. CASE UNCHANGED vars
    BY <1>1 DEF vars
  <1>2. ASSUME NEW r \in Records, Emit(r) PROVE DrainInv'
    BY <1>2, DrainEmit
  <1>3. CASE Receive
    BY <1>3 DEF Receive
  <1>4. CASE SeeDone
    BY <1>4 DEF SeeDone
  <1>5. CASE Drained
    BY <1>5 DEF Drained
  <1>6. CASE TxBegin \/ TxInsertLog \/ TxUpsertDaily \/ TxUpsertMonthly
    BY <1>6 DEF TxBegin, TxInsertLog, TxUpsertDaily, TxUpsertMonthly
  <1>7. CASE TxCommit
    BY <1>7 DEF TxCommit, TypeOK
  <1>8. CASE TxFail
    BY <1>8 DEF TxFail, UntouchedByTxFail, TypeOK
  <1>9. CASE Stop
    BY <1>9 DEF Stop, TypeOK
  <1>10. CASE StopReturn
    BY <1>10 DEF StopReturn
  <1>11. CASE Exit \/ Crash
    BY <1>11 DEF Exit, Crash, MemoryGone
  <1>12. CASE Boot
    BY <1>12 DEF Boot
  <1>13. CASE NextDay
    BY <1>13 DEF NextDay
  <1>. QED
    BY <1>1, <1>2, <1>3, <1>4, <1>5, <1>6, <1>7, <1>8, <1>9, <1>10, <1>11, <1>12, <1>13
       DEF Next, WorkerStep, MainStep

(* When Stop has returned, every record emitted before it was called has   *)
(* left memory, for every queue length and every interleaving of the       *)
(* worker with emissions that go on during the drain (StartWorker, Stop).  *)
THEOREM StopHasDrained == Spec => []StopDrains
  <1>1. Init => DrainInv
    BY DEF Init, DrainInv, Draining, Up, Writing
  <1>2. DrainInv => StopDrains
    BY DEF DrainInv, StopDrains, Up, InMemory, HandRecords, Writing
  <1>. QED
    BY <1>1, <1>2, DrainNext, TypeCorrect, PTL DEF Spec

-----------------------------------------------------------------------------
(* Accounting.  The union and the pairwise intersections of the places,    *)
(* written out.                                                            *)
Partition(All, A, B, C, D, E, F, G) ==
    /\ All = A \cup B \cup C \cup D \cup E \cup F \cup G
    /\ A \cap (B \cup C \cup D \cup E \cup F \cup G) = {}
    /\ B \cap (C \cup D \cup E \cup F \cup G) = {}
    /\ C \cap (D \cup E \cup F \cup G) = {}
    /\ D \cap (E \cup F \cup G) = {}
    /\ E \cap (F \cup G) = {}
    /\ F \cap G = {}

AccountInv ==
    Partition(Emitted, Logged(db.logs), QueuedRecords, HandRecords,
              warned, failed, abandoned, crashed)

(* The written-out form is the property. *)
LEMMA AccountForm == AccountInv => EveryRecordAccounted
  <1>. SUFFICES ASSUME AccountInv PROVE EveryRecordAccounted
    OBVIOUS
  <1>. DEFINE A == Logged(db.logs)
              B == QueuedRecords
              C == HandRecords
  <1>1. Partition(Emitted, A, B, C, warned, failed, abandoned, crashed)
    BY DEF AccountInv
  <1>2. Places = <<A, B, C, warned, failed, abandoned, crashed>>
    BY DEF Places
  <1>. HIDE DEF A, B, C
  <1>3. DOMAIN Places = 1 .. 7
    BY <1>2
  <1>4. /\ Places[1] = A /\ Places[2] = B /\ Places[3] = C /\ Places[4] = warned
        /\ Places[5] = failed /\ Places[6] = abandoned /\ Places[7] = crashed
    BY <1>2
  <1>5. Emitted = UNION {Places[i] : i \in DOMAIN Places}
    BY <1>1, <1>3, <1>4 DEF Partition
  <1>6. \A i, j \in DOMAIN Places : i # j => Places[i] \cap Places[j] = {}
    <2>. SUFFICES ASSUME NEW i \in 1 .. 7, NEW j \in 1 .. 7, i < j
                  PROVE  Places[i] \cap Places[j] = {}
      BY <1>3
    <2>. QED
      BY <1>1, <1>4 DEF Partition
  <1>. QED
    BY <1>5, <1>6 DEF EveryRecordAccounted

(* A step that moves no record. *)
LEMMA AccountSame ==
    ASSUME AccountInv, UNCHANGED <<queue, ticket, warned, failed, abandoned, crashed>>,
           db'.logs = db.logs, HandRecords' = HandRecords
    PROVE  AccountInv'
  <1>1. /\ QueuedRecords' = QueuedRecords /\ Emitted' = Emitted
        /\ Logged(db.logs)' = Logged(db.logs)
    BY DEF QueuedRecords, Emitted, Logged
  <1>. QED
    BY <1>1 DEF AccountInv

(* A record that is emitted is queued or reported as dropped. *)
LEMMA AccountEmit ==
    ASSUME TypeOK, AccountInv, NEW r \in Records, Emit(r)
    PROVE  AccountInv'
  <1>1. /\ ticket[r] = 0 /\ ticket' = [ticket EXCEPT ![r] = emissions + 1]
        /\ UNCHANGED <<db, pc, hand, failed, abandoned, crashed>>
        /\ emissions \in Nat /\ ticket \in [Records -> Nat] /\ queue \in Seq(Item)
    BY DEF Emit, TakeTicket, TypeOK
  <1>2. r \notin Emitted /\ Emitted' = Emitted \cup {r}
    BY <1>1 DEF Emitted
  <1>3. HandRecords' = HandRecords /\ Logged(db.logs)' = Logged(db.logs)
    BY <1>1 DEF HandRecords, Logged
  <1>4. CASE queue' = queue /\ warned' = warned \cup {r}
    <2>1. QueuedRecords' = QueuedRecords
      BY <1>4 DEF QueuedRecords
    <2>. QED
      BY <1>1, <1>2, <1>3, <1>4, <2>1 DEF AccountInv, Partition
  <1>5. CASE queue' = Append(queue, NewItem(r)) /\ warned' = warned
    <2>1. /\ DOMAIN queue' = DOMAIN queue \cup {Len(queue) + 1}
          /\ \A i \in DOMAIN queue : queue'[i] = queue[i]
          /\ queue'[Len(queue) + 1].rec = r
      BY <1>1, <1>5 DEF NewItem
    <2>2. QueuedRecords' = QueuedRecords \cup {r}
      BY <2>1 DEF QueuedRecords
    <2>. QED
      BY <1>1, <1>2, <1>3, <1>5, <2>2 DEF AccountInv, Partition
  <1>. QED
    BY <1>4, <1>5 DEF Emit

(* The head of the queue moves to the worker; because the tickets in the   *)
(* queue increase, it is not queued a second time.                         *)
LEMMA AccountReceive ==
    ASSUME TypeOK, OrderInv, AccountInv, Receive
    PROVE  AccountInv'
  <1>1. /\ queue \in Seq(Item) /\ queue # <<>>
        /\ queue' = Tail(queue) /\ hand' = Head(queue) /\ pc' = "begin" /\ pc \notin Writing
        /\ UNCHANGED <<db, ticket, warned, failed, abandoned, crashed>>
        /\ ticket \in [Records -> Nat]
    BY DEF Receive, TypeOK, Writing
  <1>2. /\ \A i \in DOMAIN queue' : i + 1 \in DOMAIN queue /\ queue'[i] = queue[i + 1] /\ 1 < i + 1
        /\ \A i \in DOMAIN queue : i = 1 \/ (i - 1 \in DOMAIN queue' /\ queue[i] = queue'[i - 1])
        /\ 1 \in DOMAIN queue /\ Head(queue) = queue[1]
    BY <1>1, HeadTailProperties
  <1>3. HandRecords = {} /\ HandRecords' = {queue[1].rec}
    BY <1>1, <1>2 DEF HandRecords, Writing
  <1>4. QueuedRecords = QueuedRecords' \cup {queue[1].rec}
    BY <1>2 DEF QueuedRecords
  <1>5. queue[1].rec \notin QueuedRecords'
    <2>. SUFFICES ASSUME NEW i \in DOMAIN queue', queue'[i].rec = queue[1].rec PROVE FALSE
      BY DEF QueuedRecords
    <2>1. Older(queue[1].rec, queue[i + 1].rec)
      BY <1>2 DEF OrderInv, ChargedInOrder
    <2>2. queue[1].rec \in Records
      BY <1>2, InMemoryType DEF InMemory, QueuedRecords
    <2>. QED
      BY <1>1, <1>2, <2>1, <2>2 DEF Older
  <1>6. Logged(db.logs)' = Logged(db.logs) /\ Emitted' = Emitted
    BY <1>1 DEF Logged, Emitted
  <1>. QED
    BY <1>1, <1>3, <1>4, <1>5, <1>6 DEF AccountInv, Partition

(* The record in hand is logged, or its failure is reported. *)
LEMMA AccountEnd ==
    ASSUME TypeOK, TxInv, AccountInv, TxCommit \/ TxFail
    PROVE  AccountInv'
  <1>1. /\ pc \in Writing /\ pc' \notin Writing
        /\ UNCHANGED <<queue, ticket, warned, abandoned, crashed>>
    BY DEF TxCommit, TxFail, UntouchedByTxFail, TypeOK, Writing
  <1>2. /\ HandRecords = {hand.rec} /\ HandRecords' = {}
        /\ QueuedRecords' = QueuedRecords /\ Emitted' = Emitted
    BY <1>1 DEF HandRecords, QueuedRecords, Emitted
  <1>3. CASE TxFail
    <2>1. Logged(db.logs)' = Logged(db.logs) /\ failed' = failed \cup {hand.rec}
      BY <1>3 DEF TxFail, Logged
    <2>. QED
      BY <1>1, <1>2, <2>1 DEF AccountInv, Partition
  <1>4. CASE TxCommit
    <2>1. db.logs \in Seq(LogRow) /\ db'.logs = Append(db.logs, hand) /\ failed' = failed
      BY <1>4 DEF TxCommit, TypeOK, Database, TxInv, Writing
    <2>2. /\ DOMAIN db'.logs = DOMAIN db.logs \cup {Len(db.logs) + 1}
          /\ \A i \in DOMAIN db.logs : db'.logs[i] = db.logs[i]
          /\ db'.logs[Len(db.logs) + 1] = hand
      BY <2>1
    <2>3. Logged(db.logs)' = Logged(db.logs) \cup {hand.rec}
      BY <2>2 DEF Logged
    <2>. QED
      BY <1>1, <1>2, <2>1, <2>3 DEF AccountInv, Partition
  <1>. QED
    BY <1>3, <1>4

(* What is in memory when the process ends is abandoned or crashed. *)
LEMMA AccountGone ==
    ASSUME AccountInv, Exit \/ Crash
    PROVE  AccountInv'
  <1>1. /\ QueuedRecords' = {} /\ HandRecords' = {}
        /\ UNCHANGED <<db, ticket, warned, failed>>
    BY DEF Exit, Crash, MemoryGone, QueuedRecords, HandRecords, Writing
  <1>2. \/ abandoned' = abandoned \cup QueuedRecords \cup HandRecords /\ crashed' = crashed
        \/ crashed' = crashed \cup QueuedRecords \cup HandRecords /\ abandoned' = abandoned
    BY DEF Exit, Crash, InMemory
  <1>3. Logged(db.logs)' = Logged(db.logs) /\ Emitted' = Emitted
    BY <1>1 DEF Logged, Emitted
  <1>. QED
    BY <1>1, <1>2, <1>3 DEF AccountInv, Partition

(* Every step moves a record from one place to another, or moves none. *)
LEMMA AccountNext == PipelineInv /\ AccountInv /\ [Next]_vars => AccountInv'
  <1>. SUFFICES ASSUME PipelineInv, AccountInv, [Next]_vars PROVE AccountInv'
    OBVIOUS
  <1>. USE DEF PipelineInv
  <1>1. CASE UNCHANGED vars
    BY <1>1, AccountSame DEF vars, HandRecords
  <1>2. ASSUME NEW r \in Records, Emit(r) PROVE AccountInv'
    BY <1>2, AccountEmit
  <1>3. CASE Receive
    BY <1>3, AccountReceive
  <1>4. CASE SeeDone \/ Drained
    BY <1>4, AccountSame DEF SeeDone, Drained, HandRecords, Writing
  <1>5. CASE TxBegin
    <2>1. hand'.rec = hand.rec
      BY <1>5 DEF TxBegin, TypeOK, Item, Writing
    <2>. QED
      BY <1>5, <2>1, AccountSame DEF TxBegin, HandRecords, Writing
  <1>6. CASE TxInsertLog \/ TxUpsertDaily \/ TxUpsertMonthly
    BY <1>6, AccountSame
       DEF TxInsertLog, TxUpsertDaily, TxUpsertMonthly, HandRecords, Writing
  <1>7. CASE TxCommit \/ TxFail
    BY <1>7, AccountEnd
  <1>8. CASE Stop \/ StopReturn \/ NextDay
    BY <1>8, AccountSame DEF Stop, StopReturn, NextDay, HandRecords
  <1>9. CASE Exit \/ Crash
    BY <1>9, AccountGone
  <1>10. CASE Boot
    BY <1>10, AccountSame DEF Boot, HandRecords, Writing, TypeOK
  <1>. QED
    BY <1>1, <1>2, <1>3, <1>4, <1>5, <1>6, <1>7, <1>8, <1>9, <1>10
       DEF Next, WorkerStep, MainStep

(* No record is lost without trace and none is counted twice: each record  *)
(* given to EmitNonBlocking is in exactly one place, in every state of the *)
(* pipeline, its failures, shutdowns, crashes and restarts.                *)
THEOREM RecordsAccounted == Spec => []EveryRecordAccounted
  <1>1. Init => AccountInv
    BY DEF Init, AccountInv, Partition, Emitted, Logged, EmptyDatabase, QueuedRecords,
           HandRecords, Writing
  <1>. QED
    BY <1>1, AccountNext, AccountForm, PipelineInvariant, PTL DEF Spec
-----------------------------------------------------------------------------
(* The counter of dropped records.  A ticket is never later than the last  *)
(* one given out, and the mark that a new process sets is the last one: of *)
(* the records warned about in earlier processes none is counted again.    *)
Uncounted == {r \in warned : ticket[r] > bootMark}

CountInv ==
    /\ bootMark <= emissions
    /\ \A r \in Records : ticket[r] <= emissions
    /\ \A r \in warned : ticket[r] > 0
    /\ IsFiniteSet(Uncounted)
    /\ Up => dropped = Cardinality(Uncounted)

(* An emission that finds the channel full adds its record, and no other,  *)
(* to those that are counted.                                              *)
LEMMA CountEmit ==
    ASSUME TypeOK, CountInv, NEW r \in Records, Emit(r)
    PROVE  CountInv'
  <1>1. /\ ticket' = [ticket EXCEPT ![r] = emissions + 1] /\ emissions' = emissions + 1
        /\ UNCHANGED <<main, bootMark>> /\ Up /\ ticket[r] = 0
        /\ emissions \in Nat /\ bootMark \in Nat /\ ticket \in [Records -> Nat]
        /\ warned \subseteq Records /\ dropped \in Nat
    BY DEF Emit, TakeTicket, TypeOK
  <1>2. \A s \in Records : /\ s # r => ticket'[s] = ticket[s]
                           /\ ticket'[r] = emissions + 1
    BY <1>1
  <1>3. r \notin Uncounted
    BY <1>1 DEF Uncounted
  <1>4. bootMark' <= emissions' /\ \A s \in Records : ticket'[s] <= emissions'
    BY <1>1, <1>2 DEF CountInv
  <1>5. r \notin warned
    BY <1>1 DEF CountInv
  <1>6. CASE warned' = warned /\ dropped' = dropped
    <2>1. Uncounted' = Uncounted
      BY <1>1, <1>2, <1>5, <1>6 DEF Uncounted
    <2>. QED
      BY <1>1, <1>2, <1>4, <1>5, <1>6, <2>1 DEF CountInv, Up
  <1>7. CASE warned' = warned \cup {r} /\ dropped' = dropped + 1
    <2>1. Uncounted' = Uncounted \cup {r}
      BY <1>1, <1>2, <1>4, <1>7 DEF Uncounted, CountInv
    <2>2. /\ IsFiniteSet(Uncounted \cup {r})
          /\ Cardinality(Uncounted \cup {r}) = Cardinality(Uncounted) + 1
      BY <1>3, FS_AddElement DEF CountInv
    <2>. QED
      BY <1>1, <1>2, <1>4, <1>7, <2>1, <2>2 DEF CountInv, Up
  <1>. QED
    BY <1>6, <1>7 DEF Emit

(* A step that emits nothing and begins no new process. *)
LEMMA CountSame ==
    ASSUME CountInv, UNCHANGED <<ticket, emissions, bootMark, warned, dropped>>, Up' => Up
    PROVE  CountInv'
  BY DEF CountInv, Uncounted

(* Every step keeps the count. *)
LEMMA CountNext == TypeOK /\ CountInv /\ [Next]_vars => CountInv'
  <1>. SUFFICES ASSUME TypeOK, CountInv, [Next]_vars PROVE CountInv'
    OBVIOUS
  <1>1. CASE UNCHANGED vars
    BY <1>1, CountSame DEF vars, Up
  <1>2. ASSUME NEW r \in Records, Emit(r) PROVE CountInv'
    BY <1>2, CountEmit
  <1>3. CASE WorkerStep
    BY <1>3, CountSame DEF WorkerStep, Receive, SeeDone, Drained, TxBegin, TxInsertLog,
           TxUpsertDaily, TxUpsertMonthly, TxCommit, TxFail, UntouchedByTxFail, Up
  <1>4. CASE Stop \/ StopReturn \/ Exit \/ Crash
    BY <1>4, CountSame DEF Stop, StopReturn, Exit, Crash, MemoryGone, Up
  <1>5. CASE Boot
    <2>1. /\ bootMark' = emissions /\ dropped' = 0
          /\ UNCHANGED <<ticket, emissions, warned>>
          /\ emissions \in Nat /\ ticket \in [Records -> Nat] /\ warned \subseteq Records
      BY <1>5 DEF Boot, TypeOK
    <2>2. Uncounted' = {}
      BY <2>1 DEF Uncounted, CountInv
    <2>. QED
      BY <2>1, <2>2, FS_EmptySet DEF CountInv
  <1>6. CASE NextDay
    BY <1>6, CountSame DEF NextDay, Up
  <1>. QED
    BY <1>1, <1>2, <1>3, <1>4, <1>5, <1>6 DEF Next, MainStep

(* DroppedCount is the number of records that found the channel full since *)
(* the process started, for every capacity and every number of emissions,  *)
(* crashes and restarts (EmitNonBlocking, NewUsageBackend).                *)
THEOREM CountIsExact == Spec => []DroppedCountExact
  <1>1. Init => CountInv
    <2>. SUFFICES ASSUME Init PROVE CountInv
      OBVIOUS
    <2>1. Uncounted = {} /\ dropped = 0
      BY DEF Init, Uncounted
    <2>. QED
      BY <2>1, FS_EmptySet DEF Init, CountInv
  <1>2. CountInv => DroppedCountExact
    BY DEF CountInv, DroppedCountExact, Uncounted
  <1>. QED
    BY <1>1, <1>2, CountNext, TypeCorrect, PTL DEF Spec
=============================================================================
