---------------------------- MODULE UsageBackend ----------------------------
(***************************************************************************)
(* The asynchronous usage pipeline (internal/usage/worker.go): proxy       *)
(* goroutines emit records into a bounded channel without ever blocking,   *)
(* one worker goroutine writes each record to three tables in a            *)
(* transaction, and Stop closes the done channel and waits for the worker  *)
(* to drain.  Around it, what cmd/server/main.go does with it: a signal    *)
(* calls Stop and then exits, a crash (or fatalf, which skips the deferred *)
(* Stop) kills every goroutine, a restart opens the same database.         *)
(***************************************************************************)
EXTENDS UsageSchema

CONSTANTS
    QueueSize,  \* defaultQueueSize, 1024 in the code
    MaxBoots,   \* bound: how often the process is restarted
    StartDay,   \* the day on which the server is first started
    Unstamped,  \* records whose CreatedAt is the zero time
    None        \* no record in hand; the day of a zero CreatedAt

ASSUME QueueAssumption == QueueSize \in Nat \ {0}
ASSUME BootAssumption  == MaxBoots \in Nat
ASSUME StampAssumption == Unstamped \subseteq Records /\ None \notin Days
ASSUME DayAssumption   == Days \subseteq Nat /\ StartDay \in Days

VARIABLES
    queue,      \* b.queue, the buffered channel
    dropped,    \* b.dropped
    done,       \* whether b.done is closed
    pc,         \* where the worker goroutine is
    loop,       \* the select the worker returns to after a record
    hand,       \* the record the worker is writing
    tx,         \* the database as seen inside the open transaction
    db,         \* the committed database, the only state on disk
    main,       \* where the main goroutine is
    today,      \* the date time.Now() formats to
    boots,      \* restarts so far
    ticket,     \* history: the place of each record in the order of emission
    emissions,  \* history: tickets given out
    bootMark,   \* history: emissions when this process started
    stopMark,   \* history: emissions when Stop was called
    warned,     \* history: records that found the queue full
    failed,     \* history: records reported by "failed to persist"
    abandoned,  \* history: records still in memory at a graceful exit
    crashed     \* history: records still in memory at a crash

worker  == <<pc, loop, hand, tx>>
process == <<main, boots>>
history == <<ticket, emissions, bootMark, stopMark, warned, failed, abandoned, crashed>>
vars    == <<queue, dropped, done, worker, db, process, today, history>>

Item == [rec: Records, day: Days \cup {None}]

(* Program points of executeTripleWrite: the statement to execute next.    *)
Writing == {"begin", "log", "daily", "monthly", "commit"}

WorkerPoints == {"select", "drain", "exited"} \cup Writing

MainPoints == {"serving", "waiting", "returned", "down"}

Up == main # "down"

QueuedRecords == {queue[i].rec : i \in DOMAIN queue}
HandRecords   == IF pc \in Writing THEN {hand.rec} ELSE {}
InMemory      == QueuedRecords \cup HandRecords

Init ==
    /\ queue = <<>>
    /\ dropped = 0
    /\ done = FALSE
    /\ db = EmptyDatabase
    /\ pc = "select"
    /\ loop = "select"
    /\ hand = None
    /\ tx = EmptyDatabase
    /\ main = "serving"
    /\ today = StartDay
    /\ boots = 0
    /\ ticket = [r \in Records |-> 0]
    /\ emissions = 0
    /\ bootMark = 0
    /\ stopMark = 0
    /\ warned = {}
    /\ failed = {}
    /\ abandoned = {}
    /\ crashed = {}

-----------------------------------------------------------------------------
(* The record as the proxy builds it: CreatedAt is the current date unless *)
(* the caller leaves it zero.                                              *)
NewItem(r) == [rec |-> r, day |-> IF r \in Unstamped THEN None ELSE today]

(* A caller reaches EmitNonBlocking with record r. *)
TakeTicket(r) ==
    /\ Up
    /\ ticket[r] = 0
    /\ ticket' = [ticket EXCEPT ![r] = emissions + 1]
    /\ emissions' = emissions + 1
    /\ UNCHANGED <<done, worker, db, process, today,
                   bootMark, stopMark, failed, abandoned, crashed>>

(* Mutants: the channel has no bound; a dropped record is not counted.     *)
EmitUnbounded(r) ==
    /\ TakeTicket(r)
    /\ queue' = Append(queue, NewItem(r))
    /\ UNCHANGED <<dropped, warned>>

EmitUncounted(r) ==
    /\ TakeTicket(r)
    /\ \/ /\ Len(queue) < QueueSize
          /\ queue' = Append(queue, NewItem(r))
          /\ UNCHANGED warned
       \/ /\ Len(queue) >= QueueSize
          /\ warned' = warned \cup {r}
          /\ UNCHANGED queue
    /\ UNCHANGED dropped

(* EmitNonBlocking: the channel takes the record if it has room; if not,   *)
(* the record is counted, reported and forgotten.                          *)
Emit(r) ==
    /\ TakeTicket(r)
    /\ \/ /\ Len(queue) < QueueSize
          /\ queue' = Append(queue, NewItem(r))
          /\ UNCHANGED <<dropped, warned>>
       \/ /\ Len(queue) >= QueueSize
          /\ dropped' = dropped + 1
          /\ warned' = warned \cup {r}
          /\ UNCHANGED queue

(* Both selects of the worker: take the oldest record and write it.  In    *)
(* the outer one a closed done channel does not take precedence.           *)
Receive ==
    /\ Up
    /\ pc \in {"select", "drain"}
    /\ queue # <<>>
    /\ hand' = Head(queue)
    /\ queue' = Tail(queue)
    /\ loop' = pc
    /\ pc' = "begin"
    /\ UNCHANGED <<dropped, done, tx, db, process, today, history>>

(* Mutant: the worker returns as soon as it sees the closed channel. *)
SeeDoneAndReturn ==
    /\ Up
    /\ pc = "select"
    /\ done
    /\ pc' = "exited"
    /\ UNCHANGED <<queue, dropped, done, loop, hand, tx, db, process, today, history>>

(* case <-b.done of the outer select: enter the draining loop. *)
SeeDone ==
    /\ Up
    /\ pc = "select"
    /\ done
    /\ pc' = "drain"
    /\ UNCHANGED <<queue, dropped, done, loop, hand, tx, db, process, today, history>>

(* default of the draining select: the buffer is empty, the worker ends.   *)
Drained ==
    /\ Up
    /\ pc = "drain"
    /\ queue = <<>>
    /\ pc' = "exited"
    /\ UNCHANGED <<queue, dropped, done, loop, hand, tx, db, process, today, history>>

(* executeTripleWrite, one action per statement.  The date of the record   *)
(* is fixed when the transaction has begun.                                *)
TxBegin ==
    /\ Up
    /\ pc = "begin"
    /\ tx' = db
    /\ hand' = [hand EXCEPT !.day = IF @ = None THEN today ELSE @]
    /\ pc' = "log"
    /\ UNCHANGED <<queue, dropped, done, loop, db, process, today, history>>

TxInsertLog ==
    /\ Up
    /\ pc = "log"
    /\ tx' = [tx EXCEPT !.logs = Append(@, hand)]
    /\ pc' = "daily"
    /\ UNCHANGED <<queue, dropped, done, loop, hand, db, process, today, history>>

TxUpsertDaily ==
    /\ Up
    /\ pc = "daily"
    /\ tx' = [tx EXCEPT !.daily = Upsert(@, DailyCell(hand.rec, hand.day), hand.rec)]
    /\ pc' = "monthly"
    /\ UNCHANGED <<queue, dropped, done, loop, hand, db, process, today, history>>

(* Mutant: the month is taken from the clock and not from the record. *)
TxUpsertThisMonth ==
    /\ Up
    /\ pc = "monthly"
    /\ tx' = [tx EXCEPT !.monthly = Upsert(@, MonthlyCell(hand.rec, today), hand.rec)]
    /\ pc' = "commit"
    /\ UNCHANGED <<queue, dropped, done, loop, hand, db, process, today, history>>

TxUpsertMonthly ==
    /\ Up
    /\ pc = "monthly"
    /\ tx' = [tx EXCEPT !.monthly = Upsert(@, MonthlyCell(hand.rec, hand.day), hand.rec)]
    /\ pc' = "commit"
    /\ UNCHANGED <<queue, dropped, done, loop, hand, db, process, today, history>>

TxCommit ==
    /\ Up
    /\ pc = "commit"
    /\ db' = tx
    /\ pc' = loop
    /\ hand' = None
    /\ UNCHANGED <<queue, dropped, done, loop, tx, process, today, history>>

UntouchedByTxFail == UNCHANGED <<dropped, done, loop, process, today, ticket, emissions,
                            bootMark, stopMark, warned, abandoned, crashed>>

(* Mutants: what was written stays; the error is swallowed; the record is  *)
(* queued again; the worker tries again until it succeeds.                 *)
TxFailNoRollback ==
    /\ Up /\ pc \in Writing
    /\ failed' = failed \cup {hand.rec}
    /\ db' = tx
    /\ pc' = loop /\ hand' = None
    /\ UNCHANGED <<queue, tx>> /\ UntouchedByTxFail

TxFailSilently ==
    /\ Up /\ pc \in Writing
    /\ tx' = db
    /\ pc' = loop /\ hand' = None
    /\ UNCHANGED <<queue, db, failed>> /\ UntouchedByTxFail

TxFailRequeue ==
    /\ Up /\ pc \in Writing
    /\ queue' = Append(queue, hand)
    /\ tx' = db
    /\ pc' = loop /\ hand' = None
    /\ UNCHANGED <<db, failed>> /\ UntouchedByTxFail

TxFailRetry ==
    /\ Up /\ pc \in Writing
    /\ tx' = db
    /\ pc' = "begin"
    /\ UNCHANGED <<queue, hand, db, failed>> /\ UntouchedByTxFail

(* Any statement of the transaction fails: the deferred Rollback discards  *)
(* it, writeRecord logs the error, and the record is never retried.        *)
TxFail ==
    /\ Up
    /\ pc \in Writing
    /\ failed' = failed \cup {hand.rec}
    /\ tx' = db
    /\ pc' = loop /\ hand' = None
    /\ UNCHANGED <<queue, db>> /\ UntouchedByTxFail

(* Mutant: Stop waits without closing done. *)
StopUnsignalled ==
    /\ main = "serving"
    /\ main' = "waiting"
    /\ stopMark' = emissions
    /\ UNCHANGED <<queue, dropped, done, worker, db, boots, today,
                   ticket, emissions, bootMark, warned, failed, abandoned, crashed>>

(* main has received a signal and its deferred Stop closes done ... *)
Stop ==
    /\ main = "serving"
    /\ done' = TRUE
    /\ main' = "waiting"
    /\ stopMark' = emissions
    /\ UNCHANGED <<queue, dropped, worker, db, boots, today,
                   ticket, emissions, bootMark, warned, failed, abandoned, crashed>>

(* ... and waits for the worker.  The proxy is still serving meanwhile.    *)
StopReturn ==
    /\ main = "waiting"
    /\ pc = "exited"
    /\ main' = "returned"
    /\ UNCHANGED <<queue, dropped, done, worker, db, boots, today, history>>

(* Everything the process held in memory vanishes; an open transaction     *)
(* leaves nothing behind in the database.                                  *)
MemoryGone ==
    /\ main' = "down"
    /\ queue' = <<>>
    /\ hand' = None
    /\ pc' = "exited"
    /\ tx' = db

(* main returns: the database is closed and the process is gone, with      *)
(* whatever was emitted since the worker ended.                            *)
Exit ==
    /\ main = "returned"
    /\ MemoryGone
    /\ abandoned' = abandoned \cup InMemory
    /\ UNCHANGED <<dropped, done, loop, db, boots, today,
                   ticket, emissions, bootMark, stopMark, warned, failed, crashed>>

(* The process is killed, or fatalf calls os.Exit: no deferred call runs.  *)
Crash ==
    /\ Up
    /\ MemoryGone
    /\ crashed' = crashed \cup InMemory
    /\ UNCHANGED <<dropped, done, loop, db, boots, today,
                   ticket, emissions, bootMark, stopMark, warned, failed, abandoned>>

(* A restart: initDatabase opens the same file, whose tables exist; the    *)
(* backend and its worker are new.                                         *)
Boot ==
    /\ main = "down"
    /\ boots < MaxBoots
    /\ boots' = boots + 1
    /\ main' = "serving"
    /\ dropped' = 0
    /\ done' = FALSE
    /\ pc' = "select"
    /\ bootMark' = emissions
    /\ UNCHANGED <<queue, loop, hand, tx, db, today,
                   ticket, emissions, stopMark, warned, failed, abandoned, crashed>>

NextDay ==
    /\ today + 1 \in Days
    /\ today' = today + 1
    /\ UNCHANGED <<queue, dropped, done, worker, db, process, history>>

WorkerStep ==
    \/ Receive \/ SeeDone \/ Drained
    \/ TxBegin \/ TxInsertLog \/ TxUpsertDaily \/ TxUpsertMonthly \/ TxCommit
    \/ TxFail

MainStep == Stop \/ StopReturn \/ Exit \/ Crash \/ Boot

Next == (\E r \in Records : Emit(r)) \/ WorkerStep \/ MainStep \/ NextDay

(* The Go scheduler runs a runnable goroutine eventually: the worker, and  *)
(* main once it is shutting down.  Nothing makes requests, signals,        *)
(* crashes, restarts or midnights come.                                    *)
Fairness == WF_vars(WorkerStep) /\ WF_vars(StopReturn) /\ WF_vars(Exit)

Spec     == Init /\ [][Next]_vars
FairSpec == Spec /\ Fairness

-----------------------------------------------------------------------------
(* Types, and the capacity of the channel. *)
TypeOK ==
    /\ queue \in Seq(Item) /\ Len(queue) <= QueueSize
    /\ dropped \in Nat
    /\ done \in BOOLEAN
    /\ pc \in WorkerPoints
    /\ loop \in {"select", "drain"}
    /\ IF pc \in Writing THEN hand \in Item ELSE hand = None
    /\ pc \in Writing \ {"begin"} => hand \in LogRow
    /\ tx \in Database
    /\ db \in Database
    /\ main \in MainPoints /\ (main = "down" => pc = "exited")
    /\ today \in Days
    /\ boots \in 0 .. MaxBoots
    /\ ticket \in [Records -> Nat]
    /\ emissions \in Nat /\ bootMark \in Nat /\ stopMark \in Nat
    /\ warned \subseteq Records /\ failed \subseteq Records
    /\ abandoned \subseteq Records /\ crashed \subseteq Records

Ledger == INSTANCE UsageLedger WITH
    logs <- db.logs, daily <- db.daily, monthly <- db.monthly

(* The pipeline implements the ledger: through queue, transaction, errors, *)
(* crashes and restarts, the committed tables change only by posting one   *)
(* new record to all three of them at once, each record at most once       *)
(* (executeTripleWrite).                                                   *)
ImplementsLedger == Ledger!Spec

(* At every instant, in every crash included, the committed caches are the *)
(* totals of the committed audit log (executeTripleWrite).                 *)
CachesMatchLog == CachesMatch(db.logs, db.daily, db.monthly)

Emitted == {r \in Records : ticket[r] > 0}

(* The places a record can be in once it was given to EmitNonBlocking: a   *)
(* row of the audit log, in memory, or in one of the ways to be lost.      *)
Places == <<Logged(db.logs), QueuedRecords, HandRecords,
            warned, failed, abandoned, crashed>>

(* No record is lost without trace and none is counted twice: each emitted *)
(* record is in exactly one place, whatever order EmitNonBlocking, the     *)
(* worker, failures, Stop, crashes and restarts come in.                   *)
EveryRecordAccounted ==
    /\ Emitted = UNION {Places[i] : i \in DOMAIN Places}
    /\ \A i, j \in DOMAIN Places : i # j => Places[i] \cap Places[j] = {}

(* Records reach the audit log in the order in which they were emitted,    *)
(* and everything in the log is older than what is still on its way: the   *)
(* channel, the single worker and the drain after Stop never reorder or    *)
(* duplicate (StartWorker).                                                *)
Older(r, s) == ticket[r] < ticket[s]

ChargedInOrder ==
    /\ \A i, j \in DOMAIN db.logs : i < j => Older(db.logs[i].rec, db.logs[j].rec)
    /\ \A i, j \in DOMAIN queue : i < j => Older(queue[i].rec, queue[j].rec)
    /\ \A r \in Logged(db.logs) : \A s \in InMemory : Older(r, s)
    /\ \A r \in HandRecords : \A s \in QueuedRecords : Older(r, s)

(* DroppedCount is exact: it is the number of records that found the queue *)
(* full since this process started, however emissions, the worker, crashes *)
(* and restarts interleave.                                                *)
DroppedCountExact ==
    Up => dropped = Cardinality({r \in warned : ticket[r] > bootMark})

(* When Stop has returned, no record emitted before Stop was called is in  *)
(* memory any more: each was written or its failure reported.              *)
StopDrains ==
    main = "returned" => \A r \in InMemory : ticket[r] > stopMark

(* The comment on UsageBackend: Stop drains "so a graceful shutdown (e.g.  *)
(* SIGTERM) does not silently lose usage data".  The proxy is not stopped, *)
(* and a record emitted once the worker has ended is neither written nor   *)
(* reported.                                                               *)
GracefulShutdownLosesNothing == abandoned = {}

(* A record in the channel or in the worker's hands is written or its      *)
(* failure is reported, unless the process ends first.                     *)
AcceptedSettles ==
    \A r \in Records : r \in InMemory ~> (r \in Logged(db.logs) \cup failed \/ ~Up)

(* Stop does not wait for ever: the worker sees the closed done channel    *)
(* and finds the buffer empty once the emissions pause.                    *)
StopReturns == main = "waiting" ~> main # "waiting"
=============================================================================
