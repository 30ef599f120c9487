------------------------------ MODULE Gateway ------------------------------
(***************************************************************************)
(* The data plane (internal/proxy/proxy.go, internal/usage/store.go) with  *)
(* the parts it shares state with: the key store it authenticates against, *)
(* the usage database it reads quotas from, and the pipeline that brings   *)
(* its records there.  A request is handled by a goroutine of its own that *)
(* looks up the key, reads the request body, reads the daily and then the  *)
(* monthly usage, forwards the request upstream and emits a usage record.  *)
(*                                                                         *)
(* The pipeline is taken at the level of UsageLedger, which UsageBackend   *)
(* implements: an emitted record is posted later, in one step, or lost.    *)
(* Record r stands for a request as well: Usage[r].key is the internal key *)
(* it presents, Usage[r].route the route it is sent to, and the amounts    *)
(* are what the response parsers extract from its answer.                  *)
(***************************************************************************)
EXTENDS UsageSchema

CONSTANTS
    UUIDs, RealKeys, Hashes, Hash,  \* the key store
    StartDay,    \* the day on which the gateway is first started
    Quota,       \* route -> [mode, daily, monthly], limits 0 if there is none
    Estimate,    \* request -> estimateInputTokens of its body
    Streaming,   \* the requests whose body says "stream": true
    None         \* a value that is not there

Windows == {"daily", "monthly"}

ASSUME QuotaAssumption ==
    Quota \in [Routes -> [mode: {"per_key", "shared"}, daily: Nat, monthly: Nat]]
ASSUME RequestAssumption == Estimate \in [Records -> Nat] /\ Streaming \subseteq Records
ASSUME PeriodAssumption == Days \subseteq Nat /\ StartDay \in Days
                           /\ Days \cap Months = {}

(* A month that is over does not come back. *)
ASSUME MonthsAssumption ==
    \A d, e, f \in Days : d <= e /\ e <= f /\ MonthOf[d] = MonthOf[f] => MonthOf[e] = MonthOf[f]

(* As in KeyStore: no two internal keys collide under SHA-256. *)
ASSUME DigestAssumption ==
    /\ Hash \in [Keys -> Hashes]
    /\ \A k, l \in Keys : Hash[k] = Hash[l] => k = l

VARIABLES
    keys, byHash, issued,   \* the key store
    logs, daily, monthly,   \* the committed usage database
    pipe,        \* rows emitted and not yet posted or lost
    today,       \* the date time.Now() formats to
    stage,       \* where the goroutine of each request is
    now,         \* the date QuotaCheck took for each request
    real,        \* the upstream credential each request was given
    outcome,     \* how each request was answered
    unchecked,   \* history: per window, requests let through by fail-open
    overlap      \* history: per scope and period, the requests in flight
                 \* at the last check that passed (or when the period began)

Store  == INSTANCE KeyStore WITH InternalKeys <- Keys
Ledger == INSTANCE UsageLedger

store    == <<keys, byHash, issued>>
ledger   == <<logs, daily, monthly>>
requests == <<stage, now, real, outcome>>
history  == <<unchecked, overlap>>
vars     == <<store, ledger, pipe, today, requests, history>>

Stages == {"idle", "body", "daily", "monthly", "upstream", "stream", "parse", "over"}

(* Denied is 429 and ok is 200; every other end (401, 502, the upstream's  *)
(* own error, a body cut short, a process that stops) is unserved.         *)
Outcomes == {"none", "denied", "ok", "unserved"}

(* A request with a goroutine, or a record on its way to the database. *)
InFlight == {r \in Records : stage[r] \notin {"idle", "over"}} \cup {row.rec : row \in pipe}

Periods == Days \cup Months

Period(w, d) == IF w = "daily" THEN d ELSE MonthOf[d]

Init ==
    /\ Store!Init
    /\ Ledger!Init
    /\ pipe = {}
    /\ today = StartDay
    /\ stage = [r \in Records |-> "idle"]
    /\ now = [r \in Records |-> None]
    /\ real = [r \in Records |-> None]
    /\ outcome = [r \in Records |-> "none"]
    /\ unchecked = [w \in Windows |-> {}]
    /\ overlap = [s \in Keys \X Routes \X Periods |-> {}]

-----------------------------------------------------------------------------
(* queryTokens: one row in mode per_key, the sum over all keys of the      *)
(* route in mode shared.                                                   *)
ScopeKeys(r) == IF Quota[Usage[r].route].mode = "shared" THEN Keys ELSE {Usage[r].key}

(* Mutant: mode shared looks at the row of the caller's key only. *)
QueryTokensOfCaller(r, w, d) ==
    IF w = "daily" THEN daily[<<Usage[r].key, Usage[r].route, d>>]["tokens"]
                   ELSE monthly[<<Usage[r].key, Usage[r].route, MonthOf[d]>>]["tokens"]

QueryTokens(r, w, d) ==
    SumOf([k \in ScopeKeys(r) |->
        IF w = "daily" THEN daily[<<k, Usage[r].route, d>>]["tokens"]
                       ELSE monthly[<<k, Usage[r].route, MonthOf[d]>>]["tokens"]])

Limit(r, w) == Quota[Usage[r].route][w]

(* Mutants: deny at the limit; forget what was used. *)
ExceedsAtLimit(r, w, d)    == QueryTokens(r, w, d) + Estimate[r] >= Limit(r, w)
ExceedsByEstimate(r, w, d) == Estimate[r] > Limit(r, w)

(* The comparison of QuotaCheck that ends in 429. *)
Exceeds(r, w, d) == QueryTokens(r, w, d) + Estimate[r] > Limit(r, w)

(* AbortWithStatusJSON, the error handler, or the end of the handler. *)
Answer(r, how) ==
    /\ stage' = [stage EXCEPT ![r] = "over"]
    /\ outcome' = [outcome EXCEPT ![r] = how]

Advance(r, to) == stage' = [stage EXCEPT ![r] = to] /\ UNCHANGED outcome

(* Mutant: any known key opens any route. *)
AcceptedOnAnyRoute(r) == Store!Found(Usage[r].key)

(* authInterceptor up to the quota: the key must be known and registered   *)
(* for this very route; a missing or malformed header counts as unknown.   *)
Accepted(r) ==
    /\ Store!Found(Usage[r].key)
    /\ Store!GetKeyByInternal(Usage[r].key).route = Usage[r].route

(* Mutant: the internal key is passed on in place of the real one. *)
AuthenticateInternal(r) ==
    /\ stage[r] = "idle"
    /\ Accepted(r)
    /\ real' = [real EXCEPT ![r] = Store!GetKeyByInternal(Usage[r].key).internal]
    /\ Advance(r, "body")
    /\ UNCHANGED <<store, ledger, pipe, today, now, history>>

Authenticate(r) ==
    /\ stage[r] = "idle"
    /\ \/ /\ Accepted(r)
          /\ real' = [real EXCEPT ![r] = Store!GetKeyByInternal(Usage[r].key).real]
          /\ Advance(r, "body")
       \/ /\ ~Accepted(r)
          /\ Answer(r, "unserved")
          /\ UNCHANGED real
    /\ UNCHANGED <<store, ledger, pipe, today, now, history>>

(* The body has been read; QuotaCheck starts and looks at the clock.       *)
StartQuotaCheck(r) ==
    /\ stage[r] = "body"
    /\ \/ /\ \A w \in Windows : Limit(r, w) = 0
          /\ Advance(r, "upstream")
          /\ UNCHANGED now
       \/ /\ \E w \in Windows : Limit(r, w) > 0
          /\ Advance(r, "daily")
          /\ now' = [now EXCEPT ![r] = today]
    /\ UNCHANGED <<store, ledger, pipe, today, real, history>>

(* From here to the answer the goroutine waits for the upstream, to which  *)
(* handleReverseProxy sends the request with the credential taken at       *)
(* authentication, even if its key has been deleted since.                 *)

(* One window of QuotaCheck: skip it if it has no limit, let the request   *)
(* through if the query fails, deny it, or go on.  A failed daily query    *)
(* skips the monthly check too.                                            *)
CheckWindow(r, w, skipped, next) ==
    /\ stage[r] = w
    /\ \/ /\ Limit(r, w) = 0
          /\ Advance(r, next)
          /\ UNCHANGED <<unchecked, overlap>>
       \/ /\ Limit(r, w) > 0
          /\ Advance(r, "upstream")
          /\ unchecked' = [v \in Windows |->
                              IF v \in skipped THEN unchecked[v] \cup {r} ELSE unchecked[v]]
          /\ UNCHANGED overlap
       \/ /\ Limit(r, w) > 0
          /\ Exceeds(r, w, now[r])
          /\ Answer(r, "denied")
          /\ UNCHANGED <<unchecked, overlap>>
       \/ /\ Limit(r, w) > 0
          /\ ~Exceeds(r, w, now[r])
          /\ Advance(r, next)
          /\ overlap' = [s \in DOMAIN overlap |->
                IF s \in ScopeKeys(r) \X {Usage[r].route} \X {Period(w, now[r])}
                THEN InFlight ELSE overlap[s]]
          /\ UNCHANGED unchecked
    /\ UNCHANGED <<store, ledger, pipe, today, now, real>>

CheckDaily(r)   == CheckWindow(r, "daily", Windows, "monthly")
CheckMonthly(r) == CheckWindow(r, "monthly", {"monthly"}, "upstream")

(* EmitNonBlocking with CreatedAt = time.Now(); a full queue loses the row.*)
Emit(r) ==
    \/ pipe' = pipe \cup {[rec |-> r, day |-> today]}
    \/ UNCHANGED pipe

(* The upstream cannot be reached or the client has gone: ErrorHandler     *)
(* answers 502.                                                            *)
UpstreamFails(r) ==
    /\ stage[r] = "upstream"
    /\ Answer(r, "unserved")
    /\ UNCHANGED <<store, ledger, pipe, today, now, real, history>>

(* ModifyResponse with a status other than 200: passed on, not charged.    *)
UpstreamRefuses(r) ==
    /\ stage[r] = "upstream"
    /\ Answer(r, "unserved")
    /\ UNCHANGED <<store, ledger, pipe, today, now, real, history>>

(* ModifyResponse, scenario A: the whole body is read, then the record is  *)
(* emitted, then the answer is passed on.                                  *)
AnswerOneShot(r) ==
    /\ stage[r] = "upstream"
    /\ r \notin Streaming
    /\ Emit(r)
    /\ Answer(r, "ok")
    /\ UNCHANGED <<store, ledger, today, now, real, history>>

(* Scenario A when reading the body fails: the broken answer is passed on  *)
(* and nothing is emitted.                                                 *)
AnswerTruncated(r) ==
    /\ stage[r] = "upstream"
    /\ r \notin Streaming
    /\ Answer(r, "unserved")
    /\ UNCHANGED <<store, ledger, pipe, today, now, real, history>>

(* ModifyResponse, scenario B: the body is teed into the parser goroutine. *)
StartStream(r) ==
    /\ stage[r] = "upstream"
    /\ r \in Streaming
    /\ stage' = [stage EXCEPT ![r] = "stream"]
    /\ outcome' = [outcome EXCEPT ![r] = "ok"]
    /\ UNCHANGED <<store, ledger, pipe, today, now, real, history>>

(* The stream ends, or either side hangs up: closing the body closes the   *)
(* pipe and the parser reads EOF.  The client has its answer already.      *)
EndStream(r) ==
    /\ stage[r] = "stream"
    /\ Advance(r, "parse")
    /\ UNCHANGED <<store, ledger, pipe, today, now, real, history>>

(* The parser goroutine emits its record. *)
EmitStreamed(r) ==
    /\ stage[r] = "parse"
    /\ Emit(r)
    /\ Advance(r, "over")
    /\ UNCHANGED <<store, ledger, today, now, real, history>>

HandlerStep(r) ==
    \/ Authenticate(r) \/ StartQuotaCheck(r) \/ CheckDaily(r) \/ CheckMonthly(r)
    \/ UpstreamFails(r) \/ UpstreamRefuses(r)
    \/ AnswerOneShot(r) \/ AnswerTruncated(r)
    \/ StartStream(r) \/ EndStream(r) \/ EmitStreamed(r)

-----------------------------------------------------------------------------
(* Mutant: only rows of the current day are written. *)
PersistToday(row) ==
    /\ row \in pipe
    /\ row.day = today
    /\ pipe' = pipe \ {row}
    /\ Ledger!Post(row.rec, row.day) \/ UNCHANGED ledger
    /\ UNCHANGED <<store, today, requests, history>>

(* The pipeline: UsageBackend posts a row, or its write fails.             *)
Persist(row) ==
    /\ row \in pipe
    /\ pipe' = pipe \ {row}
    /\ Ledger!Post(row.rec, row.day) \/ UNCHANGED ledger
    /\ UNCHANGED <<store, today, requests, history>>

(* The control plane: AddKey for a configured route, and DeleteKey. *)
AdminAddKey(route, rk, id, ik) ==
    /\ Store!AddKey(route, rk, id, ik)
    /\ UNCHANGED <<ledger, pipe, today, requests, history>>

AdminDeleteKey(uid) ==
    /\ Store!DeleteKey(uid)
    /\ UNCHANGED <<ledger, pipe, today, requests, history>>

(* The process ends and is started again: the key store and everything in  *)
(* flight is gone, the database stays.                                     *)
Restart ==
    /\ keys' = Store!EmptyMap
    /\ byHash' = Store!EmptyMap
    /\ pipe' = {}
    /\ stage' = [r \in Records |-> IF stage[r] = "idle" THEN "idle" ELSE "over"]
    /\ outcome' = [r \in Records |->
          IF stage[r] \notin {"idle", "over"} /\ outcome[r] = "none" THEN "unserved" ELSE outcome[r]]
    /\ UNCHANGED <<issued, ledger, today, now, real, history>>

(* Midnight.  In the periods that start now no check has passed yet; what  *)
(* is in flight was checked against an earlier one.                        *)
NextDay ==
    /\ today + 1 \in Days
    /\ today' = today + 1
    /\ overlap' = [s \in DOMAIN overlap |->
          IF \E w \in Windows : s[3] = Period(w, today + 1) /\ s[3] # Period(w, today)
          THEN InFlight ELSE overlap[s]]
    /\ UNCHANGED <<store, ledger, pipe, requests, unchecked>>

Next ==
    \/ \E r \in Records : HandlerStep(r)
    \/ \E row \in pipe : Persist(row)
    \/ \E route \in Routes, rk \in RealKeys, id \in UUIDs, ik \in Keys :
          AdminAddKey(route, rk, id, ik)
    \/ \E uid \in UUIDs : AdminDeleteKey(uid)
    \/ Restart
    \/ NextDay

(* The parser goroutine and the worker run when they can.  Clients, the    *)
(* upstream, the administrator and the clock promise nothing.              *)
Fairness ==
    /\ \A r \in Records : WF_vars(EmitStreamed(r))
    /\ \A r \in Records : \A d \in Days : WF_vars(Persist([rec |-> r, day |-> d]))

Spec     == Init /\ [][Next]_vars
FairSpec == Spec /\ Fairness

-----------------------------------------------------------------------------
TypeOK ==
    /\ Store!TypeOK
    /\ pipe \subseteq LogRow
    /\ today \in Days
    /\ stage \in [Records -> Stages]
    /\ now \in [Records -> Days \cup {None}]
    /\ real \in [Records -> RealKeys \cup {None}]
    /\ outcome \in [Records -> Outcomes]

(* Nobody is charged without having been served: a record exists only for  *)
(* a request that was answered 200, and it was served with exactly the     *)
(* upstream credential its internal key was issued for on that route, even *)
(* if the key was deleted, or the store emptied by a restart, meanwhile    *)
(* (authInterceptor, ModifyResponse).                                      *)
ChargedWasServed ==
    \A r \in Logged(logs) \cup {row.rec : row \in pipe} :
        /\ outcome[r] = "ok"
        /\ \E x \in issued :
              x.internal = Usage[r].key /\ x.route = Usage[r].route /\ x.real = real[r]

(* The tokens of the audit log that count against the limit of request r   *)
(* in a period, apart from the records in X.                               *)
ScopeTokens(r, w, p, X) ==
    SumOf([i \in {i \in DOMAIN logs :
                     /\ Usage[logs[i].rec].route = Usage[r].route
                     /\ Usage[logs[i].rec].key \in ScopeKeys(r)
                     /\ Period(w, logs[i].day) = p
                     /\ logs[i].rec \notin X}
              |-> Contribution(logs[i].rec)["tokens"]])

(* A request is answered 429 only if the audit log bears it out: what its  *)
(* own scope has used in the period it was checked against, plus its       *)
(* estimate, is above the limit (QuotaCheck; in mode per_key no other      *)
(* key's consumption matters).                                             *)
DenialJustified ==
    \A r \in Records : outcome[r] = "denied" =>
        \E w \in Windows :
            /\ Limit(r, w) > 0
            /\ ScopeTokens(r, w, Period(w, now[r]), {}) + Estimate[r] > Limit(r, w)

(* How far a budget can be overrun: by the requests that were in flight    *)
(* together when a check last passed, and those that a database error let  *)
(* through.  All others together stay within the limit (QuotaCheck against *)
(* caches that the worker fills later).                                    *)
OverrunOnlyByOverlap ==
    \A r \in Records, w \in Windows, p \in Periods :
        Limit(r, w) > 0 =>
            ScopeTokens(r, w, p, overlap[<<Usage[r].key, Usage[r].route, p>>]
                                  \cup unchecked[w]) <= Limit(r, w)

(* The record of a served request does not stay under way for ever: the    *)
(* parser goroutine emits it once the stream has ended, and the worker     *)
(* takes it from the queue.                                                *)
ServedIsSettled ==
    \A r \in Records :
        (outcome[r] = "ok" /\ stage[r] # "stream") ~> r \notin InFlight
=============================================================================
