---------------------------- MODULE GatewayProofs ----------------------------
(***************************************************************************)
(* Proofs about the gateway, for any number of requests, keys and routes,  *)
(* any calendar, any quotas and estimates, and any interleaving of         *)
(* requests with the pipeline, the administrator, midnight and restarts.   *)
(***************************************************************************)
EXTENDS Gateway, UsageSchemaProofs

USE DEF store, ledger, requests, history

(* Types, those of the history included; a request between the clock and   *)
(* its last check has a date.                                              *)
GateType ==
    /\ TypeOK
    /\ logs \in Seq(LogRow) /\ daily \in DailyTable /\ monthly \in MonthlyTable
    /\ unchecked \in [Windows -> SUBSET Records]
    /\ overlap \in [Keys \X Routes \X Periods -> SUBSET Records]
    /\ \A r \in Records : stage[r] \in {"daily", "monthly"} => now[r] \in Days

(* The credential that request r was given belongs to a record that was    *)
(* issued for the internal key it presented, on its route.                 *)
Entitled(r) ==
    \E x \in issued : x.internal = Usage[r].key /\ x.route = Usage[r].route /\ x.real = real[r]

(* The index of the proxy holds records issued under the very key whose    *)
(* digest finds them.                                                      *)
IndexInv ==
    /\ Store!TypeOK
    /\ \A h \in DOMAIN byHash : byHash[h] \in issued /\ Hash[byHash[h].internal] = h

(* A request beyond authentication is entitled to its credential; answers  *)
(* and stages go together.                                                 *)
ServedInv ==
    /\ \A r \in Records :
          /\ outcome[r] = "ok" => stage[r] \in {"stream", "parse", "over"}
          /\ stage[r] \in {"stream", "parse"} => outcome[r] = "ok"
          /\ outcome[r] = "denied" => stage[r] = "over"
          /\ stage[r] \notin {"idle", "over"} \/ outcome[r] = "ok" => Entitled(r)
    /\ ChargedWasServed

(* The rows of the audit log that count in ScopeTokens. *)
ScopeRows(log, r, w, p, X) ==
    {i \in DOMAIN log : /\ Usage[log[i].rec].route = Usage[r].route
                        /\ Usage[log[i].rec].key \in ScopeKeys(r)
                        /\ Period(w, log[i].day) = p
                        /\ log[i].rec \notin X}

(* ScopeTokens for any log, and the two properties in these terms. *)
LogTokens(log, r, w, p, X) == Total(log, ScopeRows(log, r, w, p, X), "tokens")

Justified ==
    \A r \in Records : outcome[r] = "denied" =>
        \E w \in Windows :
            Limit(r, w) > 0 /\ LogTokens(logs, r, w, Period(w, now[r]), {}) + Estimate[r] > Limit(r, w)

WithinBudget ==
    \A r \in Records, w \in Windows, p \in Periods :
        Limit(r, w) > 0 =>
            LogTokens(logs, r, w, p, overlap[<<Usage[r].key, Usage[r].route, p>>] \cup unchecked[w])
                <= Limit(r, w)

(* The cells that queryTokens reads in the caches. *)
QueryReads(days, months, r, w, d) ==
    [k \in ScopeKeys(r) |->
        IF w = "daily" THEN days[<<k, Usage[r].route, d>>]["tokens"]
                       ELSE months[<<k, Usage[r].route, MonthOf[d]>>]["tokens"]]

(* What a quota check reads in the cache is what the audit log says about  *)
(* the scope of the request, and the sum of what it reads is finite.       *)
ReadsMatch(log, days, months, r, w, d) ==
    /\ IsFiniteSet(Units(QueryReads(days, months, r, w, d)))
    /\ SumOf(QueryReads(days, months, r, w, d)) = LogTokens(log, r, w, Period(w, d), {})

QueryInv ==
    \A r \in Records, w \in Windows, d \in Days : ReadsMatch(logs, daily, monthly, r, w, d)

(* The check of window w has let request r through in period p knowing it  *)
(* to be in flight, or a database error has let it through.                *)
Covered(flights, free, r, w, p) ==
    \/ r \in free[w]
    \/ \A k \in ScopeKeys(r) : r \in flights[<<k, Usage[r].route, p>>]

(* Nothing is dated in the future. *)
Dated ==
    /\ \A row \in pipe : row.day <= today
    /\ \A i \in DOMAIN logs : logs[i].day <= today

(* A request that has passed a check is covered; one that has not yet      *)
(* passed it took its date in this period, or was in flight when the       *)
(* period began.                                                           *)
PassedCheck(r, w) ==
    stage[r] \in {"upstream", "stream", "parse"} \/ (stage[r] = "monthly" /\ w = "daily")

BeforeCheck(r, w) ==
    stage[r] = "daily" \/ (stage[r] = "monthly" /\ w = "monthly")

CoveredToday(r, w) == Covered(overlap, unchecked, r, w, Period(w, today))

ChecksCovered ==
    \A r \in Records, w \in Windows : Limit(r, w) > 0 =>
        /\ PassedCheck(r, w) => CoveredToday(r, w)
        /\ BeforeCheck(r, w) => Period(w, now[r]) = Period(w, today) \/ CoveredToday(r, w)

(* So is a request whose row is on its way, in the period of the row. *)
RowsCovered ==
    \A row \in pipe, w \in Windows :
        Limit(row.rec, w) > 0 => Covered(overlap, unchecked, row.rec, w, Period(w, row.day))

BudgetInv == Dated /\ ChecksCovered /\ RowsCovered /\ WithinBudget

GateInv == GateType /\ IndexInv /\ ServedInv /\ QueryInv /\ Justified /\ BudgetInv

-----------------------------------------------------------------------------
(* The quota check and the properties in the terms of the audit log. *)
LEMMA Scopes ==
    /\ \A r, w, d : QueryTokens(r, w, d) = SumOf(QueryReads(daily, monthly, r, w, d))
    /\ \A r, w, p, X : ScopeTokens(r, w, p, X) = LogTokens(logs, r, w, p, X)
  BY DEF QueryTokens, QueryReads, ScopeTokens, ScopeRows, LogTokens, Total, Amounts

(* Requests to the same route whose keys share a budget have one scope.    *)
LEMMA ScopeMates ==
    ASSUME NEW r \in Records, NEW s \in Records,
           Usage[s].route = Usage[r].route, Usage[s].key \in ScopeKeys(r)
    PROVE  /\ ScopeKeys(s) = ScopeKeys(r) /\ Usage[r].key \in ScopeKeys(s)
           /\ \A w : Limit(s, w) = Limit(r, w)
  BY UsageAssumption DEF ScopeKeys, Limit

(* Keys, routes, limits and estimates have their types. *)
LEMMA RequestTypes ==
    ASSUME NEW r \in Records
    PROVE  /\ Usage[r].key \in Keys /\ Usage[r].route \in Routes
           /\ ScopeKeys(r) \subseteq Keys /\ Usage[r].key \in ScopeKeys(r)
           /\ Estimate[r] \in Nat /\ \A w \in Windows : Limit(r, w) \in Nat
           /\ \A w \in Windows, d \in Days : Period(w, d) \in Periods
  BY UsageAssumption, QuotaAssumption, RequestAssumption, CalendarAssumption
     DEF ScopeKeys, Limit, Windows, Period, Periods

(* The appended row counts in the scopes it belongs to, and in no other. *)
LEMMA ScopeRowsAppend ==
    ASSUME NEW log \in Seq(LogRow), NEW row \in LogRow, NEW r, NEW w, NEW p, NEW X
    PROVE  /\ ScopeRows(log, r, w, p, X) \subseteq DOMAIN log
           /\ ScopeRows(Append(log, row), r, w, p, X) =
                 IF /\ Usage[row.rec].route = Usage[r].route
                    /\ Usage[row.rec].key \in ScopeKeys(r)
                    /\ Period(w, row.day) = p
                    /\ row.rec \notin X
                 THEN ScopeRows(log, r, w, p, X) \cup {Len(log) + 1}
                 ELSE ScopeRows(log, r, w, p, X)
  <1>1. DOMAIN Append(log, row) = DOMAIN log \cup {Len(log) + 1}
    OBVIOUS
  <1>2. \A i \in DOMAIN log : Append(log, row)[i] = log[i]
    OBVIOUS
  <1>3. Append(log, row)[Len(log) + 1] = row
    OBVIOUS
  <1>. QED
    BY <1>1, <1>2, <1>3 DEF ScopeRows

(* Posting a record raises what a check of window w reads for request r by *)
(* the tokens of the record if it is in scope, and by nothing otherwise.   *)
LEMMA PostReads ==
    ASSUME NEW days \in DailyTable, NEW months \in MonthlyTable, NEW row \in LogRow,
           NEW r \in Records, NEW w \in Windows, NEW d \in Days
    PROVE  LET old == QueryReads(days, months, r, w, d)
               new == QueryReads(Upsert(days, DailyCell(row.rec, row.day), row.rec),
                                 Upsert(months, MonthlyCell(row.rec, row.day), row.rec), r, w, d)
               counts == Usage[row.rec].route = Usage[r].route /\ Period(w, row.day) = Period(w, d)
           IN  /\ DOMAIN new = DOMAIN old /\ \A k \in DOMAIN old : old[k] \in Nat
               /\ \A k \in DOMAIN old :
                     new[k] = IF counts /\ k = Usage[row.rec].key
                              THEN old[k] + Contribution(row.rec)["tokens"] ELSE old[k]
  <1>. DEFINE dcell == DailyCell(row.rec, row.day)
              mcell == MonthlyCell(row.rec, row.day)
              days2 == Upsert(days, dcell, row.rec)
              months2 == Upsert(months, mcell, row.rec)
  <1>1. row.rec \in Records /\ row.day \in Days /\ "tokens" \in Columns
    BY DEF LogRow, Columns
  <1>2. dcell \in DailyCells /\ mcell \in MonthlyCells
    BY <1>1, CellTypes
  <1>3. days \in [DailyCells -> Row] /\ months \in [MonthlyCells -> Row]
    BY DEF DailyTable, MonthlyTable
  <1>4. \A x \in DailyCells : days[x]["tokens"] \in Nat
        /\ days2[x]["tokens"] = IF x = dcell THEN days[x]["tokens"] + Contribution(row.rec)["tokens"]
                                             ELSE days[x]["tokens"]
    <2>. HIDE DEF dcell
    <2>1. \A x \in DailyCells : \A c \in Columns :
             Upsert(days, dcell, row.rec)[x][c] =
                IF x = dcell THEN days[x][c] + Contribution(row.rec)[c] ELSE days[x][c]
      BY <1>1, <1>2, <1>3, UpsertCell
    <2>2. \A x \in DailyCells : days[x]["tokens"] \in Nat
      BY <1>1, <1>3 DEF Row
    <2>. QED
      BY <1>1, <2>1, <2>2
  <1>5. \A x \in MonthlyCells : months[x]["tokens"] \in Nat
        /\ months2[x]["tokens"] = IF x = mcell THEN months[x]["tokens"] + Contribution(row.rec)["tokens"]
                                               ELSE months[x]["tokens"]
    <2>. HIDE DEF mcell
    <2>1. \A x \in MonthlyCells : \A c \in Columns :
             Upsert(months, mcell, row.rec)[x][c] =
                IF x = mcell THEN months[x][c] + Contribution(row.rec)[c] ELSE months[x][c]
      BY <1>1, <1>2, <1>3, UpsertCell
    <2>2. \A x \in MonthlyCells : months[x]["tokens"] \in Nat
      BY <1>1, <1>3 DEF Row
    <2>. QED
      BY <1>1, <2>1, <2>2
  <1>6. \A k \in ScopeKeys(r) : /\ <<k, Usage[r].route, d>> \in DailyCells
                                /\ <<k, Usage[r].route, MonthOf[d]>> \in MonthlyCells
    BY RequestTypes, CalendarAssumption DEF DailyCells, MonthlyCells
  <1>7. \A k : /\ <<k, Usage[r].route, d>> = dcell <=>
                     k = Usage[row.rec].key /\ Usage[row.rec].route = Usage[r].route /\ row.day = d
               /\ <<k, Usage[r].route, MonthOf[d]>> = mcell <=>
                     /\ k = Usage[row.rec].key /\ Usage[row.rec].route = Usage[r].route
                     /\ MonthOf[row.day] = MonthOf[d]
    BY DEF DailyCell, MonthlyCell
  <1>. HIDE DEF days2, months2, dcell, mcell
  <1>8. CASE w = "daily"
    BY <1>4, <1>6, <1>7, <1>8 DEF QueryReads, Period, days2, dcell
  <1>9. CASE w = "monthly"
    BY <1>5, <1>6, <1>7, <1>9 DEF QueryReads, Period, months2, mcell
  <1>. QED
    BY <1>8, <1>9 DEF Windows

(* So posting keeps the check in line with the log. *)
LEMMA PostMatches ==
    ASSUME NEW log \in Seq(LogRow), NEW days \in DailyTable, NEW months \in MonthlyTable,
           NEW row \in LogRow, NEW r \in Records, NEW w \in Windows, NEW d \in Days,
           ReadsMatch(log, days, months, r, w, d)
    PROVE  ReadsMatch(Append(log, row),
                      Upsert(days, DailyCell(row.rec, row.day), row.rec),
                      Upsert(months, MonthlyCell(row.rec, row.day), row.rec), r, w, d)
  <1>. DEFINE old == QueryReads(days, months, r, w, d)
              new == QueryReads(Upsert(days, DailyCell(row.rec, row.day), row.rec),
                                Upsert(months, MonthlyCell(row.rec, row.day), row.rec), r, w, d)
              counts == Usage[row.rec].route = Usage[r].route /\ Period(w, row.day) = Period(w, d)
              n == Usage[row.rec].key
              more == Contribution(row.rec)["tokens"]
              rows == ScopeRows(log, r, w, Period(w, d), {})
              rows2 == ScopeRows(Append(log, row), r, w, Period(w, d), {})
  <1>1. row.rec \in Records /\ "tokens" \in Columns /\ more \in Nat
    BY ContributionType DEF LogRow, Columns
  <1>2. DOMAIN old = ScopeKeys(r)
    BY DEF QueryReads
  <1>3. /\ DOMAIN new = DOMAIN old /\ \A k \in DOMAIN old : old[k] \in Nat
        /\ \A k \in DOMAIN old : new[k] = IF counts /\ k = n THEN old[k] + more ELSE old[k]
    BY PostReads
  <1>4. /\ rows \subseteq DOMAIN log
        /\ rows2 = IF counts /\ n \in ScopeKeys(r) THEN rows \cup {Len(log) + 1} ELSE rows
    BY ScopeRowsAppend
  <1>5. IsFiniteSet(Units(old)) /\ SumOf(old) = Total(log, rows, "tokens")
    BY DEF ReadsMatch, LogTokens
  <1>6. new = [k \in DOMAIN new |-> new[k]] /\ old = [k \in DOMAIN old |-> old[k]]
    BY DEF QueryReads
  <1>. HIDE DEF old, new, counts, n, more, rows, rows2
  <1>7. CASE counts /\ n \in ScopeKeys(r)
    <2>1. IsFiniteSet(Units(new)) /\ SumOf(new) = SumOf(old) + more
      <3>1. /\ n \in DOMAIN old /\ old[n] \in Nat /\ DOMAIN new = DOMAIN old
            /\ \A k \in DOMAIN old : new[k] = IF k = n THEN old[k] + more ELSE old[k]
        BY <1>2, <1>3, <1>7
      <3>. QED
        BY <1>1, <1>5, <3>1, SumUpdate
    <2>2. Total(Append(log, row), rows \cup {Len(log) + 1}, "tokens") = Total(log, rows, "tokens") + more
      BY <1>1, <1>4, FiniteAmounts, TotalAppend DEF more
    <2>. QED
      BY <1>4, <1>5, <1>7, <2>1, <2>2 DEF ReadsMatch, LogTokens, new, rows2
  <1>8. CASE ~(counts /\ n \in ScopeKeys(r))
    <2>1. new = old
      BY <1>2, <1>3, <1>6, <1>8
    <2>2. Total(Append(log, row), rows, "tokens") = Total(log, rows, "tokens")
      BY <1>1, <1>4, AmountsAppend DEF Total
    <2>. QED
      BY <1>4, <1>5, <1>8, <2>1, <2>2 DEF ReadsMatch, LogTokens, new, rows2
  <1>. QED
    BY <1>7, <1>8

-----------------------------------------------------------------------------
(* The tables of the ledger are those of the schema. *)
LEMMA SameSchema ==
    /\ \A log : Ledger!Logged(log) = Logged(log)
    /\ \A r, d : Ledger!DailyCell(r, d) = DailyCell(r, d)
    /\ \A r, d : Ledger!MonthlyCell(r, d) = MonthlyCell(r, d)
    /\ \A t, x, r : Ledger!Upsert(t, x, r) = Upsert(t, x, r)
    /\ Ledger!EmptyDatabase = EmptyDatabase
  BY DEF Logged, Ledger!Logged, DailyCell, Ledger!DailyCell, MonthlyCell, Ledger!MonthlyCell,
         Upsert, Ledger!Upsert, Columns, Ledger!Columns, Contribution, Ledger!Contribution,
         EmptyDatabase, Ledger!EmptyDatabase, DailyCells, Ledger!DailyCells,
         MonthlyCells, Ledger!MonthlyCells, ZeroRow, Ledger!ZeroRow

(* What persisting a row does to the tables: all three, or none. *)
LEMMA PersistTables ==
    ASSUME GateType, NEW row \in pipe, Persist(row)
    PROVE  /\ row \in LogRow /\ row.rec \in Records /\ row.day \in Days
           /\ \/ UNCHANGED ledger
              \/ /\ logs' = Append(logs, row)
                 /\ daily' = Upsert(daily, DailyCell(row.rec, row.day), row.rec)
                 /\ monthly' = Upsert(monthly, MonthlyCell(row.rec, row.day), row.rec)
  <1>1. row \in LogRow
    BY DEF GateType, TypeOK
  <1>2. row = [rec |-> row.rec, day |-> row.day] /\ row.rec \in Records /\ row.day \in Days
    BY <1>1 DEF LogRow
  <1>3. CASE Ledger!Post(row.rec, row.day)
    BY <1>1, <1>2, <1>3, SameSchema DEF Ledger!Post
  <1>. QED
    BY <1>1, <1>2, <1>3 DEF Persist

(* A new key enters the index under the digest of its own internal key. *)
LEMMA IndexAdds ==
    ASSUME IndexInv, NEW route \in Routes, NEW rk \in RealKeys, NEW id \in UUIDs,
           NEW ik \in Keys, Store!AddKey(route, rk, id, ik)
    PROVE  IndexInv' /\ issued \subseteq issued'
  <1>. DEFINE rec == Store!NewRecord(route, rk, id, ik)
  <1>1. /\ rec \in Store!KeyRecord /\ rec.uuid = id /\ rec.internal = ik /\ rec.hash = Hash[ik]
        /\ Hash[ik] \in Hashes
    BY DigestAssumption DEF Store!NewRecord, Store!KeyRecord
  <1>2. /\ keys' = Store!Put(keys, id, rec) /\ byHash' = Store!Put(byHash, Hash[ik], rec)
        /\ issued' = issued \cup {rec}
    BY <1>1 DEF Store!AddKey
  <1>. HIDE DEF rec
  <1>3. /\ DOMAIN keys' = DOMAIN keys \cup {id} /\ DOMAIN byHash' = DOMAIN byHash \cup {Hash[ik]}
        /\ \A u \in DOMAIN keys' : keys'[u] = IF u = id THEN rec ELSE keys[u]
        /\ \A h \in DOMAIN byHash' : byHash'[h] = IF h = Hash[ik] THEN rec ELSE byHash[h]
    BY <1>2 DEF Store!Put
  <1>4. Store!TypeOK'
    BY <1>1, <1>2, <1>3 DEF IndexInv, Store!TypeOK
  <1>. QED
    BY <1>1, <1>2, <1>3, <1>4 DEF IndexInv

(* A deletion takes a record out and changes no other. *)
LEMMA IndexDeletes ==
    ASSUME IndexInv, NEW uid \in UUIDs, Store!DeleteKey(uid)
    PROVE  IndexInv' /\ issued' = issued
  BY DEF IndexInv, Store!DeleteKey, Store!Remove, Store!TypeOK

(* Nothing else but the end of the process touches the index. *)
LEMMA IndexFrame ==
    /\ IndexInv /\ UNCHANGED store => IndexInv'
    /\ IndexInv /\ Restart => IndexInv' /\ issued' = issued
  BY DEF IndexInv, Restart, Store!EmptyMap, Store!TypeOK

-----------------------------------------------------------------------------
(* What a step of the handler of request r leaves alone. *)
LEMMA HandlerFrame ==
    ASSUME GateType, NEW r \in Records, HandlerStep(r)
    PROVE  /\ UNCHANGED <<store, ledger, today>>
           /\ \A s \in Records \ {r} : /\ stage'[s] = stage[s] /\ now'[s] = now[s]
                                       /\ real'[s] = real[s] /\ outcome'[s] = outcome[s]
           /\ pipe \subseteq pipe' /\ pipe' \subseteq pipe \cup {[rec |-> r, day |-> today]}
           /\ pipe' # pipe => stage[r] \in {"upstream", "parse"} /\ stage'[r] = "over"
           /\ stage[r] \notin {"idle", "body"} => now'[r] = now[r]
           /\ stage[r] # "idle" => real'[r] = real[r]
  <1>. USE DEF GateType, TypeOK, Answer, Advance, Emit
  <1>1. CASE Authenticate(r)
    BY <1>1 DEF Authenticate
  <1>2. CASE StartQuotaCheck(r)
    BY <1>2 DEF StartQuotaCheck
  <1>3. CASE CheckDaily(r)
    BY <1>3 DEF CheckDaily, CheckWindow
  <1>4. CASE CheckMonthly(r)
    BY <1>4 DEF CheckMonthly, CheckWindow
  <1>5. CASE UpstreamFails(r) \/ UpstreamRefuses(r)
    BY <1>5 DEF UpstreamFails, UpstreamRefuses
  <1>6. CASE AnswerOneShot(r) \/ AnswerTruncated(r)
    BY <1>6 DEF AnswerOneShot, AnswerTruncated
  <1>7. CASE StartStream(r) \/ EndStream(r) \/ EmitStreamed(r)
    BY <1>7 DEF StartStream, EndStream, EmitStreamed
  <1>. QED
    BY <1>1, <1>2, <1>3, <1>4, <1>5, <1>6, <1>7 DEF HandlerStep

-----------------------------------------------------------------------------
(* The gateway starts well typed, with nothing stored, asked or charged.   *)
LEMMA TypeInit == Init => GateType /\ IndexInv
  <1>. SUFFICES ASSUME Init PROVE GateType /\ IndexInv
    OBVIOUS
  <1>1. IndexInv
    BY DEF Init, IndexInv, Store!Init, Store!EmptyMap, Store!TypeOK
  <1>2. logs = <<>> /\ logs \in Seq(LogRow) /\ daily \in DailyTable /\ monthly \in MonthlyTable
    BY EmptyDatabaseType, SameSchema DEF Init, Ledger!Init, Database, EmptyDatabase
  <1>3. TypeOK
    BY <1>1, PeriodAssumption DEF Init, IndexInv, TypeOK, Stages, Outcomes
  <1>. QED
    BY <1>1, <1>2, <1>3 DEF Init, GateType

(* Every step keeps the index, and nothing issued is forgotten. *)
LEMMA IndexNext ==
    ASSUME GateType, IndexInv, [Next]_vars
    PROVE  IndexInv' /\ issued \subseteq issued'
  <1>1. ASSUME NEW r \in Records, HandlerStep(r) PROVE IndexInv' /\ issued \subseteq issued'
    BY <1>1, HandlerFrame, IndexFrame
  <1>2. ASSUME NEW row \in pipe, Persist(row) PROVE IndexInv' /\ issued \subseteq issued'
    BY <1>2, IndexFrame DEF Persist
  <1>3. ASSUME NEW route \in Routes, NEW rk \in RealKeys, NEW id \in UUIDs, NEW ik \in Keys,
               AdminAddKey(route, rk, id, ik)
        PROVE  IndexInv' /\ issued \subseteq issued'
    BY <1>3, IndexAdds DEF AdminAddKey
  <1>4. ASSUME NEW uid \in UUIDs, AdminDeleteKey(uid) PROVE IndexInv' /\ issued \subseteq issued'
    BY <1>4, IndexDeletes DEF AdminDeleteKey
  <1>5. CASE Restart
    BY <1>5, IndexFrame
  <1>6. CASE NextDay \/ UNCHANGED vars
    BY <1>6, IndexFrame DEF NextDay, vars
  <1>. QED
    BY <1>1, <1>2, <1>3, <1>4, <1>5, <1>6 DEF Next

(* A handler keeps the types of what belongs to its request. *)
LEMMA TypeHandler ==
    ASSUME GateType, IndexInv, NEW r \in Records, HandlerStep(r), Store!TypeOK'
    PROVE  GateType'
  <1>. USE DEF GateType, TypeOK, Answer, Advance, Stages, Outcomes
  <1>1. /\ logs' = logs /\ daily' = daily /\ monthly' = monthly /\ today' = today
        /\ pipe' \subseteq LogRow
    BY HandlerFrame DEF LogRow
  <1>2. CASE Authenticate(r)
    <2>1. Accepted(r) => Store!GetKeyByInternal(Usage[r].key).real \in RealKeys
      BY DEF Accepted, Store!Found, Store!GetKeyByInternal, Store!TypeOK, Store!KeyRecord
    <2>. QED
      BY <1>1, <1>2, <2>1 DEF Authenticate
  <1>3. CASE StartQuotaCheck(r)
    <2>1. /\ stage' \in [Records -> Stages] /\ outcome' = outcome
          /\ now' \in [Records -> Days \cup {None}]
          /\ UNCHANGED <<real, unchecked, overlap>>
      BY <1>3 DEF StartQuotaCheck, history
    <2>2. ASSUME NEW q \in Records, stage'[q] \in {"daily", "monthly"}
          PROVE  now'[q] \in Days
      BY <1>3, <2>2 DEF StartQuotaCheck
    <2>. QED
      BY <1>1, <2>1, <2>2
  <1>4. CASE CheckDaily(r) \/ CheckMonthly(r)
    <2>1. InFlight \subseteq Records
      BY DEF InFlight, LogRow
    <2>2. /\ unchecked' \in [Windows -> SUBSET Records]
          /\ overlap' \in [Keys \X Routes \X Periods -> SUBSET Records]
      BY <1>4, <2>1 DEF CheckDaily, CheckMonthly, CheckWindow
    <2>. QED
      BY <1>1, <1>4, <2>2 DEF CheckDaily, CheckMonthly, CheckWindow
  <1>5. CASE UpstreamFails(r) \/ UpstreamRefuses(r)
    BY <1>1, <1>5 DEF UpstreamFails, UpstreamRefuses
  <1>6. CASE AnswerOneShot(r) \/ AnswerTruncated(r)
    <2>1. /\ stage' = [stage EXCEPT ![r] = "over"]
          /\ outcome' \in [Records -> Outcomes]
          /\ UNCHANGED <<now, real, unchecked, overlap>>
      BY <1>6 DEF AnswerOneShot, AnswerTruncated, history
    <2>. QED
      BY <1>1, <2>1
  <1>7. CASE StartStream(r) \/ EndStream(r) \/ EmitStreamed(r)
    BY <1>1, <1>7 DEF StartStream, EndStream, EmitStreamed
  <1>. QED
    BY <1>2, <1>3, <1>4, <1>5, <1>6, <1>7 DEF HandlerStep

(* Posting keeps the tables well formed. *)
LEMMA TypePersist ==
    ASSUME GateType, NEW row \in pipe, Persist(row), Store!TypeOK'
    PROVE  GateType'
  <1>1. /\ row \in LogRow /\ row.rec \in Records /\ row.day \in Days
        /\ \/ UNCHANGED ledger
           \/ /\ logs' = Append(logs, row)
              /\ daily' = Upsert(daily, DailyCell(row.rec, row.day), row.rec)
              /\ monthly' = Upsert(monthly, MonthlyCell(row.rec, row.day), row.rec)
    BY PersistTables
  <1>2. /\ Upsert(daily, DailyCell(row.rec, row.day), row.rec) \in DailyTable
        /\ Upsert(monthly, MonthlyCell(row.rec, row.day), row.rec) \in MonthlyTable
    BY <1>1, CellTypes, UpsertCell DEF GateType, DailyTable, MonthlyTable
  <1>3. logs \in Seq(LogRow) /\ Append(logs, row) \in Seq(LogRow)
    BY <1>1 DEF GateType
  <1>4. logs' \in Seq(LogRow) /\ daily' \in DailyTable /\ monthly' \in MonthlyTable
    BY <1>1, <1>2, <1>3 DEF GateType
  <1>. QED
    BY <1>4 DEF Persist, GateType, TypeOK

(* Every step keeps the types. *)
LEMMA TypeNext ==
    ASSUME GateType, IndexInv, [Next]_vars
    PROVE  GateType'
  <1>1. Store!TypeOK'
    BY IndexNext DEF IndexInv
  <1>2. ASSUME NEW route \in Routes, NEW rk \in RealKeys, NEW id \in UUIDs, NEW ik \in Keys,
               AdminAddKey(route, rk, id, ik)
        PROVE  GateType'
    BY <1>1, <1>2 DEF AdminAddKey, GateType, TypeOK
  <1>3. ASSUME NEW uid \in UUIDs, AdminDeleteKey(uid) PROVE GateType'
    BY <1>1, <1>3 DEF AdminDeleteKey, GateType, TypeOK
  <1>4. CASE Restart
    BY <1>1, <1>4 DEF Restart, GateType, TypeOK, Stages, Outcomes
  <1>5. CASE NextDay
    <2>1. InFlight \subseteq Records
      BY DEF InFlight, GateType, TypeOK, LogRow
    <2>2. overlap' \in [Keys \X Routes \X Periods -> SUBSET Records]
      BY <1>5, <2>1 DEF NextDay, GateType
    <2>. QED
      BY <1>1, <1>5, <2>2 DEF NextDay, GateType, TypeOK
  <1>6. CASE UNCHANGED vars
    BY <1>1, <1>6 DEF vars, GateType, TypeOK
  <1>. QED
    BY <1>1, <1>2, <1>3, <1>4, <1>5, <1>6, TypeHandler, TypePersist DEF Next

-----------------------------------------------------------------------------
(* The rows and records of which ChargedWasServed speaks. *)
Charged == Logged(logs) \cup {row.rec : row \in pipe}

(* Only requests are charged. *)
LEMMA ChargedRecords == GateType => Charged \subseteq Records
  <1>. SUFFICES ASSUME GateType PROVE Charged \subseteq Records
    OBVIOUS
  <1>1. \A i \in DOMAIN logs : logs[i] \in LogRow
    BY DEF GateType
  <1>2. pipe \subseteq LogRow
    BY DEF GateType, TypeOK
  <1>. QED
    BY <1>1, <1>2 DEF Charged, Logged, LogRow

(* A step that charges nobody new, takes no answer back and gives nobody   *)
(* another credential keeps what was served in order.                      *)
LEMMA ServedFrame ==
    ASSUME ServedInv, issued \subseteq issued', Charged' \subseteq Charged,
           \A r \in Records : /\ stage'[r] = stage[r] \/ stage'[r] = "over"
                              /\ real'[r] = real[r]
                              /\ \/ outcome'[r] = outcome[r]
                                 \/ outcome[r] = "none" /\ outcome'[r] = "unserved" /\ stage'[r] = "over",
           Charged \subseteq Records
    PROVE  ServedInv'
  <1>1. \A r \in Records : real'[r] = real[r] /\ Entitled(r) => Entitled(r)'
    BY DEF Entitled
  <1>2. \A r \in Charged : outcome[r] = "ok" /\ Entitled(r)
    BY DEF ServedInv, ChargedWasServed, Charged, Entitled
  <1>3. ChargedWasServed'
    <2>1. \A r \in Charged' : outcome'[r] = "ok" /\ Entitled(r)'
      BY <1>1, <1>2
    <2>. QED
      BY <2>1 DEF ChargedWasServed, Charged, Entitled
  <1>. QED
    BY <1>1, <1>3 DEF ServedInv

(* A handler gives its request the credential registered for its key and   *)
(* route, and charges it only when it answers 200.                         *)
LEMMA ServedHandler ==
    ASSUME GateType, IndexInv, ServedInv, NEW r \in Records, HandlerStep(r)
    PROVE  ServedInv'
  <1>1. /\ issued' = issued /\ logs' = logs
        /\ \A s \in Records \ {r} : /\ stage'[s] = stage[s] /\ real'[s] = real[s]
                                    /\ outcome'[s] = outcome[s]
        /\ pipe' \subseteq pipe \cup {[rec |-> r, day |-> today]}
        /\ pipe' # pipe => stage[r] \in {"upstream", "parse"} /\ stage'[r] = "over"
        /\ stage[r] # "idle" => real'[r] = real[r]
    BY HandlerFrame
  <1>2. Charged \subseteq Records
    BY ChargedRecords
  <1>3. \A s \in Charged : outcome[s] = "ok" /\ Entitled(s)
    BY DEF ServedInv, ChargedWasServed, Charged, Entitled
  <1>4. ASSUME stage'[r] \notin {"idle", "over"} \/ outcome'[r] = "ok"
        PROVE  Entitled(r)'
    <2>. USE DEF GateType, TypeOK, Answer, Advance
    <2>1. CASE stage[r] = "idle"
      <3>1. Authenticate(r)
        BY <2>1 DEF HandlerStep, StartQuotaCheck, CheckDaily, CheckMonthly, CheckWindow,
               UpstreamFails, UpstreamRefuses, AnswerOneShot, AnswerTruncated,
               StartStream, EndStream, EmitStreamed
      <3>2. Accepted(r) /\ real'[r] = Store!GetKeyByInternal(Usage[r].key).real
        BY <1>4, <3>1, <2>1 DEF Authenticate, Outcomes
      <3>3. /\ Hash[Usage[r].key] \in DOMAIN byHash
            /\ byHash[Hash[Usage[r].key]] \in issued
            /\ Hash[byHash[Hash[Usage[r].key]].internal] = Hash[Usage[r].key]
            /\ byHash[Hash[Usage[r].key]].route = Usage[r].route
            /\ byHash[Hash[Usage[r].key]].internal \in Keys
        BY <3>2 DEF Accepted, Store!Found, Store!GetKeyByInternal, IndexInv, Store!TypeOK, Store!KeyRecord
      <3>4. byHash[Hash[Usage[r].key]].internal = Usage[r].key
        BY <3>3, RequestTypes, DigestAssumption
      <3>. QED
        BY <1>1, <3>2, <3>3, <3>4 DEF Entitled, Store!GetKeyByInternal
    <2>2. CASE stage[r] # "idle"
      <3>1. stage[r] # "over"
        BY <2>2 DEF HandlerStep, Authenticate, StartQuotaCheck, CheckDaily, CheckMonthly,
               CheckWindow, UpstreamFails, UpstreamRefuses, AnswerOneShot, AnswerTruncated,
               StartStream, EndStream, EmitStreamed
      <3>. QED
        BY <1>1, <2>2, <3>1 DEF ServedInv, Entitled
    <2>. QED
      BY <2>1, <2>2
  <1>5. /\ outcome'[r] = "ok" => stage'[r] \in {"stream", "parse", "over"}
        /\ stage'[r] \in {"stream", "parse"} => outcome'[r] = "ok"
        /\ outcome'[r] = "denied" => stage'[r] = "over"
        /\ pipe' # pipe => outcome'[r] = "ok"
        /\ outcome[r] = "ok" => outcome'[r] = "ok"
    <2>. USE DEF GateType, TypeOK, ServedInv, Answer, Advance
    <2>1. CASE Authenticate(r) \/ StartQuotaCheck(r)
      BY <2>1 DEF Authenticate, StartQuotaCheck
    <2>2. CASE CheckDaily(r) \/ CheckMonthly(r)
      BY <2>2 DEF CheckDaily, CheckMonthly, CheckWindow
    <2>3. CASE UpstreamFails(r) \/ UpstreamRefuses(r)
      BY <2>3 DEF UpstreamFails, UpstreamRefuses
    <2>4. CASE AnswerOneShot(r) \/ AnswerTruncated(r)
      BY <2>4 DEF AnswerOneShot, AnswerTruncated
    <2>5. CASE StartStream(r) \/ EndStream(r) \/ EmitStreamed(r)
      BY <2>5 DEF StartStream, EndStream, EmitStreamed
    <2>. QED
      BY <2>1, <2>2, <2>3, <2>4, <2>5 DEF HandlerStep
  <1>6. \A s \in Records \ {r} : Entitled(s) => Entitled(s)'
    BY <1>1 DEF Entitled
  <1>7. ChargedWasServed'
    <2>1. \A s \in Charged' : s \in Charged \/ (s = r /\ pipe' # pipe)
      BY <1>1 DEF Charged, Logged
    <2>2. \A s \in Charged' : outcome'[s] = "ok" /\ Entitled(s)'
      BY <1>1, <1>2, <1>3, <1>4, <1>5, <1>6, <2>1
    <2>. QED
      BY <2>2 DEF ChargedWasServed, Charged, Entitled
  <1>. QED
    BY <1>1, <1>4, <1>5, <1>6, <1>7 DEF ServedInv

(* Posting a row turns a record under way into one that is logged. *)
LEMMA ServedNext ==
    ASSUME GateType, IndexInv, ServedInv, [Next]_vars
    PROVE  ServedInv'
  <1>1. issued \subseteq issued'
    BY IndexNext
  <1>2. Charged \subseteq Records
    BY ChargedRecords
  <1>3. ASSUME NEW row \in pipe, Persist(row) PROVE ServedInv'
    <2>1. logs \in Seq(LogRow) /\ row \in LogRow /\ (logs' = logs \/ logs' = Append(logs, row))
      BY <1>3, PersistTables DEF GateType
    <2>2. Logged(logs)' \subseteq Logged(logs) \cup {row.rec}
      <3>1. DOMAIN Append(logs, row) = DOMAIN logs \cup {Len(logs) + 1}
        BY <2>1
      <3>2. \A i \in DOMAIN logs : Append(logs, row)[i] = logs[i]
        BY <2>1
      <3>3. Append(logs, row)[Len(logs) + 1] = row
        BY <2>1
      <3>. QED
        BY <2>1, <3>1, <3>2, <3>3 DEF Logged
    <2>3. Charged' \subseteq Charged
      BY <1>3, <2>2 DEF Charged, Persist
    <2>4. UNCHANGED <<stage, real, outcome>>
      BY <1>3 DEF Persist
    <2>. QED
      BY <1>1, <1>2, <2>3, <2>4, ServedFrame
  <1>4. ASSUME NEW route \in Routes, NEW rk \in RealKeys, NEW id \in UUIDs, NEW ik \in Keys,
               AdminAddKey(route, rk, id, ik)
        PROVE  ServedInv'
    BY <1>1, <1>2, <1>4, ServedFrame DEF AdminAddKey, Charged
  <1>5. ASSUME NEW uid \in UUIDs, AdminDeleteKey(uid) PROVE ServedInv'
    BY <1>1, <1>2, <1>5, ServedFrame DEF AdminDeleteKey, Charged
  <1>6. CASE Restart
    <2>1. Charged' \subseteq Charged
      BY <1>6 DEF Restart, Charged
    <2>2. \A r \in Records :
             /\ stage'[r] = stage[r] \/ stage'[r] = "over"
             /\ real'[r] = real[r]
             /\ \/ outcome'[r] = outcome[r]
                \/ outcome[r] = "none" /\ outcome'[r] = "unserved" /\ stage'[r] = "over"
      BY <1>6 DEF Restart
    <2>. QED
      BY <1>1, <1>2, <2>1, <2>2, ServedFrame
  <1>7. CASE NextDay \/ UNCHANGED vars
    BY <1>1, <1>2, <1>7, ServedFrame DEF NextDay, vars, Charged
  <1>. QED
    BY <1>3, <1>4, <1>5, <1>6, <1>7, ServedHandler DEF Next

-----------------------------------------------------------------------------
(* The tables change only by a row that is posted. *)
LEMMA LedgerSteps ==
    ASSUME GateType, [Next]_vars
    PROVE  \/ UNCHANGED ledger
           \/ \E row \in pipe :
                 /\ row \in LogRow /\ Persist(row)
                 /\ logs' = Append(logs, row)
                 /\ daily' = Upsert(daily, DailyCell(row.rec, row.day), row.rec)
                 /\ monthly' = Upsert(monthly, MonthlyCell(row.rec, row.day), row.rec)
  <1>1. ASSUME NEW r \in Records, HandlerStep(r) PROVE UNCHANGED ledger
    BY <1>1, HandlerFrame
  <1>2. CASE \/ \E route \in Routes, rk \in RealKeys, id \in UUIDs, ik \in Keys :
                   AdminAddKey(route, rk, id, ik)
             \/ \E uid \in UUIDs : AdminDeleteKey(uid)
             \/ Restart \/ NextDay \/ UNCHANGED vars
    BY <1>2 DEF AdminAddKey, AdminDeleteKey, Restart, NextDay, vars
  <1>. QED
    BY <1>1, <1>2, PersistTables DEF Next

(* Nothing is read from empty caches, and nothing is logged. *)
LEMMA QueryInit == Init => QueryInv
  <1>. SUFFICES ASSUME Init, NEW r \in Records, NEW w \in Windows, NEW d \in Days
                PROVE  ReadsMatch(logs, daily, monthly, r, w, d)
    BY DEF QueryInv
  <1>1. /\ logs = <<>> /\ daily = [cell \in DailyCells |-> ZeroRow]
        /\ monthly = [cell \in MonthlyCells |-> ZeroRow]
    BY SameSchema DEF Init, Ledger!Init, EmptyDatabase
  <1>2. \A k \in ScopeKeys(r) : /\ <<k, Usage[r].route, d>> \in DailyCells
                                /\ <<k, Usage[r].route, MonthOf[d]>> \in MonthlyCells
    BY RequestTypes, CalendarAssumption DEF DailyCells, MonthlyCells
  <1>. DEFINE reads == QueryReads(daily, monthly, r, w, d)
  <1>3. DOMAIN reads = ScopeKeys(r) /\ \A k \in ScopeKeys(r) : reads[k] = 0
    BY <1>1, <1>2 DEF QueryReads, ZeroRow, Columns
  <1>. HIDE DEF reads
  <1>4. Units(reads) = {}
    BY <1>3 DEF Units
  <1>5. IsFiniteSet(Units(reads)) /\ SumOf(reads) = 0
    BY <1>4, FS_EmptySet DEF SumOf
  <1>6. ScopeRows(logs, r, w, Period(w, d), {}) = {}
    BY <1>1 DEF ScopeRows
  <1>. QED
    BY <1>5, <1>6, NoRows DEF ReadsMatch, LogTokens, reads

(* What the checks read stays what the log says. *)
LEMMA QueryNext ==
    ASSUME GateType, QueryInv, [Next]_vars
    PROVE  QueryInv'
  <1>1. CASE UNCHANGED ledger
    BY <1>1 DEF QueryInv
  <1>2. ASSUME NEW row \in pipe, row \in LogRow, logs' = Append(logs, row),
               daily' = Upsert(daily, DailyCell(row.rec, row.day), row.rec),
               monthly' = Upsert(monthly, MonthlyCell(row.rec, row.day), row.rec)
        PROVE  QueryInv'
    <2>. SUFFICES ASSUME NEW r \in Records, NEW w \in Windows, NEW d \in Days
                  PROVE  ReadsMatch(logs', daily', monthly', r, w, d)
      BY DEF QueryInv
    <2>1. ReadsMatch(logs, daily, monthly, r, w, d)
      BY DEF QueryInv
    <2>. QED
      BY <1>2, <2>1, PostMatches DEF GateType
  <1>. QED
    BY <1>1, <1>2, LedgerSteps

(* What a check compares is what the log says. *)
LEMMA QueryIsScope ==
    ASSUME QueryInv, NEW r \in Records, NEW w \in Windows, NEW d \in Days
    PROVE  QueryTokens(r, w, d) = LogTokens(logs, r, w, Period(w, d), {})
  BY Scopes DEF QueryInv, ReadsMatch

(* The sums of a log are natural numbers; leaving out more records makes   *)
(* them no larger.                                                         *)
LEMMA ScopeOrder ==
    ASSUME NEW log \in Seq(LogRow), NEW r, NEW w, NEW p, NEW X, NEW Y, X \subseteq Y
    PROVE  /\ LogTokens(log, r, w, p, X) \in Nat /\ LogTokens(log, r, w, p, Y) \in Nat
           /\ LogTokens(log, r, w, p, Y) <= LogTokens(log, r, w, p, X)
  <1>. DEFINE x == ScopeRows(log, r, w, p, X)
              y == ScopeRows(log, r, w, p, Y)
  <1>1. x \in SUBSET DOMAIN log /\ y \in SUBSET x /\ y \in SUBSET DOMAIN log
    BY DEF ScopeRows
  <1>2. "tokens" \in Columns
    BY DEF Columns
  <1>. HIDE DEF x, y
  <1>3. Total(log, x, "tokens") \in Nat /\ Total(log, y, "tokens") \in Nat
    BY <1>1, <1>2, FiniteAmounts
  <1>4. Total(log, y, "tokens") <= Total(log, x, "tokens")
    BY <1>1, <1>2, FewerRows
  <1>. QED
    BY <1>3, <1>4 DEF LogTokens, x, y

(* An appended row adds its tokens to the scopes it counts in, and changes *)
(* no other.                                                               *)
LEMMA ScopeAppend ==
    ASSUME NEW log \in Seq(LogRow), NEW row \in LogRow, NEW r, NEW w, NEW p, NEW X
    PROVE  /\ LogTokens(log, r, w, p, X) <= LogTokens(Append(log, row), r, w, p, X)
           /\ ~(/\ Usage[row.rec].route = Usage[r].route
                /\ Usage[row.rec].key \in ScopeKeys(r)
                /\ Period(w, row.day) = p
                /\ row.rec \notin X)
              => LogTokens(Append(log, row), r, w, p, X) = LogTokens(log, r, w, p, X)
  <1>. DEFINE rows == ScopeRows(log, r, w, p, X)
              rows2 == ScopeRows(Append(log, row), r, w, p, X)
              counts == /\ Usage[row.rec].route = Usage[r].route
                        /\ Usage[row.rec].key \in ScopeKeys(r)
                        /\ Period(w, row.day) = p
                        /\ row.rec \notin X
  <1>1. rows \in SUBSET DOMAIN log /\ "tokens" \in Columns /\ row.rec \in Records
    BY DEF ScopeRows, Columns, LogRow
  <1>2. rows2 = IF counts THEN rows \cup {Len(log) + 1} ELSE rows
    BY ScopeRowsAppend
  <1>. HIDE DEF rows, rows2, counts
  <1>3. Total(log, rows, "tokens") \in Nat /\ IsFiniteSet(Units(Amounts(log, rows, "tokens")))
    BY <1>1, FiniteAmounts
  <1>4. Total(Append(log, row), rows, "tokens") = Total(log, rows, "tokens")
    BY <1>1, AmountsAppend DEF Total
  <1>5. Total(Append(log, row), rows \cup {Len(log) + 1}, "tokens")
           = Total(log, rows, "tokens") + Contribution(row.rec)["tokens"]
    BY <1>1, <1>3, TotalAppend
  <1>6. Contribution(row.rec)["tokens"] \in Nat
    BY <1>1, ContributionType
  <1>7. CASE counts
    <2>1. rows2 = rows \cup {Len(log) + 1}
      BY <1>2, <1>7
    <2>. QED
      BY <1>3, <1>5, <1>6, <1>7, <2>1 DEF LogTokens, rows, rows2, counts
  <1>8. CASE ~counts
    <2>1. rows2 = rows
      BY <1>2, <1>8
    <2>. QED
      BY <1>3, <1>4, <1>8, <2>1 DEF LogTokens, rows, rows2, counts
  <1>. QED
    BY <1>7, <1>8

(* The log only grows: what counts in a scope never becomes less. *)
LEMMA ScopeGrows ==
    ASSUME GateType, GateType', [Next]_vars, NEW r, NEW w, NEW p, NEW X
    PROVE  /\ LogTokens(logs, r, w, p, X) \in Nat /\ LogTokens(logs', r, w, p, X) \in Nat
           /\ LogTokens(logs, r, w, p, X) <= LogTokens(logs', r, w, p, X)
  <1>1. logs \in Seq(LogRow) /\ logs' \in Seq(LogRow)
    BY DEF GateType
  <1>2. LogTokens(logs, r, w, p, X) \in Nat /\ LogTokens(logs', r, w, p, X) \in Nat
    BY <1>1, ScopeOrder
  <1>3. \/ logs' = logs
        \/ \E row \in LogRow : logs' = Append(logs, row)
    BY LedgerSteps
  <1>4. CASE logs' = logs
    BY <1>2, <1>4
  <1>5. ASSUME NEW row \in LogRow, logs' = Append(logs, row)
        PROVE  LogTokens(logs, r, w, p, X) <= LogTokens(logs', r, w, p, X)
    <2>1. LogTokens(logs, r, w, p, X) <= LogTokens(Append(logs, row), r, w, p, X)
      BY <1>1, ScopeAppend
    <2>. QED
      BY <1>5, <2>1
  <1>. QED
    BY <1>2, <1>3, <1>4, <1>5

-----------------------------------------------------------------------------
(* A denial compares what the log bears out; later the log only grows, and *)
(* the date of the check stays.                                            *)
LEMMA DenialNext ==
    ASSUME GateType, GateType', ServedInv, QueryInv, Justified, [Next]_vars
    PROVE  Justified'
  <1>. SUFFICES ASSUME NEW r \in Records, outcome'[r] = "denied"
                PROVE  \E w \in Windows :
                          /\ Limit(r, w) > 0
                          /\ LogTokens(logs', r, w, Period(w, now'[r]), {}) + Estimate[r] > Limit(r, w)
    BY DEF Justified
  <1>1. /\ Estimate[r] \in Nat /\ \A w \in Windows : Limit(r, w) \in Nat
    BY RequestTypes
  <1>2. \A w, p : /\ LogTokens(logs, r, w, p, {}) \in Nat /\ LogTokens(logs', r, w, p, {}) \in Nat
                  /\ LogTokens(logs, r, w, p, {}) <= LogTokens(logs', r, w, p, {})
    BY ScopeGrows
  <1>3. \/ outcome[r] = "denied" /\ now'[r] = now[r]
        \/ /\ now'[r] = now[r]
           /\ \E w \in Windows : /\ Limit(r, w) > 0
                                 /\ LogTokens(logs, r, w, Period(w, now[r]), {}) + Estimate[r] > Limit(r, w)
    <2>1. ASSUME NEW q \in Records, HandlerStep(q), q # r PROVE outcome[r] = "denied" /\ now'[r] = now[r]
      BY <2>1, HandlerFrame
    <2>2. CASE CheckDaily(r) \/ CheckMonthly(r)
      <3>1. PICK w \in Windows :
                /\ stage[r] = w /\ now'[r] = now[r] /\ stage'[r] # w
                /\ outcome[r] = "denied" \/ (Limit(r, w) > 0 /\ Exceeds(r, w, now[r]))
        BY <2>2 DEF CheckDaily, CheckMonthly, CheckWindow, Answer, Advance, Windows, GateType, TypeOK
      <3>2. now[r] \in Days
        BY <3>1 DEF GateType, Windows
      <3>. QED
        BY <3>1, <3>2, QueryIsScope DEF Exceeds
    <2>3. CASE Authenticate(r) \/ StartQuotaCheck(r)
      BY <2>3 DEF Authenticate, StartQuotaCheck, Answer, Advance, ServedInv, GateType, TypeOK
    <2>4. CASE UpstreamFails(r) \/ UpstreamRefuses(r) \/ AnswerOneShot(r) \/ AnswerTruncated(r)
      BY <2>4 DEF UpstreamFails, UpstreamRefuses, AnswerOneShot, AnswerTruncated, Answer, Advance,
             GateType, TypeOK
    <2>5. CASE StartStream(r) \/ EndStream(r) \/ EmitStreamed(r)
      BY <2>5 DEF StartStream, EndStream, EmitStreamed, Answer, Advance, GateType, TypeOK
    <2>6. ASSUME NEW row \in pipe, Persist(row) PROVE outcome[r] = "denied" /\ now'[r] = now[r]
      BY <2>6 DEF Persist
    <2>7. CASE \/ \E route \in Routes, rk \in RealKeys, id \in UUIDs, ik \in Keys :
                     AdminAddKey(route, rk, id, ik)
               \/ \E uid \in UUIDs : AdminDeleteKey(uid)
               \/ Restart \/ NextDay \/ UNCHANGED vars
      BY <2>7 DEF AdminAddKey, AdminDeleteKey, Restart, NextDay, vars
    <2>. QED
      BY <2>1, <2>2, <2>3, <2>4, <2>5, <2>6, <2>7 DEF Next, HandlerStep
  <1>4. PICK w \in Windows :
            /\ Limit(r, w) > 0 /\ now'[r] = now[r]
            /\ LogTokens(logs, r, w, Period(w, now[r]), {}) + Estimate[r] > Limit(r, w)
    BY <1>3 DEF Justified
  <1>5. LogTokens(logs', r, w, Period(w, now'[r]), {}) + Estimate[r] > Limit(r, w)
    BY <1>1, <1>2, <1>4
  <1>. QED
    BY <1>4, <1>5

-----------------------------------------------------------------------------
(* Days never count in a month, nor months in a day. *)
LEMMA OtherWindow ==
    ASSUME NEW log \in Seq(LogRow), NEW r, NEW X, NEW w \in Windows, NEW v \in Windows,
           w # v, NEW d \in Days
    PROVE  LogTokens(log, r, w, Period(v, d), X) = 0
  <1>1. \A i \in DOMAIN log : log[i] \in LogRow
    OBVIOUS
  <1>2. \A i \in DOMAIN log : Period(w, log[i].day) # Period(v, d)
    BY <1>1, CalendarAssumption, PeriodAssumption DEF LogRow, Period, Windows
  <1>3. ScopeRows(log, r, w, Period(v, d), X) = {}
    BY <1>2 DEF ScopeRows
  <1>. QED
    BY <1>3, NoRows DEF LogTokens

(* Nothing has been charged yet in a period that starts tomorrow. *)
LEMMA FreshPeriod ==
    ASSUME NEW log \in Seq(LogRow), NEW r, NEW X, NEW w \in Windows, NEW v \in Windows,
           NEW d \in Days, d + 1 \in Days, \A i \in DOMAIN log : log[i].day <= d,
           Period(v, d + 1) # Period(v, d)
    PROVE  LogTokens(log, r, w, Period(v, d + 1), X) = 0
  <1>1. \A i \in DOMAIN log : log[i] \in LogRow
    OBVIOUS
  <1>2. \A i \in DOMAIN log : log[i].day \in Days /\ log[i].day <= d /\ d <= d + 1
    BY <1>1, PeriodAssumption DEF LogRow
  <1>3. CASE w = v
    <2>1. \A i \in DOMAIN log : Period(v, log[i].day) # Period(v, d + 1)
      BY <1>2, MonthsAssumption, PeriodAssumption DEF Period
    <2>2. ScopeRows(log, r, w, Period(v, d + 1), X) = {}
      BY <1>3, <2>1 DEF ScopeRows
    <2>. QED
      BY <2>2, NoRows DEF LogTokens
  <1>. QED
    BY <1>3, OtherWindow

(* A request in flight stays covered when a check passes or a period       *)
(* begins: the set that is then recorded contains it.                      *)
LEMMA CoveredGrows ==
    ASSUME NEW q \in Records, q \in InFlight, NEW w \in Windows, NEW p \in Periods,
           \A s \in Keys \X Routes \X Periods : overlap'[s] = overlap[s] \/ overlap'[s] = InFlight,
           unchecked[w] \subseteq unchecked'[w],
           Covered(overlap, unchecked, q, w, p)
    PROVE  Covered(overlap', unchecked', q, w, p)
  <1>1. \A k \in ScopeKeys(q) : <<k, Usage[q].route, p>> \in Keys \X Routes \X Periods
    BY RequestTypes
  <1>. QED
    BY <1>1 DEF Covered

(* How a handler changes the history. *)
LEMMA HistoryHandler ==
    ASSUME GateType, NEW r \in Records, HandlerStep(r)
    PROVE  /\ \A s \in Keys \X Routes \X Periods :
                 overlap'[s] = overlap[s] \/ overlap'[s] = InFlight
           /\ \A w \in Windows : unchecked[w] \subseteq unchecked'[w]
  <1>1. CASE CheckDaily(r) \/ CheckMonthly(r)
    BY <1>1 DEF CheckDaily, CheckMonthly, CheckWindow, GateType
  <1>2. CASE ~(CheckDaily(r) \/ CheckMonthly(r))
    BY <1>2 DEF HandlerStep, Authenticate, StartQuotaCheck, UpstreamFails, UpstreamRefuses,
           AnswerOneShot, AnswerTruncated, StartStream, EndStream, EmitStreamed
  <1>. QED
    BY <1>1, <1>2

(* Every request in flight, and every row on its way, is covered.          *)
LEMMA FlightFacts ==
    ASSUME GateType
    PROVE  /\ InFlight \subseteq Records
           /\ \A r \in Records, w \in Windows :
                 PassedCheck(r, w) \/ BeforeCheck(r, w) => r \in InFlight
           /\ \A row \in pipe : row.rec \in InFlight /\ row.rec \in Records /\ row.day \in Days
  BY DEF GateType, TypeOK, LogRow, InFlight, PassedCheck, BeforeCheck

(* The handler of a request keeps the others covered, and covers its own   *)
(* before it sends it upstream.                                            *)
LEMMA CoveredHandler ==
    ASSUME GateType, BudgetInv, NEW r \in Records, HandlerStep(r)
    PROVE  ChecksCovered'
  <1>. SUFFICES ASSUME NEW q \in Records, NEW w \in Windows, Limit(q, w) > 0
                PROVE  /\ PassedCheck(q, w)' => CoveredToday(q, w)'
                       /\ BeforeCheck(q, w)' =>
                             Period(w, now'[q]) = Period(w, today') \/ CoveredToday(q, w)'
    BY DEF ChecksCovered
  <1>1. /\ today' = today /\ Period(w, today) \in Periods
        /\ \A s \in Records \ {r} : stage'[s] = stage[s] /\ now'[s] = now[s]
        /\ stage[r] \notin {"idle", "body"} => now'[r] = now[r]
    BY HandlerFrame, RequestTypes DEF GateType, TypeOK
  <1>2. /\ PassedCheck(q, w) => CoveredToday(q, w)
        /\ BeforeCheck(q, w) => Period(w, now[q]) = Period(w, today) \/ CoveredToday(q, w)
    BY DEF BudgetInv, ChecksCovered
  <1>3. q \in InFlight /\ CoveredToday(q, w) => CoveredToday(q, w)'
    <2>. SUFFICES ASSUME q \in InFlight, Covered(overlap, unchecked, q, w, Period(w, today))
                  PROVE  Covered(overlap', unchecked', q, w, Period(w, today'))
      BY DEF CoveredToday
    <2>1. /\ \A s \in Keys \X Routes \X Periods :
                overlap'[s] = overlap[s] \/ overlap'[s] = InFlight
          /\ unchecked[w] \subseteq unchecked'[w]
      BY HistoryHandler
    <2>2. Covered(overlap', unchecked', q, w, Period(w, today))
      BY <1>1, <2>1, CoveredGrows
    <2>. QED
      BY <1>1, <2>2
  <1>4. PassedCheck(q, w) \/ BeforeCheck(q, w) => q \in InFlight
    BY FlightFacts
  <1>5. CASE q # r
    BY <1>1, <1>2, <1>3, <1>4, <1>5 DEF PassedCheck, BeforeCheck
  <1>6. ASSUME q = r, NEW v \in Windows, NEW skipped, NEW next, CheckWindow(r, v, skipped, next),
               \/ v = "daily" /\ skipped = Windows /\ next = "monthly"
               \/ v = "monthly" /\ skipped = {"monthly"} /\ next = "upstream"
        PROVE  /\ PassedCheck(q, w)' => CoveredToday(q, w)'
               /\ BeforeCheck(q, w)' =>
                     Period(w, now'[q]) = Period(w, today') \/ CoveredToday(q, w)'
    <2>. USE DEF Windows, PassedCheck, BeforeCheck
    <2>1. stage[q] = v /\ now'[q] = now[q] /\ q \in InFlight
      BY <1>1, <1>4, <1>6 DEF CheckWindow
    <2>2. CASE w # v
      <3>1. PassedCheck(q, w)' /\ ~PassedCheck(q, w) => w \in skipped /\ Limit(r, v) > 0
                                                       /\ unchecked' = [x \in Windows |->
                              IF x \in skipped THEN unchecked[x] \cup {r} ELSE unchecked[x]]
        BY <1>6, <2>1, <2>2 DEF CheckWindow, Advance, Answer, GateType, TypeOK
      <3>2. PassedCheck(q, w)' /\ ~PassedCheck(q, w) => CoveredToday(q, w)'
        BY <1>6, <3>1 DEF CoveredToday, Covered
      <3>3. BeforeCheck(q, w)' => BeforeCheck(q, w)
        BY <1>6, <2>1, <2>2 DEF CheckWindow, Advance, Answer, GateType, TypeOK
      <3>. QED
        BY <1>1, <1>2, <1>3, <2>1, <3>2, <3>3
    <2>3. CASE w = v /\ stage'[q] # "over"
      <3>1. BeforeCheck(q, w) /\ ~BeforeCheck(q, w)'
        BY <1>6, <2>1, <2>3 DEF CheckWindow, Advance, Answer, GateType, TypeOK
      <3>2. CASE unchecked' = [x \in Windows |->
                     IF x \in skipped THEN unchecked[x] \cup {r} ELSE unchecked[x]]
        BY <1>6, <2>3, <3>1, <3>2 DEF CoveredToday, Covered
      <3>3. CASE overlap' = [s \in DOMAIN overlap |->
                     IF s \in ScopeKeys(r) \X {Usage[r].route} \X {Period(w, now[r])}
                     THEN InFlight ELSE overlap[s]]
        <4>1. CASE Period(w, now[q]) = Period(w, today)
          <5>1. \A k \in ScopeKeys(r) : <<k, Usage[r].route, Period(w, today)>> \in DOMAIN overlap
            BY <1>1, RequestTypes DEF GateType
          <5>2. \A k \in ScopeKeys(r) : overlap'[<<k, Usage[r].route, Period(w, today)>>] = InFlight
            BY <1>6, <3>3, <4>1, <5>1
          <5>. QED
            BY <1>1, <1>6, <2>1, <3>1, <5>2 DEF CoveredToday, Covered
        <4>. QED
          BY <1>2, <1>3, <2>1, <3>1, <4>1
      <3>. QED
        BY <1>6, <2>3, <3>2, <3>3 DEF CheckWindow, Answer, GateType, TypeOK
    <2>4. CASE stage'[q] = "over"
      BY <2>4
    <2>. QED
      BY <2>2, <2>3, <2>4
  <1>7. CASE q = r /\ StartQuotaCheck(r)
    BY <1>1, <1>7 DEF StartQuotaCheck, Advance, PassedCheck, BeforeCheck, GateType, TypeOK
  <1>8. CASE q = r /\ ~(CheckDaily(r) \/ CheckMonthly(r) \/ StartQuotaCheck(r))
    <2>1. PassedCheck(q, w)' => PassedCheck(q, w)
      BY <1>8 DEF HandlerStep, Authenticate, UpstreamFails, UpstreamRefuses, AnswerOneShot,
             AnswerTruncated, StartStream, EndStream, EmitStreamed, Answer, Advance,
             PassedCheck, GateType, TypeOK
    <2>2. ~BeforeCheck(q, w)'
      BY <1>8 DEF HandlerStep, Authenticate, UpstreamFails, UpstreamRefuses, AnswerOneShot,
             AnswerTruncated, StartStream, EndStream, EmitStreamed, Answer, Advance,
             BeforeCheck, GateType, TypeOK
    <2>. QED
      BY <1>2, <1>3, <1>4, <2>1, <2>2
  <1>. QED
    BY <1>5, <1>6, <1>7, <1>8 DEF CheckDaily, CheckMonthly, Windows

(* A row enters the pipe with the date of today, and its request has       *)
(* passed every check.                                                     *)
LEMMA RowsHandler ==
    ASSUME GateType, BudgetInv, NEW r \in Records, HandlerStep(r)
    PROVE  Dated' /\ RowsCovered'
  <1>1. /\ logs' = logs /\ today' = today /\ today \in Nat
        /\ pipe' \subseteq pipe \cup {[rec |-> r, day |-> today]}
        /\ pipe' # pipe => PassedCheck(r, "daily") /\ PassedCheck(r, "monthly")
    BY HandlerFrame, PeriodAssumption DEF GateType, TypeOK, PassedCheck
  <1>2. Dated'
    BY <1>1 DEF BudgetInv, Dated
  <1>3. ASSUME NEW row \in pipe', NEW w \in Windows, Limit(row.rec, w) > 0
        PROVE  Covered(overlap', unchecked', row.rec, w, Period(w, row.day))
    <2>1. /\ \A s \in Keys \X Routes \X Periods :
                overlap'[s] = overlap[s] \/ overlap'[s] = InFlight
          /\ unchecked[w] \subseteq unchecked'[w]
      BY HistoryHandler
    <2>2. /\ row.rec \in Records /\ row.rec \in InFlight /\ row.day \in Days
          /\ Covered(overlap, unchecked, row.rec, w, Period(w, row.day))
      <3>1. CASE row \in pipe
        BY <1>3, <3>1, FlightFacts DEF BudgetInv, RowsCovered
      <3>2. CASE row \notin pipe
        <4>1. row.rec = r /\ row.day = today /\ PassedCheck(r, w)
          BY <1>1, <3>2 DEF Windows
        <4>. QED
          BY <1>3, <4>1, FlightFacts DEF BudgetInv, ChecksCovered, CoveredToday, GateType, TypeOK
      <3>. QED
        BY <3>1, <3>2
    <2>3. Period(w, row.day) \in Periods
      BY <2>2, RequestTypes
    <2>. QED
      BY <2>1, <2>2, <2>3, CoveredGrows
  <1>. QED
    BY <1>2, <1>3 DEF RowsCovered

(* A check that passes knows what the scope has used: all of it, apart     *)
(* from what is in flight, is within the limit from then on.               *)
LEMMA BudgetHandler ==
    ASSUME GateType, QueryInv, BudgetInv, NEW r \in Records, HandlerStep(r)
    PROVE  WithinBudget'
  <1>. SUFFICES ASSUME NEW q \in Records, NEW v \in Windows, NEW p \in Periods, Limit(q, v) > 0
                PROVE  LogTokens(logs', q, v, p,
                          overlap'[<<Usage[q].key, Usage[q].route, p>>] \cup unchecked'[v]) <= Limit(q, v)
    BY DEF WithinBudget
  <1>. DEFINE cell == <<Usage[q].key, Usage[q].route, p>>
  <1>1. /\ logs' = logs /\ logs \in Seq(LogRow) /\ Limit(q, v) \in Nat
        /\ cell \in Keys \X Routes \X Periods
    BY HandlerFrame, RequestTypes DEF GateType
  <1>2. LogTokens(logs, q, v, p, overlap[cell] \cup unchecked[v]) <= Limit(q, v)
    BY DEF BudgetInv, WithinBudget
  <1>3. unchecked[v] \subseteq unchecked'[v]
    BY HistoryHandler
  <1>4. CASE overlap'[cell] = overlap[cell]
    <2>1. overlap[cell] \cup unchecked[v] \subseteq overlap'[cell] \cup unchecked'[v]
      BY <1>3, <1>4
    <2>. HIDE DEF cell
    <2>2. /\ LogTokens(logs, q, v, p, overlap[cell] \cup unchecked[v]) \in Nat
          /\ LogTokens(logs, q, v, p, overlap'[cell] \cup unchecked'[v]) \in Nat
          /\ LogTokens(logs, q, v, p, overlap'[cell] \cup unchecked'[v])
                <= LogTokens(logs, q, v, p, overlap[cell] \cup unchecked[v])
      BY <1>1, <2>1, ScopeOrder
    <2>. QED
      BY <1>1, <1>2, <2>2 DEF cell
  <1>5. CASE overlap'[cell] # overlap[cell]
    <2>1. PICK w \in Windows :
              /\ stage[r] = w /\ now[r] \in Days /\ ~Exceeds(r, w, now[r])
              /\ Usage[q].route = Usage[r].route /\ Usage[q].key \in ScopeKeys(r)
              /\ p = Period(w, now[r])
      <3>1. CheckDaily(r) \/ CheckMonthly(r)
        BY <1>5 DEF HandlerStep, Authenticate, StartQuotaCheck, UpstreamFails, UpstreamRefuses,
               AnswerOneShot, AnswerTruncated, StartStream, EndStream, EmitStreamed
      <3>2. PICK w \in Windows :
                /\ stage[r] = w /\ ~Exceeds(r, w, now[r])
                /\ overlap' = [s \in DOMAIN overlap |->
                      IF s \in ScopeKeys(r) \X {Usage[r].route} \X {Period(w, now[r])}
                      THEN InFlight ELSE overlap[s]]
        BY <1>5, <3>1 DEF CheckDaily, CheckMonthly, CheckWindow, Windows
      <3>3. cell \in ScopeKeys(r) \X {Usage[r].route} \X {Period(w, now[r])}
        BY <1>1, <1>5, <3>2 DEF GateType
      <3>. QED
        BY <3>2, <3>3 DEF GateType, Windows
    <2>2. CASE w # v
      <3>1. LogTokens(logs, q, v, p, overlap'[cell] \cup unchecked'[v]) = 0
        <4>. HIDE DEF cell
        <4>. QED
          BY <1>1, <2>1, <2>2, OtherWindow
      <3>. QED
        BY <1>1, <3>1
    <2>3. CASE w = v
      <3>1. ScopeKeys(q) = ScopeKeys(r) /\ Limit(q, v) = Limit(r, v)
        BY <2>1, ScopeMates
      <3>2. /\ LogTokens(logs, r, w, p, {}) = QueryTokens(r, w, now[r])
            /\ Estimate[r] \in Nat
        BY <2>1, QueryIsScope, RequestTypes
      <3>3. LogTokens(logs, q, v, p, {}) = LogTokens(logs, r, w, p, {})
        BY <2>1, <2>3, <3>1 DEF LogTokens, ScopeRows
      <3>4. /\ LogTokens(logs, q, v, p, {}) \in Nat
            /\ LogTokens(logs, q, v, p, overlap'[cell] \cup unchecked'[v]) \in Nat
            /\ LogTokens(logs, q, v, p, overlap'[cell] \cup unchecked'[v])
                  <= LogTokens(logs, q, v, p, {})
        <4>. HIDE DEF cell
        <4>. QED
          BY <1>1, ScopeOrder
      <3>5. LogTokens(logs, q, v, p, {}) + Estimate[r] <= Limit(q, v)
        BY <1>1, <2>1, <2>3, <3>1, <3>2, <3>3, <3>4 DEF Exceeds
      <3>. QED
        BY <1>1, <3>2, <3>4, <3>5
    <2>. QED
      BY <2>2, <2>3
  <1>. QED
    BY <1>4, <1>5

(* A posted row was covered in its period, so that it does not count.      *)
LEMMA BudgetPersist ==
    ASSUME GateType, BudgetInv, NEW row \in pipe, Persist(row)
    PROVE  BudgetInv'
  <1>1. /\ row \in LogRow /\ row.rec \in Records /\ row.day \in Days /\ row.day <= today
        /\ logs' = logs \/ logs' = Append(logs, row)
        /\ logs \in Seq(LogRow)
    BY PersistTables DEF GateType, BudgetInv, Dated
  <1>2. UNCHANGED <<today, stage, now, unchecked, overlap>> /\ pipe' \subseteq pipe
    BY DEF Persist
  <1>3. Dated'
    <2>1. ASSUME logs' = Append(logs, row), NEW i \in DOMAIN logs' PROVE logs'[i].day <= today
      <3>1. i \in DOMAIN logs \/ i = Len(logs) + 1
        BY <1>1, <2>1
      <3>2. logs'[i] = IF i \in DOMAIN logs THEN logs[i] ELSE row
        BY <1>1, <2>1, <3>1
      <3>. QED
        BY <1>1, <3>2 DEF BudgetInv, Dated
    <2>. QED
      BY <1>1, <1>2, <2>1 DEF BudgetInv, Dated
  <1>4. ChecksCovered'
    BY <1>2 DEF BudgetInv, ChecksCovered, PassedCheck, BeforeCheck, CoveredToday
  <1>5. RowsCovered'
    BY <1>2 DEF BudgetInv, RowsCovered
  <1>6. ASSUME NEW q \in Records, NEW w \in Windows, NEW p \in Periods, Limit(q, w) > 0
        PROVE  LogTokens(logs', q, w, p,
                  overlap[<<Usage[q].key, Usage[q].route, p>>] \cup unchecked[w]) <= Limit(q, w)
    <2>. DEFINE X == overlap[<<Usage[q].key, Usage[q].route, p>>] \cup unchecked[w]
    <2>1. LogTokens(logs, q, w, p, X) <= Limit(q, w)
      BY <1>6 DEF BudgetInv, WithinBudget
    <2>2. ~(/\ Usage[row.rec].route = Usage[q].route
            /\ Usage[row.rec].key \in ScopeKeys(q)
            /\ Period(w, row.day) = p
            /\ row.rec \notin X)
      <3>. SUFFICES ASSUME Usage[row.rec].route = Usage[q].route,
                           Usage[row.rec].key \in ScopeKeys(q), Period(w, row.day) = p
                    PROVE  row.rec \in X
        OBVIOUS
      <3>1. Usage[q].key \in ScopeKeys(row.rec) /\ Limit(row.rec, w) = Limit(q, w)
        BY <1>1, ScopeMates
      <3>2. Covered(overlap, unchecked, row.rec, w, p)
        BY <1>6, <3>1 DEF BudgetInv, RowsCovered
      <3>. QED
        BY <3>1, <3>2 DEF Covered
    <2>. HIDE DEF X
    <2>3. LogTokens(Append(logs, row), q, w, p, X) = LogTokens(logs, q, w, p, X)
      BY <1>1, <2>2, ScopeAppend
    <2>. QED
      BY <1>1, <2>1, <2>3 DEF X
  <1>7. WithinBudget'
    BY <1>2, <1>6 DEF WithinBudget
  <1>. QED
    BY <1>3, <1>4, <1>5, <1>7 DEF BudgetInv

(* At midnight what is in flight is recorded for the periods that begin,   *)
(* in which nothing has been charged yet.                                  *)
LEMMA BudgetNextDay ==
    ASSUME GateType, BudgetInv, NextDay
    PROVE  BudgetInv'
  <1>. DEFINE New(p) == \E w \in Windows : p = Period(w, today + 1) /\ p # Period(w, today)
  <1>1. /\ today \in Nat /\ today \in Days /\ today + 1 \in Days /\ today' = today + 1
        /\ UNCHANGED <<logs, pipe, stage, now, unchecked>>
        /\ logs \in Seq(LogRow)
    BY PeriodAssumption DEF NextDay, GateType, TypeOK
  <1>2. \A s \in Keys \X Routes \X Periods :
           overlap'[s] = IF New(s[3]) THEN InFlight ELSE overlap[s]
    BY DEF NextDay, GateType
  <1>3. \A w \in Windows : Period(w, today) \in Periods /\ Period(w, today + 1) \in Periods
    BY <1>1, CalendarAssumption DEF Period, Periods
  <1>4. ASSUME NEW q \in Records, q \in InFlight, NEW w \in Windows, NEW p \in Periods,
               Covered(overlap, unchecked, q, w, p)
        PROVE  Covered(overlap', unchecked', q, w, p)
    <2>. HIDE DEF New
    <2>. QED
      BY <1>1, <1>2, <1>4, CoveredGrows
  <1>5. ASSUME NEW q \in Records, q \in InFlight, NEW w \in Windows,
               Period(w, today + 1) # Period(w, today)
        PROVE  Covered(overlap', unchecked', q, w, Period(w, today + 1))
    <2>1. New(Period(w, today + 1))
      BY <1>5
    <2>2. \A k \in ScopeKeys(q) :
             <<k, Usage[q].route, Period(w, today + 1)>> \in Keys \X Routes \X Periods
      BY <1>3, RequestTypes
    <2>. HIDE DEF New
    <2>. QED
      BY <1>2, <1>5, <2>1, <2>2 DEF Covered
  <1>6. Dated'
    <2>1. \A i \in DOMAIN logs : logs[i] \in LogRow
      BY <1>1
    <2>2. \A i \in DOMAIN logs : logs[i].day \in Nat
      BY <2>1, PeriodAssumption DEF LogRow
    <2>3. \A row \in pipe : row.day \in Nat
      BY PeriodAssumption DEF GateType, TypeOK, LogRow
    <2>. QED
      BY <1>1, <2>2, <2>3 DEF BudgetInv, Dated
  <1>7. ChecksCovered'
    <2>. SUFFICES ASSUME NEW q \in Records, NEW w \in Windows, Limit(q, w) > 0
                  PROVE  /\ PassedCheck(q, w) => Covered(overlap', unchecked', q, w, Period(w, today + 1))
                         /\ BeforeCheck(q, w) =>
                               \/ Period(w, now[q]) = Period(w, today + 1)
                               \/ Covered(overlap', unchecked', q, w, Period(w, today + 1))
      BY <1>1 DEF ChecksCovered, PassedCheck, BeforeCheck, CoveredToday
    <2>1. /\ PassedCheck(q, w) => Covered(overlap, unchecked, q, w, Period(w, today))
          /\ BeforeCheck(q, w) =>
                \/ Period(w, now[q]) = Period(w, today)
                \/ Covered(overlap, unchecked, q, w, Period(w, today))
      BY DEF BudgetInv, ChecksCovered, CoveredToday
    <2>2. PassedCheck(q, w) \/ BeforeCheck(q, w) => q \in InFlight
      BY FlightFacts
    <2>3. CASE Period(w, today + 1) = Period(w, today)
      BY <1>3, <1>4, <2>1, <2>2, <2>3
    <2>4. CASE Period(w, today + 1) # Period(w, today)
      BY <1>5, <2>2, <2>4
    <2>. QED
      BY <2>3, <2>4
  <1>8. RowsCovered'
    <2>. SUFFICES ASSUME NEW row \in pipe, NEW w \in Windows, Limit(row.rec, w) > 0
                  PROVE  Covered(overlap', unchecked', row.rec, w, Period(w, row.day))
      BY <1>1 DEF RowsCovered
    <2>1. Covered(overlap, unchecked, row.rec, w, Period(w, row.day))
      BY DEF BudgetInv, RowsCovered
    <2>2. row.rec \in InFlight /\ row.rec \in Records /\ Period(w, row.day) \in Periods
      BY FlightFacts, RequestTypes
    <2>. QED
      BY <1>4, <2>1, <2>2
  <1>9. ASSUME NEW q \in Records, NEW w \in Windows, NEW p \in Periods, Limit(q, w) > 0
        PROVE  LogTokens(logs, q, w, p,
                  overlap'[<<Usage[q].key, Usage[q].route, p>>] \cup unchecked[w]) <= Limit(q, w)
    <2>. DEFINE cell == <<Usage[q].key, Usage[q].route, p>>
    <2>1. cell \in Keys \X Routes \X Periods /\ cell[3] = p /\ Limit(q, w) \in Nat
      BY RequestTypes
    <2>2. CASE ~New(p)
      <3>1. overlap'[cell] = overlap[cell]
        BY <1>2, <2>1, <2>2
      <3>. QED
        BY <1>9, <3>1 DEF BudgetInv, WithinBudget
    <2>3. CASE New(p)
      <3>1. PICK v \in Windows : p = Period(v, today + 1) /\ p # Period(v, today)
        BY <2>3
      <3>. HIDE DEF cell, New
      <3>2. LogTokens(logs, q, w, p, overlap'[cell] \cup unchecked[w]) = 0
        BY <1>1, <3>1, FreshPeriod DEF BudgetInv, Dated
      <3>. QED
        BY <2>1, <3>2 DEF cell
    <2>. QED
      BY <2>2, <2>3
  <1>10. WithinBudget'
    BY <1>1, <1>9 DEF WithinBudget
  <1>. QED
    BY <1>6, <1>7, <1>8, <1>10 DEF BudgetInv

(* Every step keeps the budgets. *)
LEMMA BudgetNext ==
    ASSUME GateType, QueryInv, BudgetInv, [Next]_vars
    PROVE  BudgetInv'
  <1>1. ASSUME NEW r \in Records, HandlerStep(r) PROVE BudgetInv'
    BY <1>1, CoveredHandler, RowsHandler, BudgetHandler DEF BudgetInv
  <1>2. ASSUME UNCHANGED <<logs, pipe, today, stage, now, unchecked, overlap>> PROVE BudgetInv'
    BY <1>2 DEF BudgetInv, Dated, ChecksCovered, RowsCovered, WithinBudget, PassedCheck,
           BeforeCheck, CoveredToday
  <1>3. CASE \/ \E route \in Routes, rk \in RealKeys, id \in UUIDs, ik \in Keys :
                   AdminAddKey(route, rk, id, ik)
             \/ \E uid \in UUIDs : AdminDeleteKey(uid)
             \/ UNCHANGED vars
    BY <1>2, <1>3 DEF AdminAddKey, AdminDeleteKey, vars
  <1>4. CASE Restart
    <2>1. \A r \in Records : \A w : ~PassedCheck(r, w)' /\ ~BeforeCheck(r, w)'
      BY <1>4 DEF Restart, PassedCheck, BeforeCheck
    <2>. QED
      BY <1>4, <2>1 DEF Restart, BudgetInv, Dated, ChecksCovered, RowsCovered, WithinBudget
  <1>. QED
    BY <1>1, <1>3, <1>4, BudgetPersist, BudgetNextDay DEF Next

-----------------------------------------------------------------------------
(* Nothing has been asked, answered, charged or checked at the start. *)
LEMMA GateInit == Init => GateInv
  <1>. SUFFICES ASSUME Init PROVE GateInv
    OBVIOUS
  <1>1. logs = <<>> /\ pipe = {} /\ \A r \in Records : stage[r] = "idle" /\ outcome[r] = "none"
    BY SameSchema DEF Init, Ledger!Init, EmptyDatabase
  <1>2. ServedInv
    BY <1>1 DEF ServedInv, ChargedWasServed, Logged
  <1>3. Justified
    BY <1>1 DEF Justified
  <1>4. \A r, w, p, X : LogTokens(logs, r, w, p, X) = 0
    <2>1. \A r, w, p, X : ScopeRows(logs, r, w, p, X) = {}
      BY <1>1 DEF ScopeRows
    <2>. QED
      BY <2>1, NoRows DEF LogTokens
  <1>5. WithinBudget
    BY <1>4, RequestTypes DEF WithinBudget
  <1>6. BudgetInv
    BY <1>1, <1>5 DEF BudgetInv, Dated, ChecksCovered, RowsCovered, PassedCheck, BeforeCheck
  <1>. QED
    BY <1>2, <1>3, <1>6, TypeInit, QueryInit DEF GateInv

(* The invariant is inductive. *)
LEMMA GateInvariant == Spec => []GateInv
  <1>1. GateInv /\ [Next]_vars => GateInv'
    <2>. SUFFICES ASSUME GateInv, [Next]_vars PROVE GateInv'
      OBVIOUS
    <2>1. GateType' /\ IndexInv'
      BY TypeNext, IndexNext DEF GateInv
    <2>2. ServedInv' /\ QueryInv'
      BY ServedNext, QueryNext DEF GateInv
    <2>3. Justified' /\ BudgetInv'
      BY <2>1, DenialNext, BudgetNext DEF GateInv
    <2>. QED
      BY <2>1, <2>2, <2>3 DEF GateInv
  <1>. QED
    BY <1>1, GateInit, PTL DEF Spec

(* Type correctness of the data plane. *)
THEOREM TypeCorrect == Spec => []TypeOK
  <1>1. GateInv => TypeOK
    BY DEF GateInv, GateType
  <1>. QED
    BY <1>1, GateInvariant, PTL

(* Nobody is charged without having been answered 200, with the credential *)
(* his key was issued for (authInterceptor, ModifyResponse).               *)
THEOREM ChargesAreServed == Spec => []ChargedWasServed
  <1>1. GateInv => ChargedWasServed
    BY DEF GateInv, ServedInv
  <1>. QED
    BY <1>1, GateInvariant, PTL

(* A 429 is borne out by the audit log, however late its rows come in and  *)
(* whatever day it is by then (QuotaCheck).                                *)
THEOREM DenialsAreJustified == Spec => []DenialJustified
  <1>1. GateInv => DenialJustified
    BY Scopes DEF GateInv, Justified, DenialJustified
  <1>. QED
    BY <1>1, GateInvariant, PTL

(* A budget is overrun only by the requests in flight when a check last    *)
(* passed and those that a database error let through (QuotaCheck).        *)
THEOREM OverrunsAreOverlaps == Spec => []OverrunOnlyByOverlap
  <1>1. GateInv => OverrunOnlyByOverlap
    BY Scopes DEF GateInv, BudgetInv, WithinBudget, OverrunOnlyByOverlap
  <1>. QED
    BY <1>1, GateInvariant, PTL

=============================================================================
