------------------------- MODULE UsageReportsProofs -------------------------
(***************************************************************************)
(* The caches of the ledger are the totals of its audit log, whatever the  *)
(* records, keys, routes and days are; and a report that is made from them *)
(* while records keep being posted says what the log said at one instant.  *)
(***************************************************************************)
EXTENDS UsageReports, UsageSchemaProofs

LedgerType ==
    /\ logs \in Seq(LogRow)
    /\ daily \in DailyTable
    /\ monthly \in MonthlyTable

(* The balance is kept by well-formed tables only. *)
LedgerInv == LedgerType /\ Balanced(logs, daily, monthly)

(* The ledger uses the same schema. *)
LEMMA SameSchema ==
    /\ \A r, d : Ledger!DailyCell(r, d) = DailyCell(r, d)
    /\ \A r, d : Ledger!MonthlyCell(r, d) = MonthlyCell(r, d)
    /\ \A t, x, r : Ledger!Upsert(t, x, r) = Upsert(t, x, r)
    /\ Ledger!EmptyDatabase = EmptyDatabase
  BY DEF DailyCell, Ledger!DailyCell, MonthlyCell, Ledger!MonthlyCell, Upsert, Ledger!Upsert,
         Columns, Ledger!Columns, Contribution, Ledger!Contribution, EmptyDatabase,
         Ledger!EmptyDatabase, DailyCells, Ledger!DailyCells, MonthlyCells, Ledger!MonthlyCells,
         ZeroRow, Ledger!ZeroRow

(* So do its totals. *)
LEMMA SameTotals ==
    \A log, days, months : Ledger!CachesMatch(log, days, months) <=> CachesMatch(log, days, months)
  <1>1. /\ \A log, cell : Ledger!DailyRows(log, cell) = DailyRows(log, cell)
        /\ \A log, cell : Ledger!MonthlyRows(log, cell) = MonthlyRows(log, cell)
    BY SameSchema DEF DailyRows, Ledger!DailyRows, MonthlyRows, Ledger!MonthlyRows
  <1>2. \A r : Ledger!Contribution(r) = Contribution(r)
    BY DEF Contribution, Ledger!Contribution, Columns, Ledger!Columns
  <1>3. \A log, rows, c : Ledger!Amounts(log, rows, c) = Amounts(log, rows, c)
    BY <1>2 DEF Amounts, Ledger!Amounts
  <1>4. \A log, rows, c : Ledger!Total(log, rows, c) = Total(log, rows, c)
    <2>1. \A S : Ledger!Cardinality(S) = Cardinality(S)
      BY Zenon DEF Cardinality, Ledger!Cardinality
    <2>2. \A f : Ledger!Units(f) = Units(f)
      BY DEF Units, Ledger!Units
    <2>. QED
      BY <1>3, <2>1, <2>2 DEF Total, Ledger!Total, SumOf, Ledger!SumOf
  <1>5. /\ Ledger!DailyCells = DailyCells /\ Ledger!MonthlyCells = MonthlyCells
        /\ Ledger!Columns = Columns
    BY DEF DailyCells, Ledger!DailyCells, MonthlyCells, Ledger!MonthlyCells, Columns, Ledger!Columns
  <1>6. \A log, cell, c :
           /\ Ledger!Total(log, Ledger!DailyRows(log, cell), c) = Total(log, DailyRows(log, cell), c)
           /\ Ledger!Total(log, Ledger!MonthlyRows(log, cell), c)
                 = Total(log, MonthlyRows(log, cell), c)
    BY <1>1, <1>4
  <1>. QED
    BY <1>5, <1>6 DEF CachesMatch, Ledger!CachesMatch

(* An empty ledger is in balance. *)
LEMMA LedgerInit == Ledger!Init => LedgerInv
  BY EmptyDatabaseType, EmptyBalanced, SameSchema DEF Ledger!Init, LedgerInv, LedgerType, Database

(* Posting keeps the types and the balance. *)
LEMMA PostInv ==
    ASSUME LedgerInv, NEW r \in Records, NEW d \in Days, Ledger!Post(r, d)
    PROVE  LedgerInv' /\ \E row \in LogRow : logs' = Append(logs, row)
  <1>. DEFINE row == [rec |-> r, day |-> d]
  <1>1. row \in LogRow /\ row.rec = r /\ row.day = d
    BY DEF LogRow
  <1>2. /\ logs' = Append(logs, row)
        /\ daily' = Upsert(daily, DailyCell(row.rec, row.day), row.rec)
        /\ monthly' = Upsert(monthly, MonthlyCell(row.rec, row.day), row.rec)
    BY <1>1, SameSchema DEF Ledger!Post
  <1>. HIDE DEF row
  <1>3. Balanced(logs', daily', monthly')
    BY <1>1, <1>2, PostBalanced DEF LedgerInv, LedgerType
  <1>4. daily' \in DailyTable /\ monthly' \in MonthlyTable
    BY <1>1, <1>2, CellTypes, UpsertCell DEF LedgerInv, LedgerType, DailyTable, MonthlyTable
  <1>5. LedgerInv'
    BY <1>1, <1>2, <1>3, <1>4 DEF LedgerInv, LedgerType
  <1>. QED
    BY <1>1, <1>2, <1>5

(* At every moment the daily and monthly caches are exactly the totals of  *)
(* the audit log, for every calendar, every set of records and any amounts *)
(* (what executeTripleWrite promises about the three tables).              *)
THEOREM LedgerCachesMatch == Ledger!Spec => [](LedgerType /\ Ledger!CachesMatchLog)
  <1>1. Ledger!Init => LedgerInv
    BY LedgerInit
  <1>2. LedgerInv /\ [Ledger!Next]_Ledger!ledger => LedgerInv'
    BY PostInv DEF Ledger!Next, Ledger!ledger, LedgerInv, LedgerType
  <1>3. LedgerInv => LedgerType /\ Ledger!CachesMatchLog
    BY SameTotals DEF LedgerInv, Balanced, Ledger!CachesMatchLog
  <1>. QED
    BY <1>1, <1>2, <1>3, PTL DEF Ledger!Spec
-----------------------------------------------------------------------------
(* A prefix of the log: its rows are the first rows of the log, ...        *)
LEMMA PrefixRows ==
    ASSUME NEW log \in Seq(LogRow), NEW n \in 0 .. Len(log), NEW cell
    PROVE  /\ SubSeq(log, 1, n) \in Seq(LogRow) /\ Len(SubSeq(log, 1, n)) = n
           /\ DailyRows(SubSeq(log, 1, n), cell) = DailyRows(log, cell) \cap (1 .. n)
           /\ MonthlyRows(SubSeq(log, 1, n), cell) = MonthlyRows(log, cell) \cap (1 .. n)
  <1>. DEFINE s == SubSeq(log, 1, n)
  <1>1. s \in Seq(LogRow) /\ Len(s) = n /\ \A i \in 1 .. n : s[i] = log[i]
    OBVIOUS
  <1>2. DOMAIN s = 1 .. n /\ DOMAIN log = 1 .. Len(log)
    BY <1>1
  <1>. HIDE DEF s
  <1>3. DOMAIN s = DOMAIN log \cap (1 .. n)
    BY <1>2
  <1>. QED
    BY <1>1, <1>3 DEF DailyRows, MonthlyRows, s

(* ... which amount to the same.                                           *)
LEMMA PrefixTotal ==
    ASSUME NEW log \in Seq(LogRow), NEW n \in 0 .. Len(log), NEW rows \in SUBSET (1 .. n),
           NEW c \in Columns
    PROVE  /\ Total(SubSeq(log, 1, n), rows, c) = Total(log, rows, c)
           /\ rows \in SUBSET DOMAIN log
  <1>1. \A i \in rows : SubSeq(log, 1, n)[i] = log[i]
    OBVIOUS
  <1>2. Amounts(SubSeq(log, 1, n), rows, c) = Amounts(log, rows, c)
    BY <1>1 DEF Amounts
  <1>. QED
    BY <1>2 DEF Total

(* A longer prefix with more of its rows amounts to at least as much.      *)
LEMMA LongerPrefix ==
    ASSUME NEW log \in Seq(LogRow), NEW n \in 0 .. Len(log), NEW m \in 0 .. Len(log), n <= m,
           NEW rows \in SUBSET (1 .. n), NEW more \in SUBSET (1 .. m), rows \subseteq more,
           NEW c \in Columns
    PROVE  Total(SubSeq(log, 1, n), rows, c) <= Total(SubSeq(log, 1, m), more, c)
  <1>1. Total(SubSeq(log, 1, n), rows, c) = Total(log, rows, c)
    BY PrefixTotal
  <1>2. Total(SubSeq(log, 1, m), more, c) = Total(log, more, c) /\ more \in SUBSET DOMAIN log
    BY PrefixTotal
  <1>3. Total(log, rows, c) <= Total(log, more, c)
    BY <1>2, FewerRows
  <1>. QED
    BY <1>1, <1>2, <1>3

(* A prefix is not changed by what is appended.                            *)
LEMMA PrefixStays ==
    ASSUME NEW log \in Seq(LogRow), NEW row \in LogRow, NEW n \in 0 .. Len(log)
    PROVE  /\ SubSeq(Append(log, row), 1, n) = SubSeq(log, 1, n)
           /\ n \in 0 .. Len(Append(log, row))
  <1>. DEFINE s == SubSeq(Append(log, row), 1, n)
              t == SubSeq(log, 1, n)
  <1>1. Append(log, row) \in Seq(LogRow) /\ Len(Append(log, row)) = Len(log) + 1
    OBVIOUS
  <1>2. s \in Seq(LogRow) /\ t \in Seq(LogRow) /\ Len(s) = n /\ Len(t) = n
    BY <1>1
  <1>3. \A i \in 1 .. n : s[i] = t[i]
    BY <1>1
  <1>4. s = t
    BY <1>2, <1>3
  <1>. QED
    BY <1>1, <1>4

(* A cell has been counted if and only if it has rows.                     *)
LEMMA CountedRows ==
    ASSUME NEW log \in Seq(LogRow), NEW rows \in SUBSET DOMAIN log
    PROVE  Total(log, rows, "requests") > 0 <=> rows # {}
  <1>1. "requests" \in Columns
    BY DEF Columns
  <1>2. CASE rows = {}
    BY <1>2, NoRows
  <1>3. CASE rows # {}
    <2>1. PICK i \in rows : TRUE
      BY <1>3
    <2>. DEFINE f == Amounts(log, {}, "requests")
                g == Amounts(log, {i}, "requests")
    <2>2. DOMAIN f = {} /\ DOMAIN g = {i} /\ g[i] = 1
      <3>1. \A r : Contribution(r)["requests"] = 1
        BY DEF Contribution, Columns
      <3>. QED
        BY <3>1 DEF Amounts
    <2>3. IsFiniteSet(Units(f)) /\ Total(log, {}, "requests") = 0
      BY <1>1, FiniteAmounts, NoRows
    <2>. HIDE DEF f, g
    <2>4. SumOf(g) = SumOf(f) + 1
      BY <2>2, <2>3, SumExtend
    <2>5. Total(log, {i}, "requests") = 1
      BY <2>3, <2>4 DEF Total, f, g
    <2>6. {i} \in SUBSET rows
      BY <2>1
    <2>7. Total(log, {i}, "requests") <= Total(log, rows, "requests")
      BY <1>1, <2>6, FewerRows
    <2>8. Total(log, rows, "requests") \in Nat
      BY <1>1, FiniteAmounts
    <2>. QED
      BY <1>3, <2>5, <2>7, <2>8
  <1>. QED
    BY <1>2, <1>3

-----------------------------------------------------------------------------
(* The values of a function on a finite set are finitely many. *)
LEMMA FiniteImage ==
    ASSUME NEW S, IsFiniteSet(S), NEW T, NEW f \in [S -> T], \A y \in T : \E x \in S : f[x] = y
    PROVE  IsFiniteSet(T)
  <1>1. f \in Surjection(S, T)
    BY DEF Surjection
  <1>. QED
    BY <1>1, FS_Surjection

(* An ordering of finitely many rows has each of them once.                *)
LEMMA OrderingExact ==
    ASSUME NEW rows, IsFiniteSet(rows), NEW s \in Orderings(rows)
    PROVE  Exactly(s, rows)
  <1>. DEFINE D == 1 .. Cardinality(rows)
  <1>1. s \in [D -> rows] /\ \A i, j \in D : i # j => s[i] # s[j]
    BY DEF Orderings, SetToSeqs
  <1>2. IsInjective(s) /\ s \in Injection(D, rows)
    BY <1>1 DEF Injection, IsInjective
  <1>3. Cardinality(rows) \in Nat
    BY FS_CardinalityType
  <1>4. Cardinality(D) = Cardinality(rows)
    BY <1>3, FS_Interval
  <1>5. s \in Surjection(D, rows)
    BY <1>2, <1>4, FS_Injection
  <1>6. ToSet(s) = rows
    BY <1>1, <1>5 DEF Surjection, ToSet
  <1>. QED
    BY <1>2, <1>6 DEF Exactly

(* The log rows of cell x, where at[i] is the cell of row i of the log. *)
RowsAt(at, x) == {i \in DOMAIN at : at[i] = x}

(* The report that the log calls for, where of[x] are the rows of cell x.  *)
LogReport(log, cells, of) ==
    {[cell |-> x, sums |-> [k \in Columns |-> Total(log, of[x], k)]] :
        x \in {y \in cells : of[y] # {}}}

(* A cache table with cells S that matches the log.                        *)
Matches(log, S, table, at, of) ==
    /\ table \in [S -> Row]
    /\ at \in [DOMAIN log -> S]
    /\ \A x \in S : of[x] = RowsAt(at, x)
    /\ \A x \in S : \A c \in Columns : table[x][c] = Total(log, of[x], c)

(* The rows of such a table are those that the log calls for.              *)
LEMMA TableRows ==
    ASSUME NEW log \in Seq(LogRow), NEW S, NEW table, NEW at, NEW of, NEW cells \in SUBSET S,
           Matches(log, S, table, at, of)
    PROVE  /\ IsFiniteSet(Rows(table, cells))
           /\ Rows(table, cells) = LogReport(log, cells, of)
  <1>0. /\ table \in [S -> Row]
        /\ at \in [DOMAIN log -> S]
        /\ \A x \in S : of[x] = RowsAt(at, x)
        /\ \A x \in S : \A c \in Columns : table[x][c] = Total(log, of[x], c)
    BY DEF Matches
  <1>. DEFINE active == {y \in cells : of[y] # {}}
              row == [x \in active |-> [cell |-> x, sums |-> table[x]]]
  <1>1. "requests" \in Columns
    BY DEF Columns
  <1>2. {y \in cells : table[y]["requests"] > 0} = active
    <2>1. \A y \in cells : table[y]["requests"] > 0 <=> of[y] # {}
      <3>. SUFFICES ASSUME NEW y \in cells
                    PROVE  table[y]["requests"] > 0 <=> of[y] # {}
        OBVIOUS
      <3>1. of[y] \in SUBSET DOMAIN log
        BY <1>0 DEF RowsAt
      <3>2. table[y]["requests"] = Total(log, of[y], "requests")
        BY <1>0, <1>1
      <3>. QED
        BY <3>1, <3>2, CountedRows
    <2>. QED
      BY <2>1
  <1>. HIDE DEF active
  <1>3. active \subseteq {at[i] : i \in DOMAIN log}
    BY <1>0 DEF active, RowsAt
  <1>4. IsFiniteSet(active)
    <2>1. IsFiniteSet(DOMAIN log)
      <3>1. DOMAIN log = 1 .. Len(log) /\ Len(log) \in Nat
        OBVIOUS
      <3>. QED
        BY <3>1, FS_Interval
    <2>. DEFINE T == {at[i] : i \in DOMAIN log}
    <2>2. at \in [DOMAIN log -> T] /\ \A y \in T : \E i \in DOMAIN log : at[i] = y
      BY <1>0
    <2>. HIDE DEF T
    <2>3. IsFiniteSet(T)
      BY <2>1, <2>2, FiniteImage
    <2>. QED
      BY <1>3, <2>3, FS_Subset DEF T
  <1>5. Rows(table, cells) = {row[x] : x \in active}
    BY <1>2 DEF Rows
  <1>6. IsFiniteSet(Rows(table, cells))
    <2>1. /\ row \in [active -> Rows(table, cells)]
          /\ \A y \in Rows(table, cells) : \E x \in active : row[x] = y
      BY <1>5
    <2>. HIDE DEF row
    <2>. QED
      BY <1>4, <2>1, FiniteImage
  <1>7. \A x \in active : table[x] = [k \in Columns |-> Total(log, of[x], k)]
    <2>. SUFFICES ASSUME NEW x \in active
                  PROVE  table[x] = [k \in Columns |-> Total(log, of[x], k)]
      OBVIOUS
    <2>1. x \in S /\ table[x] \in [Columns -> Nat]
      BY <1>0 DEF active, Row
    <2>. QED
      BY <1>0, <2>1
  <1>8. {row[x] : x \in active} =
           {[cell |-> x, sums |-> [k \in Columns |-> Total(log, of[x], k)]] : x \in active}
    <2>1. \A x \in active :
             row[x] = [cell |-> x, sums |-> [k \in Columns |-> Total(log, of[x], k)]]
      BY <1>7, Zenon
    <2>. HIDE DEF row
    <2>. QED
      BY <2>1
  <1>. QED
    BY <1>5, <1>6, <1>8 DEF active, LogReport

(* What a query of the daily cache returns is what the log holds, ...      *)
LEMMA DailyQuery ==
    ASSUME LedgerInv, NEW cells \in SUBSET DailyCells, NEW s \in Orderings(Rows(daily, cells))
    PROVE  Exactly(s, Expected(logs, cells, DailyRows))
  <1>. DEFINE at == [i \in DOMAIN logs |-> DailyCell(logs[i].rec, logs[i].day)]
              of == [x \in DailyCells |-> DailyRows(logs, x)]
  <1>1. logs \in Seq(LogRow) /\ daily \in [DailyCells -> Row]
    BY DEF LedgerInv, LedgerType, DailyTable
  <1>2. at \in [DOMAIN logs -> DailyCells]
    <2>1. \A i \in DOMAIN logs : logs[i] \in LogRow
      BY <1>1
    <2>2. \A row \in LogRow : row.rec \in Records /\ row.day \in Days
      BY DEF LogRow
    <2>. QED
      BY <2>1, <2>2, CellTypes
  <1>3. \A x \in DailyCells : of[x] = RowsAt(at, x)
    BY DEF DailyRows, RowsAt
  <1>4. \A x \in DailyCells : \A c \in Columns : daily[x][c] = Total(logs, of[x], c)
    BY DEF LedgerInv, Balanced, CachesMatch
  <1>. HIDE DEF at
  <1>5. /\ IsFiniteSet(Rows(daily, cells))
        /\ Rows(daily, cells) = LogReport(logs, cells, of)
    <2>. HIDE DEF of
    <2>1. Matches(logs, DailyCells, daily, at, of)
      BY <1>1, <1>2, <1>3, <1>4 DEF Matches
    <2>. QED
      BY <1>1, <2>1, TableRows
  <1>6. Rows(daily, cells) = Expected(logs, cells, DailyRows)
    BY <1>5 DEF Expected, LogReport
  <1>. QED
    BY <1>5, <1>6, OrderingExact

(* ... and so is what a query of the monthly cache returns.                *)
LEMMA MonthlyQuery ==
    ASSUME LedgerInv, NEW cells \in SUBSET MonthlyCells, NEW s \in Orderings(Rows(monthly, cells))
    PROVE  Exactly(s, Expected(logs, cells, MonthlyRows))
  <1>. DEFINE at == [i \in DOMAIN logs |-> MonthlyCell(logs[i].rec, logs[i].day)]
              of == [x \in MonthlyCells |-> MonthlyRows(logs, x)]
  <1>1. logs \in Seq(LogRow) /\ monthly \in [MonthlyCells -> Row]
    BY DEF LedgerInv, LedgerType, MonthlyTable
  <1>2. at \in [DOMAIN logs -> MonthlyCells]
    <2>1. \A i \in DOMAIN logs : logs[i] \in LogRow
      BY <1>1
    <2>2. \A row \in LogRow : row.rec \in Records /\ row.day \in Days
      BY DEF LogRow
    <2>. QED
      BY <2>1, <2>2, CellTypes
  <1>3. \A x \in MonthlyCells : of[x] = RowsAt(at, x)
    BY DEF MonthlyRows, RowsAt
  <1>4. \A x \in MonthlyCells : \A c \in Columns : monthly[x][c] = Total(logs, of[x], c)
    BY DEF LedgerInv, Balanced, CachesMatch
  <1>. HIDE DEF at
  <1>5. /\ IsFiniteSet(Rows(monthly, cells))
        /\ Rows(monthly, cells) = LogReport(logs, cells, of)
    <2>. HIDE DEF of
    <2>1. Matches(logs, MonthlyCells, monthly, at, of)
      BY <1>1, <1>2, <1>3, <1>4 DEF Matches
    <2>. QED
      BY <1>1, <2>1, TableRows
  <1>6. Rows(monthly, cells) = Expected(logs, cells, MonthlyRows)
    BY <1>5 DEF Expected, LogReport
  <1>. QED
    BY <1>5, <1>6, OrderingExact

(* A row for each active cell. *)
CellRows(active, sums) == {[cell |-> y, sums |-> sums[y]] : y \in active}

(* What a report says about cell x. *)
Found(report, x, col) ==
    LET hits == {i \in DOMAIN report : report[i].cell = x}
    IN  IF hits = {} THEN 0 ELSE report[CHOOSE i \in hits : TRUE].sums[col]

(* Looking a cell up in a report: it has one row, or is not active.        *)
LEMMA LookUp ==
    ASSUME NEW report, NEW active, NEW sums, NEW x, NEW col,
           ToSet(report) = CellRows(active, sums)
    PROVE  /\ x \in active => Found(report, x, col) = sums[x][col]
           /\ x \notin active => Found(report, x, col) = 0
  <1>. DEFINE hits == {i \in DOMAIN report : report[i].cell = x}
  <1>1. \A i \in DOMAIN report : \E y \in active : report[i] = [cell |-> y, sums |-> sums[y]]
    BY DEF ToSet, CellRows
  <1>2. \A i \in hits : x \in active /\ report[i].sums = sums[x]
    BY <1>1
  <1>3. x \in active => hits # {}
    <2>. SUFFICES ASSUME x \in active PROVE hits # {}
      OBVIOUS
    <2>1. [cell |-> x, sums |-> sums[x]] \in ToSet(report)
      BY DEF CellRows
    <2>2. PICK i \in DOMAIN report : report[i] = [cell |-> x, sums |-> sums[x]]
      BY <2>1 DEF ToSet
    <2>. QED
      BY <2>2
  <1>4. hits # {} => (CHOOSE i \in hits : TRUE) \in hits
    OBVIOUS
  <1>. HIDE DEF hits
  <1>5. (IF hits = {} THEN 0 ELSE report[CHOOSE i \in hits : TRUE].sums[col])
           = IF x \in active THEN sums[x][col] ELSE 0
    BY <1>2, <1>3, <1>4
  <1>. QED
    BY <1>5 DEF hits, Found

-----------------------------------------------------------------------------
(* A request that has an issuer, and one that has been answered. *)
Live == {"sent", "query", "answered", "shown"}
Done == {"answered", "shown"}

(* Answer a to request q is what the log says. *)
Faithful(q, a, log) ==
    /\ q.mode = "daily" =>
          Exactly(a, Expected(log, Keys \X Routes \X
                         {d \in Days : q.start <= d /\ d <= q.end}, DailyRows))
    /\ q.mode = "monthly" =>
          Exactly(a, Expected(log, Keys \X Routes \X
                         {m \in Months : YearOf[m] = q.year}, MonthlyRows))
    /\ q.mode = "verbose" =>
          LET s == [i \in DOMAIN a |-> a[i].row]
          IN  IsSuffix(Reverse(s), log) /\ (Len(s) < q.count => Len(s) = Len(log))

ReportType ==
    /\ today \in Days
    /\ pc \in [Calls -> Live \cup {"idle", "failed"}]
    /\ DOMAIN req = Calls /\ DOMAIN answer = Calls /\ DOMAIN issue = Calls /\ DOMAIN seen = Calls

(* A request as its caller left it: a `stats` without dates has the dates  *)
(* of the day on which it was entered, from the start.                     *)
Issued(c) ==
    /\ req[c] \in Requests
    /\ issue[c].day \in Days
    /\ issue[c].logged \in 0 .. Len(logs)
    /\ req[c].mode = "daily" /\ issue[c].who # None
          /\ issue[c].who.start = Unset /\ issue[c].who.end = Unset =>
             req[c].start = issue[c].day /\ req[c].end = issue[c].day

(* What had been shown when it was issued stays, and is not newer than it. *)
Follows(c) ==
    \A d \in issue[c].after : d \in Calls /\ pc[d] = "shown" /\ seen[d] <= issue[c].logged

(* An answer is made from a log at least as long as at the request. *)
Answered(c) ==
    /\ seen[c] \in 0 .. Len(logs)
    /\ issue[c].logged <= seen[c]
    /\ Faithful(req[c], answer[c], Audit(c))

CallInv(c) ==
    /\ pc[c] \in Live => Issued(c) /\ Follows(c)
    /\ pc[c] \in Done => Answered(c)

ReportInv == LedgerInv /\ ReportType /\ \A c \in Calls : CallInv(c)

(* A call that a step does not concern keeps its invariant: the log only   *)
(* grows, and what has been shown stays.                                   *)
LEMMA CallKept ==
    ASSUME ReportInv, NEW c \in Calls,
           Len(logs) <= Len(logs'), Len(logs') \in Nat,
           \A n \in 0 .. Len(logs) : SubSeq(logs', 1, n) = SubSeq(logs, 1, n),
           \A d \in Calls : pc[d] = "shown" => pc'[d] = "shown" /\ seen'[d] = seen[d],
           pc'[c] = pc[c], req'[c] = req[c], answer'[c] = answer[c],
           issue'[c] = issue[c], seen'[c] = seen[c]
    PROVE  CallInv(c)'
  <1>1. CallInv(c) /\ Len(logs) \in Nat
    BY DEF ReportInv, LedgerInv, LedgerType
  <1>2. Issued(c) => Issued(c)'
    BY <1>1 DEF Issued
  <1>3. Follows(c) => Follows(c)'
    BY DEF Follows
  <1>4. Answered(c) => Answered(c)'
    <2>. SUFFICES ASSUME Answered(c) PROVE Answered(c)'
      OBVIOUS
    <2>1. Audit(c)' = Audit(c)
      BY DEF Answered, Audit
    <2>2. Faithful(req[c], answer[c], Audit(c))'
      BY <2>1 DEF Answered, Faithful
    <2>. QED
      BY <1>1, <2>2 DEF Answered
  <1>. QED
    BY <1>1, <1>2, <1>3, <1>4 DEF CallInv

(* The steps that leave the database alone leave every other call alone.   *)
LEMMA OthersKept ==
    ASSUME ReportInv, NEW c \in Calls, UNCHANGED <<ledger, today>>, pc[c] # "shown",
           \E v : pc' = [pc EXCEPT ![c] = v],
           UNCHANGED req \/ \E v : req' = [req EXCEPT ![c] = v],
           UNCHANGED answer \/ \E v : answer' = [answer EXCEPT ![c] = v],
           UNCHANGED issue \/ \E v : issue' = [issue EXCEPT ![c] = v],
           UNCHANGED seen \/ \E v : seen' = [seen EXCEPT ![c] = v],
           pc'[c] \in Live \cup {"idle", "failed"},
           CallInv(c)'
    PROVE  ReportInv'
  <1>1. /\ pc \in [Calls -> Live \cup {"idle", "failed"}] /\ today \in Days
        /\ DOMAIN req = Calls /\ DOMAIN answer = Calls /\ DOMAIN issue = Calls
        /\ DOMAIN seen = Calls
    BY DEF ReportInv, ReportType
  <1>2. logs' = logs /\ daily' = daily /\ monthly' = monthly /\ today' = today
    BY DEF ledger
  <1>3. LedgerInv'
    BY <1>2 DEF ReportInv, LedgerInv, LedgerType
  <1>4. ReportType'
    BY <1>1, <1>2 DEF ReportType
  <1>5. \A d \in Calls \ {c} :
           /\ pc'[d] = pc[d] /\ req'[d] = req[d] /\ answer'[d] = answer[d]
           /\ issue'[d] = issue[d] /\ seen'[d] = seen[d]
    BY <1>1
  <1>6. ASSUME NEW d \in Calls \ {c} PROVE CallInv(d)'
    <2>1. Len(logs) \in Nat
      BY DEF ReportInv, LedgerInv, LedgerType
    <2>. QED
      BY <1>2, <1>5, <2>1, CallKept
  <1>. QED
    BY <1>3, <1>4, <1>6 DEF ReportInv

(* A failed call has nothing to answer for. *)
LEMMA FailInv ==
    ASSUME ReportInv, NEW c \in Calls, pc[c] # "shown", Fail(c)
    PROVE  ReportInv'
  <1>1. pc'[c] = "failed"
    BY DEF Fail, ReportInv, ReportType
  <1>2. CallInv(c)'
    BY <1>1 DEF CallInv, Live, Done
  <1>. QED
    BY <1>1, <1>2, OthersKept, Zenon DEF Fail

(* Issuing a request. *)
LEMMA IssueInv ==
    ASSUME ReportInv, NEW c \in Calls, NEW who, NEW r \in Requests, Issue(c, who, r),
           r.mode = "daily" /\ who # None /\ who.start = Unset /\ who.end = Unset =>
               r.start = today /\ r.end = today
    PROVE  ReportInv'
  <1>. DEFINE new == [who |-> who, day |-> today, logged |-> Len(logs),
                      after |-> {d \in Calls : pc[d] = "shown"}]
  <1>1. /\ pc[c] = "idle" /\ pc' = [pc EXCEPT ![c] = "sent"]
        /\ req' = [req EXCEPT ![c] = r]
        /\ issue' = [issue EXCEPT ![c] = new]
        /\ UNCHANGED <<ledger, today, answer, seen>>
    BY DEF Issue
  <1>2. pc'[c] = "sent" /\ req'[c] = r /\ issue'[c] = new /\ today \in Days
    BY <1>1 DEF ReportInv, ReportType
  <1>3. /\ new.who = who /\ new.day = today /\ new.logged = Len(logs)
        /\ new.after = {d \in Calls : pc[d] = "shown"}
    OBVIOUS
  <1>4. Len(logs) \in Nat /\ logs' = logs
    BY <1>1 DEF ReportInv, LedgerInv, LedgerType, ledger
  <1>. HIDE DEF new
  <1>5. Issued(c)'
    BY <1>2, <1>3, <1>4 DEF Issued
  <1>6. Follows(c)'
    <2>1. ASSUME NEW d \in Calls, pc[d] = "shown"
          PROVE  pc'[d] = "shown" /\ seen'[d] <= Len(logs)
      <3>1. CallInv(d) /\ d # c
        BY <1>1, <2>1 DEF ReportInv
      <3>2. Answered(d)
        BY <2>1, <3>1 DEF CallInv, Done
      <3>3. pc'[d] = "shown" /\ seen' = seen
        BY <1>1, <2>1, <3>1 DEF ReportInv, ReportType
      <3>. QED
        BY <1>4, <3>2, <3>3 DEF Answered
    <2>. QED
      BY <1>2, <1>3, <2>1 DEF Follows
  <1>7. CallInv(c)'
    BY <1>2, <1>5, <1>6 DEF CallInv, Done
  <1>8. pc'[c] \in Live \cup {"idle", "failed"} /\ pc[c] # "shown"
    BY <1>1, <1>2 DEF Live
  <1>9. UNCHANGED <<ledger, today>> /\ UNCHANGED answer /\ UNCHANGED seen
    BY <1>1
  <1>. QED
    BY <1>1, <1>7, <1>8, <1>9, OthersKept, Zenon

(* The clock reads a day and a year. *)
LEMMA DateTypes ==
    ASSUME today \in Days
    PROVE  today \in Nat /\ ThisYear \in Int
  <1>1. Days \subseteq Nat /\ YearOf \in [Months -> Nat \ {0}]
    BY TimeAssumption
  <1>2. MonthOf[today] \in Months
    BY CalendarAssumption
  <1>3. YearOf[MonthOf[today]] \in Nat
    BY <1>1, <1>2
  <1>. QED
    BY <1>1, <1>3 DEF ThisYear

(* What handleStatsCommand builds is a request.                            *)
LEMMA RequestType ==
    ASSUME NEW o \in Options, today \in Days, ~ParseError(o)
    PROVE  /\ RequestOf(o) \in Requests
           /\ RequestOf(o).mode = "daily" /\ o.start = Unset /\ o.end = Unset =>
                 RequestOf(o).start = today /\ RequestOf(o).end = today
  <1>1. Clamp(o.count) \in Int /\ o.year \in Int /\ ThisYear \in Int /\ today \in Nat
    <2>1. o.count \in Int /\ o.year \in Int
      BY DEF Options
    <2>2. Clamp(o.count) \in Int
      BY <2>1, CountAssumption DEF Clamp
    <2>3. ThisYear \in Int /\ today \in Nat
      BY DateTypes
    <2>. QED
      BY <2>1, <2>2, <2>3
  <1>2. EmptyRequest \in Requests /\ EmptyRequest.mode = "daily"
    BY DEF EmptyRequest, Requests
  <1>3. CASE o.verbose
    <2>1. RequestOf(o) = [EmptyRequest EXCEPT !.mode = "verbose", !.count = Clamp(o.count)]
      BY <1>3 DEF RequestOf, ParseError
    <2>. QED
      BY <1>1, <1>2, <2>1 DEF Requests
  <1>4. CASE o.monthly /\ ~o.verbose
    <2>1. RequestOf(o) = [EmptyRequest EXCEPT !.mode = "monthly",
                                              !.year = IF o.year = 0 THEN ThisYear ELSE o.year]
      BY <1>4 DEF RequestOf
    <2>. QED
      BY <1>1, <1>2, <2>1 DEF Requests
  <1>5. CASE ~o.monthly /\ ~o.verbose
    <2>1. RequestOf(o) = [EmptyRequest EXCEPT !.start = OrToday(o.start), !.end = OrToday(o.end)]
      BY <1>5 DEF RequestOf
    <2>2. OrToday(o.start) \in Nat /\ OrToday(o.end) \in Nat
      BY <1>1, <1>5 DEF OrToday, ParseError, Options
    <2>. QED
      BY <1>2, <2>1, <2>2 DEF Requests, OrToday
  <1>. QED
    BY <1>3, <1>4, <1>5

(* GetStats fills in what is missing, and nothing else. *)
LEMMA GetStatsInv ==
    ASSUME ReportInv, NEW c \in Calls, GetStats(c)
    PROVE  ReportInv'
  <1>. DEFINE q == req[c]
              new == [q EXCEPT
                 !.start = IF q.mode = "daily" THEN OrToday(@) ELSE @,
                 !.end   = IF q.mode = "daily" THEN OrToday(@) ELSE @,
                 !.year  = IF q.mode = "monthly" /\ @ <= 0 THEN ThisYear ELSE @,
                 !.count = IF q.mode = "verbose" /\ @ <= 0 THEN DefaultCount ELSE @]
  <1>1. pc[c] = "sent" /\ CallInv(c) /\ today \in Days /\ DOMAIN req = Calls
    BY DEF GetStats, ReportInv, ReportType
  <1>2. Issued(c) /\ Follows(c)
    BY <1>1 DEF CallInv, Live
  <1>3. q \in Requests
    BY <1>2 DEF Issued
  <1>4. /\ pc' = [pc EXCEPT ![c] = "query"]
        /\ UNCHANGED <<ledger, today>> /\ UNCHANGED answer /\ UNCHANGED issue /\ UNCHANGED seen
    BY DEF GetStats
  <1>5. req' = [req EXCEPT ![c] = new]
    BY <1>1, <1>3 DEF GetStats, Requests
  <1>6. DefaultCount \in Int /\ today \in Nat /\ ThisYear \in Int
    BY <1>1, CountAssumption, DateTypes
  <1>7. /\ new \in Requests /\ new.mode = q.mode
        /\ q.mode = "daily" => new.start = OrToday(q.start) /\ new.end = OrToday(q.end)
    BY <1>3, <1>6 DEF Requests, OrToday
  <1>. HIDE DEF new
  <1>8. pc'[c] = "query" /\ req'[c] = new
    BY <1>1, <1>4, <1>5 DEF ReportInv, ReportType
  <1>9. Issued(c)'
    <2>1. logs' = logs /\ issue' = issue
      BY <1>4 DEF ledger
    <2>2. \A day \in Days : OrToday(day) = day
      BY UnsetAssumption DEF OrToday
    <2>. QED
      BY <1>2, <1>7, <1>8, <2>1, <2>2 DEF Issued
  <1>10. Follows(c)'
    BY <1>1, <1>2, <1>4 DEF Follows, ReportInv, ReportType
  <1>11. CallInv(c)' /\ pc'[c] \in Live \cup {"idle", "failed"}
    BY <1>8, <1>9, <1>10 DEF CallInv, Done, Live
  <1>. QED
    BY <1>1, <1>4, <1>5, <1>11, OthersKept, Zenon

(* A query returns rows that the log as it is now accounts for. *)
LEMMA ReturnInv ==
    ASSUME ReportInv, NEW c \in Calls, NEW rows, pc[c] = "query", Return(c, rows),
           Faithful(req[c], rows, logs)
    PROVE  ReportInv'
  <1>1. CallInv(c) /\ logs \in Seq(LogRow)
    BY DEF ReportInv, LedgerInv, LedgerType
  <1>2. Issued(c) /\ Follows(c)
    BY <1>1 DEF CallInv, Live
  <1>3. /\ pc' = [pc EXCEPT ![c] = "answered"]
        /\ answer' = [answer EXCEPT ![c] = rows]
        /\ seen' = [seen EXCEPT ![c] = Len(logs)]
        /\ UNCHANGED <<ledger, today>> /\ UNCHANGED req /\ UNCHANGED issue
    BY DEF Return
  <1>4. pc'[c] = "answered" /\ answer'[c] = rows /\ seen'[c] = Len(logs) /\ logs' = logs
    BY <1>3 DEF ReportInv, ReportType, ledger
  <1>5. Issued(c)'
    BY <1>2, <1>3, <1>4 DEF Issued
  <1>6. Follows(c)'
    BY <1>2, <1>3 DEF Follows, ReportInv, ReportType
  <1>7. Answered(c)'
    <2>1. Len(logs) \in Nat /\ SubSeq(logs, 1, Len(logs)) = logs
      BY <1>1
    <2>2. Audit(c)' = logs
      BY <1>4, <2>1 DEF Audit
    <2>3. Faithful(req[c], answer[c], Audit(c))'
      <3>1. req'[c] = req[c]
        BY <1>3
      <3>2. Faithful(req'[c], answer'[c], Audit(c)')
        BY <1>4, <2>2, <3>1
      <3>. QED
        BY <3>2 DEF Faithful
    <2>. QED
      BY <1>2, <1>3, <1>4, <2>1, <2>3 DEF Answered, Issued
  <1>8. CallInv(c)' /\ pc'[c] \in Live \cup {"idle", "failed"}
    BY <1>4, <1>5, <1>6, <1>7 DEF CallInv, Live
  <1>. QED
    BY <1>3, <1>8, OthersKept, Zenon

(* The last n rows of the log, newest first, are a suffix of it. *)
LEMMA LastRows ==
    ASSUME NEW log \in Seq(LogRow), NEW n \in 0 .. Len(log),
           NEW s, s = [i \in 1 .. n |-> log[Len(log) + 1 - i]]
    PROVE  Len(s) = n /\ IsSuffix(Reverse(s), log)
  <1>. DEFINE r == Reverse(log)
              b == Reverse(s)
              t == Reverse(b)
  <1>1. n \in Nat /\ Len(log) \in Nat /\ n <= Len(log)
    OBVIOUS
  <1>2. s \in Seq(LogRow) /\ Len(s) = n /\ \A i \in 1 .. n : s[i] = log[Len(log) + 1 - i]
    <2>1. \A i \in 1 .. n : Len(log) + 1 - i \in 1 .. Len(log)
      BY <1>1
    <2>2. s \in [1 .. n -> LogRow]
      BY <2>1
    <2>. QED
      BY <1>1, <2>1, <2>2
  <1>3. r \in Seq(LogRow) /\ Len(r) = Len(log) /\ \A i \in 1 .. Len(log) : r[i] = log[Len(log) + 1 - i]
    <2>1. \A i \in 1 .. Len(log) : Len(log) - i + 1 \in 1 .. Len(log)
      BY <1>1
    <2>2. r \in [1 .. Len(log) -> LogRow]
      BY <2>1 DEF Reverse
    <2>. QED
      BY <1>1, <2>1, <2>2 DEF Reverse
  <1>4. b \in Seq(LogRow) /\ Len(b) = n /\ \A i \in 1 .. n : b[i] = s[n - i + 1]
    <2>1. \A i \in 1 .. n : n - i + 1 \in 1 .. n
      BY <1>1
    <2>2. b \in [1 .. n -> LogRow]
      BY <1>2, <2>1 DEF Reverse
    <2>. QED
      BY <1>1, <1>2, <2>1, <2>2 DEF Reverse
  <1>. HIDE DEF b, r
  <1>5. t \in Seq(LogRow) /\ Len(t) = n /\ \A i \in 1 .. n : t[i] = s[i]
    <2>1. \A i \in 1 .. n : n - i + 1 \in 1 .. n /\ n - (n - i + 1) + 1 = i
      BY <1>1
    <2>2. t \in [1 .. n -> LogRow]
      BY <1>4, <2>1 DEF Reverse
    <2>. QED
      BY <1>1, <1>4, <2>1, <2>2 DEF Reverse
  <1>. HIDE DEF t
  <1>6. SubSeq(t, 1, n) = SubSeq(r, 1, n)
    <2>1. \A i \in 1 .. n : t[i] = r[i]
      BY <1>1, <1>2, <1>3, <1>5
    <2>2. SubSeq(t, 1, n) \in Seq(LogRow) /\ SubSeq(r, 1, n) \in Seq(LogRow)
      BY <1>1, <1>3, <1>5
    <2>3. Len(SubSeq(t, 1, n)) = n /\ Len(SubSeq(r, 1, n)) = n
      BY <1>1, <1>3, <1>5
    <2>4. \A i \in 1 .. n : SubSeq(t, 1, n)[i] = SubSeq(r, 1, n)[i]
      BY <1>1, <1>3, <1>5, <2>1
    <2>. QED
      BY <2>2, <2>3, <2>4
  <1>7. IsPrefix(t, r)
    BY <1>1, <1>3, <1>5, <1>6 DEF IsPrefix
  <1>. QED
    BY <1>2, <1>7 DEF IsSuffix, t, b, r

(* The three queries. *)
LEMMA DailyStatsInv ==
    ASSUME ReportInv, NEW c \in Calls, GetDailyStats(c)
    PROVE  ReportInv'
  <1>. DEFINE cells == {x \in DailyCells : req[c].start <= x[3] /\ x[3] <= req[c].end}
  <1>1. pc[c] = "query" /\ req[c].mode = "daily" /\ LedgerInv
    BY DEF GetDailyStats, ReportInv
  <1>2. PICK rows \in Orderings(Rows(daily, cells)) : Return(c, rows)
    BY DEF GetDailyStats
  <1>3. cells = Keys \X Routes \X {d \in Days : req[c].start <= d /\ d <= req[c].end}
    BY DEF DailyCells
  <1>4. cells \in SUBSET DailyCells
    OBVIOUS
  <1>. HIDE DEF cells
  <1>5. Exactly(rows, Expected(logs, cells, DailyRows))
    BY <1>1, <1>2, <1>4, DailyQuery
  <1>6. Faithful(req[c], rows, logs)
    BY <1>1, <1>3, <1>5 DEF Faithful
  <1>. QED
    BY <1>1, <1>2, <1>6, ReturnInv

LEMMA MonthlyStatsInv ==
    ASSUME ReportInv, NEW c \in Calls, GetMonthlyStats(c)
    PROVE  ReportInv'
  <1>. DEFINE cells == {x \in MonthlyCells : YearOf[x[3]] = req[c].year}
  <1>1. pc[c] = "query" /\ req[c].mode = "monthly" /\ LedgerInv
    BY DEF GetMonthlyStats, ReportInv
  <1>2. PICK rows \in Orderings(Rows(monthly, cells)) : Return(c, rows)
    BY DEF GetMonthlyStats
  <1>3. cells = Keys \X Routes \X {m \in Months : YearOf[m] = req[c].year}
    BY DEF MonthlyCells
  <1>4. cells \in SUBSET MonthlyCells
    OBVIOUS
  <1>. HIDE DEF cells
  <1>5. Exactly(rows, Expected(logs, cells, MonthlyRows))
    BY <1>1, <1>2, <1>4, MonthlyQuery
  <1>6. Faithful(req[c], rows, logs)
    BY <1>1, <1>3, <1>5 DEF Faithful
  <1>. QED
    BY <1>1, <1>2, <1>6, ReturnInv

LEMMA VerboseLogsInv ==
    ASSUME ReportInv, NEW c \in Calls, GetVerboseLogs(c)
    PROVE  ReportInv'
  <1>. DEFINE n == IF req[c].count < Len(logs) THEN req[c].count ELSE Len(logs)
              rows == [i \in 1 .. n |-> [id  |-> Len(logs) + 1 - i,
                                         row |-> logs[Len(logs) + 1 - i]]]
              m == IF n < 0 THEN 0 ELSE n
              s == [i \in DOMAIN rows |-> rows[i].row]
  <1>1. pc[c] = "query" /\ req[c].mode = "verbose" /\ Return(c, rows)
    BY DEF GetVerboseLogs
  <1>2. logs \in Seq(LogRow) /\ Len(logs) \in Nat
    BY DEF ReportInv, LedgerInv, LedgerType
  <1>3. req[c].count \in Int
    <2>1. Issued(c)
      BY <1>1 DEF ReportInv, CallInv, Live
    <2>. QED
      BY <2>1 DEF Issued, Requests
  <1>4. m \in 0 .. Len(logs) /\ 1 .. n = 1 .. m /\ (m < req[c].count => m = Len(logs))
    BY <1>2, <1>3
  <1>. HIDE DEF n, m
  <1>5. s = [i \in 1 .. m |-> logs[Len(logs) + 1 - i]]
    BY <1>4
  <1>. HIDE DEF s
  <1>6. Len(s) = m /\ IsSuffix(Reverse(s), logs)
    BY <1>2, <1>4, <1>5, LastRows
  <1>. HIDE DEF rows
  <1>7. Faithful(req[c], rows, logs)
    BY <1>1, <1>4, <1>6 DEF Faithful, s
  <1>. QED
    BY <1>1, <1>7, ReturnInv

(* The answer arrives. *)
LEMMA ReceiveInv ==
    ASSUME ReportInv, NEW c \in Calls, Receive(c)
    PROVE  ReportInv'
  <1>1. CallInv(c) /\ pc[c] = "answered"
    BY DEF Receive, ReportInv
  <1>2. Issued(c) /\ Follows(c) /\ Answered(c)
    BY <1>1 DEF CallInv, Live, Done
  <1>3. /\ pc' = [pc EXCEPT ![c] = "shown"]
        /\ UNCHANGED <<ledger, today>> /\ UNCHANGED req /\ UNCHANGED answer
        /\ UNCHANGED issue /\ UNCHANGED seen
    BY DEF Receive
  <1>4. pc'[c] = "shown" /\ logs' = logs
    BY <1>3 DEF ReportInv, ReportType, ledger
  <1>5. Issued(c)'
    BY <1>2, <1>3, <1>4 DEF Issued
  <1>6. Follows(c)'
    BY <1>2, <1>3 DEF Follows, ReportInv, ReportType
  <1>7. Answered(c)'
    <2>1. Audit(c)' = Audit(c)
      BY <1>3, <1>4 DEF Audit
    <2>2. Faithful(req'[c], answer'[c], Audit(c)')
      BY <1>2, <1>3, <2>1 DEF Answered
    <2>3. Faithful(req[c], answer[c], Audit(c))'
      BY <2>2 DEF Faithful
    <2>. QED
      BY <1>2, <1>3, <1>4, <2>3 DEF Answered
  <1>8. CallInv(c)' /\ pc'[c] \in Live \cup {"idle", "failed"}
    BY <1>4, <1>5, <1>6, <1>7 DEF CallInv, Live
  <1>. QED
    BY <1>1, <1>3, <1>8, OthersKept, Zenon

(* A record is posted while reports are on their way. *)
LEMMA PostReports ==
    ASSUME ReportInv, NEW r \in Records, NEW d \in Days, Post(r, d)
    PROVE  ReportInv'
  <1>1. /\ Ledger!Post(r, d) /\ LedgerInv /\ logs \in Seq(LogRow)
        /\ UNCHANGED <<today, pc, req, answer, issue, seen>>
    BY DEF Post, ReportInv, LedgerInv, LedgerType
  <1>2. PICK row \in LogRow : logs' = Append(logs, row)
    BY <1>1, PostInv
  <1>3. LedgerInv'
    BY <1>1, PostInv
  <1>4. ReportType'
    BY <1>1 DEF ReportInv, ReportType
  <1>5. /\ Len(logs) <= Len(logs') /\ Len(logs') \in Nat
        /\ \A n \in 0 .. Len(logs) : SubSeq(logs', 1, n) = SubSeq(logs, 1, n)
    <2>1. Len(logs) <= Len(logs') /\ Len(logs') \in Nat
      BY <1>1, <1>2
    <2>2. \A n \in 0 .. Len(logs) : SubSeq(logs', 1, n) = SubSeq(logs, 1, n)
      BY <1>1, <1>2, PrefixStays
    <2>. QED
      BY <2>1, <2>2
  <1>6. ASSUME NEW c \in Calls PROVE CallInv(c)'
    BY <1>1, <1>5, CallKept
  <1>. QED
    BY <1>3, <1>4, <1>6 DEF ReportInv

(* Midnight passes while reports are on their way. *)
LEMMA NextDayInv ==
    ASSUME ReportInv, NextDay
    PROVE  ReportInv'
  <1>1. /\ today' \in Days /\ logs' = logs /\ daily' = daily /\ monthly' = monthly
        /\ UNCHANGED <<pc, req, answer, issue, seen>>
    BY DEF NextDay, ledger
  <1>2. LedgerInv' /\ ReportType'
    BY <1>1 DEF ReportInv, LedgerInv, LedgerType, ReportType
  <1>3. ASSUME NEW c \in Calls PROVE CallInv(c)'
    <2>1. Len(logs) \in Nat
      BY DEF ReportInv, LedgerInv, LedgerType
    <2>. QED
      BY <1>1, <2>1, CallKept
  <1>. QED
    BY <1>2, <1>3 DEF ReportInv

(* The invariant holds when the reports begin, ... *)
LEMMA ReportInit == Init => ReportInv
  <1>. SUFFICES ASSUME Init PROVE ReportInv
    OBVIOUS
  <1>1. LedgerInv
    BY LedgerInit DEF Init
  <1>2. ReportType
    BY TimeAssumption DEF Init, ReportType
  <1>3. \A c \in Calls : CallInv(c)
    BY DEF Init, CallInv, Live, Done
  <1>. QED
    BY <1>1, <1>2, <1>3 DEF ReportInv

(* ... and every step keeps it. *)
LEMMA ReportStep == ReportInv /\ [Next]_vars => ReportInv'
  <1>. SUFFICES ASSUME ReportInv, [Next]_vars PROVE ReportInv'
    OBVIOUS
  <1>0. today \in Days /\ Asked \subseteq Options /\ Sent \subseteq Requests
    BY AskedAssumption DEF ReportInv, ReportType
  <1>1. ASSUME NEW c \in Calls, NEW o \in Asked, Stats(c, o) PROVE ReportInv'
    <2>1. ~ParseError(o) /\ Issue(c, o, RequestOf(o)) /\ o \in Options
      BY <1>0, <1>1 DEF Stats
    <2>2. /\ RequestOf(o) \in Requests
          /\ RequestOf(o).mode = "daily" /\ o.start = Unset /\ o.end = Unset =>
                RequestOf(o).start = today /\ RequestOf(o).end = today
      BY <1>0, <2>1, RequestType
    <2>. QED
      BY <2>1, <2>2, IssueInv
  <1>2. ASSUME NEW c \in Calls, NEW o \in Asked, StatsRejected(c, o) PROVE ReportInv'
    BY <1>2, FailInv DEF StatsRejected
  <1>3. ASSUME NEW c \in Calls, NEW r \in Sent, Call(c, r) PROVE ReportInv'
    BY <1>0, <1>3, IssueInv DEF Call
  <1>4. ASSUME NEW c \in Calls, GetStatsFails(c) PROVE ReportInv'
    BY <1>4, FailInv DEF GetStatsFails
  <1>5. ASSUME NEW c \in Calls, GiveUp(c) PROVE ReportInv'
    BY <1>5, FailInv DEF GiveUp
  <1>6. CASE UNCHANGED vars
    <2>1. /\ logs' = logs /\ daily' = daily /\ monthly' = monthly
          /\ UNCHANGED <<today, pc, req, answer, issue, seen>>
      BY <1>6 DEF vars, ledger
    <2>2. LedgerInv' /\ ReportType'
      BY <2>1 DEF ReportInv, LedgerInv, LedgerType, ReportType
    <2>3. ASSUME NEW c \in Calls PROVE CallInv(c)'
      <3>1. Len(logs) \in Nat
        BY DEF ReportInv, LedgerInv, LedgerType
      <3>. QED
        BY <2>1, <3>1, CallKept
    <2>. QED
      BY <2>2, <2>3 DEF ReportInv
  <1>. QED
    BY <1>1, <1>2, <1>3, <1>4, <1>5, <1>6, GetStatsInv, DailyStatsInv, MonthlyStatsInv,
       VerboseLogsInv, ReceiveInv, PostReports, NextDayInv DEF Next

-----------------------------------------------------------------------------
(* Every report that is shown says what the audit log said at one instant, *)
(* whatever the records, the calendar, the number of reports under way and *)
(* the requests are: the tables of GetDailyStats and GetMonthlyStats have  *)
(* the totals of the log, and that of GetVerboseLogs has its last rows.    *)
THEOREM ReportsAreAudits == Spec => []ReportIsAudit
  <1>1. ReportInv => ReportIsAudit
    <2>. SUFFICES ASSUME ReportInv, NEW c \in Calls, pc[c] = "shown"
                  PROVE  Faithful(req[c], answer[c], Audit(c)) /\ Len(Audit(c)) = seen[c]
      BY DEF ReportIsAudit, Shown, Faithful
    <2>1. Answered(c) /\ logs \in Seq(LogRow)
      BY DEF ReportInv, CallInv, Done, LedgerInv, LedgerType
    <2>2. seen[c] \in 0 .. Len(logs) /\ Faithful(req[c], answer[c], Audit(c))
      BY <2>1 DEF Answered
    <2>3. Len(Audit(c)) = seen[c]
      BY <2>1, <2>2 DEF Audit
    <2>. QED
      BY <2>2, <2>3
  <1>. QED
    BY <1>1, ReportInit, ReportStep, PTL DEF Spec

-----------------------------------------------------------------------------
(* What a report on the log says about a cell that it covers is the total  *)
(* of the rows of the cell, if it has any or not.                          *)
LEMMA FoundTotal ==
    ASSUME NEW log, NEW cells, NEW of, NEW report, ToSet(report) = LogReport(log, cells, of),
           NEW x \in cells, NEW col \in Columns
    PROVE  Found(report, x, col) = Total(log, of[x], col)
  <1>. DEFINE active == {y \in cells : of[y] # {}}
              sums == [y \in active |-> [k \in Columns |-> Total(log, of[y], k)]]
  <1>1. ToSet(report) = CellRows(active, sums)
    <2>1. \A y \in active : [cell |-> y, sums |-> sums[y]] =
                              [cell |-> y, sums |-> [k \in Columns |-> Total(log, of[y], k)]]
      OBVIOUS
    <2>. HIDE DEF sums
    <2>. QED
      BY <2>1 DEF LogReport, CellRows
  <1>2. x \in active => sums[x][col] = Total(log, of[x], col)
    OBVIOUS
  <1>3. x \notin active => Total(log, of[x], col) = 0
    BY NoRows
  <1>. HIDE DEF active, sums
  <1>4. /\ x \in active => Found(report, x, col) = sums[x][col]
        /\ x \notin active => Found(report, x, col) = 0
    BY <1>1, LookUp
  <1>. QED
    BY <1>2, <1>3, <1>4

(* The log rows that a report accounts for under a key, a route and a day. *)
RowsSaid(c, log, k, r, d) ==
    IF req[c].mode = "monthly" THEN MonthlyRows(log, <<k, r, MonthOf[d]>>)
                               ELSE DailyRows(log, <<k, r, d>>)

(* What a daily or a monthly report says is the total of these rows.       *)
LEMMA SaysTotal ==
    ASSUME ReportInv, NEW c \in Shown("daily") \cup Shown("monthly"),
           NEW k \in Keys, NEW r \in Routes, NEW d \in Days, NEW col \in Columns, Covers(c, d)
    PROVE  Says(c, k, r, d, col) = Total(Audit(c), RowsSaid(c, Audit(c), k, r, d), col)
  <1>1. c \in Calls /\ pc[c] = "shown" /\ req[c].mode \in {"daily", "monthly"}
    BY DEF Shown
  <1>2. Faithful(req[c], answer[c], Audit(c))
    BY <1>1 DEF ReportInv, CallInv, Done, Answered
  <1>. DEFINE log == Audit(c)
  <1>3. CASE req[c].mode = "daily"
    <2>. DEFINE cells == Keys \X Routes \X {e \in Days : req[c].start <= e /\ e <= req[c].end}
                of == [y \in cells |-> DailyRows(log, y)]
                x == <<k, r, d>>
    <2>1. ToSet(answer[c]) = Expected(log, cells, DailyRows)
      BY <1>2, <1>3 DEF Faithful, Exactly
    <2>2. x \in cells /\ of[x] = DailyRows(log, x)
      BY <1>3 DEF Covers
    <2>3. Expected(log, cells, DailyRows) = LogReport(log, cells, of)
      <3>. HIDE DEF log, cells
      <3>. QED
        BY DEF Expected, LogReport
    <2>4. Says(c, k, r, d, col) = Found(answer[c], x, col)
      BY <1>3 DEF Says, Found
    <2>. HIDE DEF x, of, cells
    <2>5. Found(answer[c], x, col) = Total(log, of[x], col)
      BY <2>1, <2>2, <2>3, FoundTotal
    <2>. QED
      BY <1>3, <2>2, <2>4, <2>5 DEF RowsSaid, x
  <1>4. CASE req[c].mode = "monthly"
    <2>. DEFINE cells == Keys \X Routes \X {m \in Months : YearOf[m] = req[c].year}
                of == [y \in cells |-> MonthlyRows(log, y)]
                x == <<k, r, MonthOf[d]>>
    <2>1. ToSet(answer[c]) = Expected(log, cells, MonthlyRows)
      BY <1>2, <1>4 DEF Faithful, Exactly
    <2>2. x \in cells /\ of[x] = MonthlyRows(log, x)
      BY <1>4, CalendarAssumption DEF Covers
    <2>3. Expected(log, cells, MonthlyRows) = LogReport(log, cells, of)
      <3>. HIDE DEF log, cells
      <3>. QED
        BY DEF Expected, LogReport
    <2>4. Says(c, k, r, d, col) = Found(answer[c], x, col)
      BY <1>4 DEF Says, Found
    <2>. HIDE DEF x, of, cells
    <2>5. Found(answer[c], x, col) = Total(log, of[x], col)
      BY <2>1, <2>2, <2>3, FoundTotal
    <2>. QED
      BY <1>4, <2>2, <2>4, <2>5 DEF RowsSaid, x
  <1>. QED
    BY <1>1, <1>3, <1>4

(* The rows of a day are rows of its month, in every prefix of the log.    *)
LEMMA DayInMonth ==
    ASSUME NEW log \in Seq(LogRow), NEW k, NEW r, NEW d \in Days
    PROVE  DailyRows(log, <<k, r, d>>) \subseteq MonthlyRows(log, <<k, r, MonthOf[d]>>)
  BY DEF DailyRows, MonthlyRows, DailyCell, MonthlyCell

(* A report that was asked for after another had been shown never shows    *)
(* less of a day or of a month, and never less of a month than the other   *)
(* one showed of a day in it (the two caches are read by GetDailyStats and *)
(* GetMonthlyStats while the pipeline keeps writing both).                 *)
THEOREM LaterReportsShowMore == Spec => []LaterReportShowsMore
  <1>1. ReportInv => LaterReportShowsMore
    <2>. SUFFICES ASSUME ReportInv,
                         NEW c \in Shown("daily") \cup Shown("monthly"),
                         NEW e \in Shown("daily") \cup Shown("monthly"),
                         c \in issue[e].after, req[c].mode = "daily" \/ req[e].mode = "monthly",
                         NEW k \in Keys, NEW r \in Routes, NEW d \in Days, NEW col \in Columns,
                         Covers(c, d), Covers(e, d)
                  PROVE  Says(c, k, r, d, col) <= Says(e, k, r, d, col)
      BY DEF LaterReportShowsMore
    <2>1. /\ c \in Calls /\ pc[c] = "shown" /\ req[c].mode \in {"daily", "monthly"}
          /\ e \in Calls /\ pc[e] = "shown" /\ req[e].mode \in {"daily", "monthly"}
      BY DEF Shown
    <2>2. Answered(c) /\ Answered(e) /\ Issued(e) /\ Follows(e)
      BY <2>1 DEF ReportInv, CallInv, Live, Done
    <2>3. logs \in Seq(LogRow) /\ Len(logs) \in Nat
      BY DEF ReportInv, LedgerInv, LedgerType
    <2>4. seen[c] \in 0 .. Len(logs) /\ seen[e] \in 0 .. Len(logs) /\ seen[c] <= seen[e]
      BY <2>2, <2>3 DEF Answered, Issued, Follows
    <2>. DEFINE rows == RowsSaid(c, Audit(c), k, r, d)
                more == RowsSaid(e, Audit(e), k, r, d)
    <2>5. /\ rows = RowsSaid(c, logs, k, r, d) \cap (1 .. seen[c])
          /\ more = RowsSaid(e, logs, k, r, d) \cap (1 .. seen[e])
      BY <2>3, <2>4, PrefixRows DEF Audit, RowsSaid
    <2>6. RowsSaid(c, logs, k, r, d) \subseteq RowsSaid(e, logs, k, r, d)
      BY <2>1, <2>3, DayInMonth DEF RowsSaid
    <2>. HIDE DEF rows, more
    <2>7. rows \in SUBSET (1 .. seen[c]) /\ more \in SUBSET (1 .. seen[e]) /\ rows \subseteq more
      BY <2>3, <2>4, <2>5, <2>6
    <2>8. Total(Audit(c), rows, col) <= Total(Audit(e), more, col)
      BY <2>3, <2>4, <2>7, LongerPrefix DEF Audit
    <2>. QED
      BY <2>8, SaysTotal DEF rows, more
  <1>. QED
    BY <1>1, ReportInit, ReportStep, PTL DEF Spec

(* `stats` without dates shows at least what the day on which it was       *)
(* entered held then, however long the request is on its way and whatever  *)
(* day it is when the handler runs (handleStatsCommand sends the dates).   *)
THEOREM TodayIsShown == Spec => []TodayIsComplete
  <1>1. ReportInv => TodayIsComplete
    <2>. SUFFICES ASSUME ReportInv, NEW c \in Shown("daily"), issue[c].who # None,
                         issue[c].who.start = Unset, issue[c].who.end = Unset,
                         NEW k \in Keys, NEW r \in Routes
                  PROVE  LET then == SubSeq(logs, 1, issue[c].logged)
                         IN  Says(c, k, r, issue[c].day, "tokens") >=
                                Total(then, DailyRows(then, <<k, r, issue[c].day>>), "tokens")
      BY DEF TodayIsComplete
    <2>. DEFINE d == issue[c].day
                n == issue[c].logged
                rows == DailyRows(SubSeq(logs, 1, n), <<k, r, d>>)
                more == DailyRows(Audit(c), <<k, r, d>>)
    <2>1. c \in Calls /\ pc[c] = "shown" /\ req[c].mode = "daily"
      BY DEF Shown
    <2>2. Answered(c) /\ Issued(c)
      BY <2>1 DEF ReportInv, CallInv, Live, Done
    <2>3. logs \in Seq(LogRow) /\ Len(logs) \in Nat /\ "tokens" \in Columns
      BY DEF ReportInv, LedgerInv, LedgerType, Columns
    <2>4. n \in 0 .. Len(logs) /\ seen[c] \in 0 .. Len(logs) /\ n <= seen[c]
      BY <2>2 DEF Answered, Issued
    <2>5. d \in Days /\ req[c].start = d /\ req[c].end = d
      BY <2>1, <2>2 DEF Issued
    <2>6. Covers(c, d)
      <3>1. d \in Nat
        BY <2>5, TimeAssumption
      <3>. QED
        BY <2>1, <2>5, <3>1 DEF Covers
    <2>7. Says(c, k, r, d, "tokens") = Total(Audit(c), more, "tokens")
      BY <2>1, <2>3, <2>5, <2>6, SaysTotal DEF RowsSaid
    <2>. HIDE DEF d, n
    <2>8. /\ rows = DailyRows(logs, <<k, r, d>>) \cap (1 .. n)
          /\ more = DailyRows(logs, <<k, r, d>>) \cap (1 .. seen[c])
      BY <2>3, <2>4, PrefixRows DEF Audit
    <2>. HIDE DEF rows, more
    <2>9. rows \in SUBSET (1 .. n) /\ more \in SUBSET (1 .. seen[c]) /\ rows \subseteq more
      BY <2>3, <2>4, <2>8
    <2>10. /\ Total(SubSeq(logs, 1, n), rows, "tokens") <= Total(Audit(c), more, "tokens")
           /\ Total(SubSeq(logs, 1, n), rows, "tokens") \in Nat
           /\ Total(Audit(c), more, "tokens") \in Nat
      <3>1. Total(SubSeq(logs, 1, n), rows, "tokens") <= Total(Audit(c), more, "tokens")
        BY <2>3, <2>4, <2>9, LongerPrefix DEF Audit
      <3>2. /\ Total(SubSeq(logs, 1, n), rows, "tokens") = Total(logs, rows, "tokens")
            /\ Total(Audit(c), more, "tokens") = Total(logs, more, "tokens")
            /\ rows \in SUBSET DOMAIN logs /\ more \in SUBSET DOMAIN logs
        BY <2>3, <2>4, <2>9, PrefixTotal DEF Audit
      <3>3. Total(logs, rows, "tokens") \in Nat /\ Total(logs, more, "tokens") \in Nat
        BY <2>3, <3>2, FiniteAmounts
      <3>. QED
        BY <3>1, <3>2, <3>3
    <2>. QED
      BY <2>7, <2>10 DEF rows, d, n
  <1>. QED
    BY <1>1, ReportInit, ReportStep, PTL DEF Spec
=============================================================================
