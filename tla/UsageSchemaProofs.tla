------------------------- MODULE UsageSchemaProofs -------------------------
(* Facts about the operators on the usage tables. *)
EXTENDS UsageSchema, FiniteSetTheorems, TLAPS

(* What a record contributes to a column is a natural number. *)
LEMMA ContributionType ==
    ASSUME NEW r \in Records, NEW c \in Columns
    PROVE  Contribution(r)[c] \in Nat
  <1>1. /\ Usage[r].prompt \in Nat
        /\ Usage[r].completion \in Nat
    BY UsageAssumption
  <1>. QED
    BY <1>1 DEF Contribution, Columns

(* An upsert changes the cell of the record and no other. *)
LEMMA UpsertCell ==
    ASSUME NEW S, NEW table \in [S -> Row], NEW cell \in S, NEW r \in Records
    PROVE  /\ Upsert(table, cell, r) \in [S -> Row]
           /\ \A x \in S : \A c \in Columns :
                 Upsert(table, cell, r)[x][c] =
                    IF x = cell THEN table[x][c] + Contribution(r)[c] ELSE table[x][c]
  <1>1. [c \in Columns |-> table[cell][c] + Contribution(r)[c]] \in Row
    BY ContributionType DEF Row
  <1>. QED
    BY <1>1 DEF Upsert

(* The cells a record is counted in are cells of the tables. *)
LEMMA CellTypes ==
    ASSUME NEW r \in Records, NEW d \in Days
    PROVE  /\ DailyCell(r, d) \in DailyCells
           /\ MonthlyCell(r, d) \in MonthlyCells
  <1>1. Usage[r].key \in Keys /\ Usage[r].route \in Routes
    BY UsageAssumption
  <1>2. MonthOf[d] \in Months
    BY CalendarAssumption
  <1>. QED
    BY <1>1, <1>2 DEF DailyCell, MonthlyCell, DailyCells, MonthlyCells

(* The database that InitSchema creates is well formed. *)
LEMMA EmptyDatabaseType == EmptyDatabase \in Database
  BY DEF EmptyDatabase, Database, DailyTable, MonthlyTable, Row, ZeroRow

-----------------------------------------------------------------------------
(* Adding one argument to a function adds its value to the sum. *)
LEMMA SumExtend ==
    ASSUME NEW f, NEW g, NEW n,
           IsFiniteSet(Units(f)),
           n \notin DOMAIN f,
           DOMAIN g = DOMAIN f \cup {n},
           \A x \in DOMAIN f : g[x] = f[x],
           g[n] \in Nat
    PROVE  /\ IsFiniteSet(Units(g))
           /\ SumOf(g) = SumOf(f) + g[n]
  <1>. DEFINE N == {n} \X (1 .. g[n])
  <1>1. Units(g) = Units(f) \cup N
    BY DEF Units
  <1>2. Units(f) \cap N = {}
    BY DEF Units
  <1>3. IsFiniteSet(1 .. g[n]) /\ Cardinality(1 .. g[n]) = g[n]
    BY FS_Interval
  <1>4. IsFiniteSet({n}) /\ Cardinality({n}) = 1
    BY FS_Singleton
  <1>5. IsFiniteSet(N) /\ Cardinality(N) = g[n]
    <2>1. IsFiniteSet(N) /\ Cardinality(N) = Cardinality({n}) * Cardinality(1 .. g[n])
      BY <1>3, <1>4, FS_Product
    <2>. QED
      BY <2>1, <1>3, <1>4
  <1>6. /\ IsFiniteSet(Units(f) \cup N)
        /\ Cardinality(Units(f) \cup N) =
              Cardinality(Units(f)) + Cardinality(N) - Cardinality(Units(f) \cap N)
    BY <1>5, FS_Union
  <1>7. Cardinality(Units(f)) \in Nat
    BY FS_CardinalityType
  <1>8. Cardinality(Units(f) \cap N) = 0
    BY <1>2, FS_EmptySet
  <1>. HIDE DEF N
  <1>. QED
    BY <1>1, <1>5, <1>6, <1>7, <1>8 DEF SumOf

(* Raising the value of one argument raises the sum by as much. *)
LEMMA SumUpdate ==
    ASSUME NEW f, NEW g, NEW n \in DOMAIN f, NEW more \in Nat,
           IsFiniteSet(Units(f)),
           DOMAIN g = DOMAIN f,
           f[n] \in Nat,
           \A x \in DOMAIN f : g[x] = IF x = n THEN f[x] + more ELSE f[x]
    PROVE  /\ IsFiniteSet(Units(g))
           /\ SumOf(g) = SumOf(f) + more
  <1>. DEFINE new == (f[n] + 1) .. (f[n] + more)
              N   == {n} \X new
  <1>1. IsFiniteSet(new) /\ Cardinality(new) = more
    <2>. DEFINE a == f[n] + 1
                b == f[n] + more
    <2>1. a \in Int /\ b \in Int /\ (a > b <=> more = 0) /\ b - a + 1 = more
      OBVIOUS
    <2>2. new = a .. b
      OBVIOUS
    <2>. HIDE DEF a, b, new
    <2>. QED
      BY <2>1, <2>2, FS_Interval
  <1>2. IsFiniteSet({n}) /\ Cardinality({n}) = 1
    BY FS_Singleton
  <1>3. IsFiniteSet(N) /\ Cardinality(N) = more
    <2>1. IsFiniteSet(N) /\ Cardinality(N) = Cardinality({n}) * Cardinality(new)
      BY <1>1, <1>2, FS_Product
    <2>. QED
      BY <2>1, <1>1, <1>2
  <1>4. 1 .. g[n] = (1 .. f[n]) \cup new
    OBVIOUS
  <1>5. \A x \in DOMAIN f : x # n => g[x] = f[x]
    OBVIOUS
  <1>6. (1 .. f[n]) \cap new = {}
    OBVIOUS
  <1>. HIDE DEF new
  <1>7. Units(g) = Units(f) \cup N
    BY <1>4, <1>5 DEF Units
  <1>8. Units(f) \cap N = {}
    BY <1>6 DEF Units
  <1>. HIDE DEF N
  <1>9. /\ IsFiniteSet(Units(f) \cup N)
        /\ Cardinality(Units(f) \cup N) =
              Cardinality(Units(f)) + Cardinality(N) - Cardinality(Units(f) \cap N)
    BY <1>3, FS_Union
  <1>10. Cardinality(Units(f)) \in Nat /\ Cardinality(Units(f) \cap N) = 0
    BY <1>8, FS_CardinalityType, FS_EmptySet
  <1>. QED
    BY <1>3, <1>7, <1>9, <1>10 DEF SumOf

(* What any rows of the log amount to is a natural number. *)
LEMMA FiniteAmounts ==
    ASSUME NEW log \in Seq(LogRow), NEW rows \in SUBSET DOMAIN log, NEW c \in Columns
    PROVE  IsFiniteSet(Units(Amounts(log, rows, c))) /\ Total(log, rows, c) \in Nat
  <1>. DEFINE f == Amounts(log, rows, c)
              Slice == [i \in rows |-> {i} \X (1 .. f[i])]
              Slices == {Slice[i] : i \in rows}
  <1>1. IsFiniteSet(rows)
    <2>1. IsFiniteSet(1 .. Len(log)) /\ rows \in SUBSET (1 .. Len(log))
      BY FS_Interval
    <2>. QED
      BY <2>1, FS_Subset
  <1>2. ASSUME NEW i \in rows PROVE f[i] \in Nat
    <2>1. log[i] \in LogRow
      OBVIOUS
    <2>2. log[i].rec \in Records
      BY <2>1 DEF LogRow
    <2>3. f[i] = Contribution(log[i].rec)[c]
      BY DEF Amounts
    <2>. QED
      BY <2>2, <2>3, ContributionType
  <1>3. ASSUME NEW i \in rows PROVE IsFiniteSet(Slice[i])
    <2>1. IsFiniteSet({i}) /\ IsFiniteSet(1 .. f[i])
      <3>1. 1 \in Int /\ f[i] \in Int
        BY <1>2
      <3>. QED
        BY <3>1, FS_Singleton, FS_Interval
    <2>2. IsFiniteSet({i} \X (1 .. f[i]))
      BY <2>1, FS_Product
    <2>. QED
      BY <2>2
  <1>4. IsFiniteSet(Slices)
    <2>1. Slice \in Surjection(rows, Slices)
      BY DEF Surjection
    <2>. HIDE DEF Slice, Slices
    <2>. QED
      BY <1>1, <2>1, FS_Surjection
  <1>5. Units(f) = UNION Slices
    BY DEF Units, Amounts
  <1>6. \A s \in Slices : IsFiniteSet(s)
    BY <1>3
  <1>. HIDE DEF f, Slices
  <1>7. IsFiniteSet(Units(f))
    BY <1>4, <1>5, <1>6, FS_UNION
  <1>. QED
    BY <1>7, FS_CardinalityType DEF f, Total, SumOf

(* Fewer rows do not amount to more. *)
LEMMA FewerRows ==
    ASSUME NEW log \in Seq(LogRow), NEW rows \in SUBSET DOMAIN log, NEW fewer \in SUBSET rows,
           NEW c \in Columns
    PROVE  Total(log, fewer, c) <= Total(log, rows, c)
  <1>1. IsFiniteSet(Units(Amounts(log, rows, c)))
    BY FiniteAmounts
  <1>2. Units(Amounts(log, fewer, c)) \subseteq Units(Amounts(log, rows, c))
    BY DEF Units, Amounts
  <1>. QED
    BY <1>1, <1>2, FS_Subset DEF Total, SumOf

(* No rows amount to nothing. *)
LEMMA NoRows ==
    ASSUME NEW log, NEW c
    PROVE  Total(log, {}, c) = 0
  <1>1. Units(Amounts(log, {}, c)) = {}
    BY DEF Units, Amounts
  <1>. QED
    BY <1>1, FS_EmptySet DEF Total, SumOf

(* Appending a row to the log changes no amount of an earlier row. *)
LEMMA AmountsAppend ==
    ASSUME NEW log \in Seq(LogRow), NEW row \in LogRow,
           NEW rows \in SUBSET DOMAIN log, NEW c \in Columns
    PROVE  Amounts(Append(log, row), rows, c) = Amounts(log, rows, c)
  <1>1. \A i \in rows : Append(log, row)[i] = log[i]
    OBVIOUS
  <1>. QED
    BY <1>1 DEF Amounts

(* The total over some rows and the appended one. *)
LEMMA TotalAppend ==
    ASSUME NEW log \in Seq(LogRow), NEW row \in LogRow,
           NEW rows \in SUBSET DOMAIN log, NEW c \in Columns,
           IsFiniteSet(Units(Amounts(log, rows, c)))
    PROVE  LET more == rows \cup {Len(log) + 1}
           IN  /\ IsFiniteSet(Units(Amounts(Append(log, row), more, c)))
               /\ Total(Append(log, row), more, c)
                     = Total(log, rows, c) + Contribution(row.rec)[c]
  <1>. DEFINE n    == Len(log) + 1
              f    == Amounts(log, rows, c)
              g    == Amounts(Append(log, row), rows \cup {n}, c)
  <1>1. n \notin rows
    OBVIOUS
  <1>2. Append(log, row)[n] = row
    OBVIOUS
  <1>3. /\ DOMAIN f = rows
        /\ DOMAIN g = rows \cup {n}
    BY DEF Amounts
  <1>4. \A i \in rows : g[i] = f[i]
    <2>1. \A i \in rows : Append(log, row)[i] = log[i]
      OBVIOUS
    <2>. QED
      BY <2>1 DEF Amounts
  <1>5. g[n] = Contribution(row.rec)[c]
    BY <1>2 DEF Amounts
  <1>6. g[n] \in Nat
    BY <1>5, ContributionType DEF LogRow
  <1>7. IsFiniteSet(Units(f))
    OBVIOUS
  <1>. HIDE DEF f, g, n
  <1>8. /\ n \notin DOMAIN f
        /\ DOMAIN g = DOMAIN f \cup {n}
        /\ \A i \in DOMAIN f : g[i] = f[i]
    BY <1>1, <1>3, <1>4
  <1>9. IsFiniteSet(Units(g)) /\ SumOf(g) = SumOf(f) + g[n]
    BY <1>6, <1>7, <1>8, SumExtend
  <1>. QED
    BY <1>5, <1>9 DEF Total, f, g, n

-----------------------------------------------------------------------------
(* The caches are in balance with the log: they match it, and the sets     *)
(* whose cardinalities are compared are finite.                            *)
FiniteTotals(log) ==
    /\ \A cell \in DailyCells : \A c \in Columns :
          IsFiniteSet(Units(Amounts(log, DailyRows(log, cell), c)))
    /\ \A cell \in MonthlyCells : \A c \in Columns :
          IsFiniteSet(Units(Amounts(log, MonthlyRows(log, cell), c)))

Balanced(log, days, months) == FiniteTotals(log) /\ CachesMatch(log, days, months)

(* Nothing is in an empty log, and nothing is in the caches. *)
LEMMA EmptyBalanced ==
    Balanced(EmptyDatabase.logs, EmptyDatabase.daily, EmptyDatabase.monthly)
  <1>. DEFINE log == EmptyDatabase.logs
  <1>1. log = <<>> /\ DOMAIN log = {}
    BY DEF EmptyDatabase
  <1>2. \A c \in Columns : Units(Amounts(log, {}, c)) = {}
    BY DEF Units, Amounts
  <1>3. /\ \A cell : DailyRows(log, cell) = {}
        /\ \A cell : MonthlyRows(log, cell) = {}
    BY <1>1 DEF DailyRows, MonthlyRows
  <1>4. /\ \A cell \in DailyCells : \A c \in Columns : EmptyDatabase.daily[cell][c] = 0
        /\ \A cell \in MonthlyCells : \A c \in Columns : EmptyDatabase.monthly[cell][c] = 0
    BY DEF EmptyDatabase, ZeroRow
  <1>. HIDE DEF log
  <1>5. \A c \in Columns : IsFiniteSet(Units(Amounts(log, {}, c))) /\ Total(log, {}, c) = 0
    BY <1>2, FS_EmptySet DEF Total, SumOf
  <1>6. FiniteTotals(log) /\ CachesMatch(log, EmptyDatabase.daily, EmptyDatabase.monthly)
    BY <1>3, <1>4, <1>5 DEF FiniteTotals, CachesMatch
  <1>. QED
    BY <1>6 DEF Balanced, log

(* The appended row is the only new one, and it belongs to one cell. *)
LEMMA DailyRowsAppend ==
    ASSUME NEW log \in Seq(LogRow), NEW row \in LogRow, NEW cell
    PROVE  /\ DailyRows(log, cell) \subseteq DOMAIN log
           /\ DailyRows(Append(log, row), cell) =
                 IF DailyCell(row.rec, row.day) = cell
                 THEN DailyRows(log, cell) \cup {Len(log) + 1}
                 ELSE DailyRows(log, cell)
  <1>1. DOMAIN Append(log, row) = DOMAIN log \cup {Len(log) + 1}
    OBVIOUS
  <1>2. \A i \in DOMAIN log : Append(log, row)[i] = log[i]
    OBVIOUS
  <1>3. Append(log, row)[Len(log) + 1] = row
    OBVIOUS
  <1>. QED
    BY <1>1, <1>2, <1>3 DEF DailyRows

(* The same for the cells of the monthly cache. *)
LEMMA MonthlyRowsAppend ==
    ASSUME NEW log \in Seq(LogRow), NEW row \in LogRow, NEW cell
    PROVE  /\ MonthlyRows(log, cell) \subseteq DOMAIN log
           /\ MonthlyRows(Append(log, row), cell) =
                 IF MonthlyCell(row.rec, row.day) = cell
                 THEN MonthlyRows(log, cell) \cup {Len(log) + 1}
                 ELSE MonthlyRows(log, cell)
  <1>1. DOMAIN Append(log, row) = DOMAIN log \cup {Len(log) + 1}
    OBVIOUS
  <1>2. \A i \in DOMAIN log : Append(log, row)[i] = log[i]
    OBVIOUS
  <1>3. Append(log, row)[Len(log) + 1] = row
    OBVIOUS
  <1>. QED
    BY <1>1, <1>2, <1>3 DEF MonthlyRows

(* One cell x of a cache after a row is appended to the log and counted in *)
(* its own cell: before and after are the rows of x.                       *)
LEMMA CacheAppend ==
    ASSUME NEW log \in Seq(LogRow), NEW row \in LogRow,
           NEW S, NEW table \in [S -> Row], NEW cell \in S, NEW x \in S, NEW c \in Columns,
           NEW before \in SUBSET DOMAIN log, NEW after,
           after = IF cell = x THEN before \cup {Len(log) + 1} ELSE before,
           IsFiniteSet(Units(Amounts(log, before, c))),
           table[x][c] = Total(log, before, c)
    PROVE  /\ IsFiniteSet(Units(Amounts(Append(log, row), after, c)))
           /\ Upsert(table, cell, row.rec)[x][c] = Total(Append(log, row), after, c)
  <1>1. row.rec \in Records
    BY DEF LogRow
  <1>2. Upsert(table, cell, row.rec)[x][c] =
           IF x = cell THEN table[x][c] + Contribution(row.rec)[c] ELSE table[x][c]
    BY <1>1, UpsertCell
  <1>3. CASE cell = x
    <2>1. /\ IsFiniteSet(Units(Amounts(Append(log, row), before \cup {Len(log) + 1}, c)))
          /\ Total(Append(log, row), before \cup {Len(log) + 1}, c)
                = Total(log, before, c) + Contribution(row.rec)[c]
      BY TotalAppend
    <2>. QED
      BY <1>2, <1>3, <2>1
  <1>4. CASE cell # x
    <2>1. Amounts(Append(log, row), before, c) = Amounts(log, before, c)
      BY AmountsAppend
    <2>. QED
      BY <1>2, <1>4, <2>1 DEF Total
  <1>. QED
    BY <1>3, <1>4

(* Posting a record to all three tables keeps the balance. *)
LEMMA PostBalanced ==
    ASSUME NEW log \in Seq(LogRow), NEW days \in DailyTable, NEW months \in MonthlyTable,
           NEW row \in LogRow, Balanced(log, days, months)
    PROVE  Balanced(Append(log, row),
                    Upsert(days, DailyCell(row.rec, row.day), row.rec),
                    Upsert(months, MonthlyCell(row.rec, row.day), row.rec))
  <1>. DEFINE dcell == DailyCell(row.rec, row.day)
              mcell == MonthlyCell(row.rec, row.day)
  <1>1. dcell \in DailyCells /\ mcell \in MonthlyCells
    BY CellTypes DEF LogRow
  <1>2. days \in [DailyCells -> Row] /\ months \in [MonthlyCells -> Row]
    BY DEF DailyTable, MonthlyTable
  <1>3. ASSUME NEW x \in DailyCells, NEW c \in Columns
        PROVE  /\ IsFiniteSet(Units(Amounts(Append(log, row), DailyRows(Append(log, row), x), c)))
               /\ Upsert(days, dcell, row.rec)[x][c]
                     = Total(Append(log, row), DailyRows(Append(log, row), x), c)
    <2>. DEFINE before == DailyRows(log, x)
                after  == DailyRows(Append(log, row), x)
    <2>1. /\ before \subseteq DOMAIN log
          /\ after = IF dcell = x THEN before \cup {Len(log) + 1} ELSE before
      BY DailyRowsAppend
    <2>2. /\ IsFiniteSet(Units(Amounts(log, before, c)))
          /\ days[x][c] = Total(log, before, c)
      BY DEF Balanced, FiniteTotals, CachesMatch
    <2>. HIDE DEF before, after, dcell
    <2>3. /\ IsFiniteSet(Units(Amounts(Append(log, row), after, c)))
          /\ Upsert(days, dcell, row.rec)[x][c] = Total(Append(log, row), after, c)
      BY <1>1, <1>2, <2>1, <2>2, CacheAppend
    <2>. QED
      BY <2>3 DEF after
  <1>4. ASSUME NEW x \in MonthlyCells, NEW c \in Columns
        PROVE  /\ IsFiniteSet(Units(Amounts(Append(log, row), MonthlyRows(Append(log, row), x), c)))
               /\ Upsert(months, mcell, row.rec)[x][c]
                     = Total(Append(log, row), MonthlyRows(Append(log, row), x), c)
    <2>. DEFINE before == MonthlyRows(log, x)
                after  == MonthlyRows(Append(log, row), x)
    <2>1. /\ before \subseteq DOMAIN log
          /\ after = IF mcell = x THEN before \cup {Len(log) + 1} ELSE before
      BY MonthlyRowsAppend
    <2>2. /\ IsFiniteSet(Units(Amounts(log, before, c)))
          /\ months[x][c] = Total(log, before, c)
      BY DEF Balanced, FiniteTotals, CachesMatch
    <2>. HIDE DEF before, after, mcell
    <2>3. /\ IsFiniteSet(Units(Amounts(Append(log, row), after, c)))
          /\ Upsert(months, mcell, row.rec)[x][c] = Total(Append(log, row), after, c)
      BY <1>1, <1>2, <2>1, <2>2, CacheAppend
    <2>. QED
      BY <2>3 DEF after
  <1>. QED
    BY <1>3, <1>4 DEF Balanced, FiniteTotals, CachesMatch
=============================================================================
