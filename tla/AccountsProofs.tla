--------------------------- MODULE AccountsProofs ---------------------------
(***************************************************************************)
(* Proofs about Accounts, for any employees, shifts, rates, operations and *)
(* reports, and any number of administrators' operations.                  *)
(***************************************************************************)
EXTENDS Accounts, SumProofs, SequenceTheorems

(***************************************************************************)
(* Sums of rows                                                            *)
(***************************************************************************)

LEMMA PaySums == \A f : Pay!SumFunction(f) = SumFunctionOnSet(f, DOMAIN f)
BY Zenon DEF Pay!SumFunction, Pay!SumFunctionOnSet, Pay!FoldFunctionOnSet, Pay!MapThenFoldSet,
   SumFunctionOnSet, FoldFunctionOnSet, MapThenFoldSet

\* What is paid, fined or added, row by row.
AmountOf(rows) == [r \in rows |-> r.amount]

Priced(rows) == IsFiniteSet(rows) /\ \A r \in rows : r.amount \in Int

LEMMA SumOfAmounts ==
    ASSUME NEW rows, Priced(rows), NEW S \in SUBSET rows
    PROVE  /\ Pay!SumOf(S) = SumFunctionOnSet(AmountOf(rows), S)
           /\ Pay!SumOf(S) \in Int /\ Priced(S) /\ Ints(AmountOf(rows), S)
<1>1. /\ IsFiniteSet(S) /\ Ints(AmountOf(rows), S) /\ \A r \in S : AmountOf(rows)[r] = r.amount
      /\ \A r \in S : r.amount \in Int
  BY FS_Subset DEF Priced, Ints, AmountOf
<1> DEFINE f == [r \in S |-> r.amount]
<1>2. Pay!SumOf(S) = SumFunctionOnSet(f, S)
  BY PaySums DEF Pay!SumOf
<1>3. \A r \in S : f[r] = AmountOf(rows)[r]
  BY <1>1
<1> HIDE DEF f
<1>4. SumFunctionOnSet(f, S) = SumFunctionOnSet(AmountOf(rows), S)
  BY <1>1, <1>3, SumOfSame
<1> QED BY <1>1, <1>2, <1>4, SumIsInt DEF Priced

(***************************************************************************)
(* One shift                                                               *)
(***************************************************************************)

\* Among rates that are not after the moment there is a last one.
LEMMA LastOfRates ==
    ASSUME NEW rows \in SUBSET Pay!Rates, rows # {}, NEW moment \in Nat,
           \A r \in rows : r.from <= moment
    PROVE  \E r \in rows : \A q \in rows : q.from <= r.from
<1> DEFINE R == {ss \in Nat \X Nat : ss[1] < ss[2]}
           ages == {moment - r.from : r \in rows}
<1>0. \A r \in rows : r.from \in Nat
  BY AccountsAssumption DEF Pay!PayrollAssumption, Pay!Rates, Pay!Rate, Pay!Moments
<1>1. IsWellFoundedOn(R, Nat)
  BY NatLessThanWellFounded, Zenon DEF OpToRel
<1>2. ages \subseteq Nat /\ ages # {}
  BY <1>0
<1>3. PICK x \in ages : \A y \in ages : ~(<<y, x>> \in R)
  <2> HIDE DEF R, ages
  <2> QED BY <1>1, <1>2, WFMin
<1>4. PICK r \in rows : x = moment - r.from
  BY <1>3
<1>5. ASSUME NEW q \in rows PROVE q.from <= r.from
  <2> DEFINE y == moment - q.from
  <2>1. y \in Nat /\ x \in Nat /\ y \in ages
    BY <1>2, <1>3
  <2>2. ~(y < x)
    BY <1>3, <2>1
  <2> QED BY <1>0, <1>4, <2>1, <2>2
<1> QED BY <1>5

\* The rate of a moment is the last one that is not after it.
LEMMA RateIsTheLast ==
    ASSUME NEW rows \in SUBSET Pay!Rates, NEW moment \in Nat
    PROVE  LET rate == Pay!RateForMoment(rows, moment) IN
           /\ rate = None => \A r \in rows : ~(r.from <= moment)
           /\ rate # None => /\ rate \in rows /\ rate.from <= moment
                             /\ \A q \in rows : q.from <= moment => q.from <= rate.from
<1> DEFINE past == {r \in rows : r.from <= moment}
<1>1. None \notin Pay!Rates
  BY AccountsAssumption DEF Pay!PayrollAssumption
<1>2. CASE past = {}
  BY <1>2 DEF Pay!RateForMoment
<1>3. CASE past # {}
  <2>1. past \in SUBSET Pay!Rates /\ \A r \in past : r.from <= moment
    OBVIOUS
  <2> HIDE DEF past
  <2>2. \E r \in past : \A q \in past : q.from <= r.from
    BY <1>3, <2>1, LastOfRates
  <2> DEFINE rate == CHOOSE r \in past : \A q \in past : q.from <= r.from
  <2>3. rate \in past /\ \A q \in past : q.from <= rate.from
    BY <2>2
  <2>4. Pay!RateForMoment(rows, moment) = rate
    BY <1>3 DEF Pay!RateForMoment, past
  <2> HIDE DEF rate
  <2> QED BY <1>1, <2>1, <2>3, <2>4 DEF past
<1> QED BY <1>2, <1>3

PaidShift == [id : PaidShifts, user : Users, start : Nat, seconds : Nat, planned : Nat \cup {None},
              overtime : Nat, deleted : BOOLEAN]

\* What a shift is worth is a whole number of kopecks.
LEMMA AmountIsInt ==
    ASSUME NEW rate \in Pay!Rates, NEW seconds \in Nat
    PROVE  Pay!ShiftAmount(rate, seconds) \in Int
<1>1. rate.amount \in Nat
  BY AccountsAssumption DEF Pay!PayrollAssumption, Pay!Rates, Pay!Rate
<1>2. seconds * rate.amount \in Nat
  BY <1>1
<1> DEFINE n == seconds * rate.amount
<1> HIDE DEF n
<1>3. (2 * n + 3600) \div (2 * 3600) \in Int
  BY <1>2 DEF n
<1> QED BY <1>1, <1>3 DEF Pay!ShiftAmount, Pay!RoundHalfUp, Pay!SecondsPerHour, n

\* Every column of a shift is a whole number, and time and overtime make its gross.
LEMMA ColumnsOfShift ==
    ASSUME NEW s \in PaidShift, NEW rows \in SUBSET Pay!Rates
    PROVE  /\ \A c \in Pay!Columns : Pay!ShiftColumns(s, rows)[c] \in Int
           /\ Pay!ShiftColumns(s, rows).gross
                = Pay!ShiftColumns(s, rows).base + Pay!ShiftColumns(s, rows).overtimePay
<1> DEFINE rate == Pay!RateForMoment(rows, s.start)
           cols == Pay!ShiftColumns(s, rows)
<1>1. /\ s.start \in Nat /\ s.seconds \in Nat /\ s.overtime \in Nat
      /\ Pay!PlannedSeconds(s) \in Nat /\ s.seconds + s.overtime \in Nat
  BY DEF PaidShift, Pay!PlannedSeconds
<1>2. rate # None => rate \in Pay!Rates
  BY <1>1, RateIsTheLast
<1> HIDE DEF rate
<1>3. ASSUME rate # None, NEW t \in Nat PROVE Pay!ShiftAmount(rate, t) \in Int
  BY <1>2, <1>3, AmountIsInt
<1> DEFINE whole == Pay!ShiftAmount(rate, s.seconds + s.overtime)
           plain == Pay!ShiftAmount(rate, s.seconds)
           plan == Pay!ShiftAmount(rate, Pay!PlannedSeconds(s))
<1>4. rate # None => whole \in Int /\ plain \in Int /\ plan \in Int
  BY <1>1, <1>3
<1>5. cols = [worked       |-> s.seconds,
              overtime     |-> s.overtime,
              shifts       |-> 1,
              planned      |-> Pay!PlannedSeconds(s),
              gross        |-> IF rate # None THEN whole ELSE 0,
              base         |-> IF rate # None THEN plain ELSE 0,
              overtimePay  |-> IF rate # None THEN whole - plain ELSE 0,
              plannedPay   |-> IF rate # None THEN plan ELSE 0,
              unpaid       |-> IF rate # None THEN 0 ELSE s.seconds,
              unpaidShifts |-> IF rate # None THEN 0 ELSE 1]
  BY Zenon DEF Pay!ShiftColumns, Pay!OvertimeAmount, rate
<1> HIDE DEF cols, whole, plain, plan
<1>6. cols.gross = cols.base + cols.overtimePay
  BY <1>4, <1>5
<1>7. /\ cols.worked \in Int /\ cols.overtime \in Int /\ cols.shifts \in Int /\ cols.planned \in Int
      /\ cols.gross \in Int /\ cols.base \in Int /\ cols.overtimePay \in Int
      /\ cols.plannedPay \in Int /\ cols.unpaid \in Int /\ cols.unpaidShifts \in Int
  BY <1>1, <1>4, <1>5
<1>8. \A c \in Pay!Columns : cols[c] \in Int
  BY <1>7 DEF Pay!Columns
<1> QED BY <1>6, <1>8 DEF cols

(***************************************************************************)
(* One employee                                                            *)
(***************************************************************************)

Worked(S) == S \subseteq PaidShift /\ IsFiniteSet(S)

\* One column, shift by shift.
Column(S, rows, c) == [s \in S |-> Pay!ShiftColumns(s, rows)[c]]

LEMMA EarningsAreSums ==
    ASSUME NEW S, Worked(S), NEW rows \in SUBSET Pay!Rates, NEW c \in Pay!Columns, NEW T \in SUBSET S
    PROVE  /\ Pay!Earnings(T, rows)[c] = SumFunctionOnSet(Column(S, rows, c), T)
           /\ Pay!Earnings(T, rows)[c] \in Int
           /\ Ints(Column(S, rows, c), S)
<1>1. \A s \in S : Pay!ShiftColumns(s, rows)[c] \in Int
  BY ColumnsOfShift DEF Worked
<1>2. Ints(Column(S, rows, c), S) /\ Ints(Column(S, rows, c), T)
  BY <1>1 DEF Ints, Column
<1> DEFINE f == [s \in T |-> Pay!ShiftColumns(s, rows)[c]]
<1>3. Pay!Earnings(T, rows)[c] = SumFunctionOnSet(f, T)
  BY PaySums DEF Pay!Earnings
<1>4. \A s \in T : f[s] = Column(S, rows, c)[s]
  BY DEF Column
<1>5. IsFiniteSet(T)
  BY FS_Subset DEF Worked
<1> HIDE DEF f
<1>6. SumFunctionOnSet(f, T) = SumFunctionOnSet(Column(S, rows, c), T)
  BY <1>2, <1>4, <1>5, SumOfSame
<1> QED BY <1>2, <1>3, <1>5, <1>6, SumIsInt

\* Days and buckets of days add up to the whole, whatever the zone and the buckets.
LEMMA BreakdownAddsUp ==
    ASSUME NEW S, Worked(S), NEW rows \in SUBSET Pay!Rates, NEW zone, NEW g
    PROVE  Pay!Aggregate(Pay!Breakdown(S, rows, zone, g)) = Pay!Earnings(S, rows)
<1> DEFINE days == {Pay!LocalDay(s.start, zone) : s \in S}
           On(d) == {s \in S : Pay!LocalDay(s.start, zone) = d}
           daily == [d \in days |-> Pay!Earnings(On(d), rows)]
           buckets == {Pay!BucketStart(d, g) : d \in days}
           In(b) == {d \in days : Pay!BucketStart(d, g) = b}
           broken == [b \in buckets |-> [c \in Pay!Columns |->
                         Pay!SumFunction([d \in In(b) |-> daily[d][c]])]]
<1>1. Pay!Breakdown(S, rows, zone, g) = broken
  BY Zenon DEF Pay!Breakdown
<1>2. ASSUME NEW c \in Pay!Columns
      PROVE  Pay!Aggregate(broken)[c] = Pay!Earnings(S, rows)[c]
  <2> DEFINE F == Column(S, rows, c)
             dayOf == [s \in S |-> Pay!LocalDay(s.start, zone)]
             perDay == [d \in days |-> daily[d][c]]
             bucketOf == [d \in days |-> Pay!BucketStart(d, g)]
             perBucket == [b \in buckets |-> broken[b][c]]
  <2>1. /\ Pay!Earnings(S, rows)[c] = SumFunctionOnSet(F, S)
        /\ IsFiniteSet(S) /\ Ints(F, S)
    BY EarningsAreSums DEF Worked
  <2>2. IsFiniteSet(days) /\ Ints(perDay, days) /\ SumFunctionOnSet(perDay, days) = SumFunctionOnSet(F, S)
    <3> DEFINE C == [d \in days |-> On(d)]
    <3>1. Classes(S, dayOf, days, C) /\ \A d \in days : C[d] # {}
      BY DEF Classes
    <3>2. ASSUME NEW d \in days
          PROVE  perDay[d] = SumFunctionOnSet(F, C[d])
      <4>1. On(d) \in SUBSET S /\ On(d) = C[d]
        OBVIOUS
      <4>2. perDay[d] = Pay!Earnings(On(d), rows)[c]
        OBVIOUS
      <4> HIDE DEF On, perDay, dayOf, F, C
      <4>3. Pay!Earnings(On(d), rows)[c] = SumFunctionOnSet(Column(S, rows, c), On(d))
        BY <4>1, EarningsAreSums
      <4> QED BY <4>1, <4>2, <4>3 DEF F
    <3> HIDE DEF perDay, dayOf, days, F, C
    <3> QED BY <2>1, <3>1, <3>2, ClassesAddUp
  <2>3. IsFiniteSet(buckets) /\ SumFunctionOnSet(perBucket, buckets) = SumFunctionOnSet(perDay, days)
    <3> DEFINE C == [b \in buckets |-> In(b)]
    <3>1. Classes(days, bucketOf, buckets, C) /\ \A b \in buckets : C[b] # {}
      <4> HIDE DEF days
      <4> QED BY DEF Classes
    <3>2. ASSUME NEW b \in buckets
          PROVE  perBucket[b] = SumFunctionOnSet(perDay, C[b])
      <4> DEFINE f == [d \in In(b) |-> daily[d][c]]
      <4>1. perBucket[b] = Pay!SumFunction(f)
        OBVIOUS
      <4>2. DOMAIN f = In(b) /\ In(b) \in SUBSET days /\ In(b) = C[b]
            /\ \A d \in In(b) : f[d] = perDay[d]
        OBVIOUS
      <4> HIDE DEF f, perBucket, perDay, In, bucketOf, days, C
      <4>3. Pay!SumFunction(f) = SumFunctionOnSet(f, In(b))
        BY <4>2, PaySums
      <4>4. IsFiniteSet(In(b)) /\ Ints(perDay, In(b))
        BY <2>2, <4>2, FS_Subset DEF Ints
      <4>5. SumFunctionOnSet(f, In(b)) = SumFunctionOnSet(perDay, In(b))
        BY <4>2, <4>4, SumOfSame
      <4> QED BY <4>1, <4>2, <4>3, <4>5
    <3> HIDE DEF perBucket, bucketOf, perDay, buckets, days, C
    <3> QED BY <2>2, <3>1, <3>2, ClassesAddUp
  <2>4. Pay!Aggregate(broken)[c] = SumFunctionOnSet(perBucket, buckets)
    <3> HIDE DEF days, daily
    <3>1. DOMAIN broken = buckets
      OBVIOUS
    <3> HIDE DEF broken, buckets
    <3>2. Pay!Aggregate(broken)[c] = Pay!SumFunction([b \in DOMAIN broken |-> broken[b][c]])
      BY DEF Pay!Aggregate
    <3>3. [b \in DOMAIN broken |-> broken[b][c]] = perBucket /\ DOMAIN perBucket = buckets
      BY <3>1
    <3> QED BY <3>2, <3>3, PaySums
  <2> QED BY <2>1, <2>2, <2>3, <2>4
<1> HIDE DEF broken
<1>3. /\ Pay!Aggregate(broken) = [c \in Pay!Columns |-> Pay!Aggregate(broken)[c]]
      /\ Pay!Earnings(S, rows) = [c \in Pay!Columns |-> Pay!Earnings(S, rows)[c]]
  BY Zenon DEF Pay!Aggregate, Pay!Earnings
<1> QED BY <1>1, <1>2, <1>3

LEMMA SameCardinality == \A S : Pay!Cardinality(S) = Cardinality(S)
BY Zenon DEF Pay!Cardinality, Cardinality

Up(rows) == {r \in rows : r.amount > 0}

Down(rows) == {r \in rows : r.amount < 0}

LEMMA EntryFields ==
    ASSUME NEW rows
    PROVE  LET entry == Pay!CategoryEntry(rows) IN
           /\ entry.amount = Pay!SumOf(rows) /\ entry.accrual = Pay!SumOf(Up(rows))
           /\ entry.deduction = -Pay!SumOf(Down(rows)) /\ entry.count = Cardinality(rows)
<1> DEFINE up == Pay!SumOf(Up(rows))
           down == Pay!SumOf(Down(rows))
<1>1. Pay!CategoryEntry(rows) =
        [amount |-> Pay!SumOf(rows), accrual |-> up, deduction |-> -down, count |-> Cardinality(rows)]
  BY SameCardinality, Zenon DEF Pay!CategoryEntry, Up, Down
<1> HIDE DEF up, down
<1>2. /\ Pay!CategoryEntry(rows).amount = Pay!SumOf(rows) /\ Pay!CategoryEntry(rows).accrual = up
      /\ Pay!CategoryEntry(rows).deduction = -down /\ Pay!CategoryEntry(rows).count = Cardinality(rows)
  BY <1>1
<1> QED BY <1>2 DEF up, down

\* Accruals and deductions make the amount.
LEMMA EntryAddsUp ==
    ASSUME NEW rows, Priced(rows)
    PROVE  LET entry == Pay!CategoryEntry(rows) IN
           /\ entry.amount \in Int /\ entry.accrual \in Int /\ entry.deduction \in Int
           /\ entry.accrual - entry.deduction = entry.amount
           /\ rows # {} => entry.count > 0
<1> DEFINE up == Up(rows)
           down == Down(rows)
           F == AmountOf(rows)
           entry == Pay!CategoryEntry(rows)
<1>1. up \in SUBSET rows /\ down \in SUBSET rows /\ up \cup down \in SUBSET rows /\ up \cap down = {}
      /\ \A r \in rows \ (up \cup down) : F[r] = 0
  BY DEF Priced, AmountOf, Up, Down
<1>2. /\ entry.amount = Pay!SumOf(rows) /\ entry.accrual = Pay!SumOf(up)
      /\ entry.deduction = -Pay!SumOf(down) /\ entry.count = Cardinality(rows)
  BY EntryFields
<1>3. IsFiniteSet(rows)
  BY DEF Priced
<1>4. rows # {} => Cardinality(rows) > 0
  BY <1>3, FS_EmptySet, FS_CardinalityType
<1> HIDE DEF up, down, F, entry
<1>5. /\ Pay!SumOf(rows) = SumFunctionOnSet(F, rows) /\ Pay!SumOf(rows) \in Int
      /\ Pay!SumOf(up) = SumFunctionOnSet(F, up) /\ Pay!SumOf(up) \in Int /\ IsFiniteSet(up)
      /\ Pay!SumOf(down) = SumFunctionOnSet(F, down) /\ Pay!SumOf(down) \in Int /\ IsFiniteSet(down)
      /\ Ints(F, up \cup down)
  BY <1>1, SumOfAmounts DEF F, Priced
<1>6. SumFunctionOnSet(F, rows) = SumFunctionOnSet(F, up \cup down)
  BY <1>1, <1>3, <1>5, SumOfSupport
<1>7. SumFunctionOnSet(F, up \cup down) = SumFunctionOnSet(F, up) + SumFunctionOnSet(F, down)
  BY <1>1, <1>5, SumOfBoth
<1> QED BY <1>2, <1>4, <1>5, <1>6, <1>7 DEF entry

\* The categories make the adjustments.
LEMMA CategoriesAddUp ==
    ASSUME NEW rows, Priced(rows)
    PROVE  LET entries == Pay!ByCategory(rows) IN
           /\ IsFiniteSet(DOMAIN entries)
           /\ \A c \in DOMAIN entries : entries[c].amount \in Int
           /\ Pay!SumFunction([c \in DOMAIN entries |-> entries[c].amount]) = Pay!SumOf(rows)
<1> DEFINE cats == {r.category : r \in rows}
           Of(c) == {r \in rows : r.category = c}
           C == [c \in cats |-> Of(c)]
           class == [r \in rows |-> r.category]
           F == AmountOf(rows)
           entries == Pay!ByCategory(rows)
           K == [c \in DOMAIN entries |-> entries[c].amount]
<1>1. Classes(rows, class, cats, C) /\ \A c \in cats : C[c] # {}
  BY DEF Classes
<1>2. DOMAIN entries = cats /\ \A c \in cats : entries[c] = Pay!CategoryEntry(C[c])
  BY DEF Pay!ByCategory
<1>3. IsFiniteSet(rows) /\ rows \in SUBSET rows
  BY DEF Priced
<1> HIDE DEF cats, C, class, F, entries
<1>4. Pay!SumOf(rows) = SumFunctionOnSet(F, rows) /\ Ints(F, rows)
  BY <1>3, SumOfAmounts DEF F
<1>5. ASSUME NEW c \in cats
      PROVE  entries[c].amount = SumFunctionOnSet(F, C[c]) /\ entries[c].amount \in Int
  <2>1. C[c] \in SUBSET rows
    BY <1>1 DEF Classes
  <2>2. entries[c].amount = Pay!SumOf(C[c])
    BY <1>2, EntryFields
  <2> QED BY <2>1, <2>2, SumOfAmounts DEF F
<1>6. DOMAIN K = cats /\ \A c \in cats : K[c] = SumFunctionOnSet(F, C[c])
  BY <1>2, <1>5
<1> HIDE DEF K
<1>7. IsFiniteSet(cats) /\ SumFunctionOnSet(K, cats) = SumFunctionOnSet(F, rows)
  BY <1>1, <1>3, <1>4, <1>6, ClassesAddUp
<1>8. Pay!SumFunction(K) = Pay!SumOf(rows)
  BY <1>4, <1>6, <1>7, PaySums
<1> QED BY <1>2, <1>5, <1>7, <1>8 DEF K, entries

Fields == {"amount", "accrual", "deduction", "count"}

\* A line of the report that adds up, of whole kopecks.
Sound(item) ==
    /\ Pay!AddsUp(item)
    /\ \A c \in Pay!Columns : item.columns[c] \in Int
    /\ item.penalty \in Int /\ item.net \in Int
    /\ item.adjustment.amount \in Int /\ item.adjustment.accrual \in Int /\ item.adjustment.deduction \in Int
    /\ IsFiniteSet(DOMAIN item.byCategory)
    /\ \A c \in DOMAIN item.byCategory : item.byCategory[c].amount \in Int

LEMMA ItemIsSound ==
    ASSUME NEW S, Worked(S), NEW rows \in SUBSET Pay!Rates, NEW fines, Priced(fines),
           NEW extra, Priced(extra), NEW zone, NEW g
    PROVE  LET item == Pay!Item(S, rows, fines, extra, zone, g) IN
           /\ Sound(item)
           /\ item.columns = Pay!Earnings(S, rows) /\ item.penalty = Pay!SumOf(fines)
           /\ item.penalties = Cardinality(fines) /\ item.adjustment = Pay!CategoryEntry(extra)
           /\ item.net = Pay!Earnings(S, rows).gross - Pay!SumOf(fines) + Pay!SumOf(extra)
<1> DEFINE item == Pay!Item(S, rows, fines, extra, zone, g)
           cols == Pay!Earnings(S, rows)
           entry == Pay!CategoryEntry(extra)
           entries == Pay!ByCategory(extra)
<1>1. item = [columns     |-> cols,
              penalty     |-> Pay!SumOf(fines),
              penalties   |-> Cardinality(fines),
              adjustment  |-> entry,
              byCategory  |-> entries,
              net         |-> cols.gross - Pay!SumOf(fines) + entry.amount]
  <2>1. (IF g = "none" THEN cols ELSE Pay!Aggregate(Pay!Breakdown(S, rows, zone, g))) = cols
    BY BreakdownAddsUp
  <2> QED BY <2>1, SameCardinality, Zenon DEF Pay!Item, Pay!AdjustmentFields
<1>2. S \in SUBSET S /\ fines \in SUBSET fines /\ extra \in SUBSET extra
  OBVIOUS
<1>3. \A c \in Pay!Columns : cols[c] \in Int
  BY <1>2, EarningsAreSums
<1>4. entry.amount \in Int /\ entry.accrual \in Int /\ entry.deduction \in Int
      /\ entry.accrual - entry.deduction = entry.amount /\ entry.amount = Pay!SumOf(extra)
  BY EntryAddsUp, EntryFields
<1>5. Pay!SumOf(fines) \in Int
  BY <1>2, SumOfAmounts
<1>6. /\ IsFiniteSet(DOMAIN entries) /\ \A c \in DOMAIN entries : entries[c].amount \in Int
      /\ Pay!SumFunction([c \in DOMAIN entries |-> entries[c].amount]) = Pay!SumOf(extra)
  BY CategoriesAddUp
<1>7. cols.base + cols.overtimePay = cols.gross
  <2>1. "base" \in Pay!Columns /\ "overtimePay" \in Pay!Columns /\ "gross" \in Pay!Columns
    BY DEF Pay!Columns
  <2> DEFINE B == Column(S, rows, "base")
             O == Column(S, rows, "overtimePay")
             G == Column(S, rows, "gross")
  <2>2. \A s \in S : G[s] = B[s] + O[s]
    BY ColumnsOfShift DEF Worked, Column
  <2> HIDE DEF B, O, G, cols
  <2>3. /\ cols.base = SumFunctionOnSet(B, S) /\ Ints(B, S)
        /\ cols.overtimePay = SumFunctionOnSet(O, S) /\ Ints(O, S)
        /\ cols.gross = SumFunctionOnSet(G, S) /\ IsFiniteSet(S)
    BY <1>2, <2>1, EarningsAreSums DEF B, O, G, cols, Worked
  <2>4. SumFunctionOnSet(G, S) = SumFunctionOnSet(B, S) + SumFunctionOnSet(O, S)
    BY <2>2, <2>3, SumOfSums
  <2> QED BY <2>3, <2>4
<1>8. cols.gross \in Int
  BY <1>3 DEF Pay!Columns
<1> HIDE DEF item, cols, entry, entries
<1>9. item.net = cols.gross - Pay!SumOf(fines) + Pay!SumOf(extra) /\ item.net \in Int
  BY <1>1, <1>4, <1>5, <1>8
<1>10. Pay!AddsUp(item)
  <2>1. item.adjustment.amount
          = Pay!SumFunction([c \in DOMAIN item.byCategory |-> item.byCategory[c].amount])
    BY <1>1, <1>4, <1>6
  <2> QED BY <1>1, <1>4, <1>7, <2>1 DEF Pay!AddsUp
<1>11. Sound(item)
  BY <1>1, <1>3, <1>4, <1>5, <1>6, <1>9, <1>10 DEF Sound
<1> QED BY <1>1, <1>9, <1>11 DEF item, cols, entry

(***************************************************************************)
(* The report of the organization                                          *)
(***************************************************************************)

SoundItems(items) == IsFiniteSet(DOMAIN items) /\ \A u \in DOMAIN items : Sound(items[u])

\* Each total is a sum over the items.
LEMMA TotalsAreSums ==
    ASSUME NEW items
    PROVE  LET U == DOMAIN items
               totals == Pay!Totals(items) IN
           /\ \A c \in Pay!Columns :
                totals.columns[c] = SumFunctionOnSet([u \in U |-> items[u].columns[c]], U)
           /\ totals.penalty = SumFunctionOnSet([u \in U |-> items[u].penalty], U)
           /\ totals.adjustment.amount = SumFunctionOnSet([u \in U |-> items[u].adjustment.amount], U)
           /\ totals.adjustment.accrual = SumFunctionOnSet([u \in U |-> items[u].adjustment.accrual], U)
           /\ totals.adjustment.deduction = SumFunctionOnSet([u \in U |-> items[u].adjustment.deduction], U)
           /\ totals.net = SumFunctionOnSet([u \in U |-> items[u].net], U)
           /\ totals.byCategory = Pay!MergedCategories(items)
<1> DEFINE U == DOMAIN items
           totals == Pay!Totals(items)
           columns == [c \in Pay!Columns |-> Pay!SumFunction([u \in U |-> items[u].columns[c]])]
           adjustment == [f \in Fields |-> Pay!SumFunction([u \in U |-> items[u].adjustment[f]])]
           penalty == Pay!SumFunction([u \in U |-> items[u].penalty])
           net == Pay!SumFunction([u \in U |-> items[u].net])
<1>1. totals = [columns    |-> columns,
                penalty    |-> penalty,
                adjustment |-> adjustment,
                byCategory |-> Pay!MergedCategories(items),
                net        |-> net]
  BY Zenon DEF Pay!Totals, Fields
<1> HIDE DEF totals
<1>2. /\ totals.columns = columns /\ totals.penalty = penalty /\ totals.adjustment = adjustment
      /\ totals.byCategory = Pay!MergedCategories(items) /\ totals.net = net
  <2> HIDE DEF columns, penalty, adjustment, net
  <2> QED BY <1>1
<1>3. ASSUME NEW f, DOMAIN f = U PROVE Pay!SumFunction(f) = SumFunctionOnSet(f, U)
  BY <1>3, PaySums
<1>4. \A c \in Pay!Columns : columns[c] = SumFunctionOnSet([u \in U |-> items[u].columns[c]], U)
  BY <1>3
<1>5. /\ penalty = SumFunctionOnSet([u \in U |-> items[u].penalty], U)
      /\ net = SumFunctionOnSet([u \in U |-> items[u].net], U)
  BY <1>3
<1>6. /\ adjustment.amount = SumFunctionOnSet([u \in U |-> items[u].adjustment.amount], U)
      /\ adjustment.accrual = SumFunctionOnSet([u \in U |-> items[u].adjustment.accrual], U)
      /\ adjustment.deduction = SumFunctionOnSet([u \in U |-> items[u].adjustment.deduction], U)
  <2>1. "amount" \in Fields /\ "accrual" \in Fields /\ "deduction" \in Fields
    BY DEF Fields
  <2> QED BY <1>3, <2>1
<1> HIDE DEF columns, penalty, adjustment, net
<1> QED BY <1>2, <1>4, <1>5, <1>6 DEF totals

\* The merged categories make the adjustments of all.
LEMMA MergedCategoriesAddUp ==
    ASSUME NEW items, SoundItems(items)
    PROVE  LET merged == Pay!MergedCategories(items)
               U == DOMAIN items IN
           Pay!SumFunction([c \in DOMAIN merged |-> merged[c].amount])
             = SumFunctionOnSet([u \in U |-> items[u].adjustment.amount], U)
<1> DEFINE U == DOMAIN items
           Has(u) == DOMAIN items[u].byCategory
           cats == UNION {Has(u) : u \in U}
           entries(c) == {u \in U : c \in Has(u)}
           merged == Pay!MergedCategories(items)
           M == [u \in U |-> [c \in cats |-> IF c \in Has(u) THEN items[u].byCategory[c].amount ELSE 0]]
           N == [c \in cats |-> [u \in U |-> IF c \in Has(u) THEN items[u].byCategory[c].amount ELSE 0]]
           K == [u \in U |-> items[u].adjustment.amount]
           L == [c \in DOMAIN merged |-> merged[c].amount]
<1>1. merged = [c \in cats |-> [f \in Fields |->
                    Pay!SumFunction([u \in entries(c) |-> items[u].byCategory[c][f]])]]
  BY Zenon DEF Pay!MergedCategories, Fields
<1>2. IsFiniteSet(U) /\ \A u \in U : IsFiniteSet(Has(u)) /\ Has(u) \in SUBSET cats
  BY DEF SoundItems, Sound
<1>3. IsFiniteSet(cats)
  <2> DEFINE sets == {Has(u) : u \in U}
             f == [u \in U |-> Has(u)]
  <2>1. f \in Surjection(U, sets)
    BY DEF Surjection
  <2>2. IsFiniteSet(sets)
    BY <1>2, <2>1, FS_Surjection
  <2>3. \A T \in sets : IsFiniteSet(T)
    BY <1>2
  <2> HIDE DEF sets
  <2>4. IsFiniteSet(UNION sets)
    BY <2>2, <2>3, FS_UNION
  <2> QED BY <2>4 DEF sets
<1>4. \A u \in U : \A c \in Has(u) : items[u].byCategory[c].amount \in Int
  BY DEF SoundItems, Sound
<1>5. Table(U, cats, M, N)
  <2>1. \A u \in U : Ints(M[u], cats)
    BY <1>4 DEF Ints
  <2>2. \A u \in U, c \in cats : N[c][u] = M[u][c]
    OBVIOUS
  <2> QED BY <2>1, <2>2 DEF Table
<1>7. ASSUME NEW u \in U PROVE K[u] = SumFunctionOnSet(M[u], cats)
  <2> DEFINE g == [c \in Has(u) |-> items[u].byCategory[c].amount]
             row == M[u]
             T == Has(u)
  <2>1. K[u] = Pay!SumFunction(g)
    BY DEF SoundItems, Sound, Pay!AddsUp
  <2>2. Pay!SumFunction(g) = SumFunctionOnSet(g, T)
    BY PaySums
  <2>3. Ints(g, T) /\ (\A c \in T : row[c] = g[c]) /\ IsFiniteSet(T) /\ T \in SUBSET cats
        /\ Ints(row, T) /\ (\A c \in cats \ T : row[c] = 0)
    BY <1>2, <1>4 DEF Ints
  <2> HIDE DEF g, row, T, cats, K
  <2>4. SumFunctionOnSet(row, T) = SumFunctionOnSet(g, T)
    BY <2>3, SumOfSame
  <2>5. SumFunctionOnSet(row, cats) = SumFunctionOnSet(row, T)
    BY <1>3, <2>3, SumOfSupport
  <2> QED BY <2>1, <2>2, <2>4, <2>5 DEF row
<1>8. ASSUME NEW c \in cats PROVE L[c] = SumFunctionOnSet(N[c], U)
  <2> DEFINE g == [u \in entries(c) |-> items[u].byCategory[c]["amount"]]
             column == N[c]
             T == entries(c)
  <2>1. L[c] = Pay!SumFunction(g)
    <3>1. "amount" \in Fields
      BY DEF Fields
    <3> HIDE DEF merged
    <3> QED BY <1>1, <3>1
  <2>2. Pay!SumFunction(g) = SumFunctionOnSet(g, T)
    BY PaySums
  <2>3. T \in SUBSET U /\ IsFiniteSet(T)
    BY <1>2, FS_Subset
  <2>4. Ints(g, T) /\ (\A u \in T : column[u] = g[u])
        /\ Ints(column, T) /\ (\A u \in U \ T : column[u] = 0)
    BY <1>4 DEF Ints
  <2> HIDE DEF g, column, T, U, L
  <2>5. SumFunctionOnSet(column, T) = SumFunctionOnSet(g, T)
    BY <2>3, <2>4, SumOfSame
  <2>6. SumFunctionOnSet(column, U) = SumFunctionOnSet(column, T)
    BY <1>2, <2>3, <2>4, SumOfSupport
  <2> QED BY <2>1, <2>2, <2>5, <2>6 DEF column
<1>9. DOMAIN L = cats
  <2> HIDE DEF merged, cats
  <2> QED BY <1>1
<1>10. Pay!SumFunction(L) = SumFunctionOnSet(L, cats)
  <2> HIDE DEF L
  <2> QED BY <1>9, PaySums
<1>11. SumFunctionOnSet(K, U) = SumFunctionOnSet(L, cats)
  <2> HIDE DEF K, L, M, N, U, cats
  <2> QED BY <1>2, <1>3, <1>5, <1>7, <1>8, SumExchange
<1> QED BY <1>10, <1>11

\* So what is printed below the items adds up too.
LEMMA TotalsAddUp ==
    ASSUME NEW items, SoundItems(items)
    PROVE  Pay!AddsUp(Pay!Totals(items))
<1> DEFINE U == DOMAIN items
           totals == Pay!Totals(items)
           base == [u \in U |-> items[u].columns["base"]]
           over == [u \in U |-> items[u].columns["overtimePay"]]
           gross == [u \in U |-> items[u].columns["gross"]]
           penalty == [u \in U |-> items[u].penalty]
           net == [u \in U |-> items[u].net]
           amount == [u \in U |-> items[u].adjustment.amount]
           up == [u \in U |-> items[u].adjustment.accrual]
           down == [u \in U |-> items[u].adjustment.deduction]
           Sum(f) == SumFunctionOnSet(f, U)
<1>1. IsFiniteSet(U)
  BY DEF SoundItems
<1>2. /\ totals.columns.base = Sum(base) /\ totals.columns.overtimePay = Sum(over)
      /\ totals.columns.gross = Sum(gross) /\ totals.penalty = Sum(penalty) /\ totals.net = Sum(net)
      /\ totals.adjustment.amount = Sum(amount) /\ totals.adjustment.accrual = Sum(up)
      /\ totals.adjustment.deduction = Sum(down)
      /\ totals.byCategory = Pay!MergedCategories(items)
  <2>1. "base" \in Pay!Columns /\ "overtimePay" \in Pay!Columns /\ "gross" \in Pay!Columns
    BY DEF Pay!Columns
  <2> QED BY <2>1, TotalsAreSums
<1>3. ASSUME NEW u \in U
      PROVE  /\ base[u] \in Int /\ over[u] \in Int /\ gross[u] \in Int /\ penalty[u] \in Int
             /\ net[u] \in Int /\ amount[u] \in Int /\ up[u] \in Int /\ down[u] \in Int
             /\ gross[u] = base[u] + over[u] /\ up[u] = amount[u] + down[u]
             /\ net[u] + penalty[u] = gross[u] + amount[u]
  <2>1. Sound(items[u])
    BY DEF SoundItems
  <2>2. /\ items[u].columns["base"] \in Int /\ items[u].columns["overtimePay"] \in Int
        /\ items[u].columns["gross"] \in Int
    BY <2>1 DEF Sound, Pay!Columns
  <2> QED BY <2>1, <2>2 DEF Sound, Pay!AddsUp
<1>4. /\ Ints(base, U) /\ Ints(over, U) /\ Ints(gross, U) /\ Ints(penalty, U)
      /\ Ints(net, U) /\ Ints(amount, U) /\ Ints(up, U) /\ Ints(down, U)
  BY <1>3 DEF Ints
<1>5. Pay!SumFunction([c \in DOMAIN totals.byCategory |-> totals.byCategory[c].amount]) = Sum(amount)
  BY <1>2, MergedCategoriesAddUp
<1> DEFINE both == [u \in U |-> net[u] + penalty[u]]
<1>6. \A u \in U : both[u] = net[u] + penalty[u] /\ both[u] = gross[u] + amount[u]
  BY <1>3
<1>7. \A u \in U : gross[u] = base[u] + over[u] /\ up[u] = amount[u] + down[u]
  BY <1>3
<1> HIDE DEF base, over, gross, penalty, net, amount, up, down, both, U, totals
<1>8. /\ Sum(gross) = Sum(base) + Sum(over)
      /\ Sum(up) = Sum(amount) + Sum(down)
      /\ Sum(both) = Sum(net) + Sum(penalty) /\ Sum(both) = Sum(gross) + Sum(amount)
  BY <1>1, <1>4, <1>6, <1>7, SumOfSums
<1>9. /\ Sum(base) \in Int /\ Sum(over) \in Int /\ Sum(gross) \in Int /\ Sum(penalty) \in Int
      /\ Sum(net) \in Int /\ Sum(amount) \in Int /\ Sum(up) \in Int /\ Sum(down) \in Int
  BY <1>1, <1>4, SumIsInt
<1> HIDE DEF Sum
<1>10. /\ totals.columns.base + totals.columns.overtimePay = totals.columns.gross
       /\ totals.adjustment.accrual - totals.adjustment.deduction = totals.adjustment.amount
       /\ totals.net = totals.columns.gross - totals.penalty + totals.adjustment.amount
  BY <1>2, <1>8, <1>9
<1> QED BY <1>2, <1>5, <1>10 DEF Pay!AddsUp, totals

\* What the queries of a report return.
ReadRows(rows) ==
    /\ Worked(rows.shifts) /\ rows.rates \in SUBSET Pay!Rates
    /\ Priced(rows.penalties) /\ Priced(rows.adjustments)

\* The items of a report, and that nobody with a fine or an adjustment is left out.
LEMMA ItemsOfReport ==
    ASSUME NEW rows, ReadRows(rows), NEW request
    PROVE  LET items == Pay!Report(rows, request).items IN
           /\ SoundItems(items)
           /\ Pay!Report(rows, request).totals = Pay!Totals(items)
           /\ \A r \in rows.penalties \cup rows.adjustments : r.user \in DOMAIN items
           /\ \A u \in DOMAIN items :
                /\ items[u].penalty = Pay!SumOf(Pay!OfUser(rows.penalties, u))
                /\ items[u].adjustment.amount = Pay!SumOf(Pay!OfUser(rows.adjustments, u))
<1> DEFINE all == rows.shifts \cup rows.penalties \cup rows.adjustments
           users == {r.user : r \in all}
           Of(u) == Pay!Item(Pay!OfUser(rows.shifts, u), Pay!OfUser(rows.rates, u),
                             Pay!OfUser(rows.penalties, u), Pay!OfUser(rows.adjustments, u),
                             request.zone, request.granularity)
           every == [u \in users |-> Of(u)]
           kept == {u \in users : request.onlyMissing => Pay!KeptWhenMissing(every[u])}
           items == Pay!Report(rows, request).items
<1>1. /\ items = [u \in kept |-> every[u]]
      /\ Pay!Report(rows, request).totals = Pay!Totals(items)
  <2> DEFINE itemsOf == [u \in kept |-> every[u]]
  <2>1. Pay!Report(rows, request) = [items |-> itemsOf, totals |-> Pay!Totals(itemsOf)]
    BY Zenon DEF Pay!Report
  <2> HIDE DEF itemsOf
  <2>2. items = itemsOf /\ Pay!Report(rows, request).totals = Pay!Totals(itemsOf)
    BY <2>1
  <2> QED BY <2>2 DEF itemsOf
<1>2. IsFiniteSet(users)
  <2> DEFINE f == [r \in all |-> r.user]
  <2>1. f \in Surjection(all, users)
    BY DEF Surjection
  <2>2. IsFiniteSet(all)
    BY FS_Union DEF ReadRows, Worked, Priced
  <2> QED BY <2>1, <2>2, FS_Surjection
<1>3. ASSUME NEW u
      PROVE  /\ Worked(Pay!OfUser(rows.shifts, u)) /\ Pay!OfUser(rows.rates, u) \in SUBSET Pay!Rates
             /\ Priced(Pay!OfUser(rows.penalties, u)) /\ Priced(Pay!OfUser(rows.adjustments, u))
  BY FS_Subset DEF Pay!OfUser, ReadRows, Worked, Priced
<1>4. ASSUME NEW u
      PROVE  /\ Sound(Of(u))
             /\ Of(u).penalty = Pay!SumOf(Pay!OfUser(rows.penalties, u))
             /\ Of(u).penalties = Cardinality(Pay!OfUser(rows.penalties, u))
             /\ Of(u).adjustment = Pay!CategoryEntry(Pay!OfUser(rows.adjustments, u))
  <2> DEFINE S == Pay!OfUser(rows.shifts, u)
             paid == Pay!OfUser(rows.rates, u)
             fines == Pay!OfUser(rows.penalties, u)
             extra == Pay!OfUser(rows.adjustments, u)
             zone == request.zone
             g == request.granularity
             item == Pay!Item(S, paid, fines, extra, zone, g)
  <2>1. Of(u) = item
    OBVIOUS
  <2>2. Worked(S) /\ paid \in SUBSET Pay!Rates /\ Priced(fines) /\ Priced(extra)
    BY <1>3
  <2>3. /\ Sound(item) /\ item.penalty = Pay!SumOf(fines) /\ item.penalties = Cardinality(fines)
        /\ item.adjustment = Pay!CategoryEntry(extra)
    <3> HIDE DEF S, paid, fines, extra, zone, g
    <3> QED BY <2>2, ItemIsSound
  <2> HIDE DEF item, Of
  <2> QED BY <2>1, <2>3
<1> HIDE DEF Of, items
<1>5. DOMAIN items = kept /\ kept \in SUBSET users /\ \A u \in kept : items[u] = Of(u)
  BY <1>1
<1>6. IsFiniteSet(kept)
  BY <1>2, <1>5, FS_Subset
<1>7. ASSUME NEW r \in rows.penalties \cup rows.adjustments PROVE r.user \in kept
  <2>1. r.user \in users
    OBVIOUS
  <2>2. CASE r \in rows.penalties
    <3> DEFINE S == Pay!OfUser(rows.penalties, r.user)
    <3>1. r \in S
      BY <2>2 DEF Pay!OfUser
    <3>2. IsFiniteSet(S)
      BY <1>3 DEF Priced
    <3>3. Cardinality(S) > 0
      BY <3>1, <3>2, FS_EmptySet, FS_CardinalityType
    <3> QED BY <1>4, <2>1, <3>3 DEF Pay!KeptWhenMissing
  <2>3. CASE r \in rows.adjustments
    <3> DEFINE S == Pay!OfUser(rows.adjustments, r.user)
    <3>1. S # {}
      BY <2>3 DEF Pay!OfUser
    <3>2. Priced(S)
      BY <1>3
    <3> HIDE DEF S
    <3>3. Pay!CategoryEntry(S).count > 0
      BY <3>1, <3>2, EntryAddsUp
    <3>4. Of(r.user).adjustment.count > 0
      BY <1>4, <3>3 DEF S
    <3> QED BY <2>1, <3>4 DEF Pay!KeptWhenMissing
  <2> QED BY <2>2, <2>3
<1> HIDE DEF kept, users
<1>8. SoundItems(items)
  BY <1>4, <1>5, <1>6 DEF SoundItems
<1>9. \A u \in kept : /\ items[u].penalty = Pay!SumOf(Pay!OfUser(rows.penalties, u))
                      /\ items[u].adjustment.amount = Pay!SumOf(Pay!OfUser(rows.adjustments, u))
  BY <1>4, <1>5, EntryFields
<1> QED BY <1>1, <1>5, <1>7, <1>8, <1>9 DEF items

\* Whatever the queries returned, the columns add up.
LEMMA ReportIsSound ==
    ASSUME NEW rows, ReadRows(rows), NEW request
    PROVE  LET shown == Pay!Report(rows, request) IN
           Pay!AddsUp(shown.totals) /\ \A u \in DOMAIN shown.items : Pay!AddsUp(shown.items[u])
<1> DEFINE shown == Pay!Report(rows, request)
<1>1. SoundItems(shown.items) /\ shown.totals = Pay!Totals(shown.items)
  BY ItemsOfReport
<1> HIDE DEF shown
<1>2. Pay!AddsUp(shown.totals)
  BY <1>1, TotalsAddUp
<1> QED BY <1>1, <1>2 DEF SoundItems, Sound, shown

\* A sheet of operations of everybody in the report sums to the total of their sums.
LEMMA SheetAddsUp ==
    ASSUME NEW rows, Priced(rows), NEW U, IsFiniteSet(U), \A r \in rows : r.user \in U,
           NEW K, \A u \in U : K[u] = Pay!SumOf(Pay!OfUser(rows, u))
    PROVE  SumFunctionOnSet(K, U) = Pay!SumOf(rows)
<1> DEFINE F == AmountOf(rows)
           class == [r \in rows |-> r.user]
           C == [u \in U |-> Pay!OfUser(rows, u)]
<1>1. Classes(rows, class, U, C)
  BY DEF Classes, Pay!OfUser
<1>2. IsFiniteSet(rows) /\ rows \in SUBSET rows
  BY DEF Priced
<1>3. \A u \in U : C[u] \in SUBSET rows /\ K[u] = Pay!SumOf(C[u])
  BY DEF Pay!OfUser
<1> HIDE DEF F, class, C
<1>4. Pay!SumOf(rows) = SumFunctionOnSet(F, rows) /\ Ints(F, rows)
  BY <1>2, SumOfAmounts DEF F
<1>5. \A u \in U : K[u] = SumFunctionOnSet(F, C[u])
  BY <1>3, SumOfAmounts DEF F
<1> QED BY <1>1, <1>2, <1>4, <1>5, SumByClass

\* The sheets of a workbook list every operation, and sum to the totals.
LEMMA WorkbookIsSound ==
    ASSUME NEW rows, ReadRows(rows), NEW request,
           NEW sheets, sheets = [penalties |-> rows.penalties, adjustments |-> rows.adjustments]
    PROVE  LET book == Pay!Workbook(Pay!Report(rows, request), sheets) IN
           /\ book.summary = Pay!Report(rows, request)
           /\ book.penalties = rows.penalties /\ book.adjustments = rows.adjustments
           /\ Pay!SumOf(rows.penalties) = book.summary.totals.penalty
           /\ Pay!SumOf(rows.adjustments) = book.summary.totals.adjustment.amount
<1> DEFINE shown == Pay!Report(rows, request)
           items == shown.items
           U == DOMAIN items
           penalty == [u \in U |-> items[u].penalty]
           amount == [u \in U |-> items[u].adjustment.amount]
           book == Pay!Workbook(shown, sheets)
<1>1. /\ IsFiniteSet(U) /\ shown.totals = Pay!Totals(items)
      /\ \A r \in rows.penalties \cup rows.adjustments : r.user \in U
      /\ \A u \in U : /\ items[u].penalty = Pay!SumOf(Pay!OfUser(rows.penalties, u))
                      /\ items[u].adjustment.amount = Pay!SumOf(Pay!OfUser(rows.adjustments, u))
  BY ItemsOfReport DEF SoundItems
<1>2. /\ book.summary = shown
      /\ book.penalties = {r \in rows.penalties : r.user \in U}
      /\ book.adjustments = {r \in rows.adjustments : r.user \in U}
  BY DEF Pay!Workbook, Pay!SheetRows
<1> HIDE DEF shown, book
<1>3. /\ shown.totals.penalty = SumFunctionOnSet(penalty, U)
      /\ shown.totals.adjustment.amount = SumFunctionOnSet(amount, U)
  BY <1>1, TotalsAreSums
<1>4. /\ \A u \in U : penalty[u] = Pay!SumOf(Pay!OfUser(rows.penalties, u))
      /\ \A u \in U : amount[u] = Pay!SumOf(Pay!OfUser(rows.adjustments, u))
  BY <1>1
<1> HIDE DEF penalty, amount, U, items
<1>5. SumFunctionOnSet(penalty, U) = Pay!SumOf(rows.penalties)
  BY <1>1, <1>4, SheetAddsUp DEF ReadRows
<1>6. SumFunctionOnSet(amount, U) = Pay!SumOf(rows.adjustments)
  BY <1>1, <1>4, SheetAddsUp DEF ReadRows
<1>7. book.penalties = rows.penalties /\ book.adjustments = rows.adjustments
  BY <1>1, <1>2
<1> QED BY <1>2, <1>3, <1>5, <1>6, <1>7 DEF book, shown

(***************************************************************************)
(* The tables of the payroll                                               *)
(***************************************************************************)

LEMMA SameFinite == \A S : Pay!IsFiniteSet(S) <=> IsFiniteSet(S)
BY Zenon DEF Pay!IsFiniteSet, IsFiniteSet

PeopleInv ==
    /\ members \subseteq Users /\ edits \in 0 .. MaxEdits
    /\ template \in [amount : Fines, deleted : BOOLEAN]

ShiftsInv == shifts \in [PaidShifts -> Pay!PaidShift] /\ \A s \in PaidShifts : shifts[s].id = s

RatesInv ==
    /\ rates \subseteq {r \in Pay!Rates : r.user \in members}
    /\ \A r \in rates : Pay!FreeFrom(rates \ {r}, r.user, r.from)

FinesInv ==
    /\ penalties \subseteq Pay!OperationRows(PenaltyIds, members, Amounts \cup Fines, {None})
    /\ IsFiniteSet(penalties) /\ Pay!OwnShifts(penalties, shifts)

ExtrasInv ==
    /\ adjustments \subseteq
            Pay!OperationRows(AdjustmentIds, members, Pay!SignedAmounts, DOMAIN categories \cup {None})
    /\ IsFiniteSet(adjustments) /\ Pay!OwnShifts(adjustments, shifts)

CategoriesInv ==
    /\ categories \in [DOMAIN categories -> [name : Names, deleted : BOOLEAN]]
    /\ \A c \in Pay!LiveCategories : Pay!NameFree(categories[c].name, c)

\* The type invariant of the tables, and that there are finitely many operations.
TablesInv == PeopleInv /\ ShiftsInv /\ RatesInv /\ FinesInv /\ ExtrasInv /\ CategoriesInv

LEMMA TablesAreTyped == TablesInv => Pay!TypeOK
BY DEF TablesInv, PeopleInv, ShiftsInv, RatesInv, FinesInv, ExtrasInv, CategoriesInv, Pay!TypeOK,
   Pay!OwnShifts

LEMMA InitTables == Pay!Init => TablesInv
<1> SUFFICES ASSUME Pay!Init PROVE TablesInv
  OBVIOUS
<1>1. PICK w \in Worlds :
        /\ shifts = w.shifts /\ rates = w.rates
        /\ template = [amount |-> w.fine, deleted |-> FALSE]
        /\ penalties = w.penalties /\ adjustments = w.adjustments
  BY DEF Pay!Init
<1>2. /\ members = Users /\ categories = [c \in {} |-> [name |-> None, deleted |-> FALSE]] /\ edits = 0
  BY DEF Pay!Init
<1>3. /\ MaxEdits \in Nat
      /\ w.shifts \in [PaidShifts -> Pay!PaidShift] /\ \A s \in PaidShifts : w.shifts[s].id = s
      /\ w.rates \subseteq Pay!Rates
      /\ \A r \in w.rates : Pay!FreeFrom(w.rates \ {r}, r.user, r.from)
      /\ w.fine \in Fines
      /\ w.penalties \subseteq Pay!OperationRows(PenaltyIds, Users, Amounts \cup Fines, {None})
      /\ w.adjustments \subseteq Pay!OperationRows(AdjustmentIds, Users, Pay!SignedAmounts, {None})
      /\ Pay!OwnShifts(w.penalties \cup w.adjustments, w.shifts)
      /\ IsFiniteSet(w.penalties) /\ IsFiniteSet(w.adjustments)
  BY AccountsAssumption, SameFinite DEF Pay!PayrollAssumption
<1>4. PeopleInv
  BY <1>1, <1>2, <1>3 DEF PeopleInv
<1>5. ShiftsInv
  BY <1>1, <1>3 DEF ShiftsInv
<1>6. RatesInv
  <2>1. \A r \in Pay!Rates : r.user \in Users
    BY DEF Pay!Rates, Pay!Rate
  <2> QED BY <1>1, <1>2, <1>3, <2>1 DEF RatesInv
<1>7. FinesInv
  BY <1>1, <1>2, <1>3 DEF FinesInv, Pay!OwnShifts
<1>8. DOMAIN categories = {}
  BY <1>2
<1>9. ExtrasInv
  BY <1>1, <1>2, <1>3, <1>8 DEF ExtrasInv, Pay!OwnShifts, Pay!OperationRows
<1>10. CategoriesInv
  BY <1>8, <1>2 DEF CategoriesInv, Pay!LiveCategories
<1> QED BY <1>4, <1>5, <1>6, <1>7, <1>9, <1>10 DEF TablesInv

\* An operation of an administrator is counted.
LEMMA EditCounts ==
    ASSUME TablesInv, Pay!Edit
    PROVE  edits' \in 0 .. MaxEdits
BY AccountsAssumption DEF TablesInv, PeopleInv, Pay!Edit, Pay!PayrollAssumption

\* A new row from a moment that no other has.
LEMMA RateIsAdded ==
    ASSUME RatesInv, NEW row \in Pay!Rates, row.user \in members, NEW rest \in SUBSET rates,
           Pay!FreeFrom(rest, row.user, row.from), rates' = rest \cup {row}, UNCHANGED members
    PROVE  RatesInv'
<1>1. \A r \in rest \cup {row} : Pay!FreeFrom((rest \cup {row}) \ {r}, r.user, r.from)
  BY DEF RatesInv, Pay!FreeFrom
<1> QED BY <1>1 DEF RatesInv, Pay!FreeFrom

LEMMA EditRatesKeepsTables ==
    ASSUME TablesInv, Pay!EditRates
    PROVE  TablesInv' /\ UNCHANGED job
<1>1. \A r \in rates : r \in Pay!Rates /\ r.user \in members
  BY DEF TablesInv, RatesInv
<1>2. RatesInv
  BY DEF TablesInv
<1>3. /\ Pay!Edit /\ UNCHANGED <<members, shifts, template, penalties, adjustments, categories, job>>
      /\ RatesInv'
  <2>1. ASSUME NEW row \in Pay!Rates, Pay!CreateRate(row)
        PROVE  /\ Pay!Edit /\ UNCHANGED <<members, shifts, template, penalties, adjustments, categories, job>>
               /\ RatesInv'
    BY <1>2, <2>1, RateIsAdded DEF Pay!CreateRate, Pay!operations
  <2>2. ASSUME NEW row \in rates, Pay!DeleteRate(row)
        PROVE  /\ Pay!Edit /\ UNCHANGED <<members, shifts, template, penalties, adjustments, categories, job>>
               /\ RatesInv'
    BY <1>2, <2>2 DEF RatesInv, Pay!DeleteRate, Pay!FreeFrom, Pay!operations
  <2>3. ASSUME NEW row \in rates, NEW new \in Pay!Rates, Pay!UpdateRate(row, new)
        PROVE  /\ Pay!Edit /\ UNCHANGED <<members, shifts, template, penalties, adjustments, categories, job>>
               /\ RatesInv'
    <3>1. rates \ {row} \in SUBSET rates /\ new.user \in members
      BY <1>1, <2>3 DEF Pay!UpdateRate
    <3> QED BY <1>2, <2>3, <3>1, RateIsAdded DEF Pay!UpdateRate, Pay!operations
  <2> QED BY <2>1, <2>2, <2>3 DEF Pay!EditRates
<1>4. PeopleInv' /\ ShiftsInv' /\ FinesInv' /\ ExtrasInv' /\ CategoriesInv'
  BY <1>3, EditCounts DEF TablesInv, PeopleInv, ShiftsInv, FinesInv, ExtrasInv, CategoriesInv,
     Pay!LiveCategories, Pay!NameFree
<1> QED BY <1>3, <1>4 DEF TablesInv


\* Members and shifts.
LEMMA RemoveMemberKeepsTables ==
    ASSUME TablesInv, NEW u \in Users, Pay!RemoveMember(u)
    PROVE  TablesInv' /\ UNCHANGED job
<1>1. /\ Pay!Edit /\ members' = members \ {u} /\ rates' = {r \in rates : r.user # u}
      /\ penalties' = {p \in penalties : p.user # u} /\ adjustments' = {a \in adjustments : a.user # u}
      /\ UNCHANGED <<shifts, template, categories, job>>
  BY DEF Pay!RemoveMember
<1>2. PeopleInv' /\ ShiftsInv' /\ CategoriesInv'
  BY <1>1, EditCounts DEF TablesInv, PeopleInv, ShiftsInv, CategoriesInv, Pay!LiveCategories, Pay!NameFree
<1>3. RatesInv'
  BY <1>1 DEF TablesInv, RatesInv, Pay!FreeFrom
<1>4. FinesInv'
  <2>1. IsFiniteSet(penalties')
    BY <1>1, FS_Subset DEF TablesInv, FinesInv
  <2> QED BY <1>1, <2>1 DEF TablesInv, FinesInv, Pay!OperationRows, Pay!OwnShifts
<1>5. ExtrasInv'
  <2>1. IsFiniteSet(adjustments')
    BY <1>1, FS_Subset DEF TablesInv, ExtrasInv
  <2> QED BY <1>1, <2>1 DEF TablesInv, ExtrasInv, Pay!OperationRows, Pay!OwnShifts
<1> QED BY <1>1, <1>2, <1>3, <1>4, <1>5 DEF TablesInv

LEMMA JoinKeepsTables ==
    ASSUME TablesInv, NEW u \in Users, Pay!JoinOrganization(u)
    PROVE  TablesInv' /\ UNCHANGED job
<1>1. /\ Pay!Edit /\ members' = members \cup {u}
      /\ UNCHANGED <<shifts, rates, template, penalties, adjustments, categories, job>>
  BY DEF Pay!JoinOrganization, Pay!operations
<1>2. PeopleInv' /\ ShiftsInv' /\ CategoriesInv' /\ RatesInv'
  BY <1>1, EditCounts DEF TablesInv, PeopleInv, ShiftsInv, CategoriesInv, RatesInv,
     Pay!LiveCategories, Pay!NameFree
<1>3. FinesInv'
  BY <1>1 DEF TablesInv, FinesInv, Pay!OperationRows
<1>4. ExtrasInv'
  BY <1>1 DEF TablesInv, ExtrasInv, Pay!OperationRows
<1> QED BY <1>1, <1>2, <1>3, <1>4 DEF TablesInv

\* What changes in a shift is not whose it is.
LEMMA ShiftChangeKeepsTables ==
    ASSUME TablesInv, Pay!Edit, ShiftsInv', \A s \in PaidShifts : shifts'[s].user = shifts[s].user,
           UNCHANGED <<members, rates, template, penalties, adjustments, categories>>
    PROVE  TablesInv'
<1>1. PeopleInv' /\ CategoriesInv' /\ RatesInv'
  BY EditCounts DEF TablesInv, PeopleInv, CategoriesInv, RatesInv, Pay!LiveCategories, Pay!NameFree
<1>2. FinesInv'
  BY DEF TablesInv, FinesInv, Pay!OperationRows, Pay!OwnShifts
<1>3. ExtrasInv'
  BY DEF TablesInv, ExtrasInv, Pay!OperationRows, Pay!OwnShifts
<1> QED BY <1>1, <1>2, <1>3 DEF TablesInv

LEMMA EditShiftsKeepsTables ==
    ASSUME TablesInv, Pay!EditShifts
    PROVE  TablesInv' /\ UNCHANGED job
<1>1. ASSUME NEW s \in PaidShifts, Pay!DeleteOrRestoreShift(s)
      PROVE  TablesInv' /\ UNCHANGED job
  <2>1. /\ Pay!Edit /\ shifts' = [shifts EXCEPT ![s].deleted = ~@]
        /\ UNCHANGED <<members, rates, template, penalties, adjustments, categories, job>>
    BY <1>1 DEF Pay!DeleteOrRestoreShift, Pay!operations
  <2>2. ShiftsInv' /\ \A t \in PaidShifts : shifts'[t].user = shifts[t].user
    <3> DEFINE row == [shifts[s] EXCEPT !.deleted = ~@]
    <3>1. /\ shifts \in [PaidShifts -> Pay!PaidShift] /\ shifts[s] \in Pay!PaidShift
          /\ \A t \in PaidShifts : shifts[t].id = t
      BY DEF TablesInv, ShiftsInv
    <3>2. row \in Pay!PaidShift /\ row.id = shifts[s].id /\ row.user = shifts[s].user
      BY <3>1 DEF Pay!PaidShift
    <3>3. shifts' = [shifts EXCEPT ![s] = row]
      BY <2>1
    <3> HIDE DEF row
    <3> QED BY <3>1, <3>2, <3>3 DEF ShiftsInv
  <2> QED BY <2>1, <2>2, ShiftChangeKeepsTables
<1>2. ASSUME NEW s \in PaidShifts, NEW seconds \in OvertimePay, Pay!ApproveOvertime(s, seconds)
      PROVE  TablesInv' /\ UNCHANGED job
  <2>1. /\ Pay!Edit /\ shifts' = [shifts EXCEPT ![s].overtime = seconds]
        /\ UNCHANGED <<members, rates, template, penalties, adjustments, categories, job>>
    BY <1>2 DEF Pay!ApproveOvertime, Pay!operations
  <2>2. ShiftsInv' /\ \A t \in PaidShifts : shifts'[t].user = shifts[t].user
    BY <2>1 DEF TablesInv, ShiftsInv, Pay!PaidShift
  <2> QED BY <2>1, <2>2, ShiftChangeKeepsTables
<1> QED BY <1>1, <1>2, RemoveMemberKeepsTables, JoinKeepsTables DEF Pay!EditShifts

\* Penalties: all but them stays.
LEMMA FinesChangeKeepsTables ==
    ASSUME TablesInv, Pay!Edit, FinesInv', template' \in [amount : Fines, deleted : BOOLEAN],
           UNCHANGED <<members, shifts, rates, adjustments, categories>>
    PROVE  TablesInv'
<1>1. PeopleInv' /\ ShiftsInv' /\ RatesInv' /\ CategoriesInv'
  BY EditCounts DEF TablesInv, PeopleInv, ShiftsInv, RatesInv, CategoriesInv,
     Pay!LiveCategories, Pay!NameFree
<1>2. ExtrasInv'
  BY DEF TablesInv, ExtrasInv
<1> QED BY <1>1, <1>2 DEF TablesInv

FineRows == Pay!OperationRows(PenaltyIds, members, Amounts \cup Fines, {None})

LEMMA FineIsPut ==
    ASSUME FinesInv, NEW rest \in SUBSET penalties, NEW row \in FineRows,
           row.shift # None => shifts[row.shift].user = row.user,
           penalties' = rest \cup {row}, UNCHANGED <<members, shifts>>
    PROVE  FinesInv'
<1>1. IsFiniteSet(rest \cup {row})
  BY FS_Subset, FS_AddElement DEF FinesInv
<1> QED BY <1>1 DEF FinesInv, FineRows, Pay!OwnShifts

\* The moment of an operation is one that the body gives, or the start of the shift.
LEMMA MomentIsMoment ==
    ASSUME ShiftsInv, NEW shift \in PaidShifts \cup {None}, NEW at \in Pay!Moments \cup {None},
           at = None => shift # None
    PROVE  Pay!Moment(at, shift) \in Pay!Moments
BY DEF ShiftsInv, Pay!Moment, Pay!PaidShift

LEMMA EditPenaltiesKeepsTables ==
    ASSUME TablesInv, Pay!EditPenalties
    PROVE  TablesInv' /\ UNCHANGED job
<1>0. FinesInv /\ ShiftsInv /\ template \in [amount : Fines, deleted : BOOLEAN]
  BY DEF TablesInv, PeopleInv
<1>1. ASSUME NEW amount \in Fines, Pay!UpdatePenaltyTemplate(amount)
      PROVE  TablesInv' /\ UNCHANGED job
  <2>1. template' \in [amount : Fines, deleted : BOOLEAN] /\ FinesInv'
    BY <1>0, <1>1 DEF Pay!UpdatePenaltyTemplate, FinesInv
  <2> QED BY <1>1, <2>1, FinesChangeKeepsTables DEF Pay!UpdatePenaltyTemplate
<1>2. CASE Pay!DeleteOrRestorePenaltyTemplate
  <2>1. template' \in [amount : Fines, deleted : BOOLEAN] /\ FinesInv'
    BY <1>0, <1>2 DEF Pay!DeleteOrRestorePenaltyTemplate, FinesInv
  <2> QED BY <1>2, <2>1, FinesChangeKeepsTables DEF Pay!DeleteOrRestorePenaltyTemplate
<1>3. ASSUME NEW shift \in PaidShifts \cup {None}, NEW u \in Users, NEW given \in Amounts \cup {None},
             NEW at \in Pay!Moments \cup {None}, Pay!CreatePenalty(u, given, shift, at)
      PROVE  TablesInv' /\ UNCHANGED job
  <2> DEFINE amount == IF given = None THEN template.amount ELSE given
             moment == Pay!Moment(at, shift)
             Put(id) == Pay!Row(id, u, amount, shift, None, moment)
  <2>1. PICK id \in Pay!Free(PenaltyIds, penalties) : penalties' = penalties \cup {Put(id)}
    BY <1>3 DEF Pay!CreatePenalty
  <2>2. moment \in Pay!Moments /\ amount \in Amounts \cup Fines /\ id \in PenaltyIds /\ u \in members
    BY <1>0, <1>3, <2>1, MomentIsMoment DEF Pay!CreatePenalty, Pay!Free
  <2> HIDE DEF moment, amount
  <2>3. Put(id) \in FineRows /\ Put(id).shift = shift /\ Put(id).user = u
    BY <2>2 DEF FineRows, Pay!OperationRows, Pay!Row
  <2>4. shift # None => shifts[shift].user = u
    BY <1>3 DEF Pay!CreatePenalty, Pay!ShiftOfMember
  <2>5. UNCHANGED <<members, shifts, rates, template, adjustments, categories, job>> /\ Pay!Edit
    BY <1>3 DEF Pay!CreatePenalty
  <2>6. FinesInv'
    <3> HIDE DEF Put
    <3> QED BY <1>0, <2>1, <2>3, <2>4, <2>5, FineIsPut
  <2> QED BY <1>0, <2>5, <2>6, FinesChangeKeepsTables
<1>4. ASSUME NEW shift \in PaidShifts \cup {None}, NEW p \in penalties, NEW amount \in Amounts,
             NEW at \in Pay!Moments, Pay!UpdatePenalty(p, amount, shift, at)
      PROVE  TablesInv' /\ UNCHANGED job
  <2> DEFINE new == [p EXCEPT !.amount = amount, !.shift = shift, !.at = at]
  <2>1. p \in FineRows /\ (p.shift # None => shifts[p.shift].user = p.user)
    BY <1>0 DEF FinesInv, FineRows, Pay!OwnShifts
  <2>2. new \in FineRows /\ new.shift = shift /\ new.user = p.user
    BY <2>1 DEF FineRows, Pay!OperationRows
  <2>3. shift # None => shifts[shift].user = p.user
    BY <1>4, <2>1 DEF Pay!UpdatePenalty, Pay!ShiftOfMember
  <2>4. /\ UNCHANGED <<members, shifts, rates, template, adjustments, categories, job>> /\ Pay!Edit
        /\ penalties' = (penalties \ {p}) \cup {new}
    BY <1>4 DEF Pay!UpdatePenalty
  <2>5. FinesInv'
    <3> HIDE DEF new
    <3> QED BY <1>0, <2>2, <2>3, <2>4, FineIsPut
  <2> QED BY <1>0, <2>4, <2>5, FinesChangeKeepsTables
<1>5. ASSUME NEW p \in penalties, Pay!DeleteOrRestorePenalty(p)
      PROVE  TablesInv' /\ UNCHANGED job
  <2> DEFINE new == [p EXCEPT !.deleted = ~@]
  <2>1. p \in FineRows /\ (p.shift # None => shifts[p.shift].user = p.user)
    BY <1>0 DEF FinesInv, FineRows, Pay!OwnShifts
  <2>2. new \in FineRows /\ new.shift = p.shift /\ new.user = p.user
    BY <2>1 DEF FineRows, Pay!OperationRows
  <2>4. /\ UNCHANGED <<members, shifts, rates, template, adjustments, categories, job>> /\ Pay!Edit
        /\ penalties' = (penalties \ {p}) \cup {new}
    BY <1>5 DEF Pay!DeleteOrRestorePenalty
  <2>5. FinesInv'
    <3> HIDE DEF new
    <3> QED BY <1>0, <2>1, <2>2, <2>4, FineIsPut
  <2> QED BY <1>0, <2>4, <2>5, FinesChangeKeepsTables
<1> QED BY <1>1, <1>2, <1>3, <1>4, <1>5 DEF Pay!EditPenalties


\* Adjustments and their categories.
ExtraRows == Pay!OperationRows(AdjustmentIds, members, Pay!SignedAmounts, DOMAIN categories \cup {None})

LEMMA ExtraIsPut ==
    ASSUME TablesInv, Pay!Edit, NEW rest \in SUBSET adjustments, NEW row \in ExtraRows,
           row.shift # None => shifts[row.shift].user = row.user,
           adjustments' = rest \cup {row},
           UNCHANGED <<members, shifts, rates, template, penalties, categories>>
    PROVE  TablesInv'
<1>1. PeopleInv' /\ ShiftsInv' /\ RatesInv' /\ CategoriesInv' /\ FinesInv'
  BY EditCounts DEF TablesInv, PeopleInv, ShiftsInv, RatesInv, CategoriesInv, FinesInv,
     Pay!LiveCategories, Pay!NameFree
<1>2. IsFiniteSet(rest \cup {row})
  BY FS_Subset, FS_AddElement DEF TablesInv, ExtrasInv
<1>3. ExtrasInv'
  BY <1>2 DEF TablesInv, ExtrasInv, ExtraRows, Pay!OwnShifts
<1> QED BY <1>1, <1>3 DEF TablesInv

LEMMA AdjustmentsKeepTables ==
    ASSUME TablesInv,
           NEW shift \in PaidShifts \cup {None}, NEW category \in DOMAIN categories \cup {None},
           NEW amount \in Pay!SignedAmounts,
           \/ \E u \in Users, at \in Pay!Moments \cup {None} :
                Pay!CreateAdjustment(u, amount, shift, category, at)
           \/ \E a \in adjustments, at \in Pay!Moments :
                Pay!UpdateAdjustment(a, amount, shift, category, at)
    PROVE  TablesInv' /\ UNCHANGED job
<1>0. ExtrasInv /\ ShiftsInv
  BY DEF TablesInv
<1>1. ASSUME NEW u \in Users, NEW at \in Pay!Moments \cup {None},
             Pay!CreateAdjustment(u, amount, shift, category, at)
      PROVE  TablesInv' /\ UNCHANGED job
  <2> DEFINE moment == Pay!Moment(at, shift)
             Put(id) == Pay!Row(id, u, amount, shift, category, moment)
  <2>1. PICK id \in Pay!Free(AdjustmentIds, adjustments) : adjustments' = adjustments \cup {Put(id)}
    BY <1>1 DEF Pay!CreateAdjustment
  <2>2. moment \in Pay!Moments /\ id \in AdjustmentIds /\ u \in members
    BY <1>0, <1>1, <2>1, MomentIsMoment DEF Pay!CreateAdjustment, Pay!Free
  <2> HIDE DEF moment
  <2>3. Put(id) \in ExtraRows /\ Put(id).shift = shift /\ Put(id).user = u
    BY <2>2 DEF ExtraRows, Pay!OperationRows, Pay!Row
  <2>4. shift # None => shifts[shift].user = u
    BY <1>1 DEF Pay!CreateAdjustment, Pay!ShiftOfMember
  <2>5. UNCHANGED <<members, shifts, rates, template, penalties, categories, job>> /\ Pay!Edit
    BY <1>1 DEF Pay!CreateAdjustment
  <2> HIDE DEF Put
  <2> QED BY <2>1, <2>3, <2>4, <2>5, ExtraIsPut
<1>2. ASSUME NEW a \in adjustments, NEW at \in Pay!Moments,
             Pay!UpdateAdjustment(a, amount, shift, category, at)
      PROVE  TablesInv' /\ UNCHANGED job
  <2> DEFINE new == [a EXCEPT !.amount = amount, !.shift = shift, !.category = category, !.at = at]
  <2>1. a \in ExtraRows /\ (a.shift # None => shifts[a.shift].user = a.user)
    BY <1>0 DEF ExtrasInv, ExtraRows, Pay!OwnShifts
  <2>2. new \in ExtraRows /\ new.shift = shift /\ new.user = a.user
    BY <2>1 DEF ExtraRows, Pay!OperationRows
  <2>3. shift # None => shifts[shift].user = a.user
    BY <1>2, <2>1 DEF Pay!UpdateAdjustment, Pay!ShiftOfMember
  <2>4. /\ UNCHANGED <<members, shifts, rates, template, penalties, categories, job>> /\ Pay!Edit
        /\ adjustments' = (adjustments \ {a}) \cup {new}
    BY <1>2 DEF Pay!UpdateAdjustment
  <2> HIDE DEF new
  <2> QED BY <2>2, <2>3, <2>4, ExtraIsPut
<1> QED BY <1>1, <1>2

LEMMA CategoriesKeepTables ==
    ASSUME TablesInv, Pay!Edit, DOMAIN categories \subseteq DOMAIN categories', CategoriesInv',
           UNCHANGED <<members, shifts, rates, template, penalties, adjustments>>
    PROVE  TablesInv'
<1>1. PeopleInv' /\ ShiftsInv' /\ RatesInv' /\ FinesInv'
  BY EditCounts DEF TablesInv, PeopleInv, ShiftsInv, RatesInv, FinesInv
<1>2. ExtrasInv'
  BY DEF TablesInv, ExtrasInv, Pay!OperationRows
<1> QED BY <1>1, <1>2 DEF TablesInv

LEMMA EditAdjustmentsKeepsTables ==
    ASSUME TablesInv, Pay!EditAdjustments
    PROVE  TablesInv' /\ UNCHANGED job
<1>0. ExtrasInv /\ CategoriesInv
  BY DEF TablesInv
<1>1. ASSUME NEW a \in adjustments, Pay!DeleteOrRestoreAdjustment(a)
      PROVE  TablesInv' /\ UNCHANGED job
  <2> DEFINE new == [a EXCEPT !.deleted = ~@]
  <2>1. a \in ExtraRows /\ (a.shift # None => shifts[a.shift].user = a.user)
    BY <1>0 DEF ExtrasInv, ExtraRows, Pay!OwnShifts
  <2>2. new \in ExtraRows /\ new.shift = a.shift /\ new.user = a.user
    BY <2>1 DEF ExtraRows, Pay!OperationRows
  <2>3. /\ UNCHANGED <<members, shifts, rates, template, penalties, categories, job>> /\ Pay!Edit
        /\ adjustments' = (adjustments \ {a}) \cup {new}
    BY <1>1 DEF Pay!DeleteOrRestoreAdjustment
  <2> HIDE DEF new
  <2> QED BY <2>1, <2>2, <2>3, ExtraIsPut
<1>2. ASSUME NEW c \in CategoryIds, NEW name \in Names, Pay!CreateCategory(c, name)
      PROVE  TablesInv' /\ UNCHANGED job
  <2>1. /\ c \notin DOMAIN categories /\ \A d \in DOMAIN categories :
                    ~categories[d].deleted /\ d # c => categories[d].name # name
        /\ categories' = [d \in DOMAIN categories \cup {c} |->
                            IF d = c THEN [name |-> name, deleted |-> FALSE] ELSE categories[d]]
        /\ UNCHANGED <<members, shifts, rates, template, penalties, adjustments, job>> /\ Pay!Edit
    BY <1>2 DEF Pay!CreateCategory, Pay!NameFree, Pay!LiveCategories
  <2>2. \A d \in DOMAIN categories : categories[d] \in [name : Names, deleted : BOOLEAN]
    BY <1>0 DEF CategoriesInv
  <2>3. DOMAIN categories' = DOMAIN categories \cup {c}
    BY <2>1
  <2>4. categories'[c] = [name |-> name, deleted |-> FALSE]
        /\ \A d \in DOMAIN categories : categories'[d] = categories[d]
    BY <2>1
  <2>5. categories' \in [DOMAIN categories' -> [name : Names, deleted : BOOLEAN]]
    BY <2>1, <2>2
  <2>6. \A d, e \in DOMAIN categories' :
            ~categories'[d].deleted /\ ~categories'[e].deleted /\ d # e
              => categories'[d].name # categories'[e].name
    BY <1>0, <2>1, <2>3, <2>4 DEF CategoriesInv, Pay!LiveCategories, Pay!NameFree
  <2>7. CategoriesInv'
    BY <2>5, <2>6 DEF CategoriesInv, Pay!LiveCategories, Pay!NameFree
  <2> QED BY <2>1, <2>3, <2>7, CategoriesKeepTables
<1>3. ASSUME NEW c \in CategoryIds, NEW name \in Names, Pay!UpdateCategory(c, name)
      PROVE  TablesInv' /\ UNCHANGED job
  <2> DEFINE row == [categories[c] EXCEPT !.name = name]
  <2>1. /\ c \in DOMAIN categories /\ \A d \in DOMAIN categories :
                    ~categories[d].deleted /\ d # c => categories[d].name # name
        /\ categories' = [categories EXCEPT ![c] = row]
        /\ UNCHANGED <<members, shifts, rates, template, penalties, adjustments, job>> /\ Pay!Edit
    BY <1>3 DEF Pay!UpdateCategory, Pay!NameFree, Pay!LiveCategories
  <2>2. categories \in [DOMAIN categories -> [name : Names, deleted : BOOLEAN]]
    BY <1>0 DEF CategoriesInv
  <2>3. row \in [name : Names, deleted : BOOLEAN] /\ row.name = name /\ row.deleted = categories[c].deleted
    BY <2>1, <2>2
  <2> HIDE DEF row
  <2>4. DOMAIN categories' = DOMAIN categories /\ categories'[c] = row
        /\ \A d \in DOMAIN categories \ {c} : categories'[d] = categories[d]
    BY <2>1
  <2>5. categories' \in [DOMAIN categories' -> [name : Names, deleted : BOOLEAN]]
    BY <2>1, <2>2, <2>3
  <2>6. \A d, e \in DOMAIN categories' :
            ~categories'[d].deleted /\ ~categories'[e].deleted /\ d # e
              => categories'[d].name # categories'[e].name
    BY <1>0, <2>1, <2>3, <2>4 DEF CategoriesInv, Pay!LiveCategories, Pay!NameFree
  <2>7. CategoriesInv'
    BY <2>5, <2>6 DEF CategoriesInv, Pay!LiveCategories, Pay!NameFree
  <2> QED BY <2>1, <2>4, <2>7, CategoriesKeepTables
<1>4. ASSUME NEW c \in CategoryIds, Pay!DeleteCategory(c)
      PROVE  TablesInv' /\ UNCHANGED job
  <2> DEFINE row == [categories[c] EXCEPT !.deleted = TRUE]
  <2>1. /\ c \in DOMAIN categories /\ categories' = [categories EXCEPT ![c] = row]
        /\ UNCHANGED <<members, shifts, rates, template, penalties, adjustments, job>> /\ Pay!Edit
    BY <1>4 DEF Pay!DeleteCategory, Pay!LiveCategories
  <2>2. categories \in [DOMAIN categories -> [name : Names, deleted : BOOLEAN]]
    BY <1>0 DEF CategoriesInv
  <2>3. row \in [name : Names, deleted : BOOLEAN] /\ row.deleted
    BY <2>1, <2>2
  <2> HIDE DEF row
  <2>4. DOMAIN categories' = DOMAIN categories /\ categories'[c] = row
        /\ \A d \in DOMAIN categories \ {c} : categories'[d] = categories[d]
    BY <2>1
  <2>5. categories' \in [DOMAIN categories' -> [name : Names, deleted : BOOLEAN]]
    BY <2>1, <2>2, <2>3
  <2>6. CategoriesInv'
    BY <1>0, <2>3, <2>4, <2>5 DEF CategoriesInv, Pay!LiveCategories, Pay!NameFree
  <2> QED BY <2>1, <2>4, <2>6, CategoriesKeepTables
<1> QED BY <1>1, <1>2, <1>3, <1>4, AdjustmentsKeepTables DEF Pay!EditAdjustments

\* The report only reads.
LEMMA ReportKeepsTables ==
    ASSUME TablesInv, UNCHANGED <<Pay!tables, edits>>
    PROVE  TablesInv'
BY DEF TablesInv, PeopleInv, ShiftsInv, RatesInv, FinesInv, ExtrasInv, CategoriesInv, Pay!tables,
   Pay!operations, Pay!LiveCategories, Pay!NameFree

LEMMA NextKeepsTables ==
    ASSUME TablesInv, [Pay!Next]_Pay!payrollVars
    PROVE  TablesInv'
<1>1. CASE Pay!MakeReport
  <2>1. UNCHANGED <<Pay!tables, edits>>
    BY <1>1 DEF Pay!MakeReport, Pay!ReadShifts, Pay!ReadOvertime, Pay!ReadPenalties,
       Pay!ReadAdjustments, Pay!ComputeReport, Pay!ExportWorkbook, Pay!Answer
  <2> QED BY <2>1, ReportKeepsTables
<1>2. CASE UNCHANGED Pay!payrollVars
  BY <1>2, ReportKeepsTables DEF Pay!payrollVars
<1> QED BY <1>1, <1>2, EditRatesKeepsTables, EditShiftsKeepsTables, EditPenaltiesKeepsTables,
           EditAdjustmentsKeepsTables DEF Pay!Next


(***************************************************************************)
(* The report that is being made                                           *)
(***************************************************************************)

\* What the queries have returned so far, and that what is shown is made of it.
JobInv ==
    /\ job.step = "overtime" =>
        job = [step |-> "overtime", request |-> job.request, shifts |-> job.shifts]
    /\ job.step \in {"overtime", "penalties", "adjustments", "rates"} => Worked(job.shifts)
    /\ job.step \in {"adjustments", "rates"} => Priced(job.penalties)
    /\ job.step = "rates" => Priced(job.adjustments)
    /\ job.step = "computed" => \E rows, request :
        /\ ReadRows(rows) /\ job.report = Pay!Report(rows, request)
        /\ job.penalties = rows.penalties /\ job.adjustments = rows.adjustments
    /\ job.step = "done" => \E rows, request :
        /\ ReadRows(rows) /\ job.read = rows.penalties \cup rows.adjustments
        /\ job.workbook = Pay!Workbook(Pay!Report(rows, request),
                            [penalties |-> rows.penalties, adjustments |-> rows.adjustments])

LEMMA TypedShift ==
    ASSUME NEW s \in Pay!PaidShift, NEW seconds \in OvertimePay \cup {0}
    PROVE  /\ s \in PaidShift /\ [s EXCEPT !.overtime = seconds] \in PaidShift
           /\ [s EXCEPT !.overtime = seconds].user = s.user
BY AccountsAssumption DEF Pay!PayrollAssumption, Pay!PaidShift, PaidShift, Pay!Moments

\* The rows of the shifts that are not deleted.
LEMMA ShiftRowsAreShifts ==
    ASSUME TablesInv
    PROVE  /\ Pay!ShiftRows \subseteq Pay!PaidShift /\ IsFiniteSet(Pay!ShiftRows)
           /\ \A s \in Pay!ShiftRows : s.id \in PaidShifts /\ shifts[s.id] = s /\ ~s.deleted
<1> DEFINE live == {s \in PaidShifts : ~shifts[s].deleted}
           f == [s \in live |-> shifts[s]]
<1>1. /\ shifts \in [PaidShifts -> Pay!PaidShift] /\ \A s \in PaidShifts : shifts[s].id = s
      /\ IsFiniteSet(PaidShifts)
  BY AccountsAssumption, SameFinite DEF TablesInv, ShiftsInv, Pay!PayrollAssumption
<1>2. IsFiniteSet(live)
  BY <1>1, FS_Subset
<1>3. f \in Surjection(live, Pay!ShiftRows)
  BY DEF Surjection, Pay!ShiftRows
<1>4. IsFiniteSet(Pay!ShiftRows)
  BY <1>2, <1>3, FS_Surjection
<1> QED BY <1>1, <1>4 DEF Pay!ShiftRows

\* Shifts with other minutes of overtime are still shifts.
WithOvertime(S, minutes) == {[s EXCEPT !.overtime = minutes[s]] : s \in S}

LEMMA OvertimeOfRows ==
    ASSUME NEW S, IsFiniteSet(S), NEW minutes, \A s \in S : minutes[s] \in Nat,
           S \subseteq PaidShift
    PROVE  Worked(WithOvertime(S, minutes))
<1> DEFINE T == WithOvertime(S, minutes)
           f == [s \in S |-> [s EXCEPT !.overtime = minutes[s]]]
<1>1. f \in Surjection(S, T)
  BY DEF Surjection, WithOvertime
<1>2. IsFiniteSet(T)
  BY <1>1, FS_Surjection
<1>3. ASSUME NEW s \in S PROVE [s EXCEPT !.overtime = minutes[s]] \in PaidShift
  BY DEF PaidShift
<1> QED BY <1>2, <1>3 DEF Worked, WithOvertime

LEMMA ReadShiftsKeepsJob ==
    ASSUME TablesInv, NEW request, Pay!ReadShifts(request)
    PROVE  JobInv'
<1> DEFINE S == {s \in Pay!ShiftRows : Pay!Within(s.start, request)}
           T == {[s EXCEPT !.overtime = 0] : s \in S}
           minutes == [s \in S |-> 0]
<1>1. job' = [step |-> "overtime", request |-> request, shifts |-> T]
  BY DEF Pay!ReadShifts
<1>2. IsFiniteSet(S) /\ S \subseteq PaidShift
  <2>1. \A s \in Pay!PaidShift : s \in PaidShift
    BY TypedShift
  <2> QED BY <2>1, ShiftRowsAreShifts, FS_Subset
<1>3. (\A s \in S : minutes[s] \in Nat) /\ T = WithOvertime(S, minutes)
  BY DEF WithOvertime
<1> HIDE DEF T, S, minutes
<1>4. Worked(T)
  BY <1>2, <1>3, OvertimeOfRows
<1> QED BY <1>1, <1>4 DEF JobInv

LEMMA ReadOvertimeKeepsJob ==
    ASSUME TablesInv, JobInv, Pay!ReadOvertime
    PROVE  JobInv'
<1> DEFINE S == job.shifts
           T == {[s EXCEPT !.overtime = shifts[s.id].overtime] : s \in S}
           minutes == [s \in S |-> shifts[s.id].overtime]
<1>1. job' = [job EXCEPT !.step = "penalties", !.shifts = T]
  BY DEF Pay!ReadOvertime
<1>2. /\ job = [step |-> "overtime", request |-> job.request, shifts |-> S] /\ Worked(S)
  BY DEF JobInv, Pay!ReadOvertime
<1>3. \A s \in S : minutes[s] \in Nat
  <2>1. \A s \in S : s.id \in PaidShifts
    BY <1>2 DEF Worked, PaidShift
  <2>2. \A s \in PaidShifts : shifts[s].overtime \in Nat
    BY AccountsAssumption DEF TablesInv, ShiftsInv, Pay!PaidShift, Pay!PayrollAssumption
  <2> QED BY <2>1, <2>2
<1>4. T = WithOvertime(S, minutes)
  BY DEF WithOvertime
<1> HIDE DEF T, S, minutes
<1>5. Worked(T)
  BY <1>2, <1>3, <1>4, OvertimeOfRows DEF Worked
<1>6. job'.step = "penalties" /\ job'.shifts = T
  BY <1>1, <1>2
<1> QED BY <1>5, <1>6 DEF JobInv

LEMMA OperationsArePriced ==
    ASSUME TablesInv, NEW request
    PROVE  Priced(Pay!InPeriod(penalties, request)) /\ Priced(Pay!InPeriod(adjustments, request))
<1>1. \A r \in penalties : r.amount \in Int
  BY AccountsAssumption DEF TablesInv, FinesInv, Pay!OperationRows, Pay!PayrollAssumption
<1>2. \A a \in Pay!SignedAmounts : a \in Int
  BY AccountsAssumption DEF Pay!SignedAmounts, Pay!PayrollAssumption
<1>3. \A r \in adjustments : r.amount \in Int
  BY <1>2 DEF TablesInv, ExtrasInv, Pay!OperationRows
<1>4. IsFiniteSet(Pay!InPeriod(penalties, request)) /\ IsFiniteSet(Pay!InPeriod(adjustments, request))
  BY FS_Subset DEF TablesInv, FinesInv, ExtrasInv, Pay!InPeriod, Pay!Live
<1> QED BY <1>1, <1>3, <1>4 DEF Priced, Pay!InPeriod, Pay!Live

LEMMA NextKeepsJob ==
    ASSUME TablesInv, JobInv, [Pay!Next]_Pay!payrollVars
    PROVE  JobInv'
<1>1. CASE UNCHANGED job
  BY <1>1 DEF JobInv
<1>2. CASE Pay!ReadPenalties
  <2>1. /\ job.step = "penalties"
        /\ job' = [step |-> "adjustments", request |-> job.request, shifts |-> job.shifts,
                   penalties |-> Pay!InPeriod(penalties, job.request)]
    BY <1>2 DEF Pay!ReadPenalties
  <2> QED BY <2>1, OperationsArePriced DEF JobInv
<1>3. CASE Pay!ReadAdjustments
  <2>1. /\ job.step = "adjustments"
        /\ job' = [step |-> "rates", request |-> job.request, shifts |-> job.shifts,
                   penalties |-> job.penalties,
                   adjustments |-> Pay!InPeriod(adjustments, job.request)]
    BY <1>3 DEF Pay!ReadAdjustments
  <2> QED BY <2>1, OperationsArePriced DEF JobInv
<1>4. CASE Pay!ComputeReport
  <2> DEFINE rows == [shifts |-> job.shifts, penalties |-> job.penalties,
                      adjustments |-> job.adjustments, rates |-> rates]
             shown == Pay!Report(rows, job.request)
  <2>1. /\ job.step = "rates"
        /\ job' = [step |-> "computed", request |-> job.request, penalties |-> job.penalties,
                   adjustments |-> job.adjustments, report |-> shown]
    BY <1>4 DEF Pay!ComputeReport
  <2>2. ReadRows(rows)
    BY <2>1 DEF TablesInv, RatesInv, JobInv, ReadRows
  <2>3. rows.penalties = job.penalties /\ rows.adjustments = job.adjustments
    OBVIOUS
  <2> HIDE DEF rows
  <2>4. job'.step = "computed" /\ job'.report = Pay!Report(rows, job.request)
        /\ job'.penalties = rows.penalties /\ job'.adjustments = rows.adjustments
    BY <2>1, <2>3
  <2> QED BY <2>2, <2>4 DEF JobInv
<1>5. CASE Pay!ExportWorkbook
  <2>1. PICK rows, request :
        /\ ReadRows(rows) /\ job.report = Pay!Report(rows, request)
        /\ job.penalties = rows.penalties /\ job.adjustments = rows.adjustments
    BY <1>5 DEF Pay!ExportWorkbook, JobInv
  <2> DEFINE book == Pay!Workbook(Pay!Report(rows, request),
                        [penalties |-> rows.penalties, adjustments |-> rows.adjustments])
  <2>2. job' = [step |-> "done", read |-> rows.penalties \cup rows.adjustments, workbook |-> book]
    BY <1>5, <2>1 DEF Pay!ExportWorkbook, Pay!RowsForSheets
  <2>3. job'.step = "done" /\ job'.read = rows.penalties \cup rows.adjustments /\ job'.workbook = book
    <3> HIDE DEF book
    <3> QED BY <2>2
  <2> QED BY <2>1, <2>3 DEF JobInv
<1>6. CASE Pay!Answer
  BY <1>6 DEF Pay!Answer, Pay!NoJob, JobInv
<1>7. CASE Pay!MakeReport
  BY <1>2, <1>3, <1>4, <1>5, <1>6, <1>7, ReadShiftsKeepsJob, ReadOvertimeKeepsJob DEF Pay!MakeReport
<1>8. UNCHANGED Pay!payrollVars => UNCHANGED job
  BY DEF Pay!payrollVars
<1> QED BY <1>1, <1>7, <1>8, EditRatesKeepsTables, EditShiftsKeepsTables, EditPenaltiesKeepsTables,
           EditAdjustmentsKeepsTables DEF Pay!Next


(***************************************************************************)
(* What is shown                                                           *)
(***************************************************************************)

PayrollInv == TablesInv /\ JobInv

THEOREM PayrollInvariant == Spec => []PayrollInv
<1>1. Init => PayrollInv
  <2> SUFFICES ASSUME Init PROVE PayrollInv
    OBVIOUS
  <2>1. Pay!Init
    BY DEF Init
  <2>2. JobInv
    BY <2>1 DEF Pay!Init, Pay!NoJob, JobInv
  <2> QED BY <2>1, <2>2, InitTables DEF PayrollInv
<1>2. PayrollInv /\ [Next]_accountsVars => PayrollInv'
  <2> SUFFICES ASSUME PayrollInv, [Next]_accountsVars PROVE PayrollInv'
    OBVIOUS
  <2>1. [Pay!Next]_Pay!payrollVars
    BY DEF Next, PayrollMoves, ReportsMove, accountsVars, paying, Pay!payrollVars, Pay!tables,
       Pay!operations
  <2> QED BY <2>1, NextKeepsTables, NextKeepsJob DEF PayrollInv
<1> QED BY <1>1, <1>2, PTL DEF Spec

\* The columns of a payroll report add up, for each employee and for all, whatever its
\* queries found: they may each have seen other tables (_compute_org_payroll).
THEOREM ReportsAddUp == Spec => []ReportAddsUp
<1>1. PayrollInv => ReportAddsUp
  <2> SUFFICES ASSUME JobInv PROVE Pay!ReportAddsUp
    BY DEF PayrollInv, ReportAddsUp
  <2>1. CASE job.step = "computed"
    <3>1. PICK rows, request : ReadRows(rows) /\ job.report = Pay!Report(rows, request)
      BY <2>1 DEF JobInv
    <3> DEFINE shown == job.report
    <3>2. Pay!AddsUp(shown.totals) /\ \A u \in DOMAIN shown.items : Pay!AddsUp(shown.items[u])
      BY <3>1, ReportIsSound
    <3> QED BY <2>1, <3>2 DEF Pay!ReportAddsUp
  <2>2. CASE job.step = "done"
    <3>1. PICK rows, request :
            /\ ReadRows(rows)
            /\ job.workbook = Pay!Workbook(Pay!Report(rows, request),
                                [penalties |-> rows.penalties, adjustments |-> rows.adjustments])
      BY <2>2 DEF JobInv
    <3> DEFINE shown == job.workbook.summary
    <3>2. shown = Pay!Report(rows, request)
      BY <3>1, WorkbookIsSound
    <3>3. Pay!AddsUp(shown.totals) /\ \A u \in DOMAIN shown.items : Pay!AddsUp(shown.items[u])
      <4> HIDE DEF shown
      <4> QED BY <3>1, <3>2, ReportIsSound
    <3> QED BY <2>2, <3>3 DEF Pay!ReportAddsUp
  <2> QED BY <2>1, <2>2 DEF Pay!ReportAddsUp
<1> QED BY <1>1, PayrollInvariant, PTL

\* The sheets of a workbook sum to its summary and lose no operation of the period,
\* whatever is changed while it is made (export_org_payroll).
THEOREM SheetsAreTheSummary == Spec => []SheetsMatchSummary
<1>1. PayrollInv => SheetsMatchSummary
  <2> SUFFICES ASSUME JobInv, job.step = "done"
               PROVE  LET book == job.workbook IN
                      /\ Pay!SumOf(book.penalties) = book.summary.totals.penalty
                      /\ Pay!SumOf(book.adjustments) = book.summary.totals.adjustment.amount
                      /\ job.read = book.penalties \cup book.adjustments
    BY DEF PayrollInv, SheetsMatchSummary, Pay!SheetsMatchSummary
  <2>1. PICK rows, request :
          /\ ReadRows(rows) /\ job.read = rows.penalties \cup rows.adjustments
          /\ job.workbook = Pay!Workbook(Pay!Report(rows, request),
                                [penalties |-> rows.penalties, adjustments |-> rows.adjustments])
    BY DEF JobInv
  <2> DEFINE book == job.workbook
  <2>2. /\ book.penalties = rows.penalties /\ book.adjustments = rows.adjustments
        /\ Pay!SumOf(rows.penalties) = book.summary.totals.penalty
        /\ Pay!SumOf(rows.adjustments) = book.summary.totals.adjustment.amount
    BY <2>1, WorkbookIsSound
  <2> HIDE DEF book
  <2>3. /\ Pay!SumOf(book.penalties) = book.summary.totals.penalty
        /\ Pay!SumOf(book.adjustments) = book.summary.totals.adjustment.amount
        /\ job.read = book.penalties \cup book.adjustments
    BY <2>1, <2>2
  <2> QED BY <2>3 DEF book
<1> QED BY <1>1, PayrollInvariant, PTL

\* The rows of one employee.
LEMMA RowsOfEmployee ==
    ASSUME TablesInv, NEW u
    PROVE  /\ Worked(Pay!OfUser(Pay!ShiftRows, u)) /\ Pay!OfUser(rates, u) \in SUBSET Pay!Rates
           /\ Priced(Pay!OfUser(Pay!Live(penalties), u))
           /\ Priced(Pay!OfUser(Pay!Live(adjustments), u))
<1>1. Worked(Pay!OfUser(Pay!ShiftRows, u))
  <2>1. \A s \in Pay!PaidShift : s \in PaidShift
    BY TypedShift
  <2>2. IsFiniteSet(Pay!OfUser(Pay!ShiftRows, u))
    BY ShiftRowsAreShifts, FS_Subset DEF Pay!OfUser
  <2> QED BY <2>1, <2>2, ShiftRowsAreShifts DEF Worked, Pay!OfUser
<1>2. Pay!OfUser(rates, u) \in SUBSET Pay!Rates
  BY DEF TablesInv, RatesInv, Pay!OfUser
<1>3. \A r \in penalties : r.amount \in Int
  BY AccountsAssumption DEF TablesInv, FinesInv, Pay!OperationRows, Pay!PayrollAssumption
<1>4. \A a \in Pay!SignedAmounts : a \in Int
  BY AccountsAssumption DEF Pay!SignedAmounts, Pay!PayrollAssumption
<1>5. \A r \in adjustments : r.amount \in Int
  BY <1>4 DEF TablesInv, ExtrasInv, Pay!OperationRows
<1>6. /\ IsFiniteSet(Pay!OfUser(Pay!Live(penalties), u))
      /\ IsFiniteSet(Pay!OfUser(Pay!Live(adjustments), u))
  BY FS_Subset DEF TablesInv, FinesInv, ExtrasInv, Pay!OfUser, Pay!Live
<1> QED BY <1>1, <1>2, <1>3, <1>5, <1>6 DEF Priced, Pay!OfUser, Pay!Live

\* However a report is broken down, and in whatever zone its days are cut, an employee
\* has earned the same (_build_breakdown).
THEOREM BreakdownsAgree == Spec => []GranularityAgrees
<1>1. PayrollInv => GranularityAgrees
  <2> SUFFICES ASSUME TablesInv, NEW u \in Users, NEW zone \in Zones,
                      NEW g \in Pay!Granularities \ {"none"}
               PROVE  LET mine == Pay!OfUser(Pay!ShiftRows, u)
                          my == Pay!OfUser(rates, u)
                      IN Pay!Aggregate(Pay!Breakdown(mine, my, zone, g)) = Pay!Earnings(mine, my)
    BY Zenon DEF PayrollInv, GranularityAgrees, Pay!GranularityAgrees
  <2> DEFINE mine == Pay!OfUser(Pay!ShiftRows, u)
             my == Pay!OfUser(rates, u)
  <2>1. Worked(mine) /\ my \in SUBSET Pay!Rates
    BY RowsOfEmployee
  <2> HIDE DEF mine, my
  <2>2. Pay!Aggregate(Pay!Breakdown(mine, my, zone, g)) = Pay!Earnings(mine, my)
    BY <2>1, BreakdownAddsUp
  <2> QED BY <2>2 DEF mine, my
<1> QED BY <1>1, PayrollInvariant, PTL

(***************************************************************************)
(* The employee's own pages                                                *)
(***************************************************************************)

\* The operations that are bound to a shift among those of its employee.
Bound(rows, s) == {r \in rows : r.shift = s.id}

LEMMA BlockFields ==
    ASSUME NEW s, NEW my, NEW fines, NEW extra
    PROVE  LET block == Pay!ShiftBlock(s, my, fines, extra) IN
           /\ block.gross = Pay!ShiftColumns(s, my)["gross"]
           /\ block.net = block.gross - Pay!SumOf(Bound(fines, s)) + Pay!SumOf(Bound(extra, s))
<1> DEFINE rate == Pay!RateForMoment(my, s.start)
           gross == IF rate = None THEN 0 ELSE Pay!ShiftAmount(rate, s.seconds + s.overtime)
           less == Pay!SumOf(Bound(fines, s))
           more == Pay!SumOf(Bound(extra, s))
           block == Pay!ShiftBlock(s, my, fines, extra)
<1>1. block = [gross |-> gross, penalty |-> less, adjustment |-> more, net |-> gross - less + more]
  BY Zenon DEF Pay!ShiftBlock, Bound
<1>2. Pay!ShiftColumns(s, my)["gross"] = gross
  BY DEF Pay!ShiftColumns
<1> HIDE DEF gross, less, more, block
<1>3. block.gross = gross /\ block.net = gross - less + more
  BY <1>1
<1> QED BY <1>2, <1>3 DEF block, less, more

\* Operations that are each bound to a shift of the set are summed shift by shift.
LEMMA BoundAddUp ==
    ASSUME NEW rows, Priced(rows), NEW mine, IsFiniteSet(mine),
           NEW shiftOf, \A r \in rows : shiftOf[r] \in mine,
           \A r \in rows, s \in mine : r.shift = s.id <=> shiftOf[r] = s,
           NEW K, \A s \in mine : K[s] = Pay!SumOf(Bound(rows, s))
    PROVE  SumFunctionOnSet(K, mine) = Pay!SumOf(rows) /\ Ints(K, mine)
<1> DEFINE F == AmountOf(rows)
           C == [s \in mine |-> Bound(rows, s)]
<1>1. Classes(rows, shiftOf, mine, C)
  BY DEF Classes, Bound
<1>2. IsFiniteSet(rows) /\ rows \in SUBSET rows
  BY DEF Priced
<1>3. \A s \in mine : C[s] \in SUBSET rows /\ K[s] = Pay!SumOf(C[s])
  BY DEF Bound
<1> HIDE DEF F, C
<1>4. Pay!SumOf(rows) = SumFunctionOnSet(F, rows) /\ Ints(F, rows)
  BY <1>2, SumOfAmounts DEF F
<1>5. \A s \in mine : K[s] = SumFunctionOnSet(F, C[s]) /\ K[s] \in Int
  BY <1>3, SumOfAmounts DEF F
<1>6. SumFunctionOnSet(K, mine) = SumFunctionOnSet(F, rows)
  BY <1>1, <1>2, <1>4, <1>5, SumByClass
<1> QED BY <1>4, <1>5, <1>6 DEF Ints

\* The gross of the blocks is the gross of the page.
LEMMA BlocksAddUp ==
    ASSUME NEW mine, Worked(mine), NEW my \in SUBSET Pay!Rates, NEW fines, NEW extra,
           NEW G, DOMAIN G = mine, \A s \in mine : G[s] = Pay!ShiftBlock(s, my, fines, extra).gross
    PROVE  /\ Pay!SumFunction(G) = Pay!Earnings(mine, my).gross
           /\ SumFunctionOnSet(G, mine) = Pay!Earnings(mine, my).gross /\ Ints(G, mine)
<1> DEFINE gross == "gross"
           F == Column(mine, my, gross)
<1>1. gross \in Pay!Columns /\ mine \in SUBSET mine /\ IsFiniteSet(mine)
  BY DEF Pay!Columns, Worked
<1>2. \A s \in mine : G[s] = F[s]
  BY BlockFields DEF Column
<1> HIDE DEF F, gross
<1>3. Pay!Earnings(mine, my)[gross] = SumFunctionOnSet(F, mine) /\ Ints(F, mine)
  BY <1>1, EarningsAreSums DEF F
<1>4. SumFunctionOnSet(G, mine) = SumFunctionOnSet(F, mine)
  BY <1>1, <1>2, <1>3, SumOfSame
<1> QED BY <1>2, <1>3, <1>4, PaySums DEF Ints, gross

\* What the page of an employee and the report say of him, of any tables.
LEMMA PagesOfEmployee ==
    ASSUME NEW mine, Worked(mine), NEW my \in SUBSET Pay!Rates,
           NEW fines, Priced(fines), NEW extra, Priced(extra), NEW zone, NEW g
    PROVE  LET item == Pay!Item(mine, my, fines, extra, zone, g)
               page == Pay!MyEarnings(mine, my, fines, extra)
           IN /\ page.columns = item.columns /\ page.columns = Pay!Earnings(mine, my)
              /\ page.net = item.net
              /\ page.net = Pay!Earnings(mine, my).gross - Pay!SumOf(fines) + Pay!SumOf(extra)
              /\ Pay!SumOf(fines) \in Int /\ Pay!SumOf(extra) \in Int
<1> DEFINE item == Pay!Item(mine, my, fines, extra, zone, g)
           page == Pay!MyEarnings(mine, my, fines, extra)
           cols == Pay!Earnings(mine, my)
           net == cols.gross - Pay!SumOf(fines) + Pay!SumOf(extra)
<1>1. page = [columns |-> cols, penalty |-> Pay!SumOf(fines), adjustment |-> Pay!SumOf(extra),
              net |-> net]
  BY Zenon DEF Pay!MyEarnings
<1>2. item.columns = cols /\ item.net = net
  BY ItemIsSound
<1>3. Pay!SumOf(fines) \in Int /\ Pay!SumOf(extra) \in Int
  <2>1. fines \in SUBSET fines /\ extra \in SUBSET extra
    OBVIOUS
  <2> QED BY <2>1, SumOfAmounts
<1> HIDE DEF item, page, cols, net
<1>4. page.columns = cols /\ page.net = net
  BY <1>1
<1> QED BY <1>2, <1>3, <1>4 DEF item, page, cols, net

\* Operations on his own shifts, none of which is deleted.
LEMMA ShiftsOfOperations ==
    ASSUME TablesInv, NEW u, NEW rows,
           \A r \in rows : r.user = u /\ r.shift \in PaidShifts /\ r.shift # None,
           Pay!OwnShifts(rows, shifts), \A r \in rows : ~shifts[r.shift].deleted
    PROVE  LET mine == Pay!OfUser(Pay!ShiftRows, u)
               shiftOf == [r \in rows |-> shifts[r.shift]]
           IN /\ \A r \in rows : shiftOf[r] \in mine
              /\ \A r \in rows, s \in mine : r.shift = s.id <=> shiftOf[r] = s
<1>1. \A s \in PaidShifts : shifts[s].id = s
  BY DEF TablesInv, ShiftsInv
<1> QED BY <1>1, ShiftRowsAreShifts DEF Pay!OwnShifts, Pay!OfUser, Pay!ShiftRows


\* The employee's page says what the report says of him, and the blocks of his shifts
\* sum to it where every operation is bound to a shift that is there (get_my_earnings,
\* get_shift_earnings_map).
THEOREM PagesAgree == Spec => []OwnPagesAgree
<1>1. PayrollInv => OwnPagesAgree
  <2> SUFFICES ASSUME TablesInv, NEW u \in members
               PROVE  LET mine == Pay!OfUser(Pay!ShiftRows, u)
                          my == Pay!OfUser(rates, u)
                          fines == Pay!OfUser(Pay!Live(penalties), u)
                          extra == Pay!OfUser(Pay!Live(adjustments), u)
                          item == Pay!Item(mine, my, fines, extra, 0, "day")
                          page == Pay!MyEarnings(mine, my, fines, extra)
                      IN /\ page.columns = item.columns /\ page.net = item.net
                         /\ page.columns.gross =
                              Pay!SumFunction([s \in mine |-> Pay!ShiftBlock(s, my, fines, extra).gross])
                         /\ {r \in fines \cup extra : r.shift = None \/ shifts[r.shift].deleted} = {} =>
                              page.net =
                                Pay!SumFunction([s \in mine |-> Pay!ShiftBlock(s, my, fines, extra).net])
    BY Zenon DEF PayrollInv, OwnPagesAgree, Pay!OwnPagesAgree
  <2> DEFINE mine == Pay!OfUser(Pay!ShiftRows, u)
             my == Pay!OfUser(rates, u)
             fines == Pay!OfUser(Pay!Live(penalties), u)
             extra == Pay!OfUser(Pay!Live(adjustments), u)
             zone == 0
             g == "day"
             item == Pay!Item(mine, my, fines, extra, zone, g)
             page == Pay!MyEarnings(mine, my, fines, extra)
             Block(s) == Pay!ShiftBlock(s, my, fines, extra)
             G == [s \in mine |-> Block(s).gross]
             N == [s \in mine |-> Block(s).net]
             less == [s \in mine |-> Pay!SumOf(Bound(fines, s))]
             more == [s \in mine |-> Pay!SumOf(Bound(extra, s))]
             both == [s \in mine |-> G[s] + more[s]]
  <2>1. Worked(mine) /\ my \in SUBSET Pay!Rates /\ Priced(fines) /\ Priced(extra)
    BY RowsOfEmployee
  <2>2. \A s \in mine : G[s] = Block(s).gross /\ N[s] = Block(s).net
    OBVIOUS
  <2>3. DOMAIN G = mine /\ DOMAIN N = mine
    OBVIOUS
  <2>4. \A s \in mine : less[s] = Pay!SumOf(Bound(fines, s)) /\ more[s] = Pay!SumOf(Bound(extra, s))
    OBVIOUS
  <2>5. \A s \in mine : both[s] = G[s] + more[s]
    OBVIOUS
  <2>6. ASSUME {r \in fines \cup extra : r.shift = None \/ shifts[r.shift].deleted} = {},
               NEW rows \in {fines, extra}
        PROVE  /\ \A r \in rows : r.user = u /\ r.shift \in PaidShifts /\ r.shift # None
               /\ Pay!OwnShifts(rows, shifts) /\ \A r \in rows : ~shifts[r.shift].deleted
    <3>1. \A r \in rows : r \in penalties \cup adjustments /\ r.user = u
      BY DEF Pay!OfUser, Pay!Live
    <3>2. \A r \in penalties \cup adjustments : r.shift \in PaidShifts \cup {None}
      BY DEF TablesInv, FinesInv, ExtrasInv, Pay!OperationRows
    <3>3. \A r \in rows : r.shift # None /\ ~shifts[r.shift].deleted
      <4> HIDE DEF fines, extra
      <4> QED BY <2>6
    <3>4. Pay!OwnShifts(rows, shifts)
      BY <3>1 DEF TablesInv, FinesInv, ExtrasInv, Pay!OwnShifts
    <3> QED BY <3>1, <3>2, <3>3, <3>4
  <2>7. \A s \in mine : Block(s).gross \in Int => N[s] = Block(s).gross - less[s] + more[s]
    BY BlockFields
  <2> HIDE DEF mine, my, fines, extra, zone, g, item, page, Block, G, N, less, more, both
  <2>8. /\ page.columns = item.columns /\ page.columns = Pay!Earnings(mine, my)
        /\ page.net = item.net
        /\ page.net = Pay!Earnings(mine, my).gross - Pay!SumOf(fines) + Pay!SumOf(extra)
        /\ Pay!SumOf(fines) \in Int /\ Pay!SumOf(extra) \in Int
    BY <2>1, PagesOfEmployee DEF item, page
  <2>9. /\ Pay!SumFunction(G) = Pay!Earnings(mine, my).gross
        /\ SumFunctionOnSet(G, mine) = Pay!Earnings(mine, my).gross /\ Ints(G, mine)
    BY <2>1, <2>2, <2>3, BlocksAddUp DEF Block
  <2>10. ASSUME {r \in fines \cup extra : r.shift = None \/ shifts[r.shift].deleted} = {}
         PROVE  page.net = Pay!SumFunction(N)
    <3>0. IsFiniteSet(mine)
      BY <2>1 DEF Worked
    <3>1. SumFunctionOnSet(less, mine) = Pay!SumOf(fines) /\ Ints(less, mine)
      <4> DEFINE shiftOf == [r \in fines |-> shifts[r.shift]]
      <4>1. /\ \A r \in fines : shiftOf[r] \in mine
            /\ \A r \in fines, s \in mine : r.shift = s.id <=> shiftOf[r] = s
        BY <2>6, <2>10, ShiftsOfOperations DEF mine
      <4> HIDE DEF shiftOf
      <4> QED BY <2>1, <2>4, <3>0, <4>1, BoundAddUp
    <3>2. SumFunctionOnSet(more, mine) = Pay!SumOf(extra) /\ Ints(more, mine)
      <4> DEFINE shiftOf == [r \in extra |-> shifts[r.shift]]
      <4>1. /\ \A r \in extra : shiftOf[r] \in mine
            /\ \A r \in extra, s \in mine : r.shift = s.id <=> shiftOf[r] = s
        BY <2>6, <2>10, ShiftsOfOperations DEF mine
      <4> HIDE DEF shiftOf
      <4> QED BY <2>1, <2>4, <3>0, <4>1, BoundAddUp
    <3>3. \A s \in mine : G[s] \in Int /\ less[s] \in Int /\ more[s] \in Int
      BY <2>9, <3>1, <3>2 DEF Ints
    <3>4. \A s \in mine : N[s] \in Int /\ both[s] = N[s] + less[s] /\ both[s] = G[s] + more[s]
      BY <2>2, <2>5, <2>7, <3>3
    <3>5. Ints(N, mine)
      BY <3>4 DEF Ints
    <3>6. SumFunctionOnSet(both, mine) = SumFunctionOnSet(G, mine) + SumFunctionOnSet(more, mine)
      BY <2>9, <3>0, <3>2, <3>4, SumOfSums
    <3>7. SumFunctionOnSet(both, mine) = SumFunctionOnSet(N, mine) + SumFunctionOnSet(less, mine)
      BY <3>0, <3>1, <3>4, <3>5, SumOfSums
    <3>8. SumFunctionOnSet(N, mine) \in Int /\ SumFunctionOnSet(G, mine) \in Int
      BY <2>9, <3>0, <3>5, SumIsInt
    <3>9. Pay!SumFunction(N) = SumFunctionOnSet(N, mine)
      BY <2>3, PaySums
    <3> QED BY <2>8, <2>9, <3>1, <3>2, <3>6, <3>7, <3>8, <3>9
  <2> QED BY <2>8, <2>9, <2>10 DEF mine, my, fines, extra, zone, g, item, page, Block, G, N
<1> QED BY <1>1, PayrollInvariant, PTL

(***************************************************************************)
(* What a change of the rates changes                                      *)
(***************************************************************************)

LEMMA GrossOfOne ==
    ASSUME NEW s \in PaidShift, NEW my \in SUBSET Pay!Rates
    PROVE  Pay!Earnings({s}, my).gross =
             LET rate == Pay!RateForMoment(my, s.start) IN
             IF rate = None THEN 0 ELSE Pay!ShiftAmount(rate, s.seconds + s.overtime)
<1> DEFINE F == Column({s}, my, "gross")
           T == {s}
<1>1. "gross" \in Pay!Columns /\ IsFiniteSet(T) /\ Worked(T) /\ T \in SUBSET T
  BY FS_Singleton DEF Pay!Columns, Worked
<1>2. F[s] = Pay!ShiftColumns(s, my).gross /\ F[s] \in Int
  BY <1>1, ColumnsOfShift DEF Column
<1> HIDE DEF F, T
<1>3. Pay!Earnings(T, my).gross = SumFunctionOnSet(F, T)
  BY <1>1, EarningsAreSums DEF F, T
<1>4. SumFunctionOnSet(F, T) = F[s]
  BY <1>2, SumOfOne DEF T
<1> QED BY <1>2, <1>3, <1>4 DEF Pay!ShiftColumns, T

\* A rate from each moment: if the rate of a moment changes, then the later of the two
\* was touched, and no rate that was left alone comes between it and the moment.
LEMMA RateThatWasTouched ==
    ASSUME NEW before \in SUBSET Pay!Rates, NEW after \in SUBSET Pay!Rates,
           \A r, q \in before : r # q => r.from # q.from,
           \A r, q \in after : r # q => r.from # q.from,
           NEW start \in Nat, Pay!RateForMoment(before, start) # Pay!RateForMoment(after, start)
    PROVE  \E r \in (before \ after) \cup (after \ before) :
               /\ r.from <= start
               /\ \A q \in before \cap after : ~(r.from < q.from /\ q.from <= start)
<1> DEFINE old == Pay!RateForMoment(before, start)
           new == Pay!RateForMoment(after, start)
<1>1. /\ old = None => \A r \in before : ~(r.from <= start)
      /\ old # None => old \in before /\ old.from <= start
                       /\ \A q \in before : q.from <= start => q.from <= old.from
  BY RateIsTheLast
<1>2. /\ new = None => \A r \in after : ~(r.from <= start)
      /\ new # None => new \in after /\ new.from <= start
                       /\ \A q \in after : q.from <= start => q.from <= new.from
  BY RateIsTheLast
<1>3. \A r \in before \cup after : r.from \in Nat
  BY AccountsAssumption DEF Pay!PayrollAssumption, Pay!Rates, Pay!Rate, Pay!Moments
<1>4. old # new
  OBVIOUS
<1> HIDE DEF old, new
<1>5. CASE old = None
  <2>1. new \in after \ before /\ new.from <= start
    BY <1>1, <1>2, <1>4, <1>5
  <2> QED BY <1>1, <1>5, <2>1
<1>6. CASE new = None
  <2>1. old \in before \ after /\ old.from <= start
    BY <1>1, <1>2, <1>4, <1>6
  <2> QED BY <1>2, <1>6, <2>1
<1>7. CASE old # None /\ new # None /\ new.from <= old.from /\ old \notin after
  BY <1>1, <1>2, <1>3, <1>7
<1>8. CASE old # None /\ new # None /\ old.from <= new.from /\ new \notin before
  BY <1>1, <1>2, <1>3, <1>8
<1>9. CASE old # None /\ new # None /\ new.from <= old.from /\ old \in after
  BY <1>1, <1>2, <1>3, <1>4, <1>9
<1>10. CASE old # None /\ new # None /\ old.from <= new.from /\ new \in before
  BY <1>1, <1>2, <1>3, <1>4, <1>10
<1>11. old # None /\ new # None => new.from <= old.from \/ old.from <= new.from
  BY <1>1, <1>2, <1>3
<1> QED BY <1>5, <1>6, <1>7, <1>8, <1>9, <1>10, <1>11

LEMMA RatesOfEmployee ==
    ASSUME RatesInv, NEW u
    PROVE  LET mine == Pay!OfUser(rates, u) IN
           mine \in SUBSET Pay!Rates /\ \A r, q \in mine : r # q => r.from # q.from
BY DEF RatesInv, Pay!OfUser, Pay!FreeFrom

\* Changing the history of rates changes what a shift is worth only from a rate that was
\* touched until the next one that was left alone (create_rate, update_rate, delete_rate).
THEOREM RateChangesStayInside == Spec => RateChangesItsInterval
<1>1. TablesInv /\ TablesInv' => Pay!WorthOfShiftsKept
  <2> SUFFICES ASSUME TablesInv, TablesInv', NEW s \in Pay!ShiftRows
               PROVE  LET before == Pay!OfUser(rates, s.user)
                          after == Pay!OfUser(rates, s.user)'
                      IN Pay!Earnings({s}, before).gross # Pay!Earnings({s}, after).gross =>
                            \E r \in (before \ after) \cup (after \ before) :
                                /\ r.from <= s.start
                                /\ \A q \in before \cap after : ~(r.from < q.from /\ q.from <= s.start)
    BY Zenon DEF Pay!WorthOfShiftsKept
  <2> DEFINE before == Pay!OfUser(rates, s.user)
             after == Pay!OfUser(rates, s.user)'
  <2>1. s \in PaidShift /\ s.start \in Nat
    BY ShiftRowsAreShifts, TypedShift DEF PaidShift
  <2>2. before \in SUBSET Pay!Rates /\ \A r, q \in before : r # q => r.from # q.from
    BY RatesOfEmployee DEF TablesInv
  <2>3. RatesInv'
    BY DEF TablesInv
  <2>4. after \in SUBSET Pay!Rates /\ \A r, q \in after : r # q => r.from # q.from
    BY <2>3 DEF RatesInv, Pay!OfUser, Pay!FreeFrom
  <2> HIDE DEF before, after
  <2>5. ASSUME Pay!Earnings({s}, before).gross # Pay!Earnings({s}, after).gross
        PROVE  Pay!RateForMoment(before, s.start) # Pay!RateForMoment(after, s.start)
    BY <2>1, <2>2, <2>4, <2>5, GrossOfOne
  <2>6. Pay!Earnings({s}, before).gross # Pay!Earnings({s}, after).gross =>
          \E r \in (before \ after) \cup (after \ before) :
                /\ r.from <= s.start
                /\ \A q \in before \cap after : ~(r.from < q.from /\ q.from <= s.start)
    BY <2>1, <2>2, <2>4, <2>5, RateThatWasTouched
  <2> QED BY <2>6 DEF before, after
<1>2. PayrollInv /\ PayrollInv' => Pay!WorthOfShiftsKept
  BY <1>1 DEF PayrollInv
<1> QED BY <1>2, PayrollInvariant, PTL DEF RateChangesItsInterval, Pay!RateChangesItsInterval

(***************************************************************************)
(* What the reports on shifts read                                         *)
(***************************************************************************)

\* A pending request is the latest one of its shift.
PendingIsLast(statuses) == \A i \in DOMAIN statuses : statuses[i] = "pending" => i = Len(statuses)

DatabaseInv ==
    /\ clock \in Reports!Ticks /\ commits \in 0 .. MaxCommits
    /\ shiftRows \in [ShiftIds -> Versions \cup {None}]
    /\ instances \in [ShiftIds -> Seq(Reports!Instance)]
    /\ claims \in [ShiftIds -> Seq(Reports!Statuses)]
    /\ \A s \in ShiftIds : Len(instances[s]) <= commits /\ Len(claims[s]) <= commits
    /\ \A s \in ShiftIds : PendingIsLast(claims[s])

LEMMA InitDatabase == Reports!Init => DatabaseInv
<1> SUFFICES ASSUME Reports!Init PROVE DatabaseInv
  OBVIOUS
<1>1. /\ clock \in Reports!Ticks /\ commits = 0 /\ MaxCommits \in Nat
      /\ shiftRows = [s \in ShiftIds |-> None] /\ instances = [s \in ShiftIds |-> <<>>]
      /\ claims = [s \in ShiftIds |-> <<>>]
  BY AccountsAssumption DEF Reports!Init, Reports!ReportsAssumption
<1>2. <<>> \in Seq(Reports!Instance) /\ <<>> \in Seq(Reports!Statuses) /\ Len(<<>>) = 0
      /\ DOMAIN <<>> = {}
  BY EmptySeq
<1>3. \A s \in ShiftIds : instances[s] = <<>> /\ claims[s] = <<>>
  BY <1>1
<1>4. instances \in [ShiftIds -> Seq(Reports!Instance)] /\ claims \in [ShiftIds -> Seq(Reports!Statuses)]
  BY <1>1, <1>2
<1> QED BY <1>1, <1>2, <1>3, <1>4 DEF DatabaseInv, PendingIsLast

\* Whoever reads leaves the tables alone.
LEMMA ReadsKeepDatabase ==
    ASSUME DatabaseInv, UNCHANGED <<Reports!database, commits>>, clock' \in Reports!Ticks
    PROVE  DatabaseInv'
BY DEF DatabaseInv, Reports!database

\* The others: one commit each.
LEMMA CommitIsCounted ==
    ASSUME DatabaseInv, Reports!Committed
    PROVE  /\ commits' = commits + 1 /\ commits' \in 0 .. MaxCommits /\ commits \in Nat
           /\ UNCHANGED clock
BY AccountsAssumption DEF DatabaseInv, Reports!Committed, Reports!ReportsAssumption

LEMMA CommitShiftKeepsDatabase ==
    ASSUME DatabaseInv, NEW s \in ShiftIds, NEW v \in Versions, Reports!CommitShift(s, v)
    PROVE  DatabaseInv'
<1>1. shiftRows' \in [ShiftIds -> Versions \cup {None}] /\ UNCHANGED <<instances, claims>>
      /\ Reports!Committed
  BY DEF DatabaseInv, Reports!CommitShift
<1>2. \A t \in ShiftIds : Len(instances[t]) \in Nat /\ Len(claims[t]) \in Nat
  BY LenProperties DEF DatabaseInv
<1> QED BY <1>1, <1>2, CommitIsCounted DEF DatabaseInv

\* The checklists of one shift become others, by one at most.
LEMMA InstancesAreCommitted ==
    ASSUME DatabaseInv, Reports!Committed, NEW s \in ShiftIds, NEW seq \in Seq(Reports!Instance),
           Len(seq) <= Len(instances[s]) + 1, instances' = [instances EXCEPT ![s] = seq],
           UNCHANGED <<shiftRows, claims>>
    PROVE  DatabaseInv'
<1>1. instances' \in [ShiftIds -> Seq(Reports!Instance)]
  BY DEF DatabaseInv
<1>2. \A t \in ShiftIds : Len(instances[t]) \in Nat /\ Len(claims[t]) \in Nat /\ Len(seq) \in Nat
  BY LenProperties DEF DatabaseInv
<1>3. \A t \in ShiftIds : instances'[t] = IF t = s THEN seq ELSE instances[t]
  BY DEF DatabaseInv
<1>4. \A t \in ShiftIds : Len(instances'[t]) <= commits'
  BY <1>2, <1>3, CommitIsCounted DEF DatabaseInv
<1>5. \A t \in ShiftIds : Len(claims'[t]) <= commits'
  BY <1>2, CommitIsCounted DEF DatabaseInv
<1> QED BY <1>1, <1>4, <1>5, CommitIsCounted DEF DatabaseInv

LEMMA ClaimsAreCommitted ==
    ASSUME DatabaseInv, Reports!Committed, NEW s \in ShiftIds, NEW seq \in Seq(Reports!Statuses),
           Len(seq) <= Len(claims[s]) + 1, PendingIsLast(seq), claims' = [claims EXCEPT ![s] = seq],
           UNCHANGED <<shiftRows, instances>>
    PROVE  DatabaseInv'
<1>1. claims' \in [ShiftIds -> Seq(Reports!Statuses)]
  BY DEF DatabaseInv
<1>2. \A t \in ShiftIds : Len(instances[t]) \in Nat /\ Len(claims[t]) \in Nat /\ Len(seq) \in Nat
  BY LenProperties DEF DatabaseInv
<1>3. \A t \in ShiftIds : claims'[t] = IF t = s THEN seq ELSE claims[t]
  BY DEF DatabaseInv
<1>4. \A t \in ShiftIds : Len(claims'[t]) <= commits' /\ PendingIsLast(claims'[t])
  BY <1>2, <1>3, CommitIsCounted DEF DatabaseInv
<1>5. \A t \in ShiftIds : Len(instances'[t]) <= commits'
  BY <1>2, CommitIsCounted DEF DatabaseInv
<1> QED BY <1>1, <1>4, <1>5, CommitIsCounted DEF DatabaseInv

LEMMA ChecklistsKeepDatabase ==
    ASSUME DatabaseInv, NEW s \in ShiftIds,
           \/ \E required \in BOOLEAN : Reports!IssueChecklist(s, required)
           \/ \E i \in 1 .. MaxCommits : Reports!CommitChecklist(s, i)
    PROVE  DatabaseInv'
<1>0. instances[s] \in Seq(Reports!Instance) /\ Len(instances[s]) \in Nat
      /\ DOMAIN instances[s] = 1 .. Len(instances[s])
  BY LenProperties DEF DatabaseInv
<1>1. ASSUME NEW required \in BOOLEAN, Reports!IssueChecklist(s, required)
      PROVE  DatabaseInv'
  <2> DEFINE new == [required |-> required, completed |-> FALSE]
             seq == Append(instances[s], new)
  <2>1. new \in Reports!Instance
    BY DEF Reports!Instance
  <2>2. seq \in Seq(Reports!Instance) /\ Len(seq) <= Len(instances[s]) + 1
    BY <1>0, <2>1, AppendProperties
  <2>3. /\ Reports!Committed /\ UNCHANGED <<shiftRows, claims>>
        /\ instances' = [instances EXCEPT ![s] = seq]
    BY <1>1 DEF Reports!IssueChecklist
  <2> HIDE DEF seq
  <2> QED BY <2>2, <2>3, InstancesAreCommitted
<1>2. ASSUME NEW i \in 1 .. MaxCommits, Reports!CommitChecklist(s, i)
      PROVE  DatabaseInv'
  <2> DEFINE new == [instances[s][i] EXCEPT !.completed = ~@]
             seq == [instances[s] EXCEPT ![i] = new]
  <2>1. /\ Reports!Committed /\ UNCHANGED <<shiftRows, claims>> /\ i \in DOMAIN instances[s]
        /\ instances' = [instances EXCEPT ![s] = seq]
    BY <1>2 DEF Reports!CommitChecklist
  <2>2. i \in 1 .. Len(instances[s]) /\ instances[s][i] \in Reports!Instance
    BY <1>0, <2>1, ElementOfSeq
  <2>3. new \in Reports!Instance
    BY <2>2 DEF Reports!Instance
  <2> HIDE DEF new
  <2>4. seq \in Seq(Reports!Instance) /\ Len(seq) = Len(instances[s])
    BY <1>0, <2>2, <2>3, ExceptSeq
  <2> HIDE DEF seq
  <2>5. Len(seq) <= Len(instances[s]) + 1
    BY <1>0, <2>4
  <2> QED BY <2>1, <2>4, <2>5, InstancesAreCommitted
<1> QED BY <1>1, <1>2

LEMMA OneIsRemoved ==
    ASSUME NEW S, NEW seq \in Seq(S), NEW i \in DOMAIN seq
    PROVE  LET less == Reports!RemoveAt(seq, i) IN
           /\ less \in Seq(S) /\ Len(less) = Len(seq) - 1
           /\ \A j \in 1 .. Len(less) : less[j] = IF j < i THEN seq[j] ELSE seq[j + 1]
<1> DEFINE n == Len(seq)
           a == SubSeq(seq, 1, i - 1)
           b == SubSeq(seq, i + 1, n)
<1>1. n \in Nat /\ i \in 1 .. n /\ \A j \in 1 .. n : seq[j] \in S
  BY LenProperties, ElementOfSeq
<1>2. a \in Seq(S) /\ Len(a) = i - 1 /\ \A j \in 1 .. i - 1 : a[j] = seq[j]
  <2>1. \A j \in 1 .. i - 1 : seq[j] \in S
    BY <1>1
  <2>2. 1 \in Int /\ i - 1 \in Int
    BY <1>1
  <2>3. /\ a \in Seq(S) /\ Len(a) = IF 1 <= i - 1 THEN i - 1 - 1 + 1 ELSE 0
        /\ \A j \in 1 .. i - 1 - 1 + 1 : a[j] = seq[1 + j - 1]
    BY <2>1, <2>2, SubSeqProperties
  <2> QED BY <1>1, <2>3
<1>3. b \in Seq(S) /\ Len(b) = n - i /\ \A j \in 1 .. n - i : b[j] = seq[i + j]
  <2>1. \A j \in i + 1 .. n : seq[j] \in S
    BY <1>1
  <2>2. i + 1 \in Int /\ n \in Int
    BY <1>1
  <2>3. /\ b \in Seq(S) /\ Len(b) = IF i + 1 <= n THEN n - (i + 1) + 1 ELSE 0
        /\ \A j \in 1 .. n - (i + 1) + 1 : b[j] = seq[i + 1 + j - 1]
    BY <2>1, <2>2, SubSeqProperties
  <2> QED BY <1>1, <2>3
<1>4. Reports!RemoveAt(seq, i) = a \o b
  BY DEF Reports!RemoveAt
<1> HIDE DEF a, b, n
<1>5. /\ a \o b \in Seq(S) /\ Len(a \o b) = Len(a) + Len(b)
      /\ \A j \in 1 .. Len(a) + Len(b) : (a \o b)[j] = IF j <= Len(a) THEN a[j] ELSE b[j - Len(a)]
  BY <1>2, <1>3, ConcatProperties
<1>6. Len(a) + Len(b) = n - 1
  BY <1>1, <1>2, <1>3
<1>7. ASSUME NEW j \in 1 .. n - 1
      PROVE  (a \o b)[j] = IF j < i THEN seq[j] ELSE seq[j + 1]
  <2>1. CASE j < i
    BY <1>1, <1>2, <1>5, <1>6, <2>1
  <2>2. CASE ~(j < i)
    <3> DEFINE k == j - (i - 1)
    <3>1. j \in 1 .. Len(a) + Len(b) /\ ~(j <= Len(a)) /\ Len(a) = i - 1
      BY <1>1, <1>2, <1>6, <2>2
    <3>2. (a \o b)[j] = b[k]
      BY <1>5, <3>1
    <3>3. k \in 1 .. n - i /\ i + k = j + 1
      BY <1>1, <1>6, <3>1
    <3> HIDE DEF k
    <3>4. b[k] = seq[i + k]
      BY <1>3, <3>3
    <3> QED BY <2>2, <3>2, <3>3, <3>4
  <2> QED BY <2>1, <2>2
<1> QED BY <1>4, <1>5, <1>6, <1>7 DEF n

LEMMA ClaimsKeepDatabase ==
    ASSUME DatabaseInv, NEW s \in ShiftIds,
           \/ Reports!CreateClaim(s)
           \/ \E i \in 1 .. MaxCommits :
                \/ Reports!DeleteClaim(s, i)
                \/ \E verdict \in Reports!Verdicts : Reports!ReviewClaim(s, i, verdict)
    PROVE  DatabaseInv'
<1>0. /\ claims[s] \in Seq(Reports!Statuses) /\ Len(claims[s]) \in Nat
      /\ DOMAIN claims[s] = 1 .. Len(claims[s]) /\ PendingIsLast(claims[s])
  BY LenProperties DEF DatabaseInv
<1>1. CASE Reports!CreateClaim(s)
  <2> DEFINE seq == Append(claims[s], "pending")
  <2>1. /\ Reports!Committed /\ UNCHANGED <<shiftRows, instances>>
        /\ claims' = [claims EXCEPT ![s] = seq]
        /\ \A i \in DOMAIN claims[s] : claims[s][i] # "pending"
    BY <1>1 DEF Reports!CreateClaim, Reports!IsLive
  <2>2. "pending" \in Reports!Statuses
    BY DEF Reports!Statuses
  <2>3. /\ seq \in Seq(Reports!Statuses) /\ Len(seq) = Len(claims[s]) + 1
        /\ \A i \in 1 .. Len(claims[s]) : seq[i] = claims[s][i]
    BY <1>0, <2>2, AppendProperties
  <2> HIDE DEF seq
  <2>4. PendingIsLast(seq)
    <3>1. DOMAIN seq = 1 .. Len(claims[s]) + 1
      BY <2>3, LenProperties
    <3> QED BY <1>0, <2>1, <2>3, <3>1 DEF PendingIsLast
  <2>5. Len(seq) <= Len(claims[s]) + 1
    BY <1>0, <2>3
  <2> QED BY <2>1, <2>3, <2>4, <2>5, ClaimsAreCommitted
<1>2. ASSUME NEW i \in 1 .. MaxCommits, Reports!DeleteClaim(s, i)
      PROVE  DatabaseInv'
  <2> DEFINE seq == Reports!RemoveAt(claims[s], i)
  <2>1. /\ Reports!Committed /\ UNCHANGED <<shiftRows, instances>> /\ i \in DOMAIN claims[s]
        /\ claims' = [claims EXCEPT ![s] = seq]
    BY <1>2 DEF Reports!DeleteClaim
  <2>2. /\ seq \in Seq(Reports!Statuses) /\ Len(seq) = Len(claims[s]) - 1
        /\ \A j \in 1 .. Len(seq) : seq[j] = IF j < i THEN claims[s][j] ELSE claims[s][j + 1]
    BY <1>0, <2>1, OneIsRemoved
  <2> HIDE DEF seq
  <2>3. PendingIsLast(seq)
    <3>1. DOMAIN seq = 1 .. Len(seq)
      BY <2>2, LenProperties
    <3> DEFINE n == Len(claims[s])
               old == claims[s]
    <3>2. n \in Nat /\ i \in 1 .. n /\ Len(seq) = n - 1 /\ \A j \in 1 .. n : old[j] = "pending" => j = n
      BY <1>0, <2>1, <2>2 DEF PendingIsLast
    <3>3. \A j \in 1 .. Len(seq) : seq[j] = IF j < i THEN old[j] ELSE old[j + 1]
      BY <2>2
    <3> HIDE DEF n, old
    <3>4. ASSUME NEW j \in 1 .. Len(seq), seq[j] = "pending" PROVE j = Len(seq)
      <4>1. CASE j < i
        BY <3>2, <3>3, <3>4, <4>1
      <4>2. CASE ~(j < i)
        <5>1. j + 1 \in 1 .. n /\ old[j + 1] = "pending"
          BY <3>2, <3>3, <3>4, <4>2
        <5> QED BY <3>2, <5>1
      <4> QED BY <4>1, <4>2
    <3> QED BY <3>1, <3>4 DEF PendingIsLast
  <2>4. Len(seq) <= Len(claims[s]) + 1
    BY <1>0, <2>2
  <2> QED BY <2>1, <2>2, <2>3, <2>4, ClaimsAreCommitted
<1>3. ASSUME NEW i \in 1 .. MaxCommits, NEW verdict \in Reports!Verdicts,
             Reports!ReviewClaim(s, i, verdict)
      PROVE  DatabaseInv'
  <2> DEFINE seq == [claims[s] EXCEPT ![i] = verdict]
  <2>1. /\ Reports!Committed /\ UNCHANGED <<shiftRows, instances>> /\ i \in DOMAIN claims[s]
        /\ claims' = [claims EXCEPT ![s] = seq]
    BY <1>3 DEF Reports!ReviewClaim
  <2>2. verdict \in Reports!Statuses /\ verdict # "pending"
    BY DEF Reports!Statuses, Reports!Verdicts
  <2>3. /\ seq \in Seq(Reports!Statuses) /\ Len(seq) = Len(claims[s])
        /\ \A j \in 1 .. Len(claims[s]) : seq[j] = IF j = i THEN verdict ELSE claims[s][j]
    BY <1>0, <2>1, <2>2, ExceptSeq
  <2> HIDE DEF seq
  <2>4. PendingIsLast(seq)
    <3>1. DOMAIN seq = 1 .. Len(seq)
      BY <2>3, LenProperties
    <3> QED BY <1>0, <2>2, <2>3, <3>1 DEF PendingIsLast
  <2>5. Len(seq) <= Len(claims[s]) + 1
    BY <1>0, <2>3
  <2> QED BY <2>1, <2>3, <2>4, <2>5, ClaimsAreCommitted
<1> QED BY <1>1, <1>2, <1>3

(***************************************************************************)
(* The report that is being put together                                   *)
(***************************************************************************)

Parts == {"kind", "at", "quiet", "window", "user", "filter", "deleted", "total", "page",
          "summaries", "latest", "rows", "employees"}

Lists == {"organization", "own", "checklists", "overtime"}

Statistics == {"orgStats", "ownStats"}

\* A report passes the statements of its kind.
KindInv ==
    /\ report.at = "rest" => report = Reports!NoReport
    /\ report.at # "rest" => DOMAIN report = Parts
    /\ report.at \in {"count", "page"} => report.kind \in Lists
    /\ report.at \in {"checklists", "overtime"} => report.kind \in {"organization", "own", "detail"}
    /\ report.at = "measure" => report.kind \in Statistics
    /\ report.at = "employees" => report.kind = "orgStats"

\* While nobody commits, what was found is what would be found.
FoundInv ==
    report.at # "rest" /\ report.quiet /\ report.kind \in Lists =>
        /\ report.at \in {"page", "checklists", "overtime", "answered"} =>
            report.total = Reports!Cardinality(Reports!Found)
        /\ report.at \in {"checklists", "overtime", "answered"} => report.page = Reports!Found

\* The shifts whose statistics were asked for.
Chosen ==
    IF report.kind = "orgStats" THEN Reports!OrgStatsShifts(report.window)
    ELSE Reports!OwnStatsShifts(report.user, report.filter, report.window)

LoadedInv ==
    report.at # "rest" /\ report.kind \in Statistics =>
        /\ DOMAIN report.rows \subseteq ShiftIds
        /\ \A s \in DOMAIN report.rows : report.rows[s] \in Versions
        /\ report.quiet => DOMAIN report.rows = Chosen

WorkedAt(rows, S, t) == [s \in S |-> Reports!CalculateWorkedSeconds(rows[s], t)]

Of(rows, u) == {s \in DOMAIN rows : rows[s].user = u}

EmployeesAt(rows, t) ==
    [u \in {u \in Staff : Of(rows, u) # {}} |-> Reports!SumFunction(WorkedAt(rows, Of(rows, u), t))]

\* The total was measured at a moment, and the employees not before it.
MeasuredInv ==
    /\ report.at = "employees" => \E t \in Reports!Ticks :
        /\ t <= clock
        /\ report.total = Reports!SumFunction(WorkedAt(report.rows, DOMAIN report.rows, t))
    /\ report.at = "answered" /\ report.kind = "orgStats" => \E t \in Reports!Ticks, u \in Reports!Ticks :
        /\ t <= u
        /\ report.total = Reports!SumFunction(WorkedAt(report.rows, DOMAIN report.rows, t))
        /\ report.employees = EmployeesAt(report.rows, u)

ReportInv == KindInv /\ FoundInv /\ LoadedInv /\ MeasuredInv

LEMMA InitReport == Reports!Init => ReportInv
BY DEF Reports!Init, Reports!NoReport, ReportInv, KindInv, FoundInv, LoadedInv, MeasuredInv

\* What the queries select is decided by the tables and by what was asked.
LEMMA SameQueries ==
    ASSUME UNCHANGED Reports!database
    PROVE  /\ \A w, d, f : Reports!GetOrgShifts(w, d, f)' = Reports!GetOrgShifts(w, d, f)
           /\ \A u, f, w : Reports!GetShifts(u, f, w)' = Reports!GetShifts(u, f, w)
           /\ \A w, f : Reports!ListOrgChecklistInstances(w, f)' = Reports!ListOrgChecklistInstances(w, f)
           /\ \A w, f : Reports!ListOrgOvertimeRequests(w, f)' = Reports!ListOrgOvertimeRequests(w, f)
           /\ \A w : Reports!OrgStatsShifts(w)' = Reports!OrgStatsShifts(w)
           /\ \A u, f, w : Reports!OwnStatsShifts(u, f, w)' = Reports!OwnStatsShifts(u, f, w)
<1>1. shiftRows' = shiftRows /\ instances' = instances /\ claims' = claims
  BY DEF Reports!database
<1>2. ASSUME NEW w, NEW d, NEW f
      PROVE  Reports!GetOrgShifts(w, d, f)' = Reports!GetOrgShifts(w, d, f)
  <2>1. \A s : Reports!Completed(s)' = Reports!Completed(s) /\ Reports!Required(s)' = Reports!Required(s)
    BY <1>1 DEF Reports!Completed, Reports!Required
  <2>2. \A s : Reports!ChecklistsMatch(s, f)' <=> Reports!ChecklistsMatch(s, f)
    BY <1>1, <2>1 DEF Reports!ChecklistsMatch
  <2>3. \A s : Reports!HasOvertime(s, f)' <=> Reports!HasOvertime(s, f)
    BY <1>1 DEF Reports!HasOvertime
  <2> QED BY <1>1, <2>2, <2>3 DEF Reports!GetOrgShifts
<1>3. \A u, f, w : Reports!GetShifts(u, f, w)' = Reports!GetShifts(u, f, w)
  BY <1>1 DEF Reports!GetShifts, Reports!Live
<1>4. \A s : Reports!OfOrganization(s)' <=> Reports!OfOrganization(s)
  BY <1>1 DEF Reports!OfOrganization
<1>5. \A w, f : Reports!ListOrgChecklistInstances(w, f)' = Reports!ListOrgChecklistInstances(w, f)
  BY <1>1, <1>4 DEF Reports!ListOrgChecklistInstances
<1>6. \A w, f : Reports!ListOrgOvertimeRequests(w, f)' = Reports!ListOrgOvertimeRequests(w, f)
  BY <1>1, <1>4 DEF Reports!ListOrgOvertimeRequests
<1>7. \A w : Reports!OrgStatsShifts(w)' = Reports!OrgStatsShifts(w)
  BY <1>1, <1>4 DEF Reports!OrgStatsShifts
<1>8. \A u, f, w : Reports!OwnStatsShifts(u, f, w)' = Reports!OwnStatsShifts(u, f, w)
  BY <1>1 DEF Reports!OwnStatsShifts, Reports!Live
<1> QED BY <1>2, <1>3, <1>5, <1>6, <1>7, <1>8

\* Another step of the same report.
Onwards(changed) ==
    /\ UNCHANGED Reports!database
    /\ DOMAIN report = Parts /\ DOMAIN report' = Parts
    /\ \A f \in Parts \ changed : report'[f] = report[f]

Asking == {"kind", "quiet", "window", "user", "filter", "deleted"}

LEMMA SameRequest ==
    ASSUME NEW changed, Onwards(changed), changed \cap Asking = {}
    PROVE  /\ report'.kind = report.kind /\ report'.quiet = report.quiet
           /\ report'.window = report.window /\ report'.user = report.user
           /\ report'.filter = report.filter /\ report'.deleted = report.deleted
BY DEF Onwards, Asking, Parts

LEMMA SameFound ==
    ASSUME NEW changed, Onwards(changed), changed \cap Asking = {}
    PROVE  (report.kind \in Lists => Reports!Found' = Reports!Found) /\ Chosen' = Chosen
<1>1. UNCHANGED Reports!database
  BY DEF Onwards
<1>2. report.kind \in Lists => Reports!Found' = Reports!Found
  BY <1>1, SameRequest, SameQueries DEF Reports!Found, Lists
<1>3. Chosen' = Chosen
  BY <1>1, SameRequest, SameQueries DEF Chosen
<1> QED BY <1>2, <1>3

\* A list or a register is asked for.
LEMMA AskForList ==
    ASSUME DOMAIN report' = Parts, report'.at = "count", report'.kind \in Lists
    PROVE  ReportInv'
BY DEF ReportInv, KindInv, FoundInv, LoadedInv, MeasuredInv, Lists, Statistics

LEMMA AsksKeepReport ==
    ASSUME NEW w, \/ \E deleted \in BOOLEAN, filter \in Reports!Filters :
                        Reports!ListOrgShifts(w, deleted, filter)
                  \/ \E user \in Staff, scope \in Reports!Scopes : Reports!ListShifts(user, w, scope)
                  \/ \E kind \in {"checklists", "overtime"} : \E filter :
                        Reports!ListRegister(kind, w, filter)
    PROVE  ReportInv'
<1>1. ASSUME NEW deleted, NEW filter, Reports!ListOrgShifts(w, deleted, filter)
      PROVE  ReportInv'
  <2>1. report' = [Reports!Asked("organization", "count") EXCEPT
                        !.window = w, !.deleted = deleted, !.filter = filter]
    BY <1>1 DEF Reports!ListOrgShifts, Reports!Ask
  <2>2. DOMAIN report' = Parts /\ report'.at = "count" /\ report'.kind = "organization"
    BY <2>1 DEF Reports!Asked, Parts
  <2> QED BY <2>2, AskForList DEF Lists
<1>2. ASSUME NEW user, NEW scope, Reports!ListShifts(user, w, scope)
      PROVE  ReportInv'
  <2>1. report' = [Reports!Asked("own", "count") EXCEPT !.window = w, !.user = user, !.filter = scope]
    BY <1>2 DEF Reports!ListShifts, Reports!Ask
  <2>2. DOMAIN report' = Parts /\ report'.at = "count" /\ report'.kind = "own"
    BY <2>1 DEF Reports!Asked, Parts
  <2> QED BY <2>2, AskForList DEF Lists
<1>3. ASSUME NEW kind \in {"checklists", "overtime"}, NEW filter, Reports!ListRegister(kind, w, filter)
      PROVE  ReportInv'
  <2>1. report' = [Reports!Asked(kind, "count") EXCEPT !.window = w, !.filter = filter]
    BY <1>3 DEF Reports!ListRegister, Reports!Ask
  <2>2. DOMAIN report' = Parts /\ report'.at = "count" /\ report'.kind = kind
    BY <2>1 DEF Reports!Asked, Parts
  <2> QED BY <2>2, AskForList DEF Lists
<1> QED BY <1>1, <1>2, <1>3

LEMMA DetailsKeepReport ==
    ASSUME NEW s, \/ \E deleted \in BOOLEAN : Reports!GetOrgShift(s, deleted)
                  \/ \E user \in Staff : Reports!GetShift(user, s)
    PROVE  ReportInv'
<1>1. PICK at \in {"checklists", "overtime"} :
        report' = [Reports!Asked("detail", at) EXCEPT !.page = {s}]
  BY DEF Reports!GetOrgShift, Reports!GetShift, Reports!Ask
<1>2. DOMAIN report' = Parts /\ report'.at = at /\ report'.kind = "detail"
  BY <1>1 DEF Reports!Asked, Parts
<1> QED BY <1>2 DEF ReportInv, KindInv, FoundInv, LoadedInv, MeasuredInv, Lists, Statistics

LEMMA LoadKeepsReport ==
    ASSUME DatabaseInv, NEW kind \in Statistics, NEW w, NEW user, NEW scope, NEW chosen,
           chosen = IF kind = "orgStats" THEN Reports!OrgStatsShifts(w)
                    ELSE Reports!OwnStatsShifts(user, scope, w),
           Reports!Load(kind, w, user, scope, chosen)
    PROVE  ReportInv'
<1> DEFINE loaded == [s \in chosen |-> shiftRows[s]]
<1>1. /\ UNCHANGED Reports!database
      /\ report' = [Reports!Asked(kind, "measure") EXCEPT !.window = w, !.user = user,
                        !.filter = scope, !.rows = loaded]
  BY DEF Reports!Load, Reports!Ask
<1> HIDE DEF loaded
<1>2. /\ DOMAIN report' = Parts /\ report'.at = "measure" /\ report'.kind = kind
      /\ report'.window = w /\ report'.user = user /\ report'.filter = scope /\ report'.rows = loaded
  BY <1>1 DEF Reports!Asked, Parts
<1>3. chosen \subseteq ShiftIds /\ \A s \in chosen : shiftRows[s] \in Versions
  BY DEF DatabaseInv, Statistics, Reports!OrgStatsShifts, Reports!OwnStatsShifts,
     Reports!OfOrganization, Reports!Live
<1>4. DOMAIN loaded = chosen /\ \A s \in chosen : loaded[s] \in Versions
  BY <1>3 DEF loaded
<1>5. Chosen' = chosen
  BY <1>1, <1>2, SameQueries DEF Chosen
<1> QED BY <1>2, <1>3, <1>4, <1>5 DEF ReportInv, KindInv, FoundInv, LoadedInv, MeasuredInv,
           Lists, Statistics

LEMMA CountKeepsReport == ASSUME ReportInv, Reports!Count PROVE ReportInv'
<1> DEFINE n == Reports!Cardinality(Reports!Found)
           changed == {"at", "total"}
<1>1. /\ report.at = "count" /\ report.kind \in Lists /\ DOMAIN report = Parts
      /\ UNCHANGED Reports!database /\ report' = [report EXCEPT !.at = "page", !.total = n]
  BY DEF Reports!Count, ReportInv, KindInv
<1> HIDE DEF n
<1>2. report'.at = "page" /\ report'.total = n /\ Onwards(changed)
  BY <1>1 DEF Onwards, Parts
<1>3. report'.kind = report.kind /\ (report.kind \in Lists => Reports!Found' = Reports!Found)
  BY <1>2, SameRequest, SameFound DEF Asking
<1>4. n = Reports!Cardinality(Reports!Found')
  BY <1>1, <1>3 DEF n
<1>5. DOMAIN report' = Parts /\ report'.kind \in Lists /\ (report'.kind \notin Statistics)
  BY <1>1, <1>2, <1>3 DEF Onwards, Lists, Statistics
<1>6. FoundInv'
  BY <1>2, <1>4 DEF FoundInv, Reports!Cardinality
<1>7. KindInv' /\ LoadedInv' /\ MeasuredInv'
  BY <1>2, <1>5 DEF KindInv, LoadedInv, MeasuredInv
<1> QED BY <1>6, <1>7 DEF ReportInv

LEMMA PageKeepsReport == ASSUME ReportInv, Reports!Page PROVE ReportInv'
<1> DEFINE found == Reports!Found
           changed == {"at", "page"}
           next == CASE report.kind = "organization" -> "checklists"
                     [] report.kind = "own" -> "overtime"
                     [] OTHER -> "answered"
<1>1. /\ report.at = "page" /\ report.kind \in Lists /\ DOMAIN report = Parts
      /\ UNCHANGED Reports!database /\ report' = [report EXCEPT !.page = found, !.at = next]
  BY DEF Reports!Page, ReportInv, KindInv
<1>2. /\ next \in {"checklists", "overtime", "answered"}
      /\ next = "checklists" => report.kind = "organization"
      /\ next = "overtime" => report.kind = "own"
  BY <1>1 DEF Lists
<1> HIDE DEF found, next
<1>3. report'.at = next /\ report'.page = found /\ report'.total = report.total /\ Onwards(changed)
  BY <1>1 DEF Onwards, Parts
<1>4. /\ report'.kind = report.kind /\ report'.quiet = report.quiet
      /\ report.kind \in Lists => Reports!Found' = Reports!Found
  BY <1>3, SameRequest, SameFound DEF Asking
<1>5. /\ DOMAIN report' = Parts /\ report'.kind \in Lists /\ report'.kind \notin Statistics
      /\ report'.at \notin {"rest", "employees"} /\ report'.kind # "orgStats"
  BY <1>1, <1>2, <1>3, <1>4 DEF Onwards, Lists, Statistics
<1>6. report.quiet => report.total = Reports!Cardinality(Reports!Found)
  BY <1>1 DEF ReportInv, FoundInv
<1>7. FoundInv'
  BY <1>1, <1>3, <1>4, <1>6 DEF FoundInv, Reports!Cardinality, found
<1>8. KindInv' /\ LoadedInv' /\ MeasuredInv'
  BY <1>2, <1>3, <1>4, <1>5 DEF KindInv, LoadedInv, MeasuredInv
<1> QED BY <1>7, <1>8 DEF ReportInv

LEMMA ShowKeepsReport ==
    ASSUME ReportInv, Reports!ShowChecklists \/ Reports!ShowOvertime PROVE ReportInv'
<1> DEFINE sums == [s \in report.page |-> Reports!ChecklistsSummary(s)]
           last == [s \in report.page |-> Reports!LatestOvertime(s)]
           changed == {"at", "summaries", "latest"}
<1>1. /\ report.at \in {"checklists", "overtime"} /\ report.kind \in {"organization", "own", "detail"}
      /\ DOMAIN report = Parts /\ UNCHANGED Reports!database
      /\ \/ report' = [report EXCEPT !.at = "overtime", !.summaries = sums]
         \/ report' = [report EXCEPT !.at = "answered", !.latest = last]
  BY DEF Reports!ShowChecklists, Reports!ShowOvertime, ReportInv, KindInv
<1> HIDE DEF sums, last
<1>2. /\ report'.at \in {"overtime", "answered"} /\ report'.total = report.total
      /\ report'.page = report.page /\ Onwards(changed)
  <2>1. CASE report' = [report EXCEPT !.at = "overtime", !.summaries = sums]
    BY <1>1, <2>1 DEF Onwards, Parts
  <2>2. CASE report' = [report EXCEPT !.at = "answered", !.latest = last]
    BY <1>1, <2>2 DEF Onwards, Parts
  <2> QED BY <1>1, <2>1, <2>2
<1>3. /\ report'.kind = report.kind /\ report'.quiet = report.quiet
      /\ report.kind \in Lists => Reports!Found' = Reports!Found
  BY <1>2, SameRequest, SameFound DEF Asking
<1>4. DOMAIN report' = Parts /\ report'.kind \notin Statistics /\ report'.kind # "orgStats"
  BY <1>1, <1>2, <1>3 DEF Onwards, Statistics
<1>5. SUFFICES ASSUME report.quiet, report.kind \in Lists
               PROVE  report'.total = Reports!Cardinality(Reports!Found') /\ report'.page = Reports!Found'
  <2>1. KindInv' /\ LoadedInv' /\ MeasuredInv'
    BY <1>1, <1>2, <1>3, <1>4 DEF KindInv, LoadedInv, MeasuredInv
  <2>2. (report.quiet /\ report.kind \in Lists =>
            report'.total = Reports!Cardinality(Reports!Found') /\ report'.page = Reports!Found')
        => FoundInv'
    BY <1>3 DEF FoundInv, Reports!Cardinality
  <2> QED BY <2>1, <2>2 DEF ReportInv
<1>6. report.total = Reports!Cardinality(Reports!Found) /\ report.page = Reports!Found
  BY <1>1, <1>5 DEF ReportInv, FoundInv
<1>7. Reports!Found' = Reports!Found
  BY <1>3, <1>5
<1> QED BY <1>2, <1>6, <1>7

\* While a report waits the clock may go on.
LEMMA WaitKeepsReport ==
    ASSUME DatabaseInv, ReportInv, UNCHANGED <<Reports!database, report>>,
           clock' \in Reports!Ticks, clock <= clock'
    PROVE  ReportInv'
<1>1. report' = report /\ UNCHANGED Reports!database
  OBVIOUS
<1>2. KindInv'
  BY <1>1 DEF ReportInv, KindInv
<1>3. report.kind \in Lists => Reports!Found' = Reports!Found
  BY <1>1, SameQueries DEF Reports!Found, Lists
<1>4. Chosen' = Chosen
  BY <1>1, SameQueries DEF Chosen
<1>5. FoundInv'
  <2>1. SUFFICES ASSUME report.at # "rest", report.quiet, report.kind \in Lists
                 PROVE  /\ report.at \in {"page", "checklists", "overtime", "answered"} =>
                             report.total = Reports!Cardinality(Reports!Found')
                        /\ report.at \in {"checklists", "overtime", "answered"} =>
                             report.page = Reports!Found'
    BY <1>1 DEF FoundInv, Reports!Cardinality
  <2>2. /\ report.at \in {"page", "checklists", "overtime", "answered"} =>
             report.total = Reports!Cardinality(Reports!Found)
        /\ report.at \in {"checklists", "overtime", "answered"} => report.page = Reports!Found
    BY <2>1 DEF ReportInv, FoundInv
  <2>3. Reports!Found' = Reports!Found
    BY <1>3, <2>1
  <2> QED BY <2>2, <2>3
<1>6. LoadedInv'
  BY <1>1, <1>4 DEF ReportInv, LoadedInv
<1>7. \A t \in Reports!Ticks : t <= clock => t <= clock'
  BY DEF DatabaseInv, Reports!Ticks
<1>8. MeasuredInv'
  BY <1>1, <1>7, Zenon DEF ReportInv, MeasuredInv
<1> QED BY <1>2, <1>5, <1>6, <1>8 DEF ReportInv

LEMMA MeasureKeepsReport == ASSUME DatabaseInv, ReportInv, Reports!Measure PROVE ReportInv'
<1> DEFINE n == Reports!SumFunction(WorkedAt(report.rows, DOMAIN report.rows, clock))
           next == IF report.kind = "orgStats" THEN "employees" ELSE "answered"
           changed == {"at", "total"}
<1>1. n = Reports!WorkedBy(DOMAIN report.rows)
  BY Zenon DEF Reports!WorkedBy, WorkedAt
<1>2. /\ report.at = "measure" /\ UNCHANGED <<clock, Reports!database>>
      /\ report' = [report EXCEPT !.at = next, !.total = n]
  BY <1>1 DEF Reports!Measure
<1>3. report.kind \in Statistics /\ DOMAIN report = Parts
  BY <1>2 DEF ReportInv, KindInv
<1>4. \/ next = "employees" /\ report.kind = "orgStats"
      \/ next = "answered" /\ report.kind = "ownStats"
  BY <1>3 DEF Statistics
<1> HIDE DEF n, next
<1>5. report'.at = next /\ report'.total = n /\ report'.rows = report.rows /\ Onwards(changed)
  BY <1>2, <1>3 DEF Onwards, Parts
<1>6. report'.kind = report.kind /\ report'.quiet = report.quiet /\ Chosen' = Chosen
  BY <1>5, SameRequest, SameFound DEF Asking
<1>7. DOMAIN report' = Parts /\ report'.kind \notin Lists
  BY <1>4, <1>5, <1>6 DEF Onwards, Lists
<1>8. KindInv' /\ FoundInv'
  BY <1>4, <1>5, <1>6, <1>7 DEF KindInv, FoundInv
<1>9. LoadedInv'
  BY <1>2, <1>3, <1>5, <1>6 DEF ReportInv, LoadedInv
<1>10. MeasuredInv'
  <2>1. clock \in Reports!Ticks /\ clock <= clock' /\ clock' = clock
    BY <1>2 DEF DatabaseInv, Reports!Ticks
  <2>2. report'.total = Reports!SumFunction(WorkedAt(report'.rows, DOMAIN report'.rows, clock))
    BY <1>5 DEF n
  <2>3. report'.at = "answered" => report'.kind # "orgStats"
    BY <1>4, <1>5, <1>6
  <2> QED BY <2>1, <2>2, <2>3, Zenon DEF MeasuredInv
<1> QED BY <1>8, <1>9, <1>10 DEF ReportInv

LEMMA MeasureEmployeesKeepsReport ==
    ASSUME DatabaseInv, ReportInv, Reports!MeasureEmployees PROVE ReportInv'
<1> DEFINE rows == EmployeesAt(report.rows, clock)
           changed == {"at", "employees"}
<1>1. /\ report.at = "employees" /\ UNCHANGED <<clock, Reports!database>>
      /\ report' = [report EXCEPT !.at = "answered", !.employees = rows]
  BY Zenon DEF Reports!MeasureEmployees, EmployeesAt, Reports!WorkedBy, WorkedAt, Of
<1>2. report.kind = "orgStats" /\ DOMAIN report = Parts
  BY <1>1 DEF ReportInv, KindInv
<1> HIDE DEF rows
<1>3. /\ report'.at = "answered" /\ report'.employees = rows /\ report'.rows = report.rows
      /\ report'.total = report.total /\ Onwards(changed)
  BY <1>1, <1>2 DEF Onwards, Parts
<1>4. report'.kind = report.kind /\ report'.quiet = report.quiet /\ Chosen' = Chosen
  BY <1>3, SameRequest, SameFound DEF Asking
<1>5. DOMAIN report' = Parts /\ report'.kind \notin Lists
  BY <1>2, <1>3, <1>4 DEF Onwards, Lists
<1>6. KindInv' /\ FoundInv'
  BY <1>3, <1>5 DEF KindInv, FoundInv
<1>7. LoadedInv'
  BY <1>1, <1>2, <1>3, <1>4 DEF ReportInv, LoadedInv, Statistics
<1>8. MeasuredInv'
  <2>1. PICK t \in Reports!Ticks :
          /\ t <= clock
          /\ report.total = Reports!SumFunction(WorkedAt(report.rows, DOMAIN report.rows, t))
    BY <1>1, Zenon DEF ReportInv, MeasuredInv
  <2>2. clock \in Reports!Ticks
    BY DEF DatabaseInv
  <2>3. report'.employees = EmployeesAt(report'.rows, clock)
    BY <1>3 DEF rows
  <2>4. report'.total = Reports!SumFunction(WorkedAt(report'.rows, DOMAIN report'.rows, t))
    BY <1>3, <2>1
  <2>5. report'.at # "employees"
    BY <1>3
  <2> QED BY <2>1, <2>2, <2>3, <2>4, <2>5, Zenon DEF MeasuredInv
<1> QED BY <1>6, <1>7, <1>8 DEF ReportInv

\* A commit may change what would be found, and the report is no longer quiet.
LEMMA CommitKeepsReport == ASSUME ReportInv, Reports!Committed PROVE ReportInv'
<1>1. /\ report.at # "answered" /\ UNCHANGED clock
      /\ report' = IF report = Reports!NoReport THEN report ELSE [report EXCEPT !.quiet = FALSE]
  BY DEF Reports!Committed
<1>2. CASE report = Reports!NoReport
  BY <1>1, <1>2 DEF ReportInv, KindInv, FoundInv, LoadedInv, MeasuredInv, Reports!NoReport
<1>3. CASE report # Reports!NoReport
  <2>1. report.at # "rest" /\ DOMAIN report = Parts
    BY <1>3 DEF ReportInv, KindInv
  <2>2. /\ report' = [report EXCEPT !.quiet = FALSE] /\ DOMAIN report' = Parts /\ ~report'.quiet
        /\ \A f \in Parts \ {"quiet"} : report'[f] = report[f]
    BY <1>1, <1>3, <2>1 DEF Parts
  <2>3. /\ report'.at = report.at /\ report'.kind = report.kind /\ report'.rows = report.rows
        /\ report'.total = report.total
    BY <2>2 DEF Parts
  <2>4. KindInv' /\ FoundInv' /\ LoadedInv'
    BY <2>1, <2>2, <2>3 DEF ReportInv, KindInv, FoundInv, LoadedInv
  <2>5. MeasuredInv'
    BY <1>1, <2>3, Zenon DEF ReportInv, MeasuredInv
  <2> QED BY <2>4, <2>5 DEF ReportInv
<1> QED BY <1>2, <1>3

ReportsInv == DatabaseInv /\ ReportInv

LEMMA InitReports == Init => ReportsInv
BY InitDatabase, InitReport DEF Init, ReportsInv

LEMMA CommitsKeepReports ==
    ASSUME ReportsInv, NEW s \in ShiftIds,
           \/ \E v \in Versions : Reports!CommitShift(s, v)
           \/ \E required \in BOOLEAN : Reports!IssueChecklist(s, required)
           \/ Reports!CreateClaim(s)
           \/ \E i \in 1 .. MaxCommits :
                \/ Reports!CommitChecklist(s, i) \/ Reports!DeleteClaim(s, i)
                \/ \E verdict \in Reports!Verdicts : Reports!ReviewClaim(s, i, verdict)
    PROVE  ReportsInv'
<1>1. Reports!Committed
  BY DEF Reports!CommitShift, Reports!IssueChecklist, Reports!CreateClaim, Reports!CommitChecklist,
     Reports!DeleteClaim, Reports!ReviewClaim
<1>2. DatabaseInv'
  BY CommitShiftKeepsDatabase, ChecklistsKeepDatabase, ClaimsKeepDatabase DEF ReportsInv
<1> QED BY <1>1, <1>2, CommitKeepsReport DEF ReportsInv

\* A step of the report that is being put together.
LEMMA StepsKeepReport ==
    ASSUME ReportsInv,
           \/ Reports!Count \/ Reports!Page \/ Reports!ShowChecklists \/ Reports!ShowOvertime
           \/ Reports!Measure \/ Reports!MeasureEmployees \/ Reports!Forget
    PROVE  ReportInv'
<1>1. Reports!Forget => ReportInv'
  BY DEF Reports!Forget, Reports!NoReport, ReportInv, KindInv, FoundInv, LoadedInv, MeasuredInv
<1> QED BY <1>1, CountKeepsReport, PageKeepsReport, ShowKeepsReport, MeasureKeepsReport,
           MeasureEmployeesKeepsReport DEF ReportsInv

\* Whatever is asked for.
LEMMA QuestionsKeepReport ==
    ASSUME ReportsInv, NEW w,
           \/ \E deleted \in BOOLEAN, filter \in Reports!Filters : Reports!ListOrgShifts(w, deleted, filter)
           \/ \E user \in Staff, scope \in Reports!Scopes : Reports!ListShifts(user, w, scope)
           \/ \E kind \in {"checklists", "overtime"} : \E filter :
                Reports!ListRegister(kind, w, filter)
           \/ \E period : Reports!GetOrgStats(period, w)
           \/ \E period, user, scope : Reports!GetShiftStats(period, w, user, scope)
    PROVE  ReportInv'
<1>1. ASSUME NEW period, Reports!GetOrgStats(period, w) PROVE ReportInv'
  <2> DEFINE window == Reports!StatsWindow(period, w)
             kind == "orgStats"
             chosen == Reports!OrgStatsShifts(window)
             scope == "all"
  <2>1. Reports!Load(kind, window, None, scope, chosen)
    BY <1>1, Zenon DEF Reports!GetOrgStats
  <2>2. kind \in Statistics /\ chosen = IF kind = "orgStats" THEN Reports!OrgStatsShifts(window)
                                        ELSE Reports!OwnStatsShifts(None, scope, window)
    BY DEF Statistics
  <2> HIDE DEF window, kind, chosen, scope
  <2> QED BY <2>1, <2>2, LoadKeepsReport DEF ReportsInv
<1>2. ASSUME NEW period, NEW user, NEW scope, Reports!GetShiftStats(period, w, user, scope)
      PROVE  ReportInv'
  <2> DEFINE window == Reports!StatsWindow(period, w)
             kind == "ownStats"
             chosen == Reports!OwnStatsShifts(user, scope, window)
  <2>1. Reports!Load(kind, window, user, scope, chosen)
    BY <1>2, Zenon DEF Reports!GetShiftStats
  <2>2. kind \in Statistics /\ chosen = IF kind = "orgStats" THEN Reports!OrgStatsShifts(window)
                                        ELSE Reports!OwnStatsShifts(user, scope, window)
    BY DEF Statistics
  <2> HIDE DEF window, kind, chosen
  <2> QED BY <2>1, <2>2, LoadKeepsReport DEF ReportsInv
<1> QED BY <1>1, <1>2, AsksKeepReport

LEMMA NextKeepsReports == ReportsInv /\ [Next]_accountsVars => ReportsInv'
<1> SUFFICES ASSUME ReportsInv, [Next]_accountsVars PROVE ReportsInv'
  OBVIOUS
<1>0. clock \in Reports!Ticks /\ clock <= clock
  BY DEF ReportsInv, DatabaseInv, Reports!Ticks
<1>1. CASE UNCHANGED reporting
  <2>1. UNCHANGED <<Reports!database, commits>> /\ UNCHANGED <<Reports!database, report>> /\ clock' = clock
    BY <1>1 DEF reporting, Reports!database
  <2> QED BY <1>0, <2>1, ReadsKeepDatabase, WaitKeepsReport DEF ReportsInv
<1>2. CASE Reports!Next
  <2>1. ASSUME NEW w \in Ranges,
               \/ \E deleted \in BOOLEAN, filter \in Reports!Filters :
                    Reports!ListOrgShifts(w, deleted, filter)
               \/ \E user \in Staff, scope \in Reports!Scopes : Reports!ListShifts(user, w, scope)
               \/ \E kind \in {"checklists", "overtime"} : \E filter :
                    Reports!ListRegister(kind, w, filter)
               \/ \E period : Reports!GetOrgStats(period, w)
               \/ \E period, user, scope : Reports!GetShiftStats(period, w, user, scope)
        PROVE  ReportsInv'
    <3>1. UNCHANGED <<clock, Reports!database, commits>>
      BY <2>1 DEF Reports!ListOrgShifts, Reports!ListShifts, Reports!ListRegister, Reports!GetOrgStats,
         Reports!GetShiftStats, Reports!Load, Reports!Ask
    <3>2. DatabaseInv'
      BY <1>0, <3>1, ReadsKeepDatabase DEF ReportsInv
    <3> QED BY <2>1, <3>2, QuestionsKeepReport DEF ReportsInv
  <2>2. ASSUME NEW s \in ShiftIds, \/ \E deleted \in BOOLEAN : Reports!GetOrgShift(s, deleted)
                                   \/ \E user \in Staff : Reports!GetShift(user, s)
        PROVE  ReportsInv'
    <3>1. UNCHANGED <<clock, Reports!database, commits>>
      BY <2>2 DEF Reports!GetOrgShift, Reports!GetShift, Reports!Ask
    <3>2. DatabaseInv'
      BY <1>0, <3>1, ReadsKeepDatabase DEF ReportsInv
    <3> QED BY <2>2, <3>2, DetailsKeepReport DEF ReportsInv
  <2>3. CASE \/ Reports!Count \/ Reports!Page \/ Reports!ShowChecklists \/ Reports!ShowOvertime
             \/ Reports!Measure \/ Reports!MeasureEmployees \/ Reports!Forget
    <3>1. UNCHANGED <<clock, Reports!database, commits>>
      BY <2>3 DEF Reports!Count, Reports!Page, Reports!ShowChecklists, Reports!ShowOvertime,
         Reports!Measure, Reports!MeasureEmployees, Reports!Forget
    <3>2. DatabaseInv'
      BY <1>0, <3>1, ReadsKeepDatabase DEF ReportsInv
    <3> QED BY <2>3, <3>2, StepsKeepReport DEF ReportsInv
  <2>4. CASE Reports!Tick
    <3>1. /\ UNCHANGED <<Reports!database, commits>> /\ UNCHANGED <<Reports!database, report>>
          /\ clock' \in Reports!Ticks /\ clock <= clock'
      BY <1>0, <2>4, AccountsAssumption DEF Reports!Tick, Reports!Ticks, Reports!ReportsAssumption
    <3> QED BY <3>1, ReadsKeepDatabase, WaitKeepsReport DEF ReportsInv
  <2> QED BY <1>2, <2>1, <2>2, <2>3, <2>4, CommitsKeepReports DEF Reports!Next
<1> QED BY <1>1, <1>2 DEF Next, PayrollMoves, ReportsMove, accountsVars, reporting, paying

\* The tables that the reports read, and the report that is being put together.
THEOREM ReportsInvariant == Spec => []ReportsInv
BY InitReports, NextKeepsReports, PTL DEF Spec

\* What is shown to an administrator and to an employee keeps its type, in both parts.
THEOREM AccountsTyped == Spec => []TypeOK
<1>1. ReportsInv => Reports!TypeOK
  BY AccountsAssumption DEF ReportsInv, DatabaseInv, Reports!TypeOK, Reports!ReportsAssumption
<1>2. PayrollInv /\ ReportsInv => TypeOK
  BY <1>1, TablesAreTyped DEF PayrollInv, TypeOK
<1> QED BY <1>2, PayrollInvariant, ReportsInvariant, PTL

(***************************************************************************)
(* The lists, the registers and what is shown                              *)
(***************************************************************************)

LEMMA CountsAreCardinalities == \A S : Reports!Cardinality(S) = Cardinality(S)
BY Zenon DEF Reports!Cardinality, Cardinality

\* The numbers beside a shift.
LEMMA ChecklistCounts ==
    ASSUME DatabaseInv, NEW s \in ShiftIds
    PROVE  LET n == Len(instances[s]) IN
           /\ n \in 0 .. MaxCommits /\ DOMAIN instances[s] = 1 .. n /\ (instances[s] = <<>> <=> n = 0)
           /\ Reports!Cardinality(Reports!Completed(s)) \in 0 .. n
           /\ Reports!Cardinality(Reports!Completed(s)) = n <=> Reports!Completed(s) = 1 .. n
           /\ LET open == Reports!Required(s) \ Reports!Completed(s) IN
              Reports!Cardinality(open) > 0 <=> open # {}
<1> DEFINE n == Len(instances[s])
           done == Reports!Completed(s)
           open == Reports!Required(s) \ Reports!Completed(s)
<1>1. instances[s] \in Seq(Reports!Instance)
  BY DEF DatabaseInv
<1>2. n \in Nat /\ DOMAIN instances[s] = 1 .. n /\ (instances[s] = <<>> <=> n = 0)
  BY <1>1, LenProperties, EmptySeq
<1>3. n <= MaxCommits /\ MaxCommits \in Nat
  BY <1>2, AccountsAssumption DEF DatabaseInv, Reports!ReportsAssumption
<1>4. done \subseteq 1 .. n /\ open \subseteq 1 .. n
  BY <1>2 DEF Reports!Completed, Reports!Required
<1>5. IsFiniteSet(1 .. n) /\ Cardinality(1 .. n) = n
  BY <1>2, FS_Interval
<1> HIDE DEF n, done, open
<1>6. /\ IsFiniteSet(done) /\ Cardinality(done) <= n /\ Cardinality(done) \in Nat
      /\ Cardinality(done) = n <=> done = 1 .. n
      /\ IsFiniteSet(open) /\ Cardinality(open) \in Nat
  <2> DEFINE N == 1 .. n
  <2>1. IsFiniteSet(N) /\ Cardinality(N) = n /\ done \in SUBSET N /\ open \in SUBSET N
    BY <1>4, <1>5
  <2> HIDE DEF N
  <2>2. IsFiniteSet(done) /\ IsFiniteSet(open)
    BY <2>1, FS_Subset
  <2>3. Cardinality(done) <= n /\ (Cardinality(N) = Cardinality(done) => N = done)
    BY <2>1, FS_Subset
  <2>4. Cardinality(done) \in Nat /\ Cardinality(open) \in Nat
    BY <2>2, FS_CardinalityType
  <2>5. Cardinality(done) = n <=> done = N
    BY <2>1, <2>3
  <2> QED BY <2>2, <2>3, <2>4, <2>5 DEF N
<1>7. Cardinality(open) = 0 <=> open = {}
  BY <1>6, FS_EmptySet
<1>8. Reports!Cardinality(done) = Cardinality(done) /\ Reports!Cardinality(open) = Cardinality(open)
  BY CountsAreCardinalities
<1>9. /\ n \in 0 .. MaxCommits /\ Reports!Cardinality(done) \in 0 .. n
      /\ Reports!Cardinality(done) = n <=> done = 1 .. n
      /\ Reports!Cardinality(open) > 0 <=> open # {}
  BY <1>2, <1>3, <1>6, <1>7, <1>8
<1> QED BY <1>2, <1>9 DEF n, done, open

\* The latest request: there is one if there are any, and a pending one is the latest.
LEMMA LatestRequest ==
    ASSUME DatabaseInv, NEW s \in ShiftIds
    PROVE  LET n == Len(claims[s]) IN
           /\ n \in 0 .. MaxCommits /\ DOMAIN claims[s] = 1 .. n
           /\ Reports!LatestOvertime(s) # None <=> claims[s] # <<>>
           /\ \A i \in DOMAIN claims[s] :
                claims[s][i] = "pending" => i = n /\ Reports!LatestOvertime(s) = "pending"
           /\ Reports!LatestOvertime(s) = "pending" => \E i \in DOMAIN claims[s] : claims[s][i] = "pending"
<1> DEFINE n == Len(claims[s])
           list == claims[s]
<1>1. list \in Seq(Reports!Statuses) /\ PendingIsLast(list)
  BY DEF DatabaseInv
<1>2. n \in Nat /\ DOMAIN list = 1 .. n /\ (list = <<>> <=> n = 0)
  BY <1>1, LenProperties, EmptySeq
<1>3. n <= MaxCommits /\ MaxCommits \in Nat
  BY <1>2, AccountsAssumption DEF DatabaseInv, Reports!ReportsAssumption
<1>4. Reports!LatestOvertime(s) = IF list = <<>> THEN None ELSE list[n]
  BY DEF Reports!LatestOvertime, Reports!Last
<1>5. n # 0 => n \in 1 .. n /\ list[n] \in Reports!Statuses
  BY <1>1, <1>2, ElementOfSeq
<1>6. None \notin Reports!Statuses /\ "pending" \in Reports!Statuses
  BY AccountsAssumption DEF Reports!ReportsAssumption, Reports!Statuses
<1>7. \A i \in 1 .. n : list[i] = "pending" => i = n
  BY <1>1, <1>2 DEF PendingIsLast
<1> HIDE DEF n, list
<1>8. /\ Reports!LatestOvertime(s) # None <=> list # <<>>
      /\ \A i \in 1 .. n : list[i] = "pending" => i = n /\ Reports!LatestOvertime(s) = "pending"
      /\ Reports!LatestOvertime(s) = "pending" => \E i \in 1 .. n : list[i] = "pending"
  BY <1>2, <1>4, <1>5, <1>6, <1>7
<1> QED BY <1>2, <1>3, <1>8 DEF n, list

\* A filter of the list decides by other queries than those that show the numbers.
LEMMA FilterIsShown ==
    ASSUME DatabaseInv, NEW s \in ShiftIds
    PROVE  /\ \A f \in Reports!ChecklistFilters : Reports!ChecklistsMatch(s, f) <=> Reports!Agrees(s, f)
           /\ \A f \in {"any", "pending"} : Reports!HasOvertime(s, f) <=> Reports!Agrees(s, f)
<1> DEFINE n == Len(instances[s])
           done == Reports!Cardinality(Reports!Completed(s))
           open == Reports!Required(s) \ Reports!Completed(s)
           left == Reports!Cardinality(open)
<1>1. /\ n \in Nat /\ DOMAIN instances[s] = 1 .. n /\ (instances[s] = <<>> <=> n = 0)
      /\ done \in 0 .. n /\ (left > 0 <=> open # {})
  BY ChecklistCounts
<1>2. open # {} => n # 0
  BY <1>1 DEF Reports!Required
<1>3. /\ Reports!ChecklistsMatch(s, "none") <=> instances[s] = <<>>
      /\ Reports!ChecklistsMatch(s, "all_completed") <=> instances[s] # <<>> /\ done = n
      /\ Reports!ChecklistsMatch(s, "has_incomplete") <=> instances[s] # <<>> /\ done < n
      /\ Reports!ChecklistsMatch(s, "required_incomplete") <=> instances[s] # <<>> /\ open # {}
  BY DEF Reports!ChecklistsMatch
<1>4. /\ Reports!Agrees(s, "none") <=> n = 0
      /\ Reports!Agrees(s, "all_completed") <=> n > 0 /\ done = n
      /\ Reports!Agrees(s, "has_incomplete") <=> done # n
      /\ Reports!Agrees(s, "required_incomplete") <=> left > 0
      /\ Reports!Agrees(s, "any") <=> Reports!LatestOvertime(s) # None
      /\ Reports!Agrees(s, "pending") <=> Reports!LatestOvertime(s) = "pending"
  BY DEF Reports!Agrees, Reports!ChecklistsSummary
<1>5. /\ Reports!HasOvertime(s, "any") <=> claims[s] # <<>>
      /\ Reports!HasOvertime(s, "pending") <=> \E i \in DOMAIN claims[s] : claims[s][i] = "pending"
  BY DEF Reports!HasOvertime
<1>6. /\ Reports!HasOvertime(s, "any") <=> Reports!Agrees(s, "any")
      /\ Reports!HasOvertime(s, "pending") <=> Reports!Agrees(s, "pending")
  BY <1>4, <1>5, LatestRequest
<1> HIDE DEF n, done, open, left
<1>7. \A f \in Reports!ChecklistFilters : Reports!ChecklistsMatch(s, f) <=> Reports!Agrees(s, f)
  BY <1>1, <1>2, <1>3, <1>4 DEF Reports!ChecklistFilters
<1> QED BY <1>6, <1>7

\* The rows of the list with any filter are rows of the whole list.
LEMMA Filtered ==
    ASSUME NEW w, NEW d, NEW f
    PROVE  LET all == Reports!GetOrgShifts(w, d, "everything") IN
           /\ \A s \in all : s \in ShiftIds /\ shiftRows[s] # None /\ Reports!GetOrgShiftDetail(s, d)
           /\ Reports!GetOrgShifts(w, d, f) \subseteq all
           /\ f \in Reports!ChecklistFilters =>
                \A s \in all : s \in Reports!GetOrgShifts(w, d, f) <=> Reports!ChecklistsMatch(s, f)
           /\ f \in Reports!OvertimeFilters =>
                \A s \in all : s \in Reports!GetOrgShifts(w, d, f) <=> Reports!HasOvertime(s, f)
           /\ f = "only_late" =>
                \A s \in all : s \in Reports!GetOrgShifts(w, d, f) <=> Reports!IsLate(shiftRows[s])
<1>1. Reports!GetOrgShifts(w, d, "everything") =
        {s \in ShiftIds : /\ shiftRows[s] # None /\ shiftRows[s].org /\ (shiftRows[s].deleted => d)
                          /\ Reports!Within(shiftRows[s], w)}
  BY DEF Reports!GetOrgShifts, Reports!ChecklistFilters, Reports!OvertimeFilters
<1>2. Reports!GetOrgShifts(w, d, f) =
        {s \in Reports!GetOrgShifts(w, d, "everything") :
            /\ f = "only_late" => Reports!IsLate(shiftRows[s])
            /\ f \in Reports!ChecklistFilters => Reports!ChecklistsMatch(s, f)
            /\ f \in Reports!OvertimeFilters => Reports!HasOvertime(s, f)}
  BY <1>1, Zenon DEF Reports!GetOrgShifts
<1>3. /\ "only_late" \notin Reports!ChecklistFilters \cup Reports!OvertimeFilters
      /\ \A g \in Reports!ChecklistFilters : g \notin Reports!OvertimeFilters /\ g # "only_late"
      /\ \A g \in Reports!OvertimeFilters : g # "only_late"
  BY DEF Reports!ChecklistFilters, Reports!OvertimeFilters
<1>4. \A s \in Reports!GetOrgShifts(w, d, "everything") :
         s \in ShiftIds /\ shiftRows[s] # None /\ Reports!GetOrgShiftDetail(s, d)
  BY <1>1 DEF Reports!GetOrgShiftDetail, Reports!OfOrganization
<1> DEFINE all == Reports!GetOrgShifts(w, d, "everything")
           some == Reports!GetOrgShifts(w, d, f)
<1> HIDE DEF all, some
<1>5. some = {s \in all : /\ f = "only_late" => Reports!IsLate(shiftRows[s])
                          /\ f \in Reports!ChecklistFilters => Reports!ChecklistsMatch(s, f)
                          /\ f \in Reports!OvertimeFilters => Reports!HasOvertime(s, f)}
  BY <1>2 DEF all, some
<1>6. /\ some \subseteq all
      /\ f \in Reports!ChecklistFilters => \A s \in all : s \in some <=> Reports!ChecklistsMatch(s, f)
      /\ f \in Reports!OvertimeFilters => \A s \in all : s \in some <=> Reports!HasOvertime(s, f)
      /\ f = "only_late" => \A s \in all : s \in some <=> Reports!IsLate(shiftRows[s])
  BY <1>3, <1>5
<1> QED BY <1>4, <1>6 DEF all, some

(***************************************************************************)
(* Lateness                                                                *)
(***************************************************************************)

LEMMA NeverNegative ==
    ASSUME NEW n \in Int
    PROVE  Reports!Max({0, n}) = IF n > 0 THEN n ELSE 0
<1>1. Reports!Max({0, n}) = CHOOSE x \in {0, n} : \A y \in {0, n} : x >= y
  BY Zenon DEF Reports!Max
<1> QED BY <1>1

LEMMA TimesPart ==
    ASSUME NEW a \in Int, NEW b \in Int, NEW c \in Nat, a <= b
    PROVE  a * c <= b * c
OBVIOUS

\* Whole seconds are rounded down.
LEMMA WholeSeconds ==
    ASSUME NEW n \in Int
    PROVE  LET q == n \div Part IN
           q \in Int /\ Part \in Nat /\ q * Part <= n /\ n < (q + 1) * Part
<1>1. Part \in Nat /\ Part > 0
  BY AccountsAssumption DEF Reports!ReportsAssumption
<1> QED BY <1>1

\* To be late takes more than the tolerance; to be shown as late, a second more.
LEMMA LateIsShown ==
    ASSUME NEW v \in Versions
    PROVE  LET late == Reports!ComputeLateSeconds(v) IN
           /\ late # None /\ late > 0 => Reports!IsLate(v)
           /\ Reports!IsLate(v) /\ late = 0 => v.start - v.plan < (Tolerance + 1) * Part
<1>1. v \in Reports!ShiftVersion /\ Tolerance \in Nat /\ Part \in Nat
  BY AccountsAssumption DEF Reports!ReportsAssumption
<1>2. v.start \in Nat /\ (v.plan # None => v.plan \in Nat)
  BY <1>1 DEF Reports!ShiftVersion, Reports!Ticks
<1>3. CASE v.plan = None
  BY <1>3 DEF Reports!ComputeLateSeconds, Reports!IsLate
<1>4. CASE v.plan # None
  <2> DEFINE n == v.start - v.plan
             q == n \div Part
             late == Reports!ComputeLateSeconds(v)
  <2>1. n \in Int
    BY <1>2, <1>4
  <2>2. late = Reports!Max({0, q - Tolerance})
    BY <1>4 DEF Reports!ComputeLateSeconds
  <2>3. Reports!IsLate(v) <=> n - Tolerance * Part > 0
    BY <1>4 DEF Reports!IsLate
  <2> HIDE DEF n, late
  <2>4. q \in Int /\ q * Part <= n /\ n < (q + 1) * Part
    BY <2>1, WholeSeconds
  <2> HIDE DEF q
  <2>5. late = IF q - Tolerance > 0 THEN q - Tolerance ELSE 0
    BY <1>1, <2>2, <2>4, NeverNegative
  <2>6. ASSUME late > 0 PROVE n > Tolerance * Part
    <3>1. Tolerance + 1 <= q
      BY <1>1, <2>4, <2>5, <2>6
    <3>2. (Tolerance + 1) * Part <= q * Part
      BY <1>1, <2>4, <3>1, TimesPart
    <3>3. (Tolerance + 1) * Part = Tolerance * Part + Part /\ Part > 0 /\ Tolerance * Part \in Nat
      BY <1>1, AccountsAssumption DEF Reports!ReportsAssumption
    <3>4. q * Part \in Int
      BY <1>1, <2>4
    <3> QED BY <1>1, <2>1, <2>4, <3>2, <3>3, <3>4
  <2>7. ASSUME late = 0 PROVE n < (Tolerance + 1) * Part
    <3>1. q + 1 <= Tolerance + 1
      BY <1>1, <2>4, <2>5, <2>7
    <3>2. (q + 1) * Part <= (Tolerance + 1) * Part
      BY <1>1, <2>4, <3>1, TimesPart
    <3>3. (q + 1) * Part \in Int /\ (Tolerance + 1) * Part \in Int
      BY <1>1, <2>4
    <3> QED BY <2>1, <2>4, <3>2, <3>3
  <2>8. Tolerance * Part \in Int
    BY <1>1
  <2> QED BY <2>1, <2>3, <2>6, <2>7, <2>8 DEF n, late
<1> QED BY <1>3, <1>4

LEMMA ListsAreShown == ReportsInv => Reports!ListedAsShown
<1> SUFFICES ASSUME ReportsInv, Reports!Answered, report.kind = "organization"
             PROVE  LET all == Reports!GetOrgShifts(report.window, report.deleted, "everything")
                        late(s) == Reports!ComputeLateSeconds(shiftRows[s])
                    IN
                    /\ report.total = Reports!Cardinality(report.page) /\ report.page \subseteq all
                    /\ \A s \in report.page : Reports!GetOrgShiftDetail(s, report.deleted)
                    /\ report.filter \in Reports!ChecklistFilters \cup {"any", "pending"} =>
                        \A s \in all : s \in report.page <=> Reports!Agrees(s, report.filter)
                    /\ report.filter = "only_late" =>
                        \A s \in all :
                            /\ late(s) # None /\ late(s) > 0 => s \in report.page
                            /\ s \in report.page /\ late(s) = 0 =>
                                shiftRows[s].start - shiftRows[s].plan < (Tolerance + 1) * Part
  BY Zenon DEF Reports!ListedAsShown
<1> DEFINE w == report.window
           d == report.deleted
           f == report.filter
           all == Reports!GetOrgShifts(w, d, "everything")
           page == Reports!GetOrgShifts(w, d, f)
<1>1. report.page = page /\ report.total = Reports!Cardinality(page)
  <2>1. Reports!Found = page
    BY DEF Reports!Found
  <2>2. report.at = "answered" /\ report.quiet /\ report.kind \in Lists
    BY DEF Reports!Answered, Lists
  <2> QED BY <2>1, <2>2 DEF ReportsInv, ReportInv, FoundInv
<1>2. /\ \A s \in all : s \in ShiftIds /\ shiftRows[s] # None /\ Reports!GetOrgShiftDetail(s, d)
      /\ page \subseteq all
      /\ f \in Reports!ChecklistFilters => \A s \in all : s \in page <=> Reports!ChecklistsMatch(s, f)
      /\ f \in Reports!OvertimeFilters => \A s \in all : s \in page <=> Reports!HasOvertime(s, f)
      /\ f = "only_late" => \A s \in all : s \in page <=> Reports!IsLate(shiftRows[s])
  BY Filtered
<1>3. "any" \in Reports!OvertimeFilters /\ "pending" \in Reports!OvertimeFilters
  BY DEF Reports!OvertimeFilters
<1>4. \A s \in all : shiftRows[s] \in Versions
  BY <1>2 DEF ReportsInv, DatabaseInv
<1> HIDE DEF w, d, f, all, page
<1>5. f \in Reports!ChecklistFilters \cup {"any", "pending"} =>
        \A s \in all : s \in page <=> Reports!Agrees(s, f)
  <2>1. \A s \in all : /\ \A g \in Reports!ChecklistFilters : Reports!ChecklistsMatch(s, g) <=> Reports!Agrees(s, g)
                       /\ \A g \in {"any", "pending"} : Reports!HasOvertime(s, g) <=> Reports!Agrees(s, g)
    BY <1>2, FilterIsShown DEF ReportsInv
  <2> QED BY <1>2, <1>3, <2>1
<1>6. f = "only_late" =>
        \A s \in all :
            LET late == Reports!ComputeLateSeconds(shiftRows[s]) IN
            /\ late # None /\ late > 0 => s \in page
            /\ s \in page /\ late = 0 => shiftRows[s].start - shiftRows[s].plan < (Tolerance + 1) * Part
  BY <1>2, <1>4, LateIsShown
<1> QED BY <1>1, <1>2, <1>5, <1>6 DEF w, d, f, all

\* The rows of a register are numbered within the shift.
LEMMA RegistersAgree == ReportsInv => Reports!RegistersMatchList
<1> SUFFICES ASSUME ReportsInv, Reports!Answered
             PROVE  LET shiftsOf == {p[1] : p \in report.page} IN
                    /\ report.kind = "checklists" /\ report.filter = "not_completed" =>
                        shiftsOf = Reports!GetOrgShifts(report.window, FALSE, "has_incomplete")
                    /\ report.kind = "overtime" /\ report.filter = "pending" =>
                        /\ shiftsOf = Reports!GetOrgShifts(report.window, FALSE, "pending")
                        /\ report.total = Reports!Cardinality(shiftsOf)
  BY Zenon DEF Reports!RegistersMatchList
<1> DEFINE w == report.window
           indices == 1 .. MaxCommits
           all == Reports!GetOrgShifts(w, FALSE, "everything")
<1>0. report.at = "answered" /\ report.quiet /\ DatabaseInv
  BY DEF Reports!Answered, ReportsInv
<1>1. all = {s \in ShiftIds : /\ Reports!OfOrganization(s) /\ ~shiftRows[s].deleted
                              /\ Reports!Within(shiftRows[s], w)}
  BY DEF Reports!GetOrgShifts, Reports!ChecklistFilters, Reports!OvertimeFilters, Reports!OfOrganization
<1>2. ASSUME report.kind = "checklists", report.filter = "not_completed"
      PROVE  {p[1] : p \in report.page} = Reports!GetOrgShifts(w, FALSE, "has_incomplete")
  <2> DEFINE listed == Reports!GetOrgShifts(w, FALSE, "has_incomplete")
  <2>1. report.page = Reports!ListOrgChecklistInstances(w, "not_completed")
    BY <1>0, <1>2 DEF ReportsInv, ReportInv, FoundInv, Lists, Reports!Found
  <2>2. report.page = {p \in ShiftIds \X indices :
                          /\ p[2] \in DOMAIN instances[p[1]] /\ p[1] \in all
                          /\ ~instances[p[1]][p[2]].completed}
    BY <1>1, <2>1, Zenon DEF Reports!ListOrgChecklistInstances
  <2>3. listed \subseteq all
        /\ \A s \in all : s \in listed <=> Reports!ChecklistsMatch(s, "has_incomplete")
    BY Filtered DEF Reports!ChecklistFilters
  <2>4. all \subseteq ShiftIds
    BY <1>1
  <2> HIDE DEF all, listed
  <2>5. ASSUME NEW s \in all
        PROVE  s \in listed <=> \E i \in indices : i \in DOMAIN instances[s] /\ ~instances[s][i].completed
    <3> DEFINE n == Len(instances[s])
               done == Reports!Cardinality(Reports!Completed(s))
    <3>1. /\ n \in 0 .. MaxCommits /\ DOMAIN instances[s] = 1 .. n /\ (instances[s] = <<>> <=> n = 0)
          /\ done \in 0 .. n /\ (done = n <=> Reports!Completed(s) = 1 .. n)
      BY <1>0, <2>4, <2>5, ChecklistCounts
    <3>2. Reports!ChecklistsMatch(s, "has_incomplete") <=> instances[s] # <<>> /\ done < n
      BY DEF Reports!ChecklistsMatch
    <3>3. MaxCommits \in Nat
      BY AccountsAssumption DEF Reports!ReportsAssumption
    <3>4. Reports!Completed(s) # 1 .. n <=> \E i \in 1 .. n : ~instances[s][i].completed
      BY <3>1 DEF Reports!Completed
    <3> HIDE DEF n, done
    <3>5. instances[s] # <<>> /\ done < n <=> Reports!Completed(s) # 1 .. n
      <4>1. n = 0 => done = n
        BY <3>1
      <4>2. done < n <=> done # n
        BY <3>1, <3>3
      <4> QED BY <3>1, <4>1, <4>2
    <3>6. 1 .. n \subseteq indices
      BY <3>1, <3>3
    <3> QED BY <2>3, <2>5, <3>1, <3>2, <3>4, <3>5, <3>6
  <2>6. {p[1] : p \in report.page} = listed
    <3>1. ASSUME NEW p \in report.page PROVE p[1] \in listed
      BY <2>2, <2>5, <3>1
    <3>2. ASSUME NEW s \in listed PROVE \E p \in report.page : p[1] = s
      <4>1. PICK i \in indices : i \in DOMAIN instances[s] /\ ~instances[s][i].completed
        BY <2>3, <2>5, <3>2
      <4>2. <<s, i>> \in report.page /\ <<s, i>>[1] = s
        BY <2>2, <2>3, <2>4, <3>2, <4>1
      <4> QED BY <4>2
    <3> QED BY <3>1, <3>2
  <2> QED BY <2>6 DEF listed
<1>3. ASSUME report.kind = "overtime", report.filter = "pending"
      PROVE  /\ {p[1] : p \in report.page} = Reports!GetOrgShifts(w, FALSE, "pending")
             /\ report.total = Reports!Cardinality({p[1] : p \in report.page})
  <2> DEFINE listed == Reports!GetOrgShifts(w, FALSE, "pending")
             page == report.page
  <2>1. page = Reports!ListOrgOvertimeRequests(w, "pending") /\ report.total = Reports!Cardinality(page)
    BY <1>0, <1>3 DEF ReportsInv, ReportInv, FoundInv, Lists, Reports!Found
  <2>2. page = {p \in ShiftIds \X indices :
                   /\ p[2] \in DOMAIN claims[p[1]] /\ p[1] \in all /\ claims[p[1]][p[2]] = "pending"}
    BY <1>1, <2>1, Zenon DEF Reports!ListOrgOvertimeRequests
  <2>3. listed \subseteq all
        /\ \A s \in all : s \in listed <=> \E i \in DOMAIN claims[s] : claims[s][i] = "pending"
    <3>1. \A s : Reports!HasOvertime(s, "pending") <=> \E i \in DOMAIN claims[s] : claims[s][i] = "pending"
      BY DEF Reports!HasOvertime
    <3>2. listed \subseteq all /\ \A s \in all : s \in listed <=> Reports!HasOvertime(s, "pending")
      BY Filtered DEF Reports!OvertimeFilters
    <3> QED BY <3>1, <3>2
  <2>4. all \subseteq ShiftIds
    BY <1>1
  <2> HIDE DEF all, listed, page
  <2>5. ASSUME NEW s \in all
        PROVE  /\ DOMAIN claims[s] \subseteq indices
               /\ \A i \in DOMAIN claims[s] : claims[s][i] = "pending" => i = Len(claims[s])
    <3>1. Len(claims[s]) \in 0 .. MaxCommits /\ DOMAIN claims[s] = 1 .. Len(claims[s])
          /\ \A i \in DOMAIN claims[s] : claims[s][i] = "pending" => i = Len(claims[s])
      BY <1>0, <2>4, <2>5, LatestRequest
    <3>2. MaxCommits \in Nat
      BY AccountsAssumption DEF Reports!ReportsAssumption
    <3> QED BY <3>1, <3>2
  <2>6. {p[1] : p \in page} = listed
    <3>1. ASSUME NEW p \in page PROVE p[1] \in listed
      BY <2>2, <2>3, <3>1
    <3>2. ASSUME NEW s \in listed PROVE \E p \in page : p[1] = s
      <4>1. PICK i \in DOMAIN claims[s] : claims[s][i] = "pending"
        BY <2>3, <3>2
      <4>2. s \in all /\ s \in ShiftIds /\ i \in indices
        BY <2>3, <2>4, <2>5, <3>2, <4>1
      <4>3. <<s, i>> \in page /\ <<s, i>>[1] = s
        BY <2>2, <4>1, <4>2
      <4> QED BY <4>3
    <3> QED BY <3>1, <3>2
  <2>7. Cardinality(page) = Cardinality(listed)
    <3> DEFINE first == [p \in page |-> p[1]]
    <3>1. \A p, q \in page : p[1] = q[1] => p = q
      <4> SUFFICES ASSUME NEW p \in page, NEW q \in page, p[1] = q[1] PROVE p = q
        OBVIOUS
      <4>1. /\ p \in ShiftIds \X indices /\ p[1] \in all /\ p[2] \in DOMAIN claims[p[1]]
            /\ claims[p[1]][p[2]] = "pending"
            /\ q \in ShiftIds \X indices /\ q[2] \in DOMAIN claims[q[1]]
            /\ claims[q[1]][q[2]] = "pending"
        BY <2>2
      <4>2. p[2] = Len(claims[p[1]]) /\ q[2] = Len(claims[p[1]])
        BY <2>5, <4>1
      <4> QED BY <4>1, <4>2
    <3>2. first \in Bijection(page, listed)
      BY <2>6, <3>1 DEF Bijection, Injection, Surjection, IsInjective
    <3>3. IsFiniteSet(page)
      <4>1. IsFiniteSet(ShiftIds) /\ IsFiniteSet(indices)
        <5>1. IsFiniteSet(ShiftIds)
          BY AccountsAssumption, Zenon DEF Reports!ReportsAssumption, Reports!IsFiniteSet, IsFiniteSet
        <5>2. MaxCommits \in Int
          BY AccountsAssumption DEF Reports!ReportsAssumption
        <5> QED BY <5>1, <5>2, FS_Interval
      <4> HIDE DEF indices
      <4>2. IsFiniteSet(ShiftIds \X indices)
        BY <4>1, FS_Product
      <4>3. page \subseteq ShiftIds \X indices
        BY <2>2
      <4> QED BY <4>2, <4>3, FS_Subset
    <3> HIDE DEF first
    <3> QED BY <3>2, <3>3, FS_Bijection DEF ExistsBijection
  <2>8. report.total = Reports!Cardinality(listed)
    BY <2>1, <2>7, CountsAreCardinalities
  <2> QED BY <2>6, <2>8 DEF listed, page
<1> QED BY <1>2, <1>3 DEF w

(***************************************************************************)
(* The statistics                                                          *)
(***************************************************************************)

LEMMA ReportSums == \A f : Reports!SumFunction(f) = SumFunctionOnSet(f, DOMAIN f)
BY Zenon DEF Reports!SumFunction, Reports!SumFunctionOnSet, Reports!FoldFunctionOnSet,
   Reports!MapThenFoldSet, SumFunctionOnSet, FoldFunctionOnSet, MapThenFoldSet

\* What a finished shift is kept with: its pauses are closed.
PausesClosed == \A v \in Versions : v.end # None => v.pause = None

LEMMA DividesUp ==
    ASSUME NEW a \in Int, NEW b \in Int, a <= b
    PROVE  a \div Part <= b \div Part
<1> DEFINE p == a \div Part
           q == b \div Part
<1>1. /\ p \in Int /\ q \in Int /\ Part \in Nat /\ Part > 0
      /\ p * Part <= a /\ b < (q + 1) * Part
  BY WholeSeconds, AccountsAssumption DEF Reports!ReportsAssumption
<1> HIDE DEF p, q
<1>2. SUFFICES ASSUME q + 1 <= p PROVE FALSE
  BY <1>1 DEF p, q
<1>3. (q + 1) * Part <= p * Part
  BY <1>1, <1>2, TimesPart
<1>4. (q + 1) * Part \in Int /\ p * Part \in Int
  BY <1>1
<1> QED BY <1>1, <1>3, <1>4

\* Only a shift that goes on and is not paused is longer when it is measured later.
LEMMA WorkedLater ==
    ASSUME PausesClosed, NEW v \in Versions, NEW t \in Reports!Ticks, NEW u \in Reports!Ticks, t <= u
    PROVE  LET W(moment) == Reports!CalculateWorkedSeconds(v, moment) IN
           /\ W(t) \in Int /\ W(u) \in Int /\ W(t) <= W(u)
           /\ W(t) # W(u) => v.end = None /\ v.pause = None
<1> DEFINE Length(moment) == (IF v.end = None THEN moment ELSE v.end) - v.start - Reports!Pauses(v, moment)
           W(moment) == Reports!CalculateWorkedSeconds(v, moment)
<1>1. \A moment : W(moment) = Reports!Max({0, Length(moment) \div Part})
  BY Zenon DEF Reports!CalculateWorkedSeconds
<1>2. /\ v.start \in Nat /\ v.rest \in Nat /\ t \in Nat /\ u \in Nat
      /\ v.end # None => v.end \in Nat
      /\ v.pause # None => v.pause \in Nat
  BY AccountsAssumption DEF Reports!ReportsAssumption, Reports!ShiftVersion, Reports!Ticks
<1>3. v.end # None => v.pause = None
  BY DEF PausesClosed
<1>4. /\ Length(t) \in Int /\ Length(u) \in Int /\ Length(t) <= Length(u)
      /\ Length(t) # Length(u) => v.end = None /\ v.pause = None
  BY <1>2, <1>3 DEF Reports!Pauses
<1> DEFINE a == Length(t)
           b == Length(u)
           p == a \div Part
           q == b \div Part
<1>5. W(t) = Reports!Max({0, p}) /\ W(u) = Reports!Max({0, q})
  BY <1>1
<1> HIDE DEF Length, W
<1>6. a \in Int /\ b \in Int /\ a <= b
  BY <1>4
<1> HIDE DEF a, b
<1>7. p \in Int /\ q \in Int /\ p <= q
  BY <1>6, WholeSeconds, DividesUp
<1>8. p # q => a # b
  OBVIOUS
<1> HIDE DEF p, q
<1>9. W(t) = (IF p > 0 THEN p ELSE 0) /\ W(u) = (IF q > 0 THEN q ELSE 0)
  BY <1>5, <1>7, NeverNegative
<1>10. /\ W(t) \in Int /\ W(u) \in Int /\ W(t) <= W(u)
       /\ W(t) # W(u) => p # q
  BY <1>7, <1>9
<1> QED BY <1>4, <1>8, <1>10 DEF W, a, b

\* The rows of the employees are a partition of the shifts, measured a little later.
LEMMA EmployeesAddUp ==
    ASSUME PausesClosed, NEW rows, DOMAIN rows \subseteq ShiftIds,
           \A s \in DOMAIN rows : rows[s] \in Versions,
           NEW t \in Reports!Ticks, NEW u \in Reports!Ticks, t <= u
    PROVE  LET total == Reports!SumFunction(WorkedAt(rows, DOMAIN rows, t))
               sum == Reports!SumFunction(EmployeesAt(rows, u))
           IN
           /\ sum >= total
           /\ sum > total => \E s \in DOMAIN rows : rows[s].end = None /\ rows[s].pause = None
<1> DEFINE S == DOMAIN rows
           F == WorkedAt(rows, S, t)
           H == WorkedAt(rows, S, u)
           D == {e \in Staff : Of(rows, e) # {}}
           K == EmployeesAt(rows, u)
           class == [s \in S |-> rows[s].user]
           C == [e \in D |-> Of(rows, e)]
<1>1. IsFiniteSet(S)
  <2>1. IsFiniteSet(ShiftIds)
    BY AccountsAssumption, Zenon DEF Reports!ReportsAssumption, Reports!IsFiniteSet, IsFiniteSet
  <2> QED BY <2>1, FS_Subset
<1>2. \A s \in S : F[s] = Reports!CalculateWorkedSeconds(rows[s], t)
                   /\ H[s] = Reports!CalculateWorkedSeconds(rows[s], u)
  BY DEF WorkedAt
<1>3. DOMAIN F = S /\ DOMAIN H = S /\ DOMAIN K = D
  BY DEF WorkedAt, EmployeesAt
<1>4. \A s \in S : /\ F[s] \in Int /\ H[s] \in Int /\ F[s] <= H[s]
                   /\ F[s] # H[s] => rows[s].end = None /\ rows[s].pause = None
  BY <1>2, WorkedLater
<1>5. \A s \in S : rows[s].user \in Staff
  BY AccountsAssumption DEF Reports!ReportsAssumption, Reports!ShiftVersion
<1>6. Classes(S, class, D, C) /\ \A e \in D : C[e] # {}
  <2>1. \A e \in D : C[e] = {s \in S : rows[s].user = e} /\ C[e] # {}
    BY DEF Of
  <2>2. \A s \in S : class[s] = rows[s].user /\ class[s] \in D
    BY <1>5 DEF Of
  <2> HIDE DEF C, class, D, S
  <2> QED BY <2>1, <2>2 DEF Classes
<1>7. \A e \in D : K[e] = SumFunctionOnSet(H, C[e])
  <2> SUFFICES ASSUME NEW e \in D PROVE K[e] = SumFunctionOnSet(H, C[e])
    OBVIOUS
  <2> DEFINE f == WorkedAt(rows, Of(rows, e), u)
  <2>1. K[e] = Reports!SumFunction(f)
    BY DEF EmployeesAt
  <2>2. DOMAIN f = Of(rows, e) /\ C[e] = Of(rows, e) /\ Of(rows, e) \subseteq S
    BY DEF WorkedAt, Of
  <2>3. \A s \in Of(rows, e) : f[s] = H[s]
    BY <2>2 DEF WorkedAt
  <2>4. IsFiniteSet(Of(rows, e)) /\ Ints(H, Of(rows, e))
    BY <1>1, <1>4, <2>2, FS_Subset DEF Ints
  <2> HIDE DEF f, K, H, S, C, D
  <2>5. SumFunctionOnSet(f, Of(rows, e)) = SumFunctionOnSet(H, Of(rows, e))
    BY <2>3, <2>4, SumOfSame
  <2> QED BY <2>1, <2>2, <2>5, ReportSums
<1> HIDE DEF S, F, H, D, K, class, C
<1>8. Ints(F, S) /\ Ints(H, S)
  BY <1>4 DEF Ints
<1>9. SumFunctionOnSet(K, D) = SumFunctionOnSet(H, S)
  BY <1>1, <1>6, <1>7, <1>8, ClassesAddUp
<1>10. SumFunctionOnSet(F, S) <= SumFunctionOnSet(H, S)
  BY <1>1, <1>4, <1>8, SumOfLess
<1>11. (\A s \in S : H[s] = F[s]) => SumFunctionOnSet(H, S) = SumFunctionOnSet(F, S)
  BY <1>1, <1>8, SumOfSame
<1>12. SumFunctionOnSet(F, S) \in Int /\ SumFunctionOnSet(H, S) \in Int
  BY <1>1, <1>8, SumIsInt
<1>13. Reports!SumFunction(F) = SumFunctionOnSet(F, S) /\ Reports!SumFunction(K) = SumFunctionOnSet(H, S)
  BY <1>3, <1>9, ReportSums
<1>14. /\ Reports!SumFunction(K) >= Reports!SumFunction(F)
       /\ Reports!SumFunction(K) > Reports!SumFunction(F) =>
            \E s \in S : rows[s].end = None /\ rows[s].pause = None
  <2>1. SumFunctionOnSet(H, S) > SumFunctionOnSet(F, S) => \E s \in S : H[s] # F[s]
    BY <1>11, <1>12
  <2> QED BY <1>4, <1>10, <1>12, <1>13, <2>1
<1> QED BY <1>14 DEF S, F, K

\* The shifts that are measured are those that the list has.
LEMMA ChosenIsListed ==
    ASSUME ReportsInv, Reports!Answered
    PROVE  /\ report.kind = "orgStats" =>
                DOMAIN report.rows = Reports!GetOrgShifts(report.window, FALSE, "everything")
           /\ report.kind = "ownStats" =>
                /\ DOMAIN report.rows = Reports!GetShifts(report.user, report.filter, report.window)
                /\ \A s \in DOMAIN report.rows : Reports!GetOwnShiftDetail(report.user, s)
<1>1. report.kind \in Statistics => DOMAIN report.rows = Chosen
  BY DEF Reports!Answered, ReportsInv, ReportInv, LoadedInv
<1>2. \A w : Reports!OrgStatsShifts(w) = Reports!GetOrgShifts(w, FALSE, "everything")
  BY DEF Reports!OrgStatsShifts, Reports!GetOrgShifts, Reports!OfOrganization,
     Reports!ChecklistFilters, Reports!OvertimeFilters
<1>3. \A e, f, w : Reports!OwnStatsShifts(e, f, w) = Reports!GetShifts(e, f, w)
  BY Zenon DEF Reports!OwnStatsShifts, Reports!GetShifts
<1>4. \A e, f, w : \A s \in Reports!OwnStatsShifts(e, f, w) : Reports!GetOwnShiftDetail(e, s)
  BY DEF Reports!OwnStatsShifts, Reports!GetOwnShiftDetail
<1> QED BY <1>1, <1>2, <1>3, <1>4 DEF Statistics, Chosen

LEMMA StatisticsAgree == PausesClosed /\ ReportsInv => Reports!StatsDescribeTheList
<1> SUFFICES ASSUME PausesClosed, ReportsInv PROVE Reports!StatsDescribeTheList
  OBVIOUS
<1>1. ASSUME report.at = "answered", report.kind = "orgStats"
      PROVE  LET sum == Reports!SumFunction(report.employees) IN
             /\ sum >= report.total
             /\ sum > report.total => \E s \in DOMAIN report.rows :
                                        report.rows[s].end = None /\ report.rows[s].pause = None
  <2>1. DOMAIN report.rows \subseteq ShiftIds /\ \A s \in DOMAIN report.rows : report.rows[s] \in Versions
    BY <1>1 DEF ReportsInv, ReportInv, LoadedInv, Statistics
  <2>2. PICK t \in Reports!Ticks, u \in Reports!Ticks :
          /\ t <= u
          /\ report.total = Reports!SumFunction(WorkedAt(report.rows, DOMAIN report.rows, t))
          /\ report.employees = EmployeesAt(report.rows, u)
    BY <1>1, Zenon DEF ReportsInv, ReportInv, MeasuredInv
  <2> QED BY <2>1, <2>2, EmployeesAddUp
<1> QED BY <1>1, ChosenIsListed, Zenon DEF Reports!StatsDescribeTheList

(***************************************************************************)
(* What is told about shifts agrees                                        *)
(***************************************************************************)

\* A list holds exactly the shifts whose checklists, overtime and lateness, as other
\* queries compute them, bear its filter out, and the registers hold exactly what makes
\* a shift listed, whatever the versions of a shift (get_org_shifts,
\* get_checklists_summary_for_shifts, get_latest_overtime_for_shifts,
\* list_org_checklist_instances, list_org_overtime_requests).
THEOREM ListsAgree ==
    Spec => [](Reports!ListedAsShown /\ Reports!RegistersMatchList)
<1>1. ReportsInv => Reports!ListedAsShown /\ Reports!RegistersMatchList
  BY ListsAreShown, RegistersAgree
<1> QED BY <1>1, ReportsInvariant, PTL

\* Where a finished shift has no open pause, the statistics agree with the list too: the
\* employees' seconds add up to the total, or to more by what goes on (get_org_stats).
THEOREM AllReportsAgree ==
    ASSUME PausesClosed
    PROVE  Spec => []ReportsAgree
<1>1. ReportsInv => ReportsAgree
  BY ListsAreShown, RegistersAgree, StatisticsAgree DEF ReportsAgree, Reports!ReportsAgree
<1> QED BY <1>1, ReportsInvariant, PTL

=============================================================================
