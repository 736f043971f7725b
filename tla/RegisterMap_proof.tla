------------------------- MODULE RegisterMap_proof ------------------------
(***************************************************************************)
(* Proofs about the read plan, for every layout: coalesce by induction     *)
(* over the signals that it has placed, then RegisterMap; and about the    *)
(* codec, for every width: what is written is what is read.                *)
(***************************************************************************)
EXTENDS RegisterMap, Induction

\* What coalesce works on: signals of which one that a request cannot carry
\* may be one.
Configured(sigs) ==
    /\ sigs \in Seq(Range(sigs))
    /\ \A s \in Range(sigs) :
          s.table \in Tables /\ s.address \in Nat /\ s.length \in Nat \ {0}

LEMMA ConfiguredSignals ==
    ASSUME NEW sigs, Configured(sigs)
    PROVE  /\ Len(sigs) \in Nat /\ DOMAIN sigs = 1..Len(sigs)
           /\ \A i \in DOMAIN sigs :
                 /\ sigs[i] \in Range(sigs) /\ sigs[i].table \in Tables
                 /\ sigs[i].address \in Nat /\ sigs[i].length \in Nat \ {0}
                 /\ EndOf(sigs[i]) \in Nat
<1>1. Len(sigs) \in Nat /\ DOMAIN sigs = 1..Len(sigs)
  BY LenProperties DEF Configured
<1>2. \A i \in DOMAIN sigs : sigs[i] \in Range(sigs)
  BY DEF Range
<1> QED
  BY <1>1, <1>2 DEF Configured, EndOf

-----------------------------------------------------------------------------
(* Sorting: the signals of a table by their rank.                          *)

LEMMA BeforeIsTotal ==
    ASSUME NEW sigs, Configured(sigs), NEW i \in DOMAIN sigs, NEW j \in DOMAIN sigs
    PROVE  /\ ~Before(sigs, i, i)
           /\ i # j => Before(sigs, i, j) \/ Before(sigs, j, i)
           /\ ~(Before(sigs, i, j) /\ Before(sigs, j, i))
           /\ \A k \in DOMAIN sigs :
                 Before(sigs, i, j) /\ Before(sigs, j, k) => Before(sigs, i, k)
BY ConfiguredSignals DEF Before

LEMMA TableIsFinite ==
    ASSUME NEW sigs, Configured(sigs), NEW table
    PROVE  /\ InTable(sigs, table) \subseteq DOMAIN sigs
           /\ IsFiniteSet(InTable(sigs, table))
           /\ Cardinality(InTable(sigs, table)) \in 0..Len(sigs)
<1>1. DOMAIN sigs = 1..Len(sigs) /\ Len(sigs) \in Nat
  BY ConfiguredSignals
<1>2. IsFiniteSet(DOMAIN sigs) /\ Cardinality(DOMAIN sigs) = Len(sigs)
  <2>1. /\ IsFiniteSet(1..Len(sigs))
        /\ Cardinality(1..Len(sigs)) = IF 1 > Len(sigs) THEN 0 ELSE Len(sigs) - 1 + 1
    <3> DEFINE n == Len(sigs)
    <3>1. 1 \in Int /\ n \in Int
      BY <1>1
    <3> HIDE DEF n
    <3> QED
      BY <3>1, FS_Interval DEF n
  <2> QED
    BY <1>1, <2>1
<1>3. InTable(sigs, table) \in SUBSET DOMAIN sigs
  BY DEF InTable
<1>4. /\ IsFiniteSet(InTable(sigs, table))
      /\ Cardinality(InTable(sigs, table)) <= Cardinality(DOMAIN sigs)
  BY <1>2, <1>3, FS_Subset
<1>5. Cardinality(InTable(sigs, table)) \in Nat
  BY <1>4, FS_CardinalityType
<1> QED
  BY <1>1, <1>2, <1>3, <1>4, <1>5

\* Whatever comes before i has a lower rank.
LEMMA RankIncreases ==
    ASSUME NEW sigs, Configured(sigs), NEW table,
           NEW i \in InTable(sigs, table), NEW j \in InTable(sigs, table),
           Before(sigs, i, j)
    PROVE  Rank(sigs, table, i) < Rank(sigs, table, j)
<1> DEFINE I == InTable(sigs, table)
           UpTo(k) == {m \in I : m = k \/ Before(sigs, m, k)}
<1>1. I \subseteq DOMAIN sigs /\ IsFiniteSet(I)
  BY TableIsFinite
<1>2. UpTo(i) \subseteq UpTo(j)
  BY <1>1, BeforeIsTotal
<1>3. j \in UpTo(j) /\ j \notin UpTo(i)
  BY <1>1, BeforeIsTotal
<1>4. IsFiniteSet(UpTo(j)) /\ IsFiniteSet(UpTo(i))
  BY <1>1, FS_Subset
<1>5. Cardinality(UpTo(i)) \in Nat /\ Cardinality(UpTo(j)) \in Nat
  BY <1>4, FS_CardinalityType
<1>6. /\ Cardinality(UpTo(i)) <= Cardinality(UpTo(j))
      /\ Cardinality(UpTo(j)) = Cardinality(UpTo(i)) => UpTo(j) = UpTo(i)
  BY <1>2, <1>4, FS_Subset
<1>7. UpTo(i) # UpTo(j)
  BY <1>3
<1> QED
  BY <1>5, <1>6, <1>7 DEF Rank

LEMMA RankInRange ==
    ASSUME NEW sigs, Configured(sigs), NEW table, NEW i \in InTable(sigs, table)
    PROVE  Rank(sigs, table, i) \in 1..Cardinality(InTable(sigs, table))
<1> DEFINE I == InTable(sigs, table)
           UpTo == {m \in I : m = i \/ Before(sigs, m, i)}
<1>1. IsFiniteSet(I) /\ UpTo \in SUBSET I /\ i \in UpTo
  BY TableIsFinite
<1>2. IsFiniteSet(UpTo) /\ Cardinality(UpTo) <= Cardinality(I)
  BY <1>1, FS_Subset
<1>3. Cardinality(UpTo) \in Nat /\ Cardinality(I) \in Nat
  BY <1>1, <1>2, FS_CardinalityType
<1>4. Cardinality(UpTo) # 0
  BY <1>1, <1>2, FS_EmptySet
<1> QED
  BY <1>2, <1>3, <1>4 DEF Rank

\* Order lists the signals of the table, each once, none before its predecessor.
LEMMA OrderSorts ==
    ASSUME NEW sigs, Configured(sigs), NEW table
    PROVE  LET I == InTable(sigs, table)
               N == Cardinality(I)
               order == Order(sigs, table)
           IN  /\ order \in [1..N -> I]
               /\ \A i \in I : \E n \in 1..N : order[n] = i
               /\ \A m, n \in 1..N : m < n => Before(sigs, order[m], order[n])
<1> DEFINE I == InTable(sigs, table)
           N == Cardinality(I)
           order == Order(sigs, table)
           rank == [i \in I |-> Rank(sigs, table, i)]
<1>1. IsFiniteSet(I) /\ N \in Nat /\ I \subseteq DOMAIN sigs
  BY TableIsFinite
<1>2. \A i, j \in I : i # j => Rank(sigs, table, i) # Rank(sigs, table, j)
  <2> SUFFICES ASSUME NEW i \in I, NEW j \in I, i # j
               PROVE  Rank(sigs, table, i) # Rank(sigs, table, j)
    OBVIOUS
  <2>1. Before(sigs, i, j) \/ Before(sigs, j, i)
    BY <1>1, BeforeIsTotal
  <2>2. Rank(sigs, table, i) \in 1..N /\ Rank(sigs, table, j) \in 1..N
    BY RankInRange
  <2> QED
    BY <2>1, <2>2, RankIncreases
<1>3. rank \in Injection(I, 1..N)
  BY <1>2, RankInRange DEF Injection, IsInjective
<1>4. \A n \in 1..N : \E i \in I : Rank(sigs, table, i) = n
  <2>1. IsFiniteSet(1..N) /\ Cardinality(1..N) = N
    BY <1>1, FS_Interval
  <2>2. rank \in Surjection(I, 1..N)
    BY <1>3, <2>1, FS_Injection
  <2> QED
    BY <2>2 DEF Surjection
<1>5. \A n \in 1..N : order[n] \in I /\ Rank(sigs, table, order[n]) = n
  BY <1>4 DEF Order
<1>6. order \in [1..N -> I]
  BY <1>5 DEF Order
<1>7. \A i \in I : \E n \in 1..N : order[n] = i
  <2> SUFFICES ASSUME NEW i \in I
               PROVE  order[Rank(sigs, table, i)] = i
    BY RankInRange
  <2>1. Rank(sigs, table, i) \in 1..N
    BY RankInRange
  <2> QED
    BY <1>2, <1>5, <2>1
<1>8. ASSUME NEW m \in 1..N, NEW n \in 1..N, m < n
      PROVE  Before(sigs, order[m], order[n])
  <2>1. order[m] # order[n]
    BY <1>5, <1>8
  <2>2. CASE Before(sigs, order[n], order[m])
    <3>1. Rank(sigs, table, order[n]) < Rank(sigs, table, order[m])
      BY <1>5, <2>2, RankIncreases
    <3> QED
      BY <1>1, <1>5, <1>8, <3>1
  <2> QED
    BY <1>1, <1>5, <2>1, <2>2, BeforeIsTotal
<1> QED
  BY <1>6, <1>7, <1>8

\* The same for the signals themselves.
LEMMA SortedSignals ==
    ASSUME NEW sigs, Configured(sigs), NEW table
    PROVE  LET sorted == Sorted(sigs, table)
               order == Order(sigs, table)
           IN  /\ sorted \in Seq(Range(sigs))
               /\ Len(sorted) = Cardinality(InTable(sigs, table))
               /\ \A n \in 1..Len(sorted) :
                     /\ order[n] \in InTable(sigs, table) /\ sorted[n] = sigs[order[n]]
                     /\ sorted[n].table = table
                     /\ \A m \in 1..n : sorted[m].address <= sorted[n].address
<1> DEFINE I == InTable(sigs, table)
           N == Cardinality(I)
           order == Order(sigs, table)
           sorted == Sorted(sigs, table)
<1>1. N \in Nat /\ I \subseteq DOMAIN sigs
  BY TableIsFinite
<1>2. /\ order \in [1..N -> I]
      /\ \A m, n \in 1..N : m < n => Before(sigs, order[m], order[n])
  BY OrderSorts
<1>3. sorted = [n \in 1..N |-> sigs[order[n]]]
  BY <1>2 DEF Sorted
<1>4. \A n \in 1..N : sigs[order[n]] \in Range(sigs)
  BY <1>1, <1>2 DEF Range
<1>5. sorted \in [1..N -> Range(sigs)]
  BY <1>3, <1>4
<1>6. sorted \in Seq(Range(sigs)) /\ Len(sorted) = N
  BY <1>1, <1>5
<1>7. ASSUME NEW n \in 1..N, NEW m \in 1..n
      PROVE  sorted[m].address <= sorted[n].address
  <2>1. m \in 1..N /\ order[m] \in DOMAIN sigs /\ order[n] \in DOMAIN sigs
    BY <1>1, <1>2
  <2>2. sigs[order[m]].address \in Nat /\ sigs[order[n]].address \in Nat
    BY <2>1, ConfiguredSignals
  <2>3. CASE m = n
    BY <1>3, <2>1, <2>2, <2>3
  <2>4. CASE m < n
    BY <1>2, <1>3, <2>1, <2>2, <2>4 DEF Before
  <2> QED
    BY <1>1, <2>3, <2>4
<1>8. \A n \in 1..N : sigs[order[n]].table = table
  BY <1>2 DEF InTable
<1> QED
  BY <1>2, <1>3, <1>6, <1>7, <1>8

-----------------------------------------------------------------------------
(* The plan of one table, signal by signal.                                *)

\* What the induction over the signals assumes of them.
Input(sorted, table, maxGap) ==
    /\ Configured(sorted) /\ maxGap \in Nat /\ table \in Tables
    /\ \A n \in 1..Len(sorted) :
          /\ sorted[n].table = table
          /\ \A m \in 1..n : sorted[m].address <= sorted[n].address

BlocksOf(signals) == [start : Nat, end : Nat, signals : Seq(signals)]

LEMMA SortedIsInput ==
    ASSUME NEW sigs, Configured(sigs), NEW table \in Tables, NEW maxGap \in Nat
    PROVE  Input(Sorted(sigs, table), table, maxGap)
<1> DEFINE sorted == Sorted(sigs, table)
<1>1. sorted \in Seq(Range(sigs))
  BY SortedSignals
<1>2. sorted \in Seq(Range(sorted))
  BY <1>1, SeqOfRange
<1>3. Range(sorted) \subseteq Range(sigs)
  BY <1>1, RangeOfSeq
<1>4. Configured(sorted)
  BY <1>2, <1>3 DEF Configured
<1> QED
  BY <1>4, SortedSignals DEF Input

LEMMA PlaceType ==
    ASSUME NEW sorted, NEW table, NEW maxGap, Input(sorted, table, maxGap),
           NEW blocks \in Seq(BlocksOf(Range(sorted))), NEW n \in 1..Len(sorted)
    PROVE  Place(blocks, sorted[n], maxGap) \in Seq(BlocksOf(Range(sorted)))
<1> DEFINE s == sorted[n]
           B == BlocksOf(Range(sorted))
           b == blocks[Len(blocks)]
<1>1. s \in Range(sorted) /\ s.address \in Nat /\ EndOf(s) \in Nat
  BY ConfiguredSignals DEF Input
<1>2. NewBlock(s) \in B
  BY <1>1 DEF NewBlock, BlocksOf
<1>3. blocks # <<>> => Len(blocks) \in 1..Len(blocks) /\ b \in B
  BY EmptySeq, ElementOfSeq
<1>4. blocks # <<>> => Join(b, s) \in B
  BY <1>1, <1>3, AppendProperties DEF Join, Larger, BlocksOf
<1>5. blocks \in Seq(B)
  OBVIOUS
<1> HIDE DEF B
<1>6. CASE blocks # <<>> /\ Joins(b, s, maxGap)
  <2>1. [blocks EXCEPT ![Len(blocks)] = Join(b, s)] \in Seq(B)
    BY <1>5, <1>3, <1>4, <1>6, ExceptSeq
  <2> QED
    BY <1>6, <2>1 DEF Place, B
<1>7. CASE ~(blocks # <<>> /\ Joins(b, s, maxGap))
  <2>1. Append(blocks, NewBlock(s)) \in Seq(B)
    BY <1>5, <1>2, AppendProperties
  <2> QED
    BY <1>7, <2>1 DEF Place, B
<1> QED
  BY <1>6, <1>7 DEF B

LEMMA CoalescingSteps ==
    ASSUME NEW sorted, NEW table, NEW maxGap, Input(sorted, table, maxGap)
    PROVE  LET plan == Coalescing(sorted, maxGap)
           IN  /\ plan \in [0..Len(sorted) -> Seq(BlocksOf(Range(sorted)))]
               /\ plan[0] = <<>>
               /\ \A n \in 1..Len(sorted) : plan[n] = Place(plan[n - 1], sorted[n], maxGap)
<1> DEFINE V == Seq(BlocksOf(Range(sorted)))
           N == Len(sorted)
           step == [p \in V \X (1..N) |-> Place(p[1], sorted[p[2]], maxGap)]
           Recursive(f) == f = [n \in 0..N |->
                               IF n = 0 THEN <<>> ELSE Place(f[n - 1], sorted[n], maxGap)]
<1>1. N \in Nat
  BY ConfiguredSignals DEF Input
<1>2. <<>> \in V
  BY EmptySeq
<1>3. step \in [V \X (1..N) -> V]
  <2> SUFFICES ASSUME NEW p \in V \X (1..N)
               PROVE  Place(p[1], sorted[p[2]], maxGap) \in V
    OBVIOUS
  <2> QED
    BY PlaceType
<1>4. PICK f \in [0..N -> V] : f[0] = <<>> /\ \A n \in 1..N : f[n] = step[<<f[n - 1], n>>]
  <2> DEFINE none == <<>>
  <2>1. none \in V /\ step \in Steps(V, N)
    BY <1>2, <1>3 DEF Steps
  <2> HIDE DEF V, N, step, none
  <2>2. \E f \in Runs(V, N) : Iterates(f, none, step, N)
    BY <1>1, <2>1, Recursion
  <2> QED
    BY <2>2 DEF Runs, Iterates, none
<1>5. ASSUME NEW n \in 1..N
      PROVE  f[n] = Place(f[n - 1], sorted[n], maxGap)
  <2>1. n - 1 \in 0..N
    BY <1>1
  <2>2. <<f[n - 1], n>> \in V \X (1..N)
    BY <2>1
  <2> QED
    BY <1>4, <2>2
<1>6. Recursive(f)
  <2> HIDE DEF V
  <2> QED
    BY <1>1, <1>4, <1>5
<1>7. Coalescing(sorted, maxGap) = CHOOSE g : Recursive(g)
  BY DEF Coalescing
<1>8. Recursive(Coalescing(sorted, maxGap))
  <2> HIDE DEF Recursive
  <2> QED
    BY <1>6, <1>7
<1> DEFINE plan == Coalescing(sorted, maxGap)
<1>9. DOMAIN plan = 0..N /\ plan[0] = <<>>
      /\ \A n \in 1..N : plan[n] = Place(plan[n - 1], sorted[n], maxGap)
  <2> HIDE DEF plan
  <2>1. plan = [n \in 0..N |-> IF n = 0 THEN <<>> ELSE Place(plan[n - 1], sorted[n], maxGap)]
    BY <1>8 DEF plan
  <2> QED
    BY <1>1, <2>1
<1>10. \A n \in 0..N : plan[n] \in V
  <2> DEFINE S == {n \in 0..N : plan[n] \in V}
  <2>1. 0 \in S
    <3> HIDE DEF V, plan
    <3> QED
      BY <1>1, <1>2, <1>9
  <2>2. \A n \in 0..(N - 1) : n \in S => n + 1 \in S
    <3> SUFFICES ASSUME NEW n \in 0..(N - 1), plan[n] \in V
                 PROVE  plan[n + 1] \in V
      BY <1>1
    <3>1. n + 1 \in 1..N /\ (n + 1) - 1 = n
      BY <1>1
    <3>2. Place(plan[n], sorted[n + 1], maxGap) \in V
      BY <3>1, PlaceType
    <3> QED
      BY <1>9, <3>1, <3>2
  <2> HIDE DEF S, N
  <2>3. \A n \in 0..N : n \in S
    BY <1>1, <2>1, <2>2, InductTo
  <2> QED
    BY <2>3 DEF S
<1>11. plan = [n \in 0..N |-> plan[n]]
  <2> HIDE DEF plan
  <2> QED
    BY <1>8 DEF plan
<1> HIDE DEF V, plan
<1> QED
  BY <1>9, <1>10, <1>11 DEF V, plan

\* What one signal does to the blocks.
Joined(before, after, s, maxGap) ==
    LET k == Len(before)
    IN  /\ k > 0 /\ Len(after) = k /\ Joins(before[k], s, maxGap)
        /\ \A i \in 1..(k - 1) : after[i] = before[i]
        /\ after[k] = Join(before[k], s)

Begun(before, after, s, maxGap) ==
    LET k == Len(before)
    IN  /\ Len(after) = k + 1
        /\ k > 0 => ~Joins(before[k], s, maxGap)
        /\ \A i \in 1..k : after[i] = before[i]
        /\ after[k + 1] = NewBlock(s)

LEMMA PlanSteps ==
    ASSUME NEW sorted, NEW table, NEW maxGap, Input(sorted, table, maxGap),
           NEW n \in 0..(Len(sorted) - 1)
    PROVE  LET before == Coalescing(sorted, maxGap)[n]
               after == Coalescing(sorted, maxGap)[n + 1]
               s == sorted[n + 1]
           IN  /\ before \in Seq(BlocksOf(Range(sorted)))
               /\ after \in Seq(BlocksOf(Range(sorted)))
               /\ s \in Range(sorted) /\ s.table = table /\ s.address \in Nat
               /\ s.length \in Nat \ {0}
               /\ Joined(before, after, s, maxGap) \/ Begun(before, after, s, maxGap)
<1> DEFINE before == Coalescing(sorted, maxGap)[n]
           after == Coalescing(sorted, maxGap)[n + 1]
           s == sorted[n + 1]
           B == BlocksOf(Range(sorted))
<1>1. n \in 0..Len(sorted) /\ n + 1 \in 1..Len(sorted) /\ (n + 1) - 1 = n
  BY ConfiguredSignals DEF Input
<1>2. before \in Seq(B) /\ after \in Seq(B) /\ after = Place(before, s, maxGap)
  BY <1>1, CoalescingSteps, SMTT(30)
<1>3. /\ s \in Range(sorted) /\ s.table = table /\ s.address \in Nat
      /\ s.length \in Nat \ {0} /\ EndOf(s) \in Nat
  BY <1>1, ConfiguredSignals DEF Input
<1>4. Len(before) \in Nat /\ (before # <<>> <=> Len(before) > 0)
  BY <1>2, EmptySeq, LenProperties
<1>5. NewBlock(s) \in B
  BY <1>3 DEF NewBlock, BlocksOf
<1> HIDE DEF before, after, s, B
<1>6. CASE before # <<>> /\ Joins(before[Len(before)], s, maxGap)
  <2>1. before \in [1..Len(before) -> B]
    BY <1>2, LenProperties
  <2>2. after = [before EXCEPT ![Len(before)] = Join(before[Len(before)], s)]
    BY <1>2, <1>6 DEF Place
  <2>3. /\ Len(before) \in 1..Len(before)
        /\ \A i \in 1..(Len(before) - 1) : i \in 1..Len(before) /\ i # Len(before)
    BY <1>4, <1>6
  <2>4. /\ after[Len(before)] = Join(before[Len(before)], s)
        /\ \A i \in 1..(Len(before) - 1) : after[i] = before[i]
    BY <2>1, <2>2, <2>3
  <2>5. Len(after) = Len(before)
    BY <1>2, <1>4, <2>1, <2>2, LenProperties
  <2>6. Joined(before, after, s, maxGap)
    BY <1>4, <1>6, <2>4, <2>5 DEF Joined
  <2> QED
    BY <1>2, <1>3, <2>6 DEF before, after, s, B
<1>7. CASE ~(before # <<>> /\ Joins(before[Len(before)], s, maxGap))
  <2>1. after = Append(before, NewBlock(s))
    BY <1>2, <1>7 DEF Place
  <2>2. Begun(before, after, s, maxGap)
    BY <1>2, <1>4, <1>5, <1>7, <2>1, AppendProperties DEF Begun
  <2> QED
    BY <1>2, <1>3, <2>2 DEF before, after, s, B
<1> QED
  BY <1>6, <1>7

-----------------------------------------------------------------------------
(* Each block: it has its signals, and is too long only if one of them is. *)

Serves(b, n, limit) ==
    /\ Len(b.signals) \in 1..n
    /\ \A j \in 1..Len(b.signals) :
          b.start <= b.signals[j].address /\ EndOf(b.signals[j]) <= b.end
    /\ \/ LengthOf(b) <= limit
       \/ \E j \in 1..Len(b.signals) : b.signals[j].length > limit

\* A block begins where one of the signals does.
BeginsAt(b, sorted, n) == \E m \in 1..n : b.start = sorted[m].address

LEMMA NewBlockServes ==
    ASSUME NEW s, s.address \in Nat, s.length \in Nat, NEW n \in Nat, NEW limit \in Nat
    PROVE  Serves(NewBlock(s), n + 1, limit)
<1>1. /\ NewBlock(s).start = s.address /\ NewBlock(s).end = s.address + s.length
      /\ NewBlock(s).signals = <<s>>
  BY DEF NewBlock, EndOf
<1>2. Len(NewBlock(s).signals) = 1 /\ NewBlock(s).signals[1] = s
  BY <1>1
<1> QED
  BY <1>1, <1>2 DEF Serves, EndOf, LengthOf

LEMMA JoinServes ==
    ASSUME NEW V, NEW b \in BlocksOf(V), NEW s \in V, \A v \in V : v.address \in Nat /\ v.length \in Nat,
           NEW n \in Nat, NEW limit \in Nat, Serves(b, n, limit),
           b.start <= s.address, EndOf(s) - b.start <= limit
    PROVE  Serves(Join(b, s), n + 1, limit)
<1> DEFINE k == Len(b.signals)
<1>1. /\ b.start \in Nat /\ b.end \in Nat /\ b.signals \in Seq(V) /\ k \in Nat
      /\ s.address \in Nat /\ EndOf(s) \in Nat
  BY LenProperties DEF BlocksOf, EndOf
<1>2. /\ Join(b, s).start = b.start /\ Join(b, s).end = Larger(b.end, EndOf(s))
      /\ Join(b, s).signals = Append(b.signals, s)
  BY DEF Join, BlocksOf
<1>3. /\ Len(Join(b, s).signals) = k + 1
      /\ \A j \in 1..k : Join(b, s).signals[j] = b.signals[j]
      /\ Join(b, s).signals[k + 1] = s
  BY <1>1, <1>2, AppendProperties
<1>4. \A j \in 1..k : b.signals[j] \in V
  BY <1>1, ElementOfSeq
<1>5. \A j \in 1..(k + 1) : /\ b.start <= Join(b, s).signals[j].address
                            /\ EndOf(Join(b, s).signals[j]) <= Join(b, s).end
  <2> SUFFICES ASSUME NEW j \in 1..(k + 1)
               PROVE  /\ b.start <= Join(b, s).signals[j].address
                      /\ EndOf(Join(b, s).signals[j]) <= Larger(b.end, EndOf(s))
    BY <1>2
  <2>1. CASE j = k + 1
    BY <1>1, <1>3, <2>1 DEF Larger
  <2>2. CASE j \in 1..k
    <3>1. b.start <= b.signals[j].address /\ EndOf(b.signals[j]) <= b.end
      BY <2>2 DEF Serves
    <3>2. EndOf(b.signals[j]) \in Nat
      <4>1. \A v \in V : EndOf(v) \in Nat
        BY DEF EndOf
      <4> HIDE DEF k
      <4> QED
        BY <1>4, <2>2, <4>1
    <3>3. EndOf(b.signals[j]) <= Larger(b.end, EndOf(s))
      BY <1>1, <3>1, <3>2 DEF Larger
    <3> HIDE DEF k
    <3> QED
      BY <1>3, <2>2, <3>1, <3>3
  <2>3. j = k + 1 \/ j \in 1..k
    BY <1>1
  <2> QED
    BY <2>1, <2>2, <2>3
<1>6. \/ LengthOf(Join(b, s)) <= limit
      \/ \E j \in 1..(k + 1) : Join(b, s).signals[j].length > limit
  <2>1. CASE EndOf(s) >= b.end
    BY <1>1, <1>2, <2>1 DEF Larger, LengthOf
  <2>2. CASE EndOf(s) < b.end
    <3>1. LengthOf(Join(b, s)) = LengthOf(b)
      BY <1>1, <1>2, <2>2 DEF Larger, LengthOf
    <3>2. \A j \in 1..k : j \in 1..(k + 1)
      BY <1>1
    <3> QED
      BY <1>3, <3>1, <3>2 DEF Serves
  <2> QED
    BY <1>1, <2>1, <2>2
<1>7. k + 1 \in 1..(n + 1)
  BY <1>1 DEF Serves
<1> QED
  BY <1>2, <1>3, <1>5, <1>6, <1>7 DEF Serves

LEMMA PlanServes ==
    ASSUME NEW sorted, NEW table, NEW maxGap, Input(sorted, table, maxGap),
           NEW n \in 0..Len(sorted)
    PROVE  LET blocks == Coalescing(sorted, maxGap)[n]
           IN  /\ blocks \in Seq(BlocksOf(Range(sorted)))
               /\ \A k \in 1..Len(blocks) : /\ Serves(blocks[k], n, MaxRead[table])
                                            /\ BeginsAt(blocks[k], sorted, n)
<1> DEFINE plan == Coalescing(sorted, maxGap)
           N == Len(sorted)
           V == Range(sorted)
           limit == MaxRead[table]
           P(m) == \A k \in 1..Len(plan[m]) : /\ Serves(plan[m][k], m, limit)
                                              /\ BeginsAt(plan[m][k], sorted, m)
           S == {m \in 0..N : P(m)}
<1>1. N \in Nat /\ limit \in Nat
  BY ConfiguredSignals, MaxReadAssumption DEF Input, Tables
<1>2. \A m \in 0..N : plan[m] \in Seq(BlocksOf(V))
  BY CoalescingSteps
<1>3. 0 \in S
  BY <1>1, CoalescingSteps, EmptySeq
<1>4. ASSUME NEW m \in 0..(N - 1), m \in S
      PROVE  m + 1 \in S
  <2> DEFINE before == plan[m]
             after == plan[m + 1]
             s == sorted[m + 1]
  <2>1. /\ before \in Seq(BlocksOf(V)) /\ after \in Seq(BlocksOf(V))
        /\ s \in V /\ s.table = table /\ s.address \in Nat /\ s.length \in Nat \ {0}
        /\ Joined(before, after, s, maxGap) \/ Begun(before, after, s, maxGap)
    BY PlanSteps
  <2>2. /\ m \in Nat /\ m + 1 \in 0..N /\ Len(before) \in Nat
        /\ \A k \in 1..Len(before) : before[k] \in BlocksOf(V)
    BY <1>1, <2>1, LenProperties, ElementOfSeq
  <2>3. P(m)
    BY <1>4
  <2>4. ASSUME NEW k \in 1..Len(before)
        PROVE  /\ Serves(before[k], m + 1, limit)
               /\ BeginsAt(before[k], sorted, m + 1)
               /\ before[k].start <= s.address
    <3>1. Serves(before[k], m, limit) /\ BeginsAt(before[k], sorted, m)
      BY <2>3
    <3>2. PICK i \in 1..m : before[k].start = sorted[i].address
      BY <3>1 DEF BeginsAt
    <3>3. i \in 1..(m + 1) /\ m + 1 \in 1..N
      BY <2>2
    <3>4. sorted[i].address <= s.address
      BY <3>3 DEF Input
    <3> QED
      BY <2>2, <3>1, <3>2, <3>3, <3>4, SMTT(30) DEF Serves, BeginsAt
  <2>5. \A v \in V : v.address \in Nat /\ v.length \in Nat
    BY DEF Input, Configured
  <2>6. ASSUME NEW k \in 1..Len(after)
        PROVE  Serves(after[k], m + 1, limit) /\ BeginsAt(after[k], sorted, m + 1)
    <3> HIDE DEF before, after, s, V, limit, P, S
    <3>1. CASE Joined(before, after, s, maxGap)
      <4> DEFINE last == Len(before)
      <4>1. last \in 1..Len(before) /\ Len(after) = last
        BY <2>2, <3>1 DEF Joined
      <4>2. CASE k < last
        BY <2>2, <2>4, <3>1, <4>1, <4>2 DEF Joined
      <4>3. CASE k = last
        <5>1. after[k] = Join(before[last], s) /\ EndOf(s) - before[last].start <= limit
          BY <2>1, <3>1, <4>3 DEF Joined, Joins, limit
        <5>2. Serves(before[last], m, limit) /\ before[last].start <= s.address
          BY <2>3, <2>4, <4>1 DEF P, before
        <5>3. Serves(after[k], m + 1, limit)
          BY <1>1, <2>1, <2>2, <2>5, <4>1, <5>1, <5>2, JoinServes DEF limit
        <5>4. after[k].start = before[last].start
          BY <2>2, <4>1, <5>1 DEF Join, BlocksOf
        <5> QED
          BY <2>4, <4>1, <5>3, <5>4 DEF BeginsAt
      <4> QED
        BY <4>1, <4>2, <4>3
    <3>2. CASE Begun(before, after, s, maxGap)
      <4>1. CASE k \in 1..Len(before)
        BY <2>4, <3>2, <4>1 DEF Begun
      <4>2. CASE k = Len(before) + 1
        <5>1. after[k] = NewBlock(s)
          BY <3>2, <4>2 DEF Begun
        <5>2. Serves(after[k], m + 1, limit)
          BY <1>1, <2>1, <2>2, <5>1, NewBlockServes DEF limit
        <5>3. after[k].start = sorted[m + 1].address /\ m + 1 \in 1..(m + 1)
          BY <2>2, <5>1 DEF NewBlock, s
        <5> QED
          BY <5>2, <5>3 DEF BeginsAt
      <4> QED
        BY <2>2, <3>2, <4>1, <4>2 DEF Begun
    <3> QED
      BY <2>1, <3>1, <3>2
  <2> QED
    BY <2>2, <2>6
<1>5. \A m \in 0..N : m \in S
  <2> HIDE DEF S, N
  <2> QED
    BY <1>1, <1>3, <1>4, InductTo
<1> QED
  BY <1>2, <1>5

-----------------------------------------------------------------------------
(* All blocks: they hold each signal as often as the sorted sequence does. *)

Places(blocks, s, bound) ==
    {ij \in (DOMAIN blocks) \X (1..bound) :
        /\ ij[2] \in DOMAIN blocks[ij[1]].signals
        /\ blocks[ij[1]].signals[ij[2]] = s}

\* The place that the newest signal takes.
NewPlace(before, after) ==
    IF Len(after) = Len(before) THEN <<Len(before), Len(before[Len(before)].signals) + 1>>
    ELSE <<Len(before) + 1, 1>>

LEMMA SamePairs ==
    ASSUME NEW A, NEW B, NEW X, NEW Y, X \subseteq A \X B, Y \subseteq A \X B,
           \A a \in A, b \in B : <<a, b>> \in X <=> <<a, b>> \in Y
    PROVE  X = Y
<1>1. \A p \in A \X B : \E a \in A, b \in B : p = <<a, b>>
  OBVIOUS
<1> QED
  BY <1>1

StepOf(before, after, V, s, maxGap) ==
    /\ before \in Seq(BlocksOf(V)) /\ after \in Seq(BlocksOf(V)) /\ s \in V
    /\ Joined(before, after, s, maxGap) \/ Begun(before, after, s, maxGap)

ShortBlocks(blocks, bound) ==
    bound > 0 /\ \A k \in 1..Len(blocks) : Len(blocks[k].signals) < bound

LEMMA PlacesGrow ==
    ASSUME NEW before, NEW after, NEW V, NEW s, NEW maxGap,
           StepOf(before, after, V, s, maxGap),
           NEW bound \in Nat, ShortBlocks(before, bound), NEW t
    PROVE  /\ NewPlace(before, after) \notin Places(before, t, bound)
           /\ s = t => Places(after, t, bound) =
                          Places(before, t, bound) \cup {NewPlace(before, after)}
           /\ s # t => Places(after, t, bound) = Places(before, t, bound)
<1> USE DEF StepOf, ShortBlocks
<1> DEFINE k == Len(before)
<1>1. /\ k \in Nat /\ DOMAIN before = 1..k /\ DOMAIN after = 1..Len(after)
      /\ \A i \in 1..k : before[i] \in BlocksOf(V)
  BY LenProperties, ElementOfSeq
<1>2. \A i \in 1..k : /\ before[i].signals \in Seq(V)
                      /\ DOMAIN before[i].signals = 1..Len(before[i].signals)
                      /\ Len(before[i].signals) \in Nat
  <2> SUFFICES ASSUME NEW i \in 1..k
               PROVE  before[i].signals \in Seq(V)
    BY LenProperties
  <2> QED
    BY <1>1 DEF BlocksOf
<1>3. CASE Joined(before, after, s, maxGap)
  <2> DEFINE n == Len(before[k].signals)
  <2>1. /\ k \in 1..k /\ Len(after) = k /\ NewPlace(before, after) = <<k, n + 1>>
        /\ \A i \in 1..(k - 1) : after[i] = before[i]
    BY <1>1, <1>3 DEF Joined, NewPlace
  <2>2. after[k].signals = Append(before[k].signals, s)
    BY <1>1, <1>3, <2>1 DEF Joined, Join, BlocksOf
  <2>3. /\ n \in Nat /\ n + 1 \in 1..bound
        /\ DOMAIN before[k].signals = 1..n /\ DOMAIN after[k].signals = 1..(n + 1)
        /\ \A j \in 1..n : after[k].signals[j] = before[k].signals[j]
        /\ after[k].signals[n + 1] = s
    <3>1. before[k].signals \in Seq(V) /\ n \in Nat /\ n < bound
      BY <1>2, <2>1
    <3> QED
      BY <1>2, <2>1, <2>2, <3>1, AppendProperties, LenProperties
  <2>4. \A i \in 1..k, j \in 1..bound :
           <<i, j>> \in Places(after, t, bound) <=>
              \/ <<i, j>> \in Places(before, t, bound)
              \/ i = k /\ j = n + 1 /\ s = t
    <3> SUFFICES ASSUME NEW i \in 1..k, NEW j \in 1..bound
                 PROVE  <<i, j>> \in Places(after, t, bound) <=>
                           \/ <<i, j>> \in Places(before, t, bound)
                           \/ i = k /\ j = n + 1 /\ s = t
      OBVIOUS
    <3>1. /\ <<i, j>> \in Places(after, t, bound) <=>
                j \in DOMAIN after[i].signals /\ after[i].signals[j] = t
          /\ <<i, j>> \in Places(before, t, bound) <=>
                j \in DOMAIN before[i].signals /\ before[i].signals[j] = t
      BY <1>1, <2>1 DEF Places
    <3>2. CASE i # k
      BY <1>1, <2>1, <3>1, <3>2
    <3>3. CASE i = k /\ j \in 1..n
      BY <2>3, <3>1, <3>3
    <3>4. CASE i = k /\ j = n + 1
      BY <2>3, <3>1, <3>4
    <3>5. CASE i = k /\ j > n + 1
      BY <2>3, <3>1, <3>5
    <3> QED
      BY <2>3, <3>2, <3>3, <3>4, <3>5
  <2>5. <<k, n + 1>> \notin Places(before, t, bound)
    BY <2>3 DEF Places
  <2>6. /\ Places(before, t, bound) \subseteq (1..k) \X (1..bound)
        /\ Places(after, t, bound) \subseteq (1..k) \X (1..bound)
        /\ <<k, n + 1>> \in (1..k) \X (1..bound)
    BY <1>1, <2>1, <2>3 DEF Places
  <2>7. s = t => Places(after, t, bound) = Places(before, t, bound) \cup {<<k, n + 1>>}
    <3> DEFINE X == Places(after, t, bound)
               Y == Places(before, t, bound) \cup {<<k, n + 1>>}
               A == 1..k
               B == 1..bound
    <3>1. X \subseteq A \X B /\ Y \subseteq A \X B
      BY <2>6
    <3>2. s = t => \A i \in A, j \in B : <<i, j>> \in X <=> <<i, j>> \in Y
      BY <2>4
    <3> HIDE DEF X, Y, A, B
    <3>3. s = t => X = Y
      BY <3>1, <3>2, SamePairs
    <3> QED
      BY <3>3 DEF X, Y
  <2>8. s # t => Places(after, t, bound) = Places(before, t, bound)
    <3> DEFINE X == Places(after, t, bound)
               Y == Places(before, t, bound)
               A == 1..k
               B == 1..bound
    <3>1. X \subseteq A \X B /\ Y \subseteq A \X B
      BY <2>6
    <3>2. s # t => \A i \in A, j \in B : <<i, j>> \in X <=> <<i, j>> \in Y
      BY <2>4
    <3> HIDE DEF X, Y, A, B
    <3>3. s # t => X = Y
      BY <3>1, <3>2, SamePairs
    <3> QED
      BY <3>3 DEF X, Y
  <2> QED
    BY <2>1, <2>5, <2>7, <2>8
<1>4. CASE Begun(before, after, s, maxGap)
  <2>1. /\ Len(after) = k + 1 /\ NewPlace(before, after) = <<k + 1, 1>>
        /\ \A i \in 1..k : after[i] = before[i]
    <3>1. Len(after) = k + 1 /\ \A i \in 1..k : after[i] = before[i]
      BY <1>4, Zenon DEF Begun
    <3>2. Len(before) \in Nat
      BY LenProperties
    <3>3. Len(after) # Len(before)
      BY <3>1, <3>2
    <3> QED
      BY <3>1, <3>3 DEF NewPlace
  <2>2. after[k + 1].signals = <<s>> /\ 1 \in 1..bound
    BY <1>4 DEF Begun, NewBlock
  <2>3. DOMAIN after[k + 1].signals = {1} /\ after[k + 1].signals[1] = s
    BY <2>2
  <2>4. \A i \in 1..(k + 1), j \in 1..bound :
           <<i, j>> \in Places(after, t, bound) <=>
              \/ <<i, j>> \in Places(before, t, bound)
              \/ i = k + 1 /\ j = 1 /\ s = t
    <3> SUFFICES ASSUME NEW i \in 1..(k + 1), NEW j \in 1..bound
                 PROVE  <<i, j>> \in Places(after, t, bound) <=>
                           \/ <<i, j>> \in Places(before, t, bound)
                           \/ i = k + 1 /\ j = 1 /\ s = t
      OBVIOUS
    <3>1. /\ <<i, j>> \in Places(after, t, bound) <=>
                j \in DOMAIN after[i].signals /\ after[i].signals[j] = t
          /\ <<i, j>> \in Places(before, t, bound) <=>
                i \in 1..k /\ j \in DOMAIN before[i].signals /\ before[i].signals[j] = t
      BY <1>1, <2>1 DEF Places
    <3>2. CASE i \in 1..k
      BY <1>1, <2>1, <3>1, <3>2
    <3>3. CASE i = k + 1
      BY <1>1, <2>3, <3>1, <3>3
    <3> QED
      BY <1>1, <3>2, <3>3
  <2>5. <<k + 1, 1>> \notin Places(before, t, bound)
    BY <1>1 DEF Places
  <2>6. /\ Places(before, t, bound) \subseteq (1..(k + 1)) \X (1..bound)
        /\ Places(after, t, bound) \subseteq (1..(k + 1)) \X (1..bound)
        /\ <<k + 1, 1>> \in (1..(k + 1)) \X (1..bound)
    BY <1>1, <2>1, <2>2 DEF Places
  <2>7. s = t => Places(after, t, bound) = Places(before, t, bound) \cup {<<k + 1, 1>>}
    <3> DEFINE X == Places(after, t, bound)
               Y == Places(before, t, bound) \cup {<<k + 1, 1>>}
               A == 1..(k + 1)
               B == 1..bound
    <3>1. X \subseteq A \X B /\ Y \subseteq A \X B
      BY <2>6
    <3>2. s = t => \A i \in A, j \in B : <<i, j>> \in X <=> <<i, j>> \in Y
      BY <2>4
    <3> HIDE DEF X, Y, A, B
    <3>3. s = t => X = Y
      BY <3>1, <3>2, SamePairs
    <3> QED
      BY <3>3 DEF X, Y
  <2>8. s # t => Places(after, t, bound) = Places(before, t, bound)
    <3> DEFINE X == Places(after, t, bound)
               Y == Places(before, t, bound)
               A == 1..(k + 1)
               B == 1..bound
    <3>1. X \subseteq A \X B /\ Y \subseteq A \X B
      BY <2>6
    <3>2. s # t => \A i \in A, j \in B : <<i, j>> \in X <=> <<i, j>> \in Y
      BY <2>4
    <3> HIDE DEF X, Y, A, B
    <3>3. s # t => X = Y
      BY <3>1, <3>2, SamePairs
    <3> QED
      BY <3>3 DEF X, Y
  <2> QED
    BY <2>1, <2>5, <2>7, <2>8
<1> QED
  BY <1>3, <1>4

LEMMA PlanCounts ==
    ASSUME NEW sorted, NEW table, NEW maxGap, Input(sorted, table, maxGap),
           NEW bound \in Nat, Len(sorted) <= bound, NEW t,
           NEW n \in 0..Len(sorted)
    PROVE  Cardinality(Places(Coalescing(sorted, maxGap)[n], t, bound))
              = Cardinality({m \in 1..n : sorted[m] = t})
<1> DEFINE plan == Coalescing(sorted, maxGap)
           N == Len(sorted)
           V == Range(sorted)
           Placed(m) == Places(plan[m], t, bound)
           Seen(m) == {i \in 1..m : sorted[i] = t}
           P(m) == /\ IsFiniteSet(Placed(m)) /\ IsFiniteSet(Seen(m))
                   /\ Cardinality(Placed(m)) = Cardinality(Seen(m))
           S == {m \in 0..N : P(m)}
<1>1. N \in Nat
  BY ConfiguredSignals DEF Input
<1>2. 0 \in S
  <2>1. plan[0] = <<>>
    BY CoalescingSteps
  <2>2. DOMAIN plan[0] = {}
    BY <2>1
  <2>3. Placed(0) = {} /\ Seen(0) = {}
    BY <2>2 DEF Places
  <2> QED
    BY <1>1, <2>3, FS_EmptySet, SMTT(30)
<1>3. ASSUME NEW m \in 0..(N - 1), m \in S
      PROVE  m + 1 \in S
  <2> DEFINE before == plan[m]
             after == plan[m + 1]
             s == sorted[m + 1]
  <2>1. /\ before \in Seq(BlocksOf(V)) /\ after \in Seq(BlocksOf(V)) /\ s \in V
        /\ Joined(before, after, s, maxGap) \/ Begun(before, after, s, maxGap)
    BY PlanSteps
  <2>2. m \in Nat /\ m + 1 \in 0..N /\ m \in 0..N /\ m + 1 <= bound
    BY <1>1
  <2>3. \A k \in 1..Len(before) : Len(before[k].signals) < bound
    <3>1. \A k \in 1..Len(before) : Len(before[k].signals) \in 1..m
      BY <2>2, PlanServes DEF Serves
    <3> QED
      BY <2>2, <3>1
  <2>4. P(m)
    BY <1>3
  <2> DEFINE new == NewPlace(before, after)
  <2>5. /\ new \notin Placed(m)
        /\ s = t => Placed(m + 1) = Placed(m) \cup {new}
        /\ s # t => Placed(m + 1) = Placed(m)
    <3>1. StepOf(before, after, V, s, maxGap)
      BY <2>1 DEF StepOf
    <3>2. ShortBlocks(before, bound)
      BY <2>2, <2>3 DEF ShortBlocks
    <3> HIDE DEF before, after, s, V, new
    <3>3. /\ NewPlace(before, after) \notin Places(before, t, bound)
          /\ s = t => Places(after, t, bound) =
                         Places(before, t, bound) \cup {NewPlace(before, after)}
          /\ s # t => Places(after, t, bound) = Places(before, t, bound)
      BY <3>1, <3>2, PlacesGrow
    <3> QED
      BY <3>3 DEF before, after, new
  <2>6. /\ m + 1 \notin Seen(m)
        /\ s = t => Seen(m + 1) = Seen(m) \cup {m + 1}
        /\ s # t => Seen(m + 1) = Seen(m)
    BY <2>2
  <2> HIDE DEF Placed, Seen, s, new
  <2>7. CASE s = t
    <3>1. /\ IsFiniteSet(Placed(m + 1)) /\ Cardinality(Placed(m + 1)) = Cardinality(Placed(m)) + 1
      BY <2>4, <2>5, <2>7, FS_AddElement
    <3>2. /\ IsFiniteSet(Seen(m + 1)) /\ Cardinality(Seen(m + 1)) = Cardinality(Seen(m)) + 1
      BY <2>4, <2>6, <2>7, FS_AddElement
    <3> QED
      BY <2>2, <2>4, <3>1, <3>2
  <2>8. CASE s # t
    BY <2>2, <2>4, <2>5, <2>6, <2>8
  <2> QED
    BY <2>7, <2>8
<1>4. \A m \in 0..N : m \in S
  <2> HIDE DEF S, N
  <2> QED
    BY <1>1, <1>2, <1>3, InductTo
<1> QED
  BY <1>4

-----------------------------------------------------------------------------
(* The plan of a table of the configuration.                               *)

LEMMA CoalesceIsLast ==
    ASSUME NEW sigs, Configured(sigs), NEW table \in Tables, NEW maxGap \in Nat
    PROVE  LET sorted == Sorted(sigs, table)
           IN  /\ Input(sorted, table, maxGap)
               /\ Len(sorted) \in 0..Len(sorted) /\ Len(sorted) <= Len(sigs) /\ Len(sigs) \in Nat
               /\ Coalesce(sigs, table, maxGap) = Coalescing(sorted, maxGap)[Len(sorted)]
<1> DEFINE sorted == Sorted(sigs, table)
<1>1. Input(sorted, table, maxGap)
  BY SortedIsInput
<1>2. Len(sorted) = Cardinality(InTable(sigs, table)) /\ Len(sigs) \in Nat
  BY SortedSignals, ConfiguredSignals
<1>3. Len(sorted) \in 0..Len(sorted) /\ Len(sorted) <= Len(sigs)
  BY <1>2, TableIsFinite
<1> QED
  BY <1>1, <1>2, <1>3 DEF Coalesce

\* Sorting neither drops a signal nor repeats one.
LEMMA SortedCounts ==
    ASSUME NEW sigs, Configured(sigs), NEW table, NEW t, t.table = table
    PROVE  Cardinality({m \in 1..Len(Sorted(sigs, table)) : Sorted(sigs, table)[m] = t})
              = Cardinality({i \in DOMAIN sigs : sigs[i] = t})
<1> DEFINE sorted == Sorted(sigs, table)
           order == Order(sigs, table)
           N == Cardinality(InTable(sigs, table))
           M == {m \in 1..Len(sorted) : sorted[m] = t}
           D == {i \in DOMAIN sigs : sigs[i] = t}
           f == [m \in M |-> order[m]]
<1>1. /\ Len(sorted) = N /\ N \in Nat /\ InTable(sigs, table) \subseteq DOMAIN sigs
      /\ \A m \in 1..N : sorted[m] = sigs[order[m]]
  BY SortedSignals, TableIsFinite
<1>2. /\ order \in [1..N -> InTable(sigs, table)]
      /\ \A i \in InTable(sigs, table) : \E m \in 1..N : order[m] = i
      /\ \A m, n \in 1..N : m < n => Before(sigs, order[m], order[n])
  BY OrderSorts
<1>3. IsFiniteSet(M)
  <2>1. IsFiniteSet(1..N) /\ M \in SUBSET (1..N)
    BY <1>1, FS_Interval
  <2> QED
    BY <2>1, FS_Subset
<1>4. f \in [M -> D]
  <2> SUFFICES ASSUME NEW m \in M
               PROVE  order[m] \in D
    OBVIOUS
  <2> QED
    BY <1>1, <1>2
<1>5. \A m, n \in M : f[m] = f[n] => m = n
  <2> SUFFICES ASSUME NEW m \in M, NEW n \in M, m < n
               PROVE  order[m] # order[n]
    BY <1>1
  <2>1. m \in 1..N /\ n \in 1..N /\ order[m] \in DOMAIN sigs
    BY <1>1, <1>2
  <2> QED
    BY <1>2, <2>1, BeforeIsTotal
<1>6. \A i \in D : \E m \in M : f[m] = i
  <2> SUFFICES ASSUME NEW i \in D
               PROVE  \E m \in M : order[m] = i
    OBVIOUS
  <2>1. i \in InTable(sigs, table)
    BY DEF InTable
  <2> QED
    BY <1>1, <1>2, <2>1
<1>7. ExistsBijection(M, D)
  <2> HIDE DEF f, M, D
  <2>1. f \in Bijection(M, D)
    BY <1>4, <1>5, <1>6 DEF Bijection, Injection, Surjection, IsInjective
  <2> QED
    BY <2>1 DEF ExistsBijection
<1> QED
  BY <1>3, <1>7, FS_Bijection

LEMMA CoalesceServes ==
    ASSUME NEW sigs, Configured(sigs), NEW table \in Tables, NEW maxGap \in Nat
    PROVE  LET blocks == Coalesce(sigs, table, maxGap)
           IN  /\ DOMAIN blocks = 1..Len(blocks) /\ Len(blocks) \in Nat
               /\ \A k \in DOMAIN blocks :
                     /\ blocks[k].start \in Nat /\ blocks[k].end \in Nat
                     /\ DOMAIN blocks[k].signals = 1..Len(blocks[k].signals)
                     /\ Serves(blocks[k], Len(sigs), MaxRead[table])
               /\ \A t : t.table = table =>
                     Cardinality(Places(blocks, t, Len(sigs)))
                        = Cardinality({i \in DOMAIN sigs : sigs[i] = t})
<1> DEFINE sorted == Sorted(sigs, table)
           blocks == Coalesce(sigs, table, maxGap)
           N == Len(sorted)
<1>1. /\ Input(sorted, table, maxGap) /\ blocks = Coalescing(sorted, maxGap)[N]
      /\ N \in 0..N /\ N <= Len(sigs) /\ Len(sigs) \in Nat
  BY CoalesceIsLast
<1>2. /\ blocks \in Seq(BlocksOf(Range(sorted)))
      /\ \A k \in 1..Len(blocks) : Serves(blocks[k], N, MaxRead[table])
  BY <1>1, PlanServes
<1>3. DOMAIN blocks = 1..Len(blocks) /\ Len(blocks) \in Nat
  BY <1>2, LenProperties
<1>4. ASSUME NEW k \in DOMAIN blocks
      PROVE  /\ blocks[k].start \in Nat /\ blocks[k].end \in Nat
             /\ DOMAIN blocks[k].signals = 1..Len(blocks[k].signals)
             /\ Serves(blocks[k], Len(sigs), MaxRead[table])
  <2>1. blocks[k] \in BlocksOf(Range(sorted)) /\ Serves(blocks[k], N, MaxRead[table])
    BY <1>2, <1>3, ElementOfSeq
  <2>2. blocks[k].signals \in Seq(Range(sorted)) /\ blocks[k].start \in Nat /\ blocks[k].end \in Nat
    BY <2>1 DEF BlocksOf
  <2>3. /\ DOMAIN blocks[k].signals = 1..Len(blocks[k].signals)
        /\ Len(blocks[k].signals) \in Nat
    BY <2>2, LenProperties
  <2> DEFINE b == blocks[k]
             limit == MaxRead[table]
  <2>4. Serves(b, N, limit) /\ N \in Nat /\ Len(b.signals) \in Nat
    BY <1>1, <2>1, <2>3 DEF Input
  <2>5. N <= Len(sigs) /\ Len(sigs) \in Nat
    BY <1>1
  <2> HIDE DEF b, N, limit
  <2>6. Serves(b, Len(sigs), limit)
    BY <2>4, <2>5 DEF Serves
  <2> QED
    BY <2>2, <2>3, <2>6 DEF b, limit
<1>5. ASSUME NEW t, t.table = table
      PROVE  Cardinality(Places(blocks, t, Len(sigs)))
                = Cardinality({i \in DOMAIN sigs : sigs[i] = t})
  <2>1. Cardinality(Places(blocks, t, Len(sigs))) = Cardinality({m \in 1..N : sorted[m] = t})
    <3>1. Len(sorted) <= Len(sigs) /\ Len(sigs) \in Nat /\ Len(sorted) \in 0..Len(sorted)
      BY <1>1
    <3>2. Cardinality(Places(Coalescing(sorted, maxGap)[Len(sorted)], t, Len(sigs)))
             = Cardinality({m \in 1..Len(sorted) : sorted[m] = t})
      <4> HIDE DEF sorted
      <4> QED
        BY <1>1, <3>1, PlanCounts
    <3> QED
      BY <1>1, <3>2
  <2> QED
    BY <1>5, <2>1, SortedCounts
<1> QED
  BY <1>3, <1>4, <1>5

-----------------------------------------------------------------------------
(* RegisterMap: the configuration does not change.                         *)

ConfigInv == layout \in Layouts /\ gap \in Gaps

LEMMA ConfigKept == Spec => []ConfigInv
<1>1. Init => ConfigInv
  BY DEF Init, ConfigInv
<1>2. ConfigInv /\ [Next]_vars => ConfigInv'
  BY DEF ConfigInv, Next, Write, vars
<1> QED
  BY <1>1, <1>2, PTL DEF Spec

LEMMA ConfigIsSound ==
    ASSUME ConfigInv
    PROVE  /\ Configured(layout) /\ gap \in Nat
           /\ DOMAIN layout = 1..Len(layout)
           /\ ToSet(layout) = Range(layout)
           /\ \A s \in ToSet(layout) :
                 s.table \in Tables /\ s.address \in Nat /\ s.length \in Nat \ {0}
<1>1. Configured(layout) /\ gap \in Nat
  BY LayoutsAssumption, GapsAssumption DEF ConfigInv, Configured
<1>2. ToSet(layout) = Range(layout)
  BY DEF ToSet, Range
<1> QED
  BY <1>1, <1>2, ConfiguredSignals DEF Configured

\* Every signal is polled as often as it is configured, in a block that has all
\* its cells, for any layout and gap (coalesce of poll_manager.py).
THEOREM ServesAll == Spec => []PlanServesAll
<1>1. ConfigInv => PlanServesAll
  <2> SUFFICES ASSUME ConfigInv, NEW s \in ToSet(layout)
               PROVE  /\ Cardinality(Occurrences(s))
                            = Cardinality({i \in DOMAIN layout : layout[i] = s})
                      /\ \A ij \in Occurrences(s) :
                            LET b == Plan(s.table)[ij[1]]
                            IN  b.start <= s.address /\ EndOf(s) <= b.end
    BY DEF PlanServesAll
  <2> DEFINE blocks == Plan(s.table)
  <2>1. Configured(layout) /\ gap \in Nat /\ s.table \in Tables
    BY ConfigIsSound
  <2>2. Occurrences(s) = Places(blocks, s, Len(layout))
    BY DEF Occurrences, Places
  <2>3. /\ \A k \in DOMAIN blocks :
              /\ DOMAIN blocks[k].signals = 1..Len(blocks[k].signals)
              /\ Serves(blocks[k], Len(layout), MaxRead[s.table])
        /\ Cardinality(Places(blocks, s, Len(layout)))
              = Cardinality({i \in DOMAIN layout : layout[i] = s})
    BY <2>1, CoalesceServes DEF Plan
  <2>4. ASSUME NEW ij \in Occurrences(s)
        PROVE  blocks[ij[1]].start <= s.address /\ EndOf(s) <= blocks[ij[1]].end
    <3>1. /\ ij[1] \in DOMAIN blocks /\ ij[2] \in DOMAIN blocks[ij[1]].signals
          /\ blocks[ij[1]].signals[ij[2]] = s
      BY DEF Occurrences
    <3> QED
      BY <2>3, <3>1 DEF Serves
  <2> QED
    BY <2>2, <2>3, <2>4
<1> QED
  BY <1>1, ConfigKept, PTL

\* No request is longer than the protocol allows, unless one signal alone is
\* (coalesce of poll_manager.py).
THEOREM WithinLimits == Spec => []PlanWithinLimits
<1>1. ConfigInv => PlanWithinLimits
  <2> SUFFICES ASSUME ConfigInv, NEW t \in Tables, NEW b \in ToSet(Plan(t)),
                      LengthOf(b) > MaxRead[t]
               PROVE  \E s \in ToSet(b.signals) : s.length > MaxRead[t]
    BY DEF PlanWithinLimits
  <2>1. PICK k \in DOMAIN Plan(t) : b = Plan(t)[k]
    BY DEF ToSet
  <2>2. Configured(layout) /\ gap \in Nat
    BY ConfigIsSound
  <2>3. /\ b.start \in Nat /\ b.end \in Nat
        /\ DOMAIN b.signals = 1..Len(b.signals)
        /\ Serves(b, Len(layout), MaxRead[t])
    BY <2>1, <2>2, CoalesceServes DEF Plan
  <2>4. MaxRead[t] \in Nat
    BY MaxReadAssumption DEF Tables
  <2>5. PICK j \in 1..Len(b.signals) : b.signals[j].length > MaxRead[t]
    BY <2>3, <2>4 DEF Serves, LengthOf
  <2> QED
    BY <2>3, <2>5 DEF ToSet
<1> QED
  BY <1>1, ConfigKept, PTL

\* A configured signal is in a block of its table that has its cells.
LEMMA BlockOfHasSignal ==
    ASSUME ConfigInv, NEW s \in ToSet(layout)
    PROVE  /\ BlockOf(s).start \in Nat /\ BlockOf(s).end \in Nat
           /\ BlockOf(s).start <= s.address /\ EndOf(s) <= BlockOf(s).end
<1> DEFINE blocks == Plan(s.table)
           D == {i \in DOMAIN layout : layout[i] = s}
<1>1. Configured(layout) /\ gap \in Nat /\ s.table \in Tables
  BY ConfigIsSound
<1>2. /\ \A k \in DOMAIN blocks :
            /\ blocks[k].start \in Nat /\ blocks[k].end \in Nat
            /\ DOMAIN blocks[k].signals = 1..Len(blocks[k].signals)
            /\ Serves(blocks[k], Len(layout), MaxRead[s.table])
      /\ Cardinality(Places(blocks, s, Len(layout))) = Cardinality(D)
  BY <1>1, CoalesceServes DEF Plan
<1>3. Cardinality(D) # 0
  <2>1. IsFiniteSet(1..Len(layout)) /\ DOMAIN layout = 1..Len(layout)
    BY <1>1, ConfiguredSignals, FS_Interval
  <2>2. D \in SUBSET (1..Len(layout))
    BY <2>1
  <2>3. IsFiniteSet(D) /\ D # {}
    BY <2>1, <2>2, FS_Subset DEF ToSet
  <2> QED
    BY <2>3, FS_EmptySet
<1>4. \E k \in DOMAIN blocks : s \in ToSet(blocks[k].signals)
  <2>1. Places(blocks, s, Len(layout)) # {}
    BY <1>2, <1>3, FS_EmptySet
  <2>2. PICK ij \in (DOMAIN blocks) \X (1..Len(layout)) :
           ij[2] \in DOMAIN blocks[ij[1]].signals /\ blocks[ij[1]].signals[ij[2]] = s
    BY <2>1 DEF Places
  <2> QED
    BY <2>2 DEF ToSet
<1>5. PICK k \in DOMAIN blocks : BlockOf(s) = blocks[k] /\ s \in ToSet(blocks[k].signals)
  BY <1>4 DEF BlockOf
<1>6. PICK j \in 1..Len(blocks[k].signals) : blocks[k].signals[j] = s
  BY <1>2, <1>5 DEF ToSet
<1> QED
  BY <1>2, <1>5, <1>6 DEF Serves

\* The slice of a block is what a read of the signal alone returns.
LEMMA PollsAgree ==
    ASSUME ConfigInv
    PROVE  PollAgreesWithRead
<1> SUFFICES ASSUME NEW s \in ToSet(layout)
             PROVE  PolledValue(s) = ReadValue(s)
  BY DEF PollAgreesWithRead
<1> DEFINE b == BlockOf(s)
           off == s.address - b.start
           data == Request(s.table, b.start, LengthOf(b))
           direct == Request(s.table, s.address, s.length)
           cells == {memory[s.table][a] : a \in Nat}
<1>1. /\ b.start \in Nat /\ b.end \in Nat /\ s.address \in Nat /\ s.length \in Nat
      /\ b.start <= s.address /\ s.address + s.length <= b.end
  BY BlockOfHasSignal, ConfigIsSound DEF EndOf
<1>2. off \in Nat /\ off + s.length <= LengthOf(b) /\ LengthOf(b) \in Nat
  BY <1>1 DEF LengthOf
<1>3. \A i \in 1..LengthOf(b) : data[i] = memory[s.table][b.start + i - 1]
  BY DEF Request
<1>4. /\ DOMAIN direct = 1..s.length
      /\ \A i \in 1..s.length : direct[i] = memory[s.table][s.address + i - 1]
  BY DEF Request
<1>5. \A i \in (off + 1)..(off + s.length) : data[i] \in cells
  <2> SUFFICES ASSUME NEW i \in (off + 1)..(off + s.length)
               PROVE  data[i] \in cells
    OBVIOUS
  <2> DEFINE a == b.start + i - 1
  <2>1. i \in 1..LengthOf(b) /\ a \in Nat
    BY <1>1, <1>2
  <2> HIDE DEF data, b, off, direct
  <2>2. data[i] = memory[s.table][a]
    BY <1>3, <2>1
  <2> HIDE DEF a
  <2> QED
    BY <2>1, <2>2
<1>6. direct \in Seq(cells) /\ Len(direct) = s.length
  <2>1. \A i \in 1..s.length : s.address + i - 1 \in Nat
    BY <1>1
  <2>2. direct \in [1..s.length -> cells]
    BY <1>4, <2>1 DEF Request
  <2>3. s.length \in Nat
    BY <1>1
  <2> HIDE DEF direct, cells
  <2> QED
    BY <2>2, <2>3
<1> HIDE DEF data, direct, cells, b
<1>7. /\ SubSeq(data, off + 1, off + s.length) \in Seq(cells)
      /\ Len(SubSeq(data, off + 1, off + s.length)) = s.length
      /\ \A i \in 1..s.length : SubSeq(data, off + 1, off + s.length)[i] = data[off + i]
  <2> DEFINE m == off + 1
             n == off + s.length
  <2>1. m \in Int /\ n \in Int /\ n - m + 1 = s.length /\ (m <= n <=> s.length # 0)
    BY <1>1, <1>2
  <2>2. \A i \in m..n : data[i] \in cells
    BY <1>5
  <2>3. \A i \in 1..s.length : m + i - 1 = off + i
    BY <1>1, <1>2
  <2> HIDE DEF m, n
  <2>4. /\ SubSeq(data, m, n) \in Seq(cells)
        /\ Len(SubSeq(data, m, n)) = IF m <= n THEN n - m + 1 ELSE 0
        /\ \A i \in 1..(n - m + 1) : SubSeq(data, m, n)[i] = data[m + i - 1]
    BY <2>1, <2>2, SubSeqProperties
  <2>5. Len(SubSeq(data, m, n)) = s.length
    BY <1>1, <2>1, <2>4
  <2>6. \A i \in 1..s.length : SubSeq(data, m, n)[i] = data[off + i]
    BY <2>1, <2>3, <2>4
  <2> QED
    BY <2>4, <2>5, <2>6 DEF m, n
<1>8. \A i \in 1..s.length : data[off + i] = direct[i]
  <2> SUFFICES ASSUME NEW i \in 1..s.length
               PROVE  data[off + i] = direct[i]
    OBVIOUS
  <2>1. off + i \in 1..LengthOf(b) /\ b.start + (off + i) - 1 = s.address + i - 1
    BY <1>1, <1>2
  <2> QED
    BY <1>3, <1>4, <2>1
<1>9. SubSeq(data, off + 1, off + s.length) = direct
  BY <1>6, <1>7, <1>8, SeqEqual
<1> QED
  BY <1>9 DEF PolledValue, ReadValue, Slice, data, direct, b

\* A poll and sb/read decode the same cells, for any layout, gap and memory
\* (_poll_group of poll_manager.py, _read_one of command_service.py).
THEOREM PollsWhatReadsRead == Spec => []PollAgreesWithRead
BY PollsAgree, ConfigKept, PTL

-----------------------------------------------------------------------------
(* No plan has fewer reads: the signals with which the blocks begin cannot *)
(* share a read with one another.                                          *)

\* lead[k] is the signal with which block k begins; it did not fit into block
\* k - 1, which reaches as far as all signals before lead[k].
Leads(lead, blocks, sorted, n, maxGap, limit) ==
    /\ lead \in [1..Len(blocks) -> 1..n]
    /\ Len(blocks) = 0 => n = 0
    /\ \A k \in 1..Len(blocks) : blocks[k].start = sorted[lead[k]].address
    /\ \A k, l \in 1..Len(blocks) : k < l => lead[k] < lead[l]
    /\ \A k \in 1..(Len(blocks) - 1) :
          \/ EndOf(sorted[lead[k + 1]]) - blocks[k].start > limit
          \/ sorted[lead[k + 1]].address > blocks[k].end + maxGap
    /\ \A k \in 1..Len(blocks), m \in 1..n :
          k = Len(blocks) \/ m < lead[k + 1] => EndOf(sorted[m]) <= blocks[k].end

\* A block of signals that each fit into a request fits into one.
LEMMA BlockIsShort ==
    ASSUME NEW sorted, NEW table, NEW maxGap, Input(sorted, table, maxGap),
           \A s \in Range(sorted) : s.length <= MaxRead[table],
           NEW n \in 0..Len(sorted), NEW k \in 1..Len(Coalescing(sorted, maxGap)[n])
    PROVE  LET b == Coalescing(sorted, maxGap)[n][k]
           IN  b.start \in Nat /\ b.end \in Nat /\ b.end - b.start <= MaxRead[table]
<1> DEFINE b == Coalescing(sorted, maxGap)[n][k]
<1>1. b \in BlocksOf(Range(sorted)) /\ Serves(b, n, MaxRead[table])
  BY PlanServes, ElementOfSeq
<1>2. b.start \in Nat /\ b.end \in Nat /\ b.signals \in Seq(Range(sorted))
  BY <1>1 DEF BlocksOf
<1>3. \A j \in 1..Len(b.signals) : b.signals[j] \in Range(sorted)
  BY <1>2, ElementOfSeq
<1>4. MaxRead[table] \in Nat /\ \A s \in Range(sorted) : s.length \in Nat
  BY MaxReadAssumption DEF Input, Configured, Tables
<1> HIDE DEF b
<1>5. b.end - b.start <= MaxRead[table]
  BY <1>1, <1>2, <1>3, <1>4 DEF Serves, LengthOf
<1> QED
  BY <1>2, <1>5 DEF b

LEMMA JoinedLeads ==
    ASSUME NEW V, NEW before \in Seq(BlocksOf(V)), NEW after, NEW sorted, NEW n \in Nat,
           NEW maxGap \in Nat, NEW limit \in Nat,
           \A m \in 1..(n + 1) : EndOf(sorted[m]) \in Nat,
           Joined(before, after, sorted[n + 1], maxGap),
           NEW lead, Leads(lead, before, sorted, n, maxGap, limit)
    PROVE  Leads(lead, after, sorted, n + 1, maxGap, limit)
<1> DEFINE last == Len(before)
           s == sorted[n + 1]
<1>1. /\ last \in Nat /\ last > 0 /\ Len(after) = last
      /\ \A k \in 1..last : before[k] \in BlocksOf(V)
      /\ \A k \in 1..(last - 1) : after[k] = before[k]
      /\ after[last] = Join(before[last], s)
  BY LenProperties, ElementOfSeq DEF Joined
<1>2. \A k \in 1..last : before[k].start \in Nat /\ before[k].end \in Nat
  BY <1>1 DEF BlocksOf
<1>3. EndOf(s) \in Nat
  OBVIOUS
<1>4. /\ after[last].start = before[last].start
      /\ before[last].end <= after[last].end /\ EndOf(s) <= after[last].end
      /\ after[last].end \in Nat
  <2>1. last \in 1..last
    BY <1>1
  <2>2. before[last] \in BlocksOf(V) /\ before[last].end \in Nat
    BY <1>1, <1>2, <2>1
  <2>3. /\ after[last].start = before[last].start
        /\ after[last].end = Larger(before[last].end, EndOf(s))
    BY <1>1, <2>2 DEF Join, BlocksOf
  <2> HIDE DEF s, last
  <2> QED
    BY <1>3, <2>2, <2>3 DEF Larger
<1>5. /\ lead \in [1..last -> 1..n] /\ lead \in [1..last -> 1..(n + 1)]
      /\ \A k \in 1..last : lead[k] \in 1..n
  <2>1. lead \in [1..last -> 1..n]
    BY Zenon DEF Leads
  <2>2. 1..n \subseteq 1..(n + 1)
    OBVIOUS
  <2> QED
    BY <2>1, <2>2
<1>6. ASSUME NEW k \in 1..last
      PROVE  after[k].start = sorted[lead[k]].address
  <2>1. before[k].start = sorted[lead[k]].address
    BY Zenon DEF Leads
  <2>2. k = last \/ k \in 1..(last - 1)
    BY <1>1
  <2> QED
    BY <1>1, <1>4, <2>1, <2>2
<1>7. ASSUME NEW k \in 1..(last - 1)
      PROVE  \/ EndOf(sorted[lead[k + 1]]) - after[k].start > limit
             \/ sorted[lead[k + 1]].address > after[k].end + maxGap
  BY <1>1, <1>7 DEF Leads
<1>8. ASSUME NEW k \in 1..last, NEW m \in 1..(n + 1), k = last \/ m < lead[k + 1]
      PROVE  EndOf(sorted[m]) <= after[k].end
  <2>1. CASE k = last /\ m = n + 1
    BY <1>4, <2>1
  <2>2. CASE k = last /\ m \in 1..n
    <3>1. EndOf(sorted[m]) <= before[last].end
      BY <1>1, <2>2 DEF Leads
    <3>2. EndOf(sorted[m]) \in Nat /\ before[last].end \in Nat
      BY <1>1, <1>2
    <3> QED
      BY <1>4, <2>2, <3>1, <3>2, SMTT(30)
  <2>3. CASE k # last
    <3>1. k \in 1..(last - 1) /\ k + 1 \in 1..last
      BY <1>1, <2>3
    <3>2. m \in 1..n
      BY <1>5, <1>8, <2>3, <3>1
    <3> QED
      BY <1>1, <1>8, <2>3, <3>1, <3>2 DEF Leads
  <2> QED
    BY <2>1, <2>2, <2>3
<1>9. \A k, l \in 1..last : k < l => lead[k] < lead[l]
  BY DEF Leads
<1> QED
  BY <1>1, <1>5, <1>6, <1>7, <1>8, <1>9 DEF Leads

LEMMA BegunLeads ==
    ASSUME NEW V, NEW before \in Seq(BlocksOf(V)), NEW after, NEW sorted, NEW n \in Nat,
           NEW maxGap \in Nat, NEW limit \in Nat,
           \A m \in 1..(n + 1) : /\ EndOf(sorted[m]) \in Nat /\ sorted[m].address \in Nat
                                 /\ sorted[m].address <= EndOf(sorted[m]),
           limit = MaxRead[sorted[n + 1].table],
           \A k \in 1..Len(before) : before[k].end - before[k].start <= limit,
           Begun(before, after, sorted[n + 1], maxGap),
           NEW lead, Leads(lead, before, sorted, n, maxGap, limit)
    PROVE  \E new : Leads(new, after, sorted, n + 1, maxGap, limit)
<1> DEFINE last == Len(before)
           s == sorted[n + 1]
           new == [k \in 1..(last + 1) |-> IF k = last + 1 THEN n + 1 ELSE lead[k]]
<1>1. /\ last \in Nat
      /\ \A k \in 1..last : before[k].start \in Nat /\ before[k].end \in Nat
  <2>1. \A k \in 1..last : before[k] \in BlocksOf(V)
    BY ElementOfSeq
  <2> QED
    BY <2>1, LenProperties DEF BlocksOf
<1>2. /\ Len(after) = last + 1
      /\ \A k \in 1..last : after[k] = before[k]
      /\ after[last + 1] = NewBlock(s)
      /\ last > 0 => ~Joins(before[last], s, maxGap)
  BY Zenon DEF Begun
<1>3. /\ EndOf(s) \in Nat /\ s.address \in Nat /\ s.address <= EndOf(s)
      /\ after[last + 1].start = s.address /\ after[last + 1].end = EndOf(s)
  BY <1>2 DEF NewBlock
<1>4. /\ \A k \in 1..last : lead[k] \in 1..n
      /\ last = 0 => n = 0
  BY DEF Leads
<1>5. /\ new[last + 1] = n + 1
      /\ \A k \in 1..last : k \in 1..(last + 1) /\ new[k] = lead[k]
  BY <1>1
<1>6. new \in [1..(last + 1) -> 1..(n + 1)]
  BY <1>1, <1>4
<1> HIDE DEF new, last
<1>7. \A k \in 1..(last + 1) : after[k].start = sorted[new[k]].address
  <2> SUFFICES ASSUME NEW k \in 1..(last + 1)
               PROVE  after[k].start = sorted[new[k]].address
    OBVIOUS
  <2>1. CASE k = last + 1
    BY <1>3, <1>5, <2>1
  <2>2. CASE k \in 1..last
    BY <1>2, <1>5, <2>2 DEF Leads, last
  <2> QED
    BY <1>1, <2>1, <2>2
<1>8. \A k, l \in 1..(last + 1) : k < l => new[k] < new[l]
  <2> SUFFICES ASSUME NEW k \in 1..(last + 1), NEW l \in 1..(last + 1), k < l
               PROVE  new[k] < new[l]
    OBVIOUS
  <2>1. k \in 1..last /\ new[k] = lead[k] /\ lead[k] \in 1..n
    BY <1>1, <1>4, <1>5
  <2>2. CASE l = last + 1
    BY <1>5, <2>1, <2>2
  <2>3. CASE l \in 1..last
    BY <1>5, <2>1, <2>3 DEF Leads, last
  <2> QED
    BY <1>1, <2>2, <2>3
\* The new signal did not fit, and reaches beyond the last block.
<1>9. last > 0 => /\ \/ EndOf(s) - before[last].start > limit
                     \/ s.address > before[last].end + maxGap
                  /\ before[last].end < EndOf(s)
  <2> SUFFICES ASSUME last > 0
               PROVE  /\ \/ EndOf(s) - before[last].start > limit
                         \/ s.address > before[last].end + maxGap
                      /\ before[last].end < EndOf(s)
    OBVIOUS
  <2>1. /\ last \in 1..last /\ before[last].start \in Nat /\ before[last].end \in Nat
        /\ before[last].end - before[last].start <= limit
    BY <1>1 DEF last
  <2>2. \/ ~(s.address <= before[last].end + maxGap)
        \/ ~(EndOf(s) - before[last].start <= limit)
    BY <1>2 DEF Joins
  <2> DEFINE start == before[last].start
             end == before[last].end
             address == s.address
             newEnd == EndOf(s)
  <2>3. /\ start \in Nat /\ end \in Nat /\ address \in Nat /\ newEnd \in Nat
        /\ end - start <= limit /\ address <= newEnd
        /\ ~(address <= end + maxGap) \/ ~(newEnd - start <= limit)
    BY <1>3, <2>1, <2>2
  <2> HIDE DEF start, end, address, newEnd
  <2>4. (newEnd - start > limit \/ address > end + maxGap) /\ end < newEnd
    BY <2>3
  <2> QED
    BY <2>4 DEF start, end, address, newEnd
<1>10. ASSUME NEW k \in 1..last
       PROVE  \/ EndOf(sorted[new[k + 1]]) - after[k].start > limit
              \/ sorted[new[k + 1]].address > after[k].end + maxGap
  <2>1. CASE k = last
    BY <1>2, <1>5, <1>9, <2>1
  <2>2. CASE k \in 1..(last - 1)
    <3>1. k + 1 \in 1..last
      BY <1>1, <2>2
    <3> QED
      BY <1>2, <1>5, <2>2, <3>1 DEF Leads, last
  <2> QED
    BY <1>1, <2>1, <2>2
<1>11. ASSUME NEW k \in 1..(last + 1), NEW m \in 1..(n + 1), k = last + 1 \/ m < new[k + 1]
       PROVE  EndOf(sorted[m]) <= after[k].end
  <2>1. CASE m = n + 1
    <3>1. k = last + 1
      <4>1. CASE k \in 1..last
        <5>1. k + 1 \in 1..(last + 1)
          BY <1>1, <4>1
        <5>2. new[k + 1] \in 1..(n + 1)
          BY <1>6, <5>1
        <5> QED
          BY <1>1, <1>11, <2>1, <4>1, <5>2
      <4> QED
        BY <1>1, <4>1
    <3> QED
      BY <1>3, <2>1, <3>1
  <2>2. CASE m \in 1..n
    <3>1. last \in 1..last /\ EndOf(sorted[m]) <= before[last].end
      <4>1. last # 0
        BY <1>4, <2>2
      <4>2. last \in 1..last
        BY <1>1, <4>1
      <4>3. EndOf(sorted[m]) <= before[last].end
        BY <2>2, <4>2, Zenon DEF Leads, last
      <4> QED
        BY <4>2, <4>3
    <3>2. CASE k = last + 1
      <4>1. before[last].end < EndOf(s) /\ before[last].end \in Nat /\ EndOf(sorted[m]) \in Nat
        <5>1. EndOf(sorted[m]) \in Nat
          BY <2>2
        <5> QED
          BY <1>1, <1>9, <3>1, <5>1
      <4> QED
        BY <1>3, <3>1, <3>2, <4>1, SMTT(30)
    <3>3. CASE k = last
      BY <1>2, <3>1, <3>3
    <3>4. CASE k \in 1..(last - 1)
      <4>1. k \in 1..last /\ k + 1 \in 1..last /\ new[k + 1] = lead[k + 1]
        BY <1>1, <1>5, <3>4
      <4>2. m < lead[k + 1]
        BY <1>1, <1>11, <3>4, <4>1
      <4> QED
        BY <1>2, <2>2, <4>1, <4>2 DEF Leads, last
    <3> QED
      BY <1>1, <3>2, <3>3, <3>4
  <2> QED
    BY <2>1, <2>2
<1>12. (last + 1) - 1 = last /\ last + 1 # 0
  BY <1>1
<1>13. Leads(new, after, sorted, n + 1, maxGap, limit)
  BY <1>2, <1>6, <1>7, <1>8, <1>10, <1>11, <1>12 DEF Leads
<1> QED
  BY <1>13

LEMMA PlanLeads ==
    ASSUME NEW sorted, NEW table, NEW maxGap, Input(sorted, table, maxGap),
           \A s \in Range(sorted) : s.length <= MaxRead[table],
           NEW n \in 0..Len(sorted)
    PROVE  \E lead : Leads(lead, Coalescing(sorted, maxGap)[n], sorted, n, maxGap, MaxRead[table])
<1> DEFINE plan == Coalescing(sorted, maxGap)
           N == Len(sorted)
           V == Range(sorted)
           limit == MaxRead[table]
           S == {m \in 0..N : \E lead : Leads(lead, plan[m], sorted, m, maxGap, limit)}
<1>1. N \in Nat /\ limit \in Nat /\ maxGap \in Nat
  BY ConfiguredSignals, MaxReadAssumption DEF Input, Tables
<1>2. 0 \in S
  <2>1. plan[0] = <<>>
    BY CoalescingSteps
  <2>2. Len(plan[0]) = 0
    BY <2>1
  <2> DEFINE none == [k \in 1..0 |-> 0]
  <2>3. none \in [1..0 -> 1..0]
    OBVIOUS
  <2> HIDE DEF none
  <2>4. Leads(none, plan[0], sorted, 0, maxGap, limit)
    BY <2>2, <2>3 DEF Leads
  <2> QED
    BY <1>1, <2>4
<1>3. ASSUME NEW m \in 0..(N - 1), m \in S
      PROVE  m + 1 \in S
  <2> DEFINE before == plan[m]
             after == plan[m + 1]
  <2>1. /\ before \in Seq(BlocksOf(V)) /\ after \in Seq(BlocksOf(V))
        /\ sorted[m + 1].table = table
        /\ \/ Joined(before, after, sorted[m + 1], maxGap)
           \/ Begun(before, after, sorted[m + 1], maxGap)
    BY PlanSteps
  <2>2. m \in Nat /\ m + 1 \in 0..N /\ m \in 0..N
    BY <1>1
  <2>3. PICK lead : Leads(lead, before, sorted, m, maxGap, limit)
    BY <1>3
  <2>4. \A i \in 1..(m + 1) : /\ EndOf(sorted[i]) \in Nat /\ sorted[i].address \in Nat
                              /\ sorted[i].address <= EndOf(sorted[i])
    <3> SUFFICES ASSUME NEW i \in 1..(m + 1)
                 PROVE  /\ EndOf(sorted[i]) \in Nat /\ sorted[i].address \in Nat
                        /\ sorted[i].address <= EndOf(sorted[i])
      OBVIOUS
    <3>1. i \in 1..N
      BY <1>1
    <3> QED
      BY <3>1, ConfiguredSignals DEF Input, EndOf
  <2>5. \A k \in 1..Len(before) : before[k].end - before[k].start <= limit
    BY <2>2, BlockIsShort
  <2>6. CASE Joined(before, after, sorted[m + 1], maxGap)
    <3> HIDE DEF before, after, V, limit, S
    <3>1. Leads(lead, after, sorted, m + 1, maxGap, limit)
      BY <1>1, <2>1, <2>2, <2>3, <2>4, <2>6, JoinedLeads
    <3> QED
      BY <2>2, <3>1 DEF S, after
  <2>7. CASE Begun(before, after, sorted[m + 1], maxGap)
    <3>1. limit = MaxRead[sorted[m + 1].table]
      BY <2>1
    <3> HIDE DEF before, after, V, limit, S
    <3>2. \E new : Leads(new, after, sorted, m + 1, maxGap, limit)
      BY <1>1, <2>1, <2>2, <2>3, <2>4, <2>5, <2>7, <3>1, BegunLeads
    <3> QED
      BY <2>2, <3>2 DEF S, after
  <2> QED
    BY <2>1, <2>6, <2>7
<1>4. \A m \in 0..N : m \in S
  <2> HIDE DEF S, N
  <2> QED
    BY <1>1, <1>2, <1>3, InductTo
<1> QED
  BY <1>4

\* What two leaders would have to satisfy to share a read.
LEMMA LeadersAreApart ==
    ASSUME NEW sigs, Configured(sigs), NEW table \in Tables, NEW maxGap \in Nat,
           NEW lead, NEW blocks,
           Leads(lead, blocks, Sorted(sigs, table), Len(Sorted(sigs, table)), maxGap,
                 MaxRead[table]),
           Len(blocks) \in Nat,
           \A k \in 1..Len(blocks) : blocks[k].start \in Nat /\ blocks[k].end \in Nat,
           NEW k \in 1..Len(blocks), NEW l \in 1..Len(blocks), k < l,
           NEW J \in SUBSET InTable(sigs, table),
           Order(sigs, table)[lead[k]] \in J, Order(sigs, table)[lead[l]] \in J,
           OneRead(sigs, J, table, maxGap)
    PROVE  FALSE
<1> DEFINE sorted == Sorted(sigs, table)
           order == Order(sigs, table)
           N == Len(sorted)
           a == order[lead[k]]
           c == order[lead[l]]
           p == l - 1
           limit == MaxRead[table]
<1>1. /\ N \in Nat /\ N = Cardinality(InTable(sigs, table))
      /\ \A m \in 1..N : sorted[m] = sigs[order[m]] /\ order[m] \in InTable(sigs, table)
      /\ \A m \in 1..N : \A i \in 1..m : sorted[i].address <= sorted[m].address
  BY SortedSignals, TableIsFinite
<1>2. /\ \A i \in InTable(sigs, table) : \E m \in 1..N : order[m] = i
      /\ \A m, n \in 1..N : m < n => Before(sigs, order[m], order[n])
  <2>1. /\ \A i \in InTable(sigs, table) :
              \E m \in 1..Cardinality(InTable(sigs, table)) : order[m] = i
        /\ \A m, n \in 1..Cardinality(InTable(sigs, table)) :
              m < n => Before(sigs, order[m], order[n])
    BY OrderSorts, SMTT(30)
  <2> HIDE DEF N, order
  <2> QED
    BY <1>1, <2>1
<1>3. \A i \in InTable(sigs, table) :
         /\ i \in DOMAIN sigs
         /\ sigs[i].address \in Nat /\ EndOf(sigs[i]) \in Nat /\ limit \in Nat
         /\ sigs[i].address <= EndOf(sigs[i])
  <2>1. InTable(sigs, table) \subseteq DOMAIN sigs
    BY TableIsFinite
  <2>2. limit \in Nat
    BY MaxReadAssumption DEF Tables
  <2> SUFFICES ASSUME NEW i \in InTable(sigs, table)
               PROVE  /\ i \in DOMAIN sigs
                      /\ sigs[i].address \in Nat /\ EndOf(sigs[i]) \in Nat
                      /\ sigs[i].address <= EndOf(sigs[i])
    BY <2>2
  <2>3. i \in DOMAIN sigs
    BY <2>1
  <2>4. sigs[i].address \in Nat /\ sigs[i].length \in Nat \ {0} /\ EndOf(sigs[i]) \in Nat
    BY <2>3, ConfiguredSignals
  <2> QED
    BY <2>3, <2>4 DEF EndOf
<1>4. /\ p \in 1..Len(blocks) /\ p \in 1..(Len(blocks) - 1) /\ p + 1 = l /\ k <= p
      /\ p # Len(blocks)
  OBVIOUS
<1>5. \A q \in 1..Len(blocks) : lead[q] \in 1..N
  <2>1. lead \in [1..Len(blocks) -> 1..N]
    BY Zenon DEF Leads
  <2> QED
    BY <2>1
<1>6. /\ lead[k] < lead[l] /\ (k < p => lead[k] < lead[p])
      /\ blocks[p].start = sorted[lead[p]].address
  BY <1>4, Zenon DEF Leads
<1>7. /\ \A i, j \in J : EndOf(sigs[i]) - sigs[j].address <= limit
      /\ \/ \A j \in J : sigs[c].address <= sigs[j].address
         \/ \E j \in J \ {c} : Before(sigs, j, c) /\ sigs[c].address <= EndOf(sigs[j]) + maxGap
  BY DEF OneRead, Before
<1>8. \A m \in 1..N : m < lead[l] => EndOf(sorted[m]) <= blocks[p].end
  <2>1. \A m \in 1..N : m < lead[p + 1] => EndOf(sorted[m]) <= blocks[p].end
    BY <1>4, Zenon DEF Leads
  <2> QED
    BY <1>4, <2>1
<1>9. \/ EndOf(sorted[lead[l]]) - blocks[p].start > limit
      \/ sorted[lead[l]].address > blocks[p].end + maxGap
  <2>1. \/ EndOf(sorted[lead[p + 1]]) - blocks[p].start > limit
        \/ sorted[lead[p + 1]].address > blocks[p].end + maxGap
    BY <1>4, Zenon DEF Leads
  <2> QED
    BY <1>4, <2>1
<1>10. /\ lead[k] \in 1..N /\ lead[l] \in 1..N /\ lead[p] \in 1..N
       /\ sorted[lead[k]] = sigs[a] /\ sorted[lead[l]] = sigs[c]
       /\ a \in J /\ c \in J
  BY <1>1, <1>4, <1>5
<1>11. CASE EndOf(sorted[lead[l]]) - blocks[p].start > limit
  <2>1. lead[k] \in 1..lead[p]
    BY <1>4, <1>6, <1>10, SMTT(30)
  <2>2. sorted[lead[k]].address <= sorted[lead[p]].address
    BY <1>1, <1>10, <2>1
  <2>3. EndOf(sigs[c]) - sigs[a].address <= limit
    BY <1>7, <1>10
  <2>4. sigs[a].address \in Nat /\ EndOf(sigs[c]) \in Nat /\ blocks[p].start \in Nat /\ limit \in Nat
    BY <1>3, <1>4, <1>10
  <2>5. sigs[a].address <= blocks[p].start /\ EndOf(sigs[c]) - blocks[p].start > limit
    BY <1>6, <1>10, <1>11, <2>2
  <2> HIDE DEF a, c, p, limit
  <2> QED
    BY <2>3, <2>4, <2>5
<1>12. CASE sorted[lead[l]].address > blocks[p].end + maxGap
  <2>1. sigs[c].address \in Nat /\ sigs[a].address \in Nat /\ EndOf(sigs[a]) \in Nat
        /\ blocks[p].end \in Nat /\ sigs[a].address <= EndOf(sigs[a])
        /\ sigs[c].address > blocks[p].end + maxGap
    BY <1>3, <1>4, <1>10, <1>12
  <2>2. CASE \A j \in J : sigs[c].address <= sigs[j].address
    <3>1. sigs[c].address <= sigs[a].address /\ EndOf(sigs[a]) <= blocks[p].end
      BY <1>6, <1>8, <1>10, <2>2
    <3> HIDE DEF a, c, p
    <3> QED
      BY <2>1, <3>1, SMTT(30)
  <2>3. CASE \E j \in J \ {c} : Before(sigs, j, c) /\ sigs[c].address <= EndOf(sigs[j]) + maxGap
    <3>1. PICK j \in J \ {c} : Before(sigs, j, c) /\ sigs[c].address <= EndOf(sigs[j]) + maxGap
      BY <2>3
    <3>2. PICK m \in 1..N : order[m] = j
      BY <1>2
    <3>3. m < lead[l]
      <4>1. m # lead[l]
        BY <3>2
      <4>2. CASE m > lead[l]
        <5>1. Before(sigs, c, j)
          BY <1>2, <1>10, <3>2, <4>2
        <5> QED
          BY <1>3, <1>10, <3>1, <5>1, BeforeIsTotal
      <4> QED
        BY <1>10, <4>1, <4>2
    <3>4. EndOf(sigs[j]) <= blocks[p].end /\ EndOf(sigs[j]) \in Nat
      BY <1>1, <1>3, <1>8, <3>2, <3>3
    <3> HIDE DEF a, c, p
    <3> QED
      BY <2>1, <3>1, <3>4, SMTT(30)
  <2> QED
    BY <1>7, <2>2, <2>3
<1> QED
  BY <1>9, <1>11, <1>12

LEMMA CoalesceIsOptimal ==
    ASSUME NEW sigs, Configured(sigs), NEW table \in Tables, NEW maxGap \in Nat,
           Len(Coalesce(sigs, table, maxGap)) > 0
    PROVE  ~Served(sigs, table, maxGap, Len(Coalesce(sigs, table, maxGap)) - 1)
<1> DEFINE I == InTable(sigs, table)
           sorted == Sorted(sigs, table)
           order == Order(sigs, table)
           blocks == Coalesce(sigs, table, maxGap)
           n == Len(blocks)
           limit == MaxRead[table]
<1>1. SUFFICES ASSUME NEW read \in [I -> 1..(n - 1)],
                      \A r \in 1..(n - 1) : OneRead(sigs, {i \in I : read[i] = r}, table, maxGap)
               PROVE  FALSE
  BY DEF Served, InTable
<1>2. /\ Input(sorted, table, maxGap) /\ Len(sorted) \in 0..Len(sorted)
      /\ blocks = Coalescing(sorted, maxGap)[Len(sorted)]
  BY CoalesceIsLast
<1>3. \A m \in 1..Len(sorted) : order[m] \in I /\ sorted[m] = sigs[order[m]]
  BY SortedSignals
<1>4. n \in Nat /\ \A k \in 1..n : blocks[k].start \in Nat /\ blocks[k].end \in Nat
  BY CoalesceServes
<1>5. \A s \in Range(sorted) : s.length <= limit
  <2> SUFFICES ASSUME NEW m \in DOMAIN sorted
               PROVE  sorted[m].length <= limit
    BY DEF Range
  <2>1. m \in 1..Len(sorted) /\ sorted[m].address \in Nat /\ sorted[m].length \in Nat
    BY <1>2, ConfiguredSignals DEF Input
  <2> DEFINE i == order[m]
  <2>2. i \in I /\ sorted[m] = sigs[i] /\ read[i] \in 1..(n - 1)
    BY <1>3, <2>1
  <2>3. i \in {j \in I : read[j] = read[i]}
    BY <2>2
  <2>4. EndOf(sigs[i]) - sigs[i].address <= limit
    BY <1>1, <2>2, <2>3 DEF OneRead
  <2> HIDE DEF i, limit
  <2> QED
    BY <2>1, <2>2, <2>4 DEF EndOf
<1>6. PICK lead : Leads(lead, blocks, sorted, Len(sorted), maxGap, limit)
  BY <1>2, <1>5, PlanLeads
<1>7. \A k \in 1..n : lead[k] \in 1..Len(sorted)
  <2>1. lead \in [1..n -> 1..Len(sorted)]
    BY <1>6, Zenon DEF Leads
  <2> QED
    BY <2>1
<1> DEFINE f == [k \in 1..n |-> read[order[lead[k]]]]
<1>8. f \in [1..n -> 1..(n - 1)]
  BY <1>3, <1>7
<1>9. \E x, y \in 1..n : x # y /\ f[x] = f[y]
  <2> DEFINE p == n - 1
  <2>1. 1 \in Int /\ n \in Int /\ p \in Int /\ n > 0 /\ p = n - 1
    BY <1>4
  <2>2. f \in [1..n -> 1..p]
    BY <1>8
  <2> HIDE DEF f, n, p
  <2>3. IsFiniteSet(1..n) /\ Cardinality(1..n) = IF 1 > n THEN 0 ELSE n - 1 + 1
    BY <2>1, FS_Interval
  <2>4. IsFiniteSet(1..p) /\ Cardinality(1..p) = IF 1 > p THEN 0 ELSE p - 1 + 1
    BY <2>1, FS_Interval
  <2>5. Cardinality(1..p) < Cardinality(1..n)
    BY <2>1, <2>3, <2>4
  <2> QED
    BY <2>2, <2>3, <2>4, <2>5, FS_PigeonHole
<1>10. PICK k \in 1..n, l \in 1..n : k < l /\ f[k] = f[l]
  BY <1>4, <1>9
<1> DEFINE J == {i \in I : read[i] = f[k]}
<1>11. /\ OneRead(sigs, J, table, maxGap) /\ J \in SUBSET I
       /\ order[lead[k]] \in J /\ order[lead[l]] \in J
  BY <1>1, <1>3, <1>7, <1>8, <1>10
<1> HIDE DEF J, f
<1> QED
  BY <1>4, <1>6, <1>10, <1>11, LeadersAreApart

\* The plan has as few reads as any that keep to the limit and the gap, for any
\* layout: "into the fewest Modbus reads" (poll_manager.py:1).
THEOREM NoFewerReads == Spec => []FewestReads
<1>1. ConfigInv => FewestReads
  <2> SUFFICES ASSUME ConfigInv, NEW t \in Tables, Len(Plan(t)) > 0
               PROVE  ~Served(layout, t, gap, Len(Plan(t)) - 1)
    BY DEF FewestReads
  <2>1. Configured(layout) /\ gap \in Nat
    BY ConfigIsSound
  <2> QED
    BY <2>1, CoalesceIsOptimal DEF Plan
<1> QED
  BY <1>1, ConfigKept, PTL

-----------------------------------------------------------------------------
(* The codec: what is encoded can be decoded.                              *)

\* Powers are positive, and each is the base times the one before.
LEMMA PowerSteps ==
    /\ Power[0] = 1
    /\ \A k \in Nat : Power[k] \in Nat \ {0} /\ Power[k + 1] = ByteBase * Power[k]
<1> DEFINE B == ByteBase
           step == [p \in Nat \X (Nat \ {0}) |-> B * p[1]]
           Recursive(f) == f = [k \in Nat |-> IF k = 0 THEN 1 ELSE B * f[k - 1]]
           one == 1
<1>1. B \in Nat \ {0}
  BY ByteBaseAssumption
<1>2. PICK f \in EndlessRuns(Nat) : Goes(f, one, step)
  <2>1. step \in EndlessSteps(Nat) /\ one \in Nat
    BY <1>1 DEF EndlessSteps
  <2> HIDE DEF step, one
  <2> QED
    BY <2>1, EndlessRecursion
<1>3. f \in [Nat -> Nat] /\ f[0] = 1 /\ \A i \in Nat : f[i + 1] = B * f[i]
  <2>1. \A i \in Nat : <<f[i], i + 1>> \in Nat \X (Nat \ {0})
    BY <1>2 DEF EndlessRuns
  <2> QED
    BY <1>2, <2>1 DEF EndlessRuns, Goes
<1> HIDE DEF B
<1>4. \E g : Recursive(g)
  <2>1. ASSUME NEW k \in Nat
        PROVE  f[k] = IF k = 0 THEN 1 ELSE B * f[k - 1]
    <3>1. k # 0 => k - 1 \in Nat /\ (k - 1) + 1 = k
      OBVIOUS
    <3> QED
      BY <1>3, <3>1
  <2>2. f = [k \in Nat |-> IF k = 0 THEN 1 ELSE B * f[k - 1]]
    BY <1>3, <2>1
  <2> QED
    BY <2>2
<1>5. Recursive(Power)
  <2>1. Power = CHOOSE g : Recursive(g)
    BY DEF Power, B
  <2> HIDE DEF Recursive
  <2> QED
    BY <1>4, <2>1
<1>6. /\ Power[0] = 1
      /\ \A k \in Nat : Power[k + 1] = B * Power[k]
  <2>1. \A k \in Nat : Power[k] = IF k = 0 THEN 1 ELSE B * Power[k - 1]
    BY <1>5
  <2>2. ASSUME NEW k \in Nat
        PROVE  Power[k + 1] = B * Power[k]
    <3>1. k + 1 \in Nat /\ k + 1 # 0 /\ (k + 1) - 1 = k
      OBVIOUS
    <3> QED
      BY <2>1, <3>1
  <2> QED
    BY <2>1, <2>2
<1>7. \A k \in Nat : k \in {n \in Nat : Power[n] \in Nat \ {0}}
  <2> DEFINE S == {n \in Nat : Power[n] \in Nat \ {0}}
  <2>1. 0 \in S
    BY <1>6
  <2>2. \A k \in Nat : k \in S => k + 1 \in S
    BY <1>1, <1>6
  <2> HIDE DEF S
  <2>3. \A k \in Nat : k \in S
    BY <2>1, <2>2, Induct
  <2> QED
    BY <2>3 DEF S
<1> QED
  BY <1>6, <1>7 DEF B

\* Swapping twice is not swapping.
LEMMA SwapTwice ==
    ASSUME NEW V, NEW s \in Seq(V), NEW order
    PROVE  /\ Swap(order, s) \in Seq(V) /\ Len(Swap(order, s)) = Len(s)
           /\ Swap(order, Swap(order, s)) = s
<1>1. Len(s) \in Nat /\ \A i \in 1..Len(s) : s[i] \in V
  BY ElementOfSeq
<1> DEFINE r == Reverse(s)
<1>2. r \in Seq(V) /\ Len(r) = Len(s) /\ \A i \in 1..Len(s) : r[i] = s[(Len(s) - i) + 1]
  BY <1>1 DEF Reverse
<1> HIDE DEF r
<1>3. Reverse(r) \in Seq(V) /\ Len(Reverse(r)) = Len(s)
      /\ \A i \in 1..Len(s) : Reverse(r)[i] = r[(Len(s) - i) + 1]
  <2>1. \A i \in 1..Len(r) : r[(Len(r) - i) + 1] \in V
    BY <1>1, <1>2
  <2> QED
    BY <1>1, <1>2, <2>1 DEF Reverse
<1>4. \A i \in 1..Len(s) : Reverse(r)[i] = s[i]
  <2> SUFFICES ASSUME NEW i \in 1..Len(s)
               PROVE  Reverse(r)[i] = s[i]
    OBVIOUS
  <2>1. (Len(s) - i) + 1 \in 1..Len(s) /\ (Len(s) - ((Len(s) - i) + 1)) + 1 = i
    BY <1>1
  <2> QED
    BY <1>2, <1>3, <2>1
<1>5. Reverse(r) = s
  BY <1>3, <1>4, SeqEqual
<1> QED
  BY <1>2, <1>5 DEF Swap, r

\* The registers of bytes give the bytes back, in either order of words and of
\* the bytes in a word.
LEMMA AssembleInverts ==
    ASSUME NEW sig, NEW n \in Nat, NEW bytes \in Seq(Bytes), Len(bytes) = 2 * n
    PROVE  /\ Disassemble(sig, bytes) \in Seq(Seq(Bytes))
           /\ Len(Disassemble(sig, bytes)) = n
           /\ Assemble(sig, Disassemble(sig, bytes)) = bytes
<1> DEFINE pair == [i \in 1..n |-> <<bytes[2 * i - 1], bytes[2 * i]>>]
           words == [i \in 1..n |-> Swap(sig.byteOrder, pair[i])]
           parts == [i \in DOMAIN words |-> Swap(sig.byteOrder, words[i])]
<1>1. \A i \in 1..n : 2 * i - 1 \in 1..Len(bytes) /\ 2 * i \in 1..Len(bytes)
  OBVIOUS
<1>2. \A i \in 1..n : pair[i] \in Seq(Bytes) /\ Len(pair[i]) = 2
  BY <1>1, ElementOfSeq
<1>3. words \in Seq(Seq(Bytes)) /\ Len(words) = n /\ DOMAIN words = 1..n
  <2>1. \A i \in 1..n : Swap(sig.byteOrder, pair[i]) \in Seq(Bytes)
    BY <1>2, SwapTwice
  <2> HIDE DEF pair
  <2> QED
    BY <2>1
<1>4. Disassemble(sig, bytes) = Swap(sig.wordOrder, words)
  <2>1. Len(bytes) \div 2 = n
    OBVIOUS
  <2>2. words = [i \in 1..n |-> Swap(sig.byteOrder, <<bytes[2 * i - 1], bytes[2 * i]>>)]
    OBVIOUS
  <2> HIDE DEF words
  <2> QED
    BY <2>1, <2>2 DEF Disassemble
<1>5. Swap(sig.wordOrder, Disassemble(sig, bytes)) = words
  <2> HIDE DEF words
  <2> QED
    BY <1>3, <1>4, SwapTwice
<1>6. parts = pair
  <2>1. \A i \in 1..n : Swap(sig.byteOrder, Swap(sig.byteOrder, pair[i])) = pair[i]
    BY <1>2, SwapTwice
  <2> QED
    BY <2>1
<1>7. Assemble(sig, Disassemble(sig, bytes)) = FlattenSeq(pair)
  <2> HIDE DEF words, pair
  <2> QED
    BY <1>5, <1>6 DEF Assemble
<1>8. pair \in Seq(Seq(Bytes)) /\ Len(pair) = n
  BY <1>2
<1>9. PICK h \in Runs(Seq(Bytes), n) : Concatenates(h, pair) /\ FlattenSeq(pair) = h[n]
  <2> HIDE DEF pair
  <2> QED
    BY <1>8, FlattenSteps
<1> DEFINE Alike == {i \in 0..n : Len(h[i]) = 2 * i /\ \A m \in 1..(2 * i) : h[i][m] = bytes[m]}
<1>10. \A i \in 0..n : h[i] \in Seq(Bytes)
  BY <1>9 DEF Runs
<1>11. 0 \in Alike
  BY <1>9, EmptySeq DEF Concatenates
<1>12. ASSUME NEW i \in 0..(n - 1), i \in Alike
       PROVE  i + 1 \in Alike
  <2>1. i + 1 \in 1..n /\ i \in 0..n /\ (i + 1) - 1 = i /\ i + 1 \in 0..n
    OBVIOUS
  <2>2. h[i + 1] = h[i] \o pair[i + 1]
    BY <1>8, <1>9, <2>1 DEF Concatenates
  <2>3. h[i] \in Seq(Bytes) /\ pair[i + 1] \in Seq(Bytes) /\ Len(pair[i + 1]) = 2
    BY <1>2, <1>10, <2>1
  <2>4. pair[i + 1][1] = bytes[2 * i + 1] /\ pair[i + 1][2] = bytes[2 * i + 2]
    BY <2>1
  <2> HIDE DEF pair
  <2>5. /\ Len(h[i + 1]) = 2 * i + 2
        /\ \A m \in 1..(2 * i + 2) :
              h[i + 1][m] = IF m <= 2 * i THEN h[i][m] ELSE pair[i + 1][m - 2 * i]
    <3> DEFINE a == h[i]
               b == pair[i + 1]
    <3>1. a \in Seq(Bytes) /\ b \in Seq(Bytes) /\ Len(a) = 2 * i /\ Len(b) = 2
      BY <1>12, <2>3
    <3> HIDE DEF a, b
    <3>2. /\ Len(a \o b) = 2 * i + 2
          /\ \A m \in 1..(2 * i + 2) : (a \o b)[m] = IF m <= 2 * i THEN a[m] ELSE b[m - 2 * i]
      <4>1. /\ Len(a \o b) = Len(a) + Len(b)
            /\ \A m \in 1..(Len(a) + Len(b)) :
                  (a \o b)[m] = IF m <= Len(a) THEN a[m] ELSE b[m - Len(a)]
        BY <3>1, ConcatProperties
      <4> QED
        BY <3>1, <4>1
    <3> QED
      BY <2>2, <3>2 DEF a, b
  <2>6. ASSUME NEW m \in 1..(2 * i + 2)
        PROVE  h[i + 1][m] = bytes[m]
    <3>1. CASE m <= 2 * i
      BY <1>12, <2>5, <3>1
    <3>2. CASE m > 2 * i
      <4>1. \/ m - 2 * i = 1 /\ m = 2 * i + 1
            \/ m - 2 * i = 2 /\ m = 2 * i + 2
        BY <2>1, <3>2
      <4>2. h[i + 1][m] = pair[i + 1][m - 2 * i]
        BY <2>5, <3>2
      <4> QED
        BY <2>4, <4>1, <4>2
    <3> QED
      BY <3>1, <3>2
  <2>7. 2 * (i + 1) = 2 * i + 2
    OBVIOUS
  <2> QED
    BY <2>1, <2>5, <2>6, <2>7
<1>13. n \in Alike
  <2> HIDE DEF Alike
  <2>1. \A i \in 0..n : i \in Alike
    BY <1>11, <1>12, InductTo
  <2> QED
    BY <2>1
<1>14. h[n] = bytes
  <2>1. h[n] \in Seq(Bytes) /\ Len(h[n]) = Len(bytes) /\ \A m \in 1..Len(bytes) : h[n][m] = bytes[m]
    BY <1>10, <1>13
  <2> QED
    BY <2>1, SeqEqual
<1>15. Disassemble(sig, bytes) \in Seq(Seq(Bytes)) /\ Len(Disassemble(sig, bytes)) = n
  <2> HIDE DEF words
  <2> QED
    BY <1>3, <1>4, SwapTwice
<1> QED
  BY <1>7, <1>9, <1>14, <1>15

\* The largest number of a set, as FoldLeft takes it.
LEMMA MaxIsIn ==
    ASSUME NEW n \in Nat, NEW T \in SUBSET (1..n), T # {}
    PROVE  Max(T) \in T /\ \A y \in T : Max(T) >= y
<1> DEFINE D == {n - x : x \in T}
<1>1. \A x \in T : x \in Nat /\ n - x \in Nat
  OBVIOUS
<1>2. PICK d \in D : \A e \in D : d <= e
  <2>1. D # {} /\ D \subseteq Nat
    BY <1>1
  <2> HIDE DEF D
  <2> QED
    BY <2>1, Least
<1>3. PICK x \in T : d = n - x
  BY <1>2
<1>4. \A y \in T : x >= y
  BY <1>1, <1>2, <1>3
<1> QED
  BY <1>4 DEF Max

\* A number is read byte by byte.
Reads(v, bytes) ==
    /\ v \in [0..Len(bytes) -> Int]
    /\ v[0] = 0
    /\ \A i \in 1..Len(bytes) : v[i] = v[i - 1] * ByteBase + bytes[i]

LEMMA UnsignedSteps ==
    ASSUME NEW bytes \in Seq(Int)
    PROVE  \E v : Reads(v, bytes) /\ Unsigned(bytes) = v[Len(bytes)]
<1> DEFINE n == Len(bytes)
           S == 1..n
           step == [p \in S \X Int |-> p[2] * ByteBase + bytes[p[1]]]
           pick == [T \in (SUBSET S) \ {{}} |-> Max(T)]
           zero == 0
           Recursive(g) == g = [T \in SUBSET S |->
               IF T = {} THEN 0 ELSE g[T \ {Max(T)}] * ByteBase + bytes[Max(T)]]
<1>1. n \in Nat /\ DOMAIN bytes = S /\ IsFiniteSet(S) /\ \A i \in S : bytes[i] \in Int
  BY FS_Interval
<1>2. ByteBase \in Int
  BY ByteBaseAssumption
<1>3. \A T \in SUBSET S : T # {} => Max(T) \in T /\ \A y \in T : Max(T) >= y
  BY <1>1, MaxIsIn
<1>4. /\ step \in FoldSteps(S, Int) /\ pick \in Picks(S) /\ zero \in Int
      /\ \A T \in SUBSET S : T # {} => pick[T] \in T
  <2>1. step \in FoldSteps(S, Int)
    BY <1>1, <1>2 DEF FoldSteps
  <2> HIDE DEF step
  <2>2. pick \in Picks(S) /\ \A T \in SUBSET S : T # {} => pick[T] \in T
    BY <1>3 DEF Picks
  <2>3. zero \in Int
    OBVIOUS
  <2> HIDE DEF pick, zero
  <2> QED
    BY <2>1, <2>2, <2>3
<1>5. PICK g \in FoldRuns(S, Int) : Folding(g, zero, step, pick, S)
  <2> HIDE DEF step, pick, zero, S
  <2> QED
    BY <1>1, <1>4, FoldsExist
<1>6. ASSUME NEW T \in SUBSET S, T # {}
      PROVE  g[T] = g[T \ {Max(T)}] * ByteBase + bytes[Max(T)]
  <2>1. Max(T) \in S /\ T \ {Max(T)} \in SUBSET S /\ pick[T] = Max(T)
    BY <1>3, <1>6
  <2>2. <<Max(T), g[T \ {Max(T)}]>> \in S \X Int
    BY <1>5, <2>1 DEF FoldRuns
  <2>3. g[T] = step[<<pick[T], g[T \ {pick[T]}]>>]
    <3> HIDE DEF step, pick
    <3> QED
      BY <1>5, <1>6 DEF Folding
  <2>4. \A p \in S \X Int : step[p] = p[2] * ByteBase + bytes[p[1]]
    OBVIOUS
  <2> HIDE DEF step, pick
  <2> QED
    BY <2>1, <2>2, <2>3, <2>4
<1>7. g[{}] = 0
  BY <1>5 DEF Folding
<1>8. Recursive(g)
  BY <1>5, <1>6, <1>7 DEF FoldRuns
<1> DEFINE iter == CHOOSE f : Recursive(f)
<1>9. Recursive(iter)
  <2>1. \E f : Recursive(f)
    <3> HIDE DEF Recursive
    <3> QED
      BY <1>8
  <2> HIDE DEF Recursive
  <2> QED
    BY <2>1
<1>10. Unsigned(bytes) = iter[S]
  BY <1>1 DEF Unsigned, FoldLeft, MapThenFoldSet
<1> HIDE DEF iter
<1>11. iter[{}] = 0
  BY <1>9
<1>12. ASSUME NEW i \in 1..n
       PROVE  iter[1..i] = iter[1..(i - 1)] * ByteBase + bytes[i]
  <2>1. (1..i) \in SUBSET S /\ 1..i # {} /\ i \in 1..i
    <3>1. i \in 1..i
      BY <1>1
    <3>2. (1..i) \subseteq S
      BY <1>1
    <3> QED
      BY <3>1, <3>2
  <2>2. Max(1..i) \in 1..i /\ Max(1..i) >= i
    BY <1>3, <2>1
  <2>3. Max(1..i) = i /\ (1..i) \ {i} = 1..(i - 1)
    BY <2>2
  <2>4. iter[1..i] = iter[(1..i) \ {Max(1..i)}] * ByteBase + bytes[Max(1..i)]
    BY <1>9, <2>1
  <2> QED
    BY <2>3, <2>4
<1> DEFINE v == [i \in 0..n |-> iter[1..i]]
<1>13. \A i \in 0..n : iter[1..i] \in Int
  <2> DEFINE Whole == {i \in 0..n : iter[1..i] \in Int}
  <2>1. 0 \in Whole
    <3>1. 1..0 = {} /\ 0 \in 0..n
      BY <1>1
    <3> QED
      BY <1>11, <3>1
  <2>2. ASSUME NEW i \in 0..(n - 1), i \in Whole
        PROVE  i + 1 \in Whole
    <3>1. i + 1 \in 1..n /\ (i + 1) - 1 = i /\ i + 1 \in 0..n
      BY <1>1
    <3>2. iter[1..(i + 1)] = iter[1..i] * ByteBase + bytes[i + 1]
      BY <1>12, <3>1
    <3> QED
      BY <1>1, <1>2, <2>2, <3>1, <3>2
  <2> HIDE DEF Whole, n
  <2>3. \A i \in 0..n : i \in Whole
    BY <1>1, <2>1, <2>2, InductTo
  <2> QED
    BY <2>3 DEF Whole
<1>14. Reads(v, bytes)
  <2>1. 1..0 = {} /\ 0 \in 0..n
    BY <1>1
  <2>2. v \in [0..n -> Int] /\ v[0] = 0
    BY <1>11, <1>13, <2>1
  <2>3. ASSUME NEW i \in 1..n
        PROVE  v[i] = v[i - 1] * ByteBase + bytes[i]
    <3>1. i \in 0..n /\ i - 1 \in 0..n
      BY <1>1
    <3> QED
      BY <1>12, <3>1
  <2> QED
    BY <2>2, <2>3 DEF Reads
<1>15. v[n] = iter[S]
  BY <1>1
<1> HIDE DEF v
<1> QED
  BY <1>10, <1>14, <1>15

\* The arithmetic of digits: dividing twice is dividing by the product.
LEMMA DivideTwice ==
    ASSUME NEW a \in Nat, NEW b \in Nat \ {0}, NEW p \in Nat \ {0}
    PROVE  /\ a \div (b * p) = (a \div p) \div b
           /\ a \div p = ((a \div p) \div b) * b + ((a \div p) % b)
           /\ a \div p \in Nat /\ (a \div p) % b \in 0..(b - 1)
<1>1. a \div p \in Nat
  OBVIOUS
<1>2. \A c \in Nat : c % b \in 0..(b - 1) /\ c = (c \div b) * b + (c % b)
  OBVIOUS
<1>3. a \div (b * p) = (a \div p) \div b
  OBVIOUS
<1> QED
  BY <1>1, <1>2, <1>3

\* The digits of a number that fits are bytes, and are read as that number.
LEMMA DigitsRead ==
    ASSUME NEW k \in Nat, NEW a \in 0..(Power[k] - 1)
    PROVE  /\ Digits(a, k) \in Seq(Bytes) /\ Len(Digits(a, k)) = k
           /\ Unsigned(Digits(a, k)) = a
<1> DEFINE B == ByteBase
           d == Digits(a, k)
<1>1. B \in Nat \ {0} /\ Bytes = 0..(B - 1) /\ Bytes \subseteq Int /\ a \in Nat
  BY ByteBaseAssumption, PowerSteps DEF Bytes
<1>2. \A i \in Nat : Power[i] \in Nat \ {0} /\ Power[i + 1] = B * Power[i]
  BY PowerSteps
<1>3. \A i \in 1..k : k - i \in Nat /\ (a \div Power[k - i]) % B \in Bytes
  <2> HIDE DEF B
  <2> SUFFICES ASSUME NEW i \in 1..k
               PROVE  k - i \in Nat /\ (a \div Power[k - i]) % B \in Bytes
    OBVIOUS
  <2>1. k - i \in Nat
    OBVIOUS
  <2>2. Power[k - i] \in Nat \ {0}
    BY <1>2, <2>1
  <2> QED
    BY <1>1, <2>1, <2>2, DivideTwice
<1>4. /\ d \in Seq(Bytes) /\ d \in Seq(Int) /\ Len(d) = k
      /\ \A i \in 1..k : d[i] = (a \div Power[k - i]) % B
  BY <1>1, <1>3 DEF Digits
<1> HIDE DEF d, B
<1>5. PICK v : Reads(v, d) /\ Unsigned(d) = v[k]
  BY <1>4, UnsignedSteps
<1>6. v[0] = 0 /\ \A i \in 1..k : v[i] = v[i - 1] * B + d[i]
  BY <1>4, <1>5 DEF Reads, B
<1> DEFINE Leading == {i \in 0..k : v[i] = a \div Power[k - i]}
<1>7. 0 \in Leading
  <2>1. Power[k] \in Nat \ {0} /\ k - 0 = k /\ 0 \in 0..k
    BY <1>2
  <2>2. a \div Power[k] = 0
    BY <1>1, <2>1
  <2> QED
    BY <1>6, <2>1, <2>2
<1>8. ASSUME NEW i \in 0..(k - 1), i \in Leading
      PROVE  i + 1 \in Leading
  <2> DEFINE p == Power[k - (i + 1)]
  <2>1. /\ i + 1 \in 1..k /\ i + 1 \in 0..k /\ (i + 1) - 1 = i
        /\ k - (i + 1) \in Nat /\ (k - (i + 1)) + 1 = k - i
    OBVIOUS
  <2>2. p \in Nat \ {0} /\ Power[k - i] = B * p
    BY <1>2, <2>1
  <2>3. v[i + 1] = v[i] * B + d[i + 1] /\ d[i + 1] = (a \div p) % B /\ v[i] = a \div (B * p)
    BY <1>4, <1>6, <1>8, <2>1, <2>2
  <2> HIDE DEF p
  <2>4. /\ a \div (B * p) = (a \div p) \div B
        /\ a \div p = ((a \div p) \div B) * B + ((a \div p) % B)
    BY <1>1, <2>2, DivideTwice
  <2>5. v[i + 1] = a \div p
    BY <2>3, <2>4
  <2> QED
    BY <2>1, <2>5 DEF p
<1>9. k \in Leading
  <2> HIDE DEF Leading
  <2>1. \A i \in 0..k : i \in Leading
    BY <1>7, <1>8, InductTo
  <2> QED
    BY <2>1
<1>10. a \div Power[k - k] = a
  <2>1. Power[k - k] = 1
    BY PowerSteps
  <2> QED
    BY <1>1, <2>1
<1> QED
  BY <1>4, <1>5, <1>9, <1>10 DEF d

\* A number that can be packed is read back, with its sign.
LEMMA IntegerReads ==
    ASSUME NEW sig, sig.length \in Nat \ {0}, sig.type \in {"int", "uint"},
           NEW raw \in Packable(sig)
    PROVE  LET size == Power[2 * sig.length]
               bytes == Digits(IF raw < 0 THEN raw + size ELSE raw, 2 * sig.length)
           IN  /\ bytes \in Seq(Bytes) /\ Len(bytes) = 2 * sig.length
               /\ Integer(sig, bytes) = raw
<1> DEFINE k == 2 * sig.length
           size == Power[k]
           a == IF raw < 0 THEN raw + size ELSE raw
           bytes == Digits(a, k)
<1>1. k \in Nat /\ size \in Nat \ {0}
  BY PowerSteps
<1> HIDE DEF k
<1>2. /\ sig.type = "int" => raw \in (-(size \div 2))..(size \div 2 - 1)
      /\ sig.type = "uint" => raw \in 0..(size - 1)
  BY DEF Packable, k
<1> HIDE DEF size
<1>3. size \div 2 \in Nat /\ 2 * (size \div 2) <= size
  BY <1>1
<1>4. a \in 0..(size - 1)
  BY <1>1, <1>2, <1>3
<1>5. bytes \in Seq(Bytes) /\ Len(bytes) = k /\ Unsigned(bytes) = a
  BY <1>1, <1>4, DigitsRead DEF size
<1>6. Integer(sig, bytes) = IF sig.type = "int" /\ 2 * a >= size THEN a - size ELSE a
  <2> HIDE DEF bytes, a
  <2> QED
    BY <1>5 DEF Integer, size
<1>7. Integer(sig, bytes) = raw
  <2>1. CASE sig.type = "int" /\ raw < 0
    <3>1. 2 * a >= size
      BY <1>1, <1>2, <1>3, <2>1
    <3> QED
      BY <1>1, <1>2, <1>6, <2>1, <3>1
  <2>2. CASE sig.type = "int" /\ raw >= 0
    <3>1. 2 * a < size
      BY <1>1, <1>2, <1>3, <2>2
    <3> QED
      BY <1>1, <1>2, <1>6, <2>2, <3>1
  <2>3. CASE sig.type = "uint"
    BY <1>1, <1>2, <1>6, <2>3
  <2>4. raw \in Int
    BY <1>1, <1>2, <1>3
  <2> QED
    BY <2>1, <2>2, <2>3, <2>4
<1> QED
  BY <1>5, <1>7 DEF k, size

\* The nearest integer is within half a step.
LEMMA RoundIsNear ==
    ASSUME NEW x \in Int, NEW y \in Nat \ {0}
    PROVE  /\ Round(x, y) \in Int
           /\ 2 * (Round(x, y) * y - x) <= y /\ 2 * (x - Round(x, y) * y) <= y
<1> DEFINE q == x \div y
           r == x % y
<1>1. q \in Int /\ r \in 0..(y - 1) /\ x = q * y + r
  OBVIOUS
<1>2. \/ Round(x, y) = q + 1 /\ 2 * r >= y
      \/ Round(x, y) = q /\ 2 * r <= y
  BY <1>1 DEF Round
<1> HIDE DEF q, r
<1>3. (q + 1) * y = q * y + y
  BY <1>1
<1> QED
  BY <1>1, <1>2, <1>3

\* Where a text ends: behind it are NULs only.
EndsAt(bytes, n) ==
    /\ n \in 0..Len(bytes)
    /\ \A i \in (n + 1)..Len(bytes) : bytes[i] = 0
    /\ n > 0 => bytes[n] # 0

LEMMA StrippedEnds ==
    ASSUME NEW bytes \in Seq(Bytes)
    PROVE  \E n : EndsAt(bytes, n) /\ Stripped(bytes) = SubSeq(bytes, 1, n)
<1> DEFINE end == {n \in 0..Len(bytes) : \A i \in (n + 1)..Len(bytes) : bytes[i] = 0}
           n == CHOOSE k \in end : \A m \in end : k <= m
<1>1. Len(bytes) \in Nat
  BY LenProperties
<1>2. end \subseteq Nat /\ end # {}
  <2>1. Len(bytes) \in end
    BY <1>1
  <2> QED
    BY <2>1
<1>3. n \in end /\ \A m \in end : n <= m
  <2>1. \E k \in end : \A m \in end : k <= m
    <3> HIDE DEF end
    <3> QED
      BY <1>2, Least
  <2> HIDE DEF end
  <2> QED
    BY <2>1
<1>4. Stripped(bytes) = SubSeq(bytes, 1, n)
  BY DEF Stripped
<1> HIDE DEF n
<1>5. n > 0 => bytes[n] # 0
  <2> SUFFICES ASSUME n > 0, bytes[n] = 0
               PROVE  FALSE
    OBVIOUS
  <2>1. n - 1 \in 0..Len(bytes) /\ n - 1 < n
    BY <1>1, <1>3
  <2>2. \A i \in ((n - 1) + 1)..Len(bytes) : i = n \/ i \in (n + 1)..Len(bytes)
    BY <1>1, <1>3
  <2>3. n - 1 \in end
    BY <1>3, <2>1, <2>2
  <2>4. n <= n - 1 /\ n \in Nat
    <3> HIDE DEF end
    <3> QED
      BY <1>2, <1>3, <2>3
  <2> QED
    BY <2>4
<1> QED
  BY <1>3, <1>4, <1>5 DEF EndsAt

\* A text comes back as far as it fits.
LEMMA TextReads ==
    ASSUME NEW value \in Seq(Bytes), NEW n \in Nat
    PROVE  /\ Padded(value, n) \in Seq(Bytes) /\ Len(Padded(value, n)) = n
           /\ Stripped(Padded(value, n))
                 = Stripped(SubSeq(value, 1, IF Len(value) < n THEN Len(value) ELSE n))
<1> DEFINE m == IF Len(value) < n THEN Len(value) ELSE n
           padded == Padded(value, n)
           cut == SubSeq(value, 1, m)
<1>1. /\ Len(value) \in Nat /\ m \in Nat /\ m <= n /\ m <= Len(value)
      /\ \A i \in 1..n : i <= Len(value) <=> i <= m
      /\ \A i \in 1..Len(value) : value[i] \in Bytes
  BY LenProperties, ElementOfSeq
<1>2. 0 \in Bytes
  BY ByteBaseAssumption DEF Bytes
<1>3. /\ padded \in Seq(Bytes) /\ Len(padded) = n
      /\ \A i \in 1..n : padded[i] = IF i <= m THEN value[i] ELSE 0
  <2>1. \A i \in 1..n : (IF i <= Len(value) THEN value[i] ELSE 0) \in Bytes
    BY <1>1, <1>2
  <2>2. /\ padded \in Seq(Bytes) /\ Len(padded) = n
        /\ \A i \in 1..n : padded[i] = IF i <= Len(value) THEN value[i] ELSE 0
    BY <2>1 DEF Padded
  <2> HIDE DEF m, padded
  <2> QED
    BY <1>1, <2>2
<1> HIDE DEF m, padded
<1>4. cut \in Seq(Bytes) /\ Len(cut) = m /\ \A i \in 1..m : cut[i] = value[i]
  <2>1. \A i \in 1..m : value[i] \in Bytes
    BY <1>1
  <2>2. /\ cut \in Seq(Bytes)
        /\ Len(cut) = IF 1 <= m THEN m - 1 + 1 ELSE 0
        /\ \A i \in 1..(m - 1 + 1) : cut[i] = value[1 + i - 1]
    BY <1>1, <2>1, SubSeqProperties
  <2> HIDE DEF cut
  <2>3. m - 1 + 1 = m /\ \A i \in 1..m : 1 + i - 1 = i
    BY <1>1
  <2> QED
    BY <1>1, <2>2, <2>3
<1> HIDE DEF cut
<1>5. \A i \in 1..m : padded[i] = cut[i]
  BY <1>1, <1>3, <1>4
<1>6. PICK a : EndsAt(padded, a) /\ Stripped(padded) = SubSeq(padded, 1, a)
  BY <1>3, StrippedEnds
<1>7. PICK b : EndsAt(cut, b) /\ Stripped(cut) = SubSeq(cut, 1, b)
  BY <1>4, StrippedEnds
<1>8. /\ a \in 0..n /\ (\A i \in (a + 1)..n : padded[i] = 0) /\ (a > 0 => padded[a] # 0)
      /\ b \in 0..m /\ (\A i \in (b + 1)..m : cut[i] = 0) /\ (b > 0 => cut[b] # 0)
  BY <1>3, <1>4, <1>6, <1>7 DEF EndsAt
<1>9. a = b
  <2>1. CASE a < b
    <3>1. b \in 1..m /\ b \in (a + 1)..n
      BY <1>1, <1>8, <2>1
    <3> QED
      BY <1>5, <1>8, <3>1
  <2>2. CASE a > b
    <3>1. a \in 1..n /\ padded[a] # 0
      BY <1>8, <2>2
    <3>2. a <= m
      BY <1>3, <3>1
    <3>3. a \in 1..m /\ a \in (b + 1)..m
      BY <1>1, <1>8, <2>2, <3>1, <3>2
    <3> QED
      BY <1>5, <1>8, <3>1, <3>3
  <2> QED
    BY <1>8, <2>1, <2>2
<1>10. SubSeq(padded, 1, a) = SubSeq(cut, 1, a)
  <2>1. /\ a \in Nat /\ a - 1 + 1 = a
        /\ \A i \in 1..a : i \in 1..m /\ i \in 1..n /\ 1 + i - 1 = i
    BY <1>1, <1>8, <1>9
  <2>2. \A i \in 1..a : padded[i] \in Bytes /\ cut[i] \in Bytes
    BY <1>3, <1>4, <2>1, ElementOfSeq
  <2>3. /\ SubSeq(padded, 1, a) \in Seq(Bytes)
        /\ Len(SubSeq(padded, 1, a)) = IF 1 <= a THEN a - 1 + 1 ELSE 0
        /\ \A i \in 1..(a - 1 + 1) : SubSeq(padded, 1, a)[i] = padded[1 + i - 1]
    BY <2>1, <2>2, SubSeqProperties
  <2>4. /\ SubSeq(cut, 1, a) \in Seq(Bytes)
        /\ Len(SubSeq(cut, 1, a)) = IF 1 <= a THEN a - 1 + 1 ELSE 0
        /\ \A i \in 1..(a - 1 + 1) : SubSeq(cut, 1, a)[i] = cut[1 + i - 1]
    BY <2>1, <2>2, SubSeqProperties
  <2>5. /\ Len(SubSeq(padded, 1, a)) = Len(SubSeq(cut, 1, a)) /\ Len(SubSeq(padded, 1, a)) = a
        /\ \A i \in 1..a : SubSeq(padded, 1, a)[i] = SubSeq(cut, 1, a)[i]
    BY <1>5, <2>1, <2>3, <2>4
  <2> QED
    BY <2>3, <2>4, <2>5, SeqEqual
<1>11. Stripped(padded) = Stripped(cut)
  BY <1>6, <1>7, <1>9, <1>10
<1> QED
  BY <1>3, <1>11 DEF padded, cut, m

\* What is encoded for a signal is a cell for each of its registers or bits,
\* and is decoded to what was meant.
LEMMA CodingReadsBack ==
    ASSUME NEW s, s.length \in Nat \ {0}, NEW value, Encodable(s, value),
           s.table \in BitTables => s.length = 1 /\ s.type = "bool",
           s.type \in {"int", "uint"} => s.scale \in Nat \ {0} /\ s.offset \in Int,
           s.table \notin BitTables =>
               /\ s.type = "string" => value \in Seq(Bytes)
               /\ s.type \in {"int", "uint"} => value \in Int
    PROVE  /\ Encode(s, value) = [i \in 1..s.length |-> Encode(s, value)[i]]
           /\ ReadsBackAs(s, value, Decode(s, Encode(s, value)))
<1> DEFINE cells == Encode(s, value)
           n == 2 * s.length
<1>1. CASE s.table \in BitTables
  <2>1. cells = <<value>> /\ s.length = 1
    BY <1>1 DEF Encode
  <2>2. cells = [i \in 1..1 |-> cells[i]]
    BY <2>1
  <2>3. Decode(s, cells) = value
    <3> HIDE DEF cells
    <3> QED
      BY <1>1, <2>1 DEF Decode
  <2> QED
    BY <1>1, <2>1, <2>2, <2>3 DEF ReadsBackAs
<1>2. ASSUME NEW bytes \in Seq(Bytes), Len(bytes) = n, cells = Disassemble(s, bytes)
      PROVE  /\ cells = [i \in 1..s.length |-> cells[i]]
             /\ Assemble(s, cells) = bytes
  <2> HIDE DEF cells
  <2>1. cells \in Seq(Seq(Bytes)) /\ Len(cells) = s.length /\ Assemble(s, cells) = bytes
    BY <1>2, AssembleInverts
  <2>2. cells \in [1..s.length -> Seq(Bytes)]
    BY <2>1, LenProperties
  <2> QED
    BY <2>1, <2>2
<1>3. CASE s.table \notin BitTables /\ s.type = "string"
  <2> DEFINE bytes == Padded(value, n)
  <2>1. cells = Disassemble(s, bytes)
    BY <1>3 DEF Encode
  <2>2. /\ bytes \in Seq(Bytes) /\ Len(bytes) = n
        /\ Stripped(bytes) = Stripped(SubSeq(value, 1, IF Len(value) < n THEN Len(value) ELSE n))
    <3>1. value \in Seq(Bytes) /\ n \in Nat
      BY <1>3
    <3> HIDE DEF n
    <3> QED
      BY <3>1, TextReads
  <2> HIDE DEF bytes, cells
  <2>3. /\ cells = [i \in 1..s.length |-> cells[i]]
        /\ Assemble(s, cells) = bytes
    BY <1>2, <2>1, <2>2
  <2>4. Decode(s, cells) = Stripped(bytes)
    BY <1>3, <2>3 DEF Decode
  <2>5. ReadsBackAs(s, value, Decode(s, cells))
    BY <1>3, <2>2, <2>4 DEF ReadsBackAs
  <2> QED
    BY <2>3, <2>5 DEF cells
<1>4. CASE s.table \notin BitTables /\ s.type \in {"int", "uint"}
  <2> DEFINE raw == Raw(s, value)
             size == Power[n]
             bytes == Digits(IF raw < 0 THEN raw + size ELSE raw, n)
  <2>1. cells = Disassemble(s, bytes)
    BY <1>4 DEF Encode
  <2>2. raw \in Packable(s)
    BY <1>4 DEF Encodable
  <2>3. bytes \in Seq(Bytes) /\ Len(bytes) = n /\ Integer(s, bytes) = raw
    <3> HIDE DEF raw
    <3> QED
      BY <1>4, <2>2, IntegerReads
  <2>4. /\ s.scale \in Nat \ {0} /\ s.offset \in Int /\ value \in Int
    BY <1>4
  <2>5. /\ raw \in Int /\ 2 * (raw * s.scale - (value - s.offset)) <= s.scale
        /\ 2 * ((value - s.offset) - raw * s.scale) <= s.scale
    <3> DEFINE x == value - s.offset
    <3>1. x \in Int /\ raw = Round(x, s.scale)
      BY <2>4 DEF Raw
    <3> HIDE DEF x, raw
    <3>2. /\ raw \in Int
          /\ 2 * (raw * s.scale - x) <= s.scale /\ 2 * (x - raw * s.scale) <= s.scale
      BY <2>4, <3>1, RoundIsNear
    <3> QED
      BY <3>2 DEF x
  <2> HIDE DEF bytes, cells, raw
  <2>6. /\ cells = [i \in 1..s.length |-> cells[i]]
        /\ Assemble(s, cells) = bytes
    BY <1>2, <2>1, <2>3
  <2>7. Decode(s, cells) = raw * s.scale + s.offset
    BY <1>4, <2>3, <2>6 DEF Decode
  <2>8. raw * s.scale \in Int
    BY <2>4, <2>5
  <2>9. /\ 2 * ((raw * s.scale + s.offset) - value) <= s.scale
        /\ 2 * (value - (raw * s.scale + s.offset)) <= s.scale
    <3> DEFINE p == raw * s.scale
               o == s.offset
    <3>1. /\ p \in Int /\ o \in Int /\ value \in Int
          /\ 2 * (p - (value - o)) <= s.scale /\ 2 * ((value - o) - p) <= s.scale
      BY <2>4, <2>5, <2>8
    <3> HIDE DEF p, o
    <3>2. (p + o) - value = p - (value - o) /\ value - (p + o) = (value - o) - p
      BY <3>1
    <3> QED
      BY <3>1, <3>2 DEF p, o
  <2>10. ReadsBackAs(s, value, Decode(s, cells))
    BY <1>4, <2>7, <2>9 DEF ReadsBackAs
  <2> QED
    BY <2>6, <2>10 DEF cells
<1>5. s.table \in BitTables \/ s.type = "string" \/ s.type \in {"int", "uint"}
  BY DEF Encodable
<1> QED
  BY <1>1, <1>3, <1>4, <1>5

-----------------------------------------------------------------------------
(* RegisterMap: what the newest write has left at the slave.               *)

Stored ==
    writes > 0 =>
        /\ wrote.signal \in DOMAIN layout
        /\ LET s == layout[wrote.signal]
           IN  /\ wrote.value \in Inputs(s) /\ Encodable(s, wrote.value)
               /\ \A i \in 1..s.length :
                     memory[s.table][s.address + i - 1] = Encode(s, wrote.value)[i]

\* The slave has the cells of every signal.
HasCells ==
    \A s \in Range(layout) :
        /\ s.table \in DOMAIN memory
        /\ s.address..(s.address + s.length - 1) \subseteq DOMAIN memory[s.table]

StoredInv == ConfigInv /\ HasCells /\ Stored

LEMMA StoredInit == Init => StoredInv
<1> SUFFICES ASSUME Init
             PROVE  StoredInv
  OBVIOUS
<1>1. HasCells
  BY MemoriesAssumption DEF Init, HasCells
<1> QED
  BY <1>1 DEF Init, StoredInv, ConfigInv, Stored

LEMMA WriteStores ==
    ASSUME StoredInv, NEW k \in DOMAIN layout, Write(k)
    PROVE  StoredInv'
<1> DEFINE s == layout[k]
<1>1. layout' = layout /\ ConfigInv'
  BY DEF Write, StoredInv, ConfigInv
<1>2. /\ s \in Range(layout) /\ s.address \in Nat /\ s.length \in Nat \ {0}
      /\ s.table \in DOMAIN memory
      /\ s.address..(s.address + s.length - 1) \subseteq DOMAIN memory[s.table]
  <2>1. s \in Range(layout)
    BY DEF Range
  <2> QED
    BY <2>1, ConfigIsSound DEF StoredInv, HasCells
<1>3. PICK value \in Inputs(s) :
        /\ Encodable(s, value)
        /\ memory' = [memory EXCEPT ![s.table] =
               [a \in DOMAIN memory[s.table] |->
                   IF a \in s.address..(s.address + s.length - 1)
                   THEN Encode(s, value)[a - s.address + 1] ELSE memory[s.table][a]]]
        /\ wrote' = [signal |-> k, value |-> value]
  BY DEF Write
<1> HIDE DEF s
<1>4. DOMAIN memory' = DOMAIN memory /\ \A t \in DOMAIN memory : DOMAIN memory'[t] = DOMAIN memory[t]
  BY <1>3
<1>5. HasCells'
  BY <1>1, <1>4 DEF StoredInv, HasCells
<1>6. ASSUME NEW i \in 1..s.length
      PROVE  memory'[s.table][s.address + i - 1] = Encode(s, value)[i]
  <2> DEFINE a == s.address + i - 1
  <2>1. a \in s.address..(s.address + s.length - 1) /\ a - s.address + 1 = i
    BY <1>2
  <2> HIDE DEF a
  <2>2. memory'[s.table][a] = Encode(s, value)[a - s.address + 1]
    BY <1>2, <1>3, <2>1
  <2> QED
    BY <2>1, <2>2 DEF a
<1>7. Stored'
  BY <1>1, <1>3, <1>6 DEF Stored, s
<1> QED
  BY <1>1, <1>5, <1>7 DEF StoredInv

LEMMA StoredStep == StoredInv /\ [Next]_vars => StoredInv'
<1>1. ASSUME StoredInv, NEW k \in DOMAIN layout, Write(k)
      PROVE  StoredInv'
  BY <1>1, WriteStores
<1>2. ASSUME StoredInv, UNCHANGED vars
      PROVE  StoredInv'
  BY <1>2 DEF StoredInv, ConfigInv, HasCells, Stored, vars
<1> QED
  BY <1>1, <1>2 DEF Next

\* What sb/write wrote is what polls and reads return next, for any layout and
\* gap, any width, either order of words and bytes, and any scale and offset
\* (encode and decode of codec.py, _write_one and _read_one of
\* command_service.py, _poll_group of poll_manager.py).
THEOREM WritesAreRead == Spec => []WrittenIsPolled
<1>1. StoredInv => WrittenIsPolled
  <2> SUFFICES ASSUME StoredInv, writes > 0
               PROVE  ReadsBackAs(layout[wrote.signal], wrote.value,
                                  PolledValue(layout[wrote.signal]))
    BY DEF WrittenIsPolled
  <2> DEFINE s == layout[wrote.signal]
             value == wrote.value
             cells == Request(s.table, s.address, s.length)
  <2>1. /\ wrote.signal \in DOMAIN layout
        /\ value \in Inputs(s) /\ Encodable(s, value)
        /\ \A i \in 1..s.length : memory[s.table][s.address + i - 1] = Encode(s, value)[i]
    BY DEF StoredInv, Stored
  <2>2. s \in ToSet(layout) /\ s \in Range(layout)
    BY <2>1 DEF ToSet, Range
  <2>3. /\ s.length \in Nat \ {0}
        /\ s.table \in BitTables => s.length = 1 /\ s.type = "bool"
        /\ s.type \in {"int", "uint"} => s.scale \in Nat \ {0} /\ s.offset \in Int
        /\ s.table \notin BitTables =>
              /\ s.type = "string" => value \in Seq(Bytes)
              /\ s.type \in {"int", "uint"} => value \in Int
    <3> HIDE DEF s, value
    <3> QED
      BY <2>1, <2>2, LayoutsAssumption, InputsAssumption DEF StoredInv, ConfigInv
  <2>4. PolledValue(s) = Decode(s, cells)
    <3>1. PolledValue(s) = ReadValue(s)
      BY <2>2, PollsAgree DEF StoredInv, PollAgreesWithRead
    <3> QED
      BY <3>1 DEF ReadValue
  <2> HIDE DEF s, value
  <2>5. cells = [i \in 1..s.length |-> Encode(s, value)[i]]
    BY <2>1 DEF Request
  <2>6. /\ Encode(s, value) = [i \in 1..s.length |-> Encode(s, value)[i]]
        /\ ReadsBackAs(s, value, Decode(s, Encode(s, value)))
    BY <2>1, <2>3, CodingReadsBack
  <2>7. cells = Encode(s, value)
    BY <2>5, <2>6
  <2> QED
    BY <2>4, <2>6, <2>7 DEF s, value
<1> QED
  BY <1>1, StoredInit, StoredStep, PTL DEF Spec

=============================================================================
