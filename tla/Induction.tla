------------------------------ MODULE Induction -----------------------------
(***************************************************************************)
(* Induction and recursion, over the numbers and over finite sets, for     *)
(* sets and functions: the form in which the proofs about sequences use    *)
(* them.  What FlattenSeq joins, and the sum of a function with a finite   *)
(* domain.                                                                 *)
(***************************************************************************)
EXTENDS SequencesExt, FiniteSetTheorems, SequenceTheorems, TLAPS

(***************************************************************************)
(* Every set of numbers that is not empty has a least one: the intervals   *)
(* 0..x are finite sets, and inclusion is well-founded on these.           *)
(***************************************************************************)
LEMMA Least ==
    ASSUME NEW T, T \subseteq Nat, T # {}
    PROVE  \E x \in T : \A y \in T : x <= y
<1> DEFINE R == StrictSubsetOrdering(Nat)
           U == {0..x : x \in T}
<1>1. IsWellFoundedOn(R, FiniteSubsetsOf(Nat))
  BY FS_StrictSubsetOrderingWellFounded
<1>2. U \subseteq FiniteSubsetsOf(Nat)
  <2> SUFFICES ASSUME NEW x \in T
               PROVE  0..x \in FiniteSubsetsOf(Nat)
    OBVIOUS
  <2>1. IsFiniteSet(0..x)
    BY FS_Interval
  <2> QED
    BY <2>1 DEF FiniteSubsetsOf
<1>3. \E X \in U : \A Y \in U : ~ (<<Y, X>> \in R)
  <2>1. U # {}
    OBVIOUS
  <2> HIDE DEF R, U
  <2> QED
    BY <1>1, <1>2, <2>1, WFMin
<1>4. PICK x \in T : \A Y \in U : ~ (<<Y, 0..x>> \in R)
  BY <1>3
<1>5. ASSUME NEW y \in T, y < x
      PROVE  FALSE
  <2>1. 0..y \subseteq 0..x /\ x \in 0..x /\ x \notin 0..y
    BY <1>5
  <2>2. <<0..y, 0..x>> \in R
    BY <2>1 DEF StrictSubsetOrdering
  <2> QED
    BY <1>4, <2>2
<1> QED
  BY <1>4, <1>5

(* A set with zero and with the successors of its numbers has them all.    *)
LEMMA Induct ==
    ASSUME NEW S, 0 \in S, \A n \in Nat : n \in S => n + 1 \in S
    PROVE  \A n \in Nat : n \in S
<1> SUFFICES ASSUME Nat \ S # {}
             PROVE  FALSE
  OBVIOUS
<1>1. PICK x \in Nat \ S : \A y \in Nat \ S : x <= y
  BY Least
<1>2. x # 0 /\ x - 1 \in Nat
  BY <1>1
<1>3. x - 1 \in S
  BY <1>1, <1>2
<1> QED
  BY <1>1, <1>2, <1>3

(* The same up to n.                                                       *)
LEMMA InductTo ==
    ASSUME NEW n \in Nat, NEW S, 0 \in S,
           \A i \in 0..(n - 1) : i \in S => i + 1 \in S
    PROVE  \A i \in 0..n : i \in S
<1> DEFINE T == S \cup {i \in Nat : i > n}
<1>1. \A i \in Nat : i \in T => i + 1 \in T
  OBVIOUS
<1>2. \A i \in Nat : i \in T
  <2>1. 0 \in T
    OBVIOUS
  <2> HIDE DEF T
  <2> QED
    BY <1>1, <2>1, Induct
<1> QED
  BY <1>2

(***************************************************************************)
(* What is defined step by step exists: for any first value and any step   *)
(* there is the function of the values after 0, 1, ..., n steps.           *)
(***************************************************************************)
Steps(V, n) == [V \X (1..n) -> V]
Runs(V, n) == [0..n -> V]
Iterates(f, base, step, n) ==
    /\ f[0] = base
    /\ \A i \in 1..n : f[i] = step[<<f[i - 1], i>>]

LEMMA Recursion ==
    ASSUME NEW V, NEW n \in Nat, NEW base \in V, NEW step \in Steps(V, n)
    PROVE  \E f \in Runs(V, n) : Iterates(f, base, step, n)
<1> USE DEF Steps
<1> DEFINE Defined(f, m) == /\ f \in [0..m -> V]
                            /\ f[0] = base
                            /\ \A i \in 1..m : f[i] = step[<<f[i - 1], i>>]
           S == {m \in 0..n : \E f : Defined(f, m)}
<1>1. 0 \in S
  <2> DEFINE g == [i \in 0..0 |-> base]
  <2>1. Defined(g, 0)
    OBVIOUS
  <2>2. 0 \in 0..n
    OBVIOUS
  <2> HIDE DEF g
  <2> QED
    BY <2>1, <2>2
<1>2. ASSUME NEW m \in 0..(n - 1), m \in S
      PROVE  m + 1 \in S
  <2>1. PICK f : Defined(f, m)
    BY <1>2
  <2>2. /\ m \in Nat /\ m + 1 \in 1..n
        /\ \A i \in 0..(m + 1) : i <= m => i \in 0..m
        /\ \A i \in 1..(m + 1) : i - 1 \in 0..m /\ (i <= m => i \in 1..m)
    OBVIOUS
  <2> DEFINE g == [i \in 0..(m + 1) |-> IF i <= m THEN f[i] ELSE step[<<f[m], m + 1>>]]
  <2>3. step[<<f[m], m + 1>>] \in V
    BY <2>1, <2>2
  <2>4. g \in [0..(m + 1) -> V]
    BY <2>1, <2>2, <2>3
  <2>5. g[0] = base
    BY <2>1, <2>2
  <2>6. ASSUME NEW i \in 1..(m + 1)
        PROVE  g[i] = step[<<g[i - 1], i>>]
    <3>1. g[i - 1] = f[i - 1]
      BY <2>2
    <3>2. CASE i <= m
      BY <2>1, <2>2, <3>1, <3>2
    <3>3. CASE i = m + 1
      BY <2>2, <3>1, <3>3
    <3> QED
      BY <2>2, <3>2, <3>3
  <2> HIDE DEF g
  <2>7. Defined(g, m + 1)
    BY <2>4, <2>5, <2>6
  <2>8. m + 1 \in 0..n
    BY <2>2
  <2> QED
    BY <2>7, <2>8
<1>3. n \in S
  <2> HIDE DEF S
  <2>1. \A i \in 0..n : i \in S
    BY <1>1, <1>2, InductTo
  <2> QED
    BY <2>1
<1> QED
  BY <1>3 DEF Runs, Iterates

(* The same without an end.                                                *)
EndlessSteps(V) == [V \X (Nat \ {0}) -> V]
EndlessRuns(V) == [Nat -> V]
Goes(f, base, step) ==
    /\ f[0] = base
    /\ \A i \in Nat : f[i + 1] = step[<<f[i], i + 1>>]

LEMMA EndlessRecursion ==
    ASSUME NEW V, NEW base \in V, NEW step \in EndlessSteps(V)
    PROVE  \E f \in EndlessRuns(V) : Goes(f, base, step)
<1> USE DEF EndlessSteps
<1> DEFINE F(n) == CHOOSE g \in Runs(V, n) : Iterates(g, base, step, n)
           f == [n \in Nat |-> F(n)[n]]
<1>1. ASSUME NEW n \in Nat
      PROVE  F(n) \in Runs(V, n) /\ Iterates(F(n), base, step, n)
  <2> DEFINE s == [p \in V \X (1..n) |-> step[p]]
  <2>1. V \X (1..n) \subseteq V \X (Nat \ {0})
    OBVIOUS
  <2>2. s \in Steps(V, n)
    BY <2>1 DEF Steps
  <2>3. PICK g \in Runs(V, n) : Iterates(g, base, s, n)
    <3> HIDE DEF s
    <3> QED
      BY <2>2, Recursion
  <2>4. Iterates(g, base, step, n)
    <3> SUFFICES ASSUME NEW i \in 1..n
                 PROVE  g[i] = step[<<g[i - 1], i>>]
      BY <2>3 DEF Iterates
    <3>1. i - 1 \in 0..n
      OBVIOUS
    <3>2. <<g[i - 1], i>> \in V \X (1..n)
      BY <2>3, <3>1 DEF Runs
    <3> QED
      BY <2>3, <3>2 DEF Iterates
  <2> QED
    BY <2>3, <2>4
<1>2. \A n \in Nat : F(n) \in [0..n -> V]
  BY <1>1 DEF Runs
<1>3. \A n \in Nat : F(n)[0] = base
  BY <1>1 DEF Iterates
<1>4. \A n \in Nat : \A i \in 1..n : F(n)[i] = step[<<F(n)[i - 1], i>>]
  BY <1>1 DEF Iterates
<1> DEFINE Same == {i \in Nat : \A m \in Nat : i <= m => F(m)[i] = F(i)[i]}
<1> HIDE DEF F
<1>5. 0 \in Same
  BY <1>3
<1>6. ASSUME NEW i \in Nat, i \in Same
      PROVE  i + 1 \in Same
  <2> SUFFICES ASSUME NEW m \in Nat, i + 1 <= m
               PROVE  F(m)[i + 1] = F(i + 1)[i + 1]
    OBVIOUS
  <2>1. i + 1 \in 1..m /\ i + 1 \in 1..(i + 1) /\ (i + 1) - 1 = i /\ i + 1 \in Nat
    OBVIOUS
  <2>2. F(m)[i + 1] = step[<<F(m)[i], i + 1>>] /\ F(i + 1)[i + 1] = step[<<F(i + 1)[i], i + 1>>]
    BY <1>4, <2>1
  <2>3. F(m)[i] = F(i)[i] /\ F(i + 1)[i] = F(i)[i]
    BY <1>6
  <2> QED
    BY <2>2, <2>3
<1>7. \A i \in Nat : i \in Same
  <2> HIDE DEF Same
  <2> QED
    BY <1>5, <1>6, Induct
<1>8. f \in [Nat -> V]
  BY <1>2
<1>9. ASSUME NEW i \in Nat
      PROVE  f[i + 1] = step[<<f[i], i + 1>>]
  <2>1. i + 1 \in Nat /\ i + 1 \in 1..(i + 1) /\ (i + 1) - 1 = i
    OBVIOUS
  <2>2. F(i + 1)[i + 1] = step[<<F(i + 1)[i], i + 1>>]
    BY <1>4, <2>1
  <2>3. F(i + 1)[i] = F(i)[i]
    BY <1>7
  <2> QED
    BY <2>1, <2>2, <2>3
<1>10. f[0] = base
  BY <1>3
<1> HIDE DEF f
<1> QED
  BY <1>8, <1>9, <1>10 DEF EndlessRuns, Goes

(* FlattenSeq joins one part after the other.                              *)
Concatenates(h, parts) ==
    /\ h[0] = <<>>
    /\ \A n \in 1..Len(parts) : h[n] = h[n - 1] \o parts[n]

LEMMA FlattenSteps ==
    ASSUME NEW S, NEW parts \in Seq(Seq(S))
    PROVE  \E h \in Runs(Seq(S), Len(parts)) :
              Concatenates(h, parts) /\ FlattenSeq(parts) = h[Len(parts)]
<1> DEFINE V == Seq(S)
           N == Len(parts)
           step == [p \in V \X (1..N) |-> p[1] \o parts[p[2]]]
           none == <<>>
           Recursive(f) == f = [i \in 1..N |-> IF i = 1 THEN parts[i] ELSE f[i - 1] \o parts[i]]
<1>1. N \in Nat /\ none \in V /\ \A i \in 1..N : parts[i] \in V
  BY EmptySeq, ElementOfSeq
<1>2. step \in Steps(V, N)
  <2> SUFFICES ASSUME NEW p \in V \X (1..N)
               PROVE  p[1] \o parts[p[2]] \in V
    BY DEF Steps
  <2> QED
    BY <1>1, ConcatProperties
<1>3. PICK h \in Runs(V, N) : Iterates(h, none, step, N)
  <2> HIDE DEF V, N, step, none
  <2> QED
    BY <1>1, <1>2, Recursion
<1>4. Concatenates(h, parts)
  <2> SUFFICES ASSUME NEW i \in 1..N
               PROVE  h[i] = h[i - 1] \o parts[i]
    BY <1>3 DEF Iterates, Concatenates
  <2>1. i - 1 \in 0..N
    BY <1>1
  <2>2. <<h[i - 1], i>> \in V \X (1..N)
    BY <1>3, <2>1 DEF Runs
  <2> QED
    BY <1>3, <2>2 DEF Iterates
<1>5. ASSUME NEW i \in 1..N
      PROVE  h[i] = IF i = 1 THEN parts[i] ELSE h[i - 1] \o parts[i]
  <2>1. h[i] = h[i - 1] \o parts[i]
    BY <1>4 DEF Concatenates
  <2>2. i = 1 => h[i - 1] = <<>>
    BY <1>4 DEF Concatenates
  <2>3. <<>> \o parts[i] = parts[i]
    BY <1>1, ConcatEmptySeq
  <2> QED
    BY <2>1, <2>2, <2>3
<1>6. \E f : Recursive(f)
  <2> DEFINE g == [i \in 1..N |-> h[i]]
  <2>1. \A i \in 1..N : i # 1 => i - 1 \in 1..N
    BY <1>1
  <2>2. Recursive(g)
    BY <1>5, <2>1
  <2> QED
    BY <2>2
<1> DEFINE flatten == CHOOSE f : Recursive(f)
<1>7. Recursive(flatten)
  <2> HIDE DEF Recursive
  <2> QED
    BY <1>6
<1>8. FlattenSeq(parts) = IF N = 0 THEN parts ELSE flatten[N]
  BY DEF FlattenSeq
<1>9. \A i \in 1..N : flatten[i] = IF i = 1 THEN parts[i] ELSE flatten[i - 1] \o parts[i]
  <2> HIDE DEF flatten
  <2> QED
    BY <1>7
<1> DEFINE Same == {i \in Nat : i = 0 \/ flatten[i] = h[i]}
<1> HIDE DEF flatten
<1>10. ASSUME NEW i \in 0..(N - 1), i \in Same
       PROVE  i + 1 \in Same
  <2>1. i + 1 \in 1..N /\ (i + 1) - 1 = i /\ (i + 1 = 1 <=> i = 0)
    BY <1>1
  <2>2. flatten[i + 1] = IF i = 0 THEN parts[i + 1] ELSE flatten[i] \o parts[i + 1]
    BY <1>9, <2>1
  <2>3. h[i + 1] = IF i = 0 THEN parts[i + 1] ELSE h[i] \o parts[i + 1]
    BY <1>5, <2>1
  <2> QED
    BY <1>10, <2>2, <2>3
<1>11. N \in Same
  <2>1. 0 \in Same
    OBVIOUS
  <2> HIDE DEF Same, N
  <2>2. \A i \in 0..N : i \in Same
    BY <1>1, <1>10, <2>1, InductTo
  <2> QED
    BY <1>1, <2>2
<1>12. N = 0 => parts = <<>> /\ h[0] = <<>>
  BY <1>4, EmptySeq DEF Concatenates
<1> QED
  BY <1>1, <1>3, <1>4, <1>8, <1>11, <1>12

(* What holds of the empty set and is kept by adding an element holds of a  *)
(* finite set.                                                             *)
LEMMA InductOver ==
    ASSUME NEW S, IsFiniteSet(S), NEW P, {} \in P,
           \A T \in SUBSET S : \A x \in S \ T : T \in P => T \cup {x} \in P
    PROVE  S \in P
<1> DEFINE N == {n \in Nat : \A T \in SUBSET S : Cardinality(T) = n => T \in P}
<1>1. 0 \in N
  <2>1. \A T \in SUBSET S : Cardinality(T) = 0 => T = {}
    BY FS_Subset, FS_EmptySet
  <2> QED
    BY <2>1
<1>2. ASSUME NEW n \in Nat, n \in N
      PROVE  n + 1 \in N
  <2> SUFFICES ASSUME NEW T \in SUBSET S, Cardinality(T) = n + 1
               PROVE  T \in P
    OBVIOUS
  <2>1. IsFiniteSet(T) /\ T # {}
    BY FS_Subset, FS_EmptySet
  <2>2. PICK x \in T : TRUE
    BY <2>1
  <2>3. Cardinality(T \ {x}) = n
    <3>1. Cardinality(T \ {x}) = Cardinality(T) - 1
      BY <2>1, <2>2, FS_RemoveElement
    <3> QED
      BY <3>1
  <2>4. T \ {x} \in SUBSET S /\ x \in S \ (T \ {x}) /\ (T \ {x}) \cup {x} = T
    OBVIOUS
  <2> QED
    BY <1>2, <2>3, <2>4
<1>3. Cardinality(S) \in Nat
  BY FS_CardinalityType
<1>4. Cardinality(S) \in N
  <2> HIDE DEF N
  <2> QED
    BY <1>1, <1>2, <1>3, Induct
<1> QED
  BY <1>4

(* A smaller set, for induction over the size.                             *)
LEMMA OneLess ==
    ASSUME NEW S, IsFiniteSet(S), NEW T \in SUBSET S, NEW n \in Nat,
           Cardinality(T) <= n + 1, NEW x \in T
    PROVE  Cardinality(T \ {x}) \in 0..n
<1>1. IsFiniteSet(T) /\ Cardinality(T) \in Nat
  BY FS_Subset, FS_CardinalityType
<1>2. Cardinality(T \ {x}) \in Nat
  BY <1>1, FS_RemoveElement, FS_CardinalityType
<1>3. Cardinality(T \ {x}) = Cardinality(T) - 1
  BY <1>1, FS_RemoveElement
<1> QED
  BY <1>1, <1>2, <1>3

(* What is defined along the subsets of a finite set, each from one that    *)
(* lacks the element which pick takes from it, exists.                     *)
Picks(S) == [(SUBSET S) \ {{}} -> S]
FoldSteps(S, V) == [S \X V -> V]
FoldRuns(S, V) == [SUBSET S -> V]
Folding(g, base, step, pick, S) ==
    g = [T \in SUBSET S |-> IF T = {} THEN base ELSE step[<<pick[T], g[T \ {pick[T]}]>>]]

LEMMA FoldsExist ==
    ASSUME NEW S, IsFiniteSet(S), NEW V, NEW base \in V, NEW step \in FoldSteps(S, V),
           NEW pick \in Picks(S), \A T \in SUBSET S : T # {} => pick[T] \in T
    PROVE  \E g \in FoldRuns(S, V) : Folding(g, base, step, pick, S)
<1> USE DEF FoldSteps, Picks
<1> DEFINE Next(g) == [T \in SUBSET S |->
                          IF T = {} THEN base ELSE step[<<pick[T], g[T \ {pick[T]}]>>]]
           Upto(g, n) == \A T \in SUBSET S : Cardinality(T) <= n => g[T] = Next(g)[T]
           N == {n \in Nat : \E g \in FoldRuns(S, V) : Upto(g, n)}
<1>1. ASSUME NEW g \in FoldRuns(S, V)
      PROVE  Next(g) \in FoldRuns(S, V)
  <2>1. \A T \in SUBSET S : T # {} => pick[T] \in S /\ T \ {pick[T]} \in SUBSET S
    OBVIOUS
  <2> QED
    BY <2>1 DEF FoldRuns
<1>2. 0 \in N
  <2> DEFINE g == [T \in SUBSET S |-> base]
  <2>1. \A T \in SUBSET S : Cardinality(T) <= 0 => T = {}
    BY FS_Subset, FS_EmptySet, FS_CardinalityType
  <2>2. g \in FoldRuns(S, V) /\ Upto(g, 0)
    BY <2>1 DEF FoldRuns
  <2> HIDE DEF g
  <2> QED
    BY <2>2
<1>3. ASSUME NEW n \in Nat, n \in N
      PROVE  n + 1 \in N
  <2>1. PICK g \in FoldRuns(S, V) : Upto(g, n)
    BY <1>3
  <2>2. ASSUME NEW T \in SUBSET S, Cardinality(T) <= n + 1, T # {}
        PROVE  g[T \ {pick[T]}] = Next(g)[T \ {pick[T]}]
    <3>1. pick[T] \in T /\ T \ {pick[T]} \in SUBSET S
      BY <2>2
    <3>2. Cardinality(T \ {pick[T]}) <= n
      BY <2>2, <3>1, OneLess
    <3> HIDE DEF Next
    <3> QED
      BY <2>1, <3>1, <3>2
  <2>3. Upto(Next(g), n + 1)
    <3> SUFFICES ASSUME NEW T \in SUBSET S, Cardinality(T) <= n + 1
                 PROVE  Next(g)[T] = Next(Next(g))[T]
      OBVIOUS
    <3>1. T # {} => T \ {pick[T]} \in SUBSET S
      OBVIOUS
    <3> QED
      BY <2>2, <3>1
  <2>4. \E f \in FoldRuns(S, V) : Upto(f, n + 1)
    <3>1. Next(g) \in FoldRuns(S, V)
      BY <1>1, <2>1
    <3> HIDE DEF Next, Upto
    <3> QED
      BY <2>3, <3>1
  <2>5. n + 1 \in Nat
    OBVIOUS
  <2> HIDE DEF Next, Upto
  <2> QED
    BY <2>4, <2>5
<1>4. Cardinality(S) \in N
  <2>1. Cardinality(S) \in Nat
    BY FS_CardinalityType
  <2> HIDE DEF N
  <2> QED
    BY <1>2, <1>3, <2>1, Induct
<1>5. PICK g \in FoldRuns(S, V) : Upto(g, Cardinality(S))
  BY <1>4
<1>6. \A T \in SUBSET S : g[T] = Next(g)[T]
  BY <1>5, FS_Subset
<1>7. g = Next(g)
  BY <1>6 DEF FoldRuns
<1> QED
  BY <1>7 DEF Folding

-----------------------------------------------------------------------------
(***************************************************************************)
(* The sum of a function over a finite set.  SumFunctionOnSet adds the     *)
(* values in an order of its own; any order gives the same.                *)
(***************************************************************************)
Picked(T) == CHOOSE x \in T : TRUE

Sums(g, h, S) ==
    g = [T \in SUBSET S |-> IF T = {} THEN 0 ELSE h[Picked(T)] + g[T \ {Picked(T)}]]

(* A sum grows by what is added to the set.                                *)
Adds(g, h, S) == \A T \in SUBSET S : \A x \in S \ T : g[T \cup {x}] = g[T] + h[x]

LEMMA PickedIsIn == \A T : T # {} => Picked(T) \in T /\ T \ {Picked(T)} \subseteq T
BY DEF Picked

LEMMA SumsExist ==
    ASSUME NEW S, IsFiniteSet(S), NEW h \in [S -> Int]
    PROVE  \E g \in [SUBSET S -> Int] : Sums(g, h, S)
<1> DEFINE step == [p \in S \X Int |-> h[p[1]] + p[2]]
           pick == [T \in (SUBSET S) \ {{}} |-> Picked(T)]
           none == 0
<1>1. /\ step \in FoldSteps(S, Int) /\ pick \in Picks(S) /\ none \in Int
      /\ \A T \in SUBSET S : T # {} => pick[T] \in T
  BY PickedIsIn DEF FoldSteps, Picks
<1>2. PICK g \in FoldRuns(S, Int) : Folding(g, none, step, pick, S)
  <2> HIDE DEF step, pick, none
  <2> QED
    BY <1>1, FoldsExist
<1>3. ASSUME NEW T \in SUBSET S, T # {}
      PROVE  g[T] = h[Picked(T)] + g[T \ {Picked(T)}]
  <2>1. Picked(T) \in S /\ T \ {Picked(T)} \in SUBSET S /\ pick[T] = Picked(T)
    BY <1>3, PickedIsIn
  <2>2. <<Picked(T), g[T \ {Picked(T)}]>> \in S \X Int
    BY <1>2, <2>1 DEF FoldRuns
  <2>3. g[T] = step[<<pick[T], g[T \ {pick[T]}]>>]
    <3> HIDE DEF step, pick
    <3> QED
      BY <1>2, <1>3 DEF Folding
  <2> QED
    BY <2>1, <2>2, <2>3
<1>4. g[{}] = 0
  BY <1>2 DEF Folding
<1>5. g = [T \in SUBSET S |-> IF T = {} THEN 0 ELSE h[Picked(T)] + g[T \ {Picked(T)}]]
  BY <1>2, <1>3, <1>4 DEF FoldRuns
<1> QED
  BY <1>2, <1>5 DEF FoldRuns, Sums

LEMMA SumIs ==
    ASSUME NEW S, IsFiniteSet(S), NEW h \in [S -> Int],
           NEW g \in [SUBSET S -> Int], Sums(g, h, S),
           NEW T \in SUBSET S
    PROVE  SumFunctionOnSet(h, T) = g[T]
<1> DEFINE iter == CHOOSE i : Sums(i, h, T)
           P == {n \in Nat : \A U \in SUBSET T : Cardinality(U) <= n => iter[U] = g[U]}
<1>1. SumFunctionOnSet(h, T) = iter[T]
  BY DEF SumFunctionOnSet, FoldFunctionOnSet, MapThenFoldSet, Sums, Picked
<1>2. Sums(iter, h, T)
  <2> DEFINE r == [U \in SUBSET T |-> g[U]]
  <2>1. \A U \in SUBSET T : U # {} => Picked(U) \in U /\ U \ {Picked(U)} \in SUBSET T
    BY PickedIsIn
  <2>2. r = [U \in SUBSET T |-> IF U = {} THEN 0 ELSE h[Picked(U)] + r[U \ {Picked(U)}]]
    BY <2>1 DEF Sums
  <2>3. \E i : Sums(i, h, T)
    <3> HIDE DEF r
    <3> QED
      BY <2>2 DEF Sums
  <2> HIDE DEF iter
  <2> QED
    BY <2>3 DEF iter
<1> HIDE DEF iter
<1>3. \A U \in SUBSET T : iter[U] = IF U = {} THEN 0 ELSE h[Picked(U)] + iter[U \ {Picked(U)}]
  BY <1>2 DEF Sums
<1>4. \A U \in SUBSET T : g[U] = IF U = {} THEN 0 ELSE h[Picked(U)] + g[U \ {Picked(U)}]
  BY DEF Sums
<1>5. 0 \in P
  <2>1. \A U \in SUBSET T : Cardinality(U) <= 0 => U = {}
    BY FS_Subset, FS_EmptySet, FS_CardinalityType
  <2> QED
    BY <1>3, <1>4, <2>1
<1>6. ASSUME NEW n \in Nat, n \in P
      PROVE  n + 1 \in P
  <2> SUFFICES ASSUME NEW U \in SUBSET T, Cardinality(U) <= n + 1
               PROVE  iter[U] = g[U]
    OBVIOUS
  <2>1. CASE U = {}
    BY <1>3, <1>4, <2>1
  <2>2. CASE U # {}
    <3>1. U \in SUBSET S /\ Picked(U) \in U /\ U \ {Picked(U)} \in SUBSET T
      BY <2>2, PickedIsIn
    <3>2. iter[U \ {Picked(U)}] = g[U \ {Picked(U)}]
      BY <1>6, <3>1, OneLess
    <3> QED
      BY <1>3, <1>4, <2>2, <3>1, <3>2
  <2> QED
    BY <2>1, <2>2
<1>7. Cardinality(T) \in P
  <2>1. Cardinality(T) \in Nat
    BY FS_Subset, FS_CardinalityType
  <2> HIDE DEF P
  <2> QED
    BY <1>5, <1>6, <2>1, Induct
<1>8. iter[T] = g[T]
  <2>1. Cardinality(T) \in Nat
    BY FS_Subset, FS_CardinalityType
  <2> QED
    BY <1>7, <2>1
<1> QED
  BY <1>1, <1>8

LEMMA SumsAdd ==
    ASSUME NEW S, IsFiniteSet(S), NEW h \in [S -> Int],
           NEW g \in [SUBSET S -> Int], Sums(g, h, S)
    PROVE  Adds(g, h, S)
<1> DEFINE P == {n \in Nat : \A T \in SUBSET S : \A x \in S \ T :
                    Cardinality(T) <= n => g[T \cup {x}] = g[T] + h[x]}
<1>1. \A T \in SUBSET S : g[T] = IF T = {} THEN 0 ELSE h[Picked(T)] + g[T \ {Picked(T)}]
  BY DEF Sums
<1>2. ASSUME NEW T \in SUBSET S, NEW x \in S \ T, Picked(T \cup {x}) = x
      PROVE  g[T \cup {x}] = g[T] + h[x]
  <2>1. T \cup {x} \in SUBSET S /\ T \cup {x} # {} /\ (T \cup {x}) \ {x} = T
    OBVIOUS
  <2>2. g[T \cup {x}] = h[x] + g[T]
    BY <1>1, <1>2, <2>1
  <2> QED
    BY <2>2
<1>3. 0 \in P
  <2> SUFFICES ASSUME NEW T \in SUBSET S, NEW x \in S \ T, Cardinality(T) <= 0
               PROVE  g[T \cup {x}] = g[T] + h[x]
    OBVIOUS
  <2>1. T = {}
    BY FS_Subset, FS_EmptySet, FS_CardinalityType
  <2>2. Picked(T \cup {x}) = x
    BY <2>1, PickedIsIn
  <2> QED
    BY <1>2, <2>2
<1>4. ASSUME NEW n \in Nat, n \in P
      PROVE  n + 1 \in P
  <2> SUFFICES ASSUME NEW T \in SUBSET S, NEW x \in S \ T, Cardinality(T) <= n + 1,
                      Picked(T \cup {x}) # x
               PROVE  g[T \cup {x}] = g[T] + h[x]
    BY <1>2
  <2> DEFINE c == Picked(T \cup {x})
             R == T \ {c}
  <2>1. c \in T
    <3>1. T \cup {x} # {}
      OBVIOUS
    <3> QED
      BY <3>1, PickedIsIn
  <2> HIDE DEF c
  <2>2. /\ R \in SUBSET S /\ x \in S \ R /\ c \in S \ R
        /\ R \cup {c} = T /\ (T \cup {x}) \ {c} = R \cup {x}
        /\ T \cup {x} \in SUBSET S /\ T \cup {x} # {} /\ R \cup {x} \in SUBSET S
    <3>1. c # x
      BY <2>1
    <3> QED
      BY <2>1, <3>1
  <2>3. Cardinality(R) <= n
    BY <2>1, OneLess
  <2>4. g[R \cup {x}] = g[R] + h[x] /\ g[R \cup {c}] = g[R] + h[c]
    BY <1>4, <2>2, <2>3
  <2>5. g[T \cup {x}] = h[c] + g[R \cup {x}]
    BY <1>1, <2>2 DEF c
  <2>6. g[R] \in Int /\ h[x] \in Int /\ h[c] \in Int /\ g[T] = g[R] + h[c]
    BY <2>2, <2>4
  <2> QED
    BY <2>4, <2>5, <2>6
<1>5. \A n \in Nat : n \in P
  <2> HIDE DEF P
  <2> QED
    BY <1>3, <1>4, Induct
<1>6. \A T \in SUBSET S : Cardinality(T) \in Nat
  BY FS_Subset, FS_CardinalityType
<1>7. ASSUME NEW T \in SUBSET S, NEW x \in S \ T
      PROVE  g[T \cup {x}] = g[T] + h[x]
  <2>1. Cardinality(T) \in P
    BY <1>5, <1>6
  <2>2. Cardinality(T) <= Cardinality(T)
    BY <1>6
  <2> QED
    BY <2>1, <2>2
<1> QED
  BY <1>7 DEF Adds

(* Element by element.                                                     *)
LEMMA SumAdds ==
    ASSUME NEW S, IsFiniteSet(S), NEW h \in [S -> Int], NEW T \in SUBSET S
    PROVE  /\ SumFunctionOnSet(h, {}) = 0
           /\ SumFunctionOnSet(h, T) \in Int
           /\ \A x \in S \ T : SumFunctionOnSet(h, T \cup {x}) = SumFunctionOnSet(h, T) + h[x]
<1>1. PICK g \in [SUBSET S -> Int] : Sums(g, h, S)
  BY SumsExist
<1>2. g[{}] = 0
  BY <1>1 DEF Sums
<1>3. {} \in SUBSET S /\ \A x \in S \ T : T \cup {x} \in SUBSET S
  OBVIOUS
<1>4. \A U \in SUBSET S : SumFunctionOnSet(h, U) = g[U]
  BY <1>1, SumIs
<1>5. Adds(g, h, S)
  BY <1>1, SumsAdd
<1>6. \A x \in S \ T : g[T \cup {x}] = g[T] + h[x]
  BY <1>5 DEF Adds
<1> QED
  BY <1>1, <1>2, <1>3, <1>4, <1>6

(* When a function changes at one argument, its sum changes by as much.    *)
LEMMA SumChanges ==
    ASSUME NEW S, IsFiniteSet(S), NEW g \in [S -> Int], NEW h \in [S -> Int], NEW x \in S,
           \A y \in S \ {x} : h[y] = g[y]
    PROVE  /\ SumFunction(g) \in Int
           /\ SumFunction(h) = SumFunction(g) + h[x] - g[x]
<1> DEFINE D(T) == IF x \in T THEN h[x] - g[x] ELSE 0
           P == {T \in SUBSET S : SumFunctionOnSet(h, T) = SumFunctionOnSet(g, T) + D(T)}
<1>1. {} \in P
  BY SumAdds
<1>2. ASSUME NEW T \in SUBSET S, NEW y \in S \ T, T \in P
      PROVE  T \cup {y} \in P
  <2>1. /\ SumFunctionOnSet(h, T) \in Int
        /\ SumFunctionOnSet(h, T \cup {y}) = SumFunctionOnSet(h, T) + h[y]
    BY SumAdds
  <2>2. /\ SumFunctionOnSet(g, T) \in Int
        /\ SumFunctionOnSet(g, T \cup {y}) = SumFunctionOnSet(g, T) + g[y]
    BY SumAdds
  <2>3. g[y] \in Int /\ h[y] \in Int /\ g[x] \in Int /\ h[x] \in Int
    OBVIOUS
  <2>4. CASE y = x
    BY <1>2, <2>1, <2>2, <2>3, <2>4
  <2>5. CASE y # x
    BY <1>2, <2>1, <2>2, <2>3, <2>5
  <2> QED
    BY <2>4, <2>5
<1>3. S \in P
  <2> HIDE DEF P
  <2> QED
    BY <1>1, <1>2, InductOver
<1>4. SumFunctionOnSet(g, S) \in Int
  BY SumAdds
<1>5. DOMAIN g = S /\ DOMAIN h = S
  OBVIOUS
<1> QED
  BY <1>3, <1>4, <1>5 DEF SumFunction

LEMMA SumOfZeros ==
    ASSUME NEW S, IsFiniteSet(S), NEW h \in [S -> Int], \A x \in S : h[x] = 0
    PROVE  SumFunction(h) = 0
<1> DEFINE P == {T \in SUBSET S : SumFunctionOnSet(h, T) = 0}
<1>1. {} \in P
  BY SumAdds
<1>2. ASSUME NEW T \in SUBSET S, NEW y \in S \ T, T \in P
      PROVE  T \cup {y} \in P
  BY <1>2, SumAdds
<1>3. S \in P
  <2> HIDE DEF P
  <2> QED
    BY <1>1, <1>2, InductOver
<1> QED
  BY <1>3 DEF SumFunction

=============================================================================
