-------------------- MODULE SignalUpdatePublisher_proof -------------------
(* Proofs about SignalUpdatePublisher, for any signals, threads, number of *)
(* samples and pauses, and any publishes that fail.                        *)
EXTENDS SignalUpdatePublisher, SequenceTheorems, TLAPS

-----------------------------------------------------------------------------
(* The numbers in a sequence.                                              *)

LEMMA NumbersEmpty == Numbers(<<>>) = {}
BY DEF Numbers

LEMMA NumbersAppend ==
    ASSUME NEW s \in Seq(Nat), NEW n \in Nat
    PROVE  Numbers(Append(s, n)) = Numbers(s) \cup {n}
BY AppendProperties DEF Numbers

LEMMA NumbersConcat ==
    ASSUME NEW s \in Seq(Nat), NEW t \in Seq(Nat)
    PROVE  Numbers(s \o t) = Numbers(s) \cup Numbers(t)
<1>1. /\ DOMAIN s = 1..Len(s) /\ DOMAIN t = 1..Len(t)
      /\ DOMAIN (s \o t) = 1..(Len(s) + Len(t))
      /\ Len(s) \in Nat /\ Len(t) \in Nat
  BY ConcatProperties, LenProperties
<1>2. \A i \in 1..(Len(s) + Len(t)) :
        (s \o t)[i] = IF i <= Len(s) THEN s[i] ELSE t[i - Len(s)]
  BY ConcatProperties
<1>3. Numbers(s \o t) \subseteq Numbers(s) \cup Numbers(t)
  <2> SUFFICES ASSUME NEW i \in 1..(Len(s) + Len(t))
               PROVE  (s \o t)[i] \in Numbers(s) \cup Numbers(t)
    BY <1>1 DEF Numbers
  <2>1. CASE i <= Len(s)
    BY <1>1, <1>2, <2>1, SMTT(30) DEF Numbers
  <2>2. CASE ~(i <= Len(s))
    <3>1. i - Len(s) \in 1..Len(t)
      BY <1>1, <2>2
    <3> QED
      BY <1>1, <1>2, <2>2, <3>1 DEF Numbers
  <2> QED
    BY <2>1, <2>2
<1>4. Numbers(s) \subseteq Numbers(s \o t)
  <2> SUFFICES ASSUME NEW i \in 1..Len(s) PROVE s[i] \in Numbers(s \o t)
    BY <1>1 DEF Numbers
  <2>1. i \in 1..(Len(s) + Len(t)) /\ (s \o t)[i] = s[i]
    BY <1>1, <1>2
  <2> QED
    BY <1>1, <2>1 DEF Numbers
<1>5. Numbers(t) \subseteq Numbers(s \o t)
  <2> SUFFICES ASSUME NEW i \in 1..Len(t) PROVE t[i] \in Numbers(s \o t)
    BY <1>1 DEF Numbers
  <2>1. i + Len(s) \in 1..(Len(s) + Len(t)) /\ (s \o t)[i + Len(s)] = t[i]
    BY <1>1, <1>2
  <2> QED
    BY <1>1, <2>1 DEF Numbers
<1> QED
  BY <1>3, <1>4, <1>5

Distinct(s) == \A i, j \in DOMAIN s : s[i] = s[j] => i = j
Below(s, t) == \A x \in Numbers(s), y \in Numbers(t) : x < y

LEMMA DistinctAppend ==
    ASSUME NEW s \in Seq(Nat), NEW n \in Nat, Distinct(s), n \notin Numbers(s)
    PROVE  Distinct(Append(s, n))
BY AppendProperties DEF Distinct, Numbers

\* The elements of s \o t: those of s, then those of t.
Joins(u, s, t, m, n) ==
    /\ m \in Nat /\ n \in Nat
    /\ DOMAIN s = 1..m /\ DOMAIN t = 1..n /\ DOMAIN u = 1..(m + n)
    /\ \A i \in 1..m : u[i] = s[i] /\ s[i] \in Nat
    /\ \A i \in 1..n : u[m + i] = t[i] /\ t[i] \in Nat

LEMMA ConcatJoins ==
    ASSUME NEW s \in Seq(Nat), NEW t \in Seq(Nat)
    PROVE  Joins(s \o t, s, t, Len(s), Len(t))
<1>1. /\ DOMAIN s = 1..Len(s) /\ DOMAIN t = 1..Len(t)
      /\ DOMAIN (s \o t) = 1..(Len(s) + Len(t))
      /\ Len(s) \in Nat /\ Len(t) \in Nat
  BY ConcatProperties, LenProperties
<1>2. \A i \in 1..(Len(s) + Len(t)) :
        (s \o t)[i] = IF i <= Len(s) THEN s[i] ELSE t[i - Len(s)]
  BY ConcatProperties
<1>3. \A i \in 1..Len(s) : (s \o t)[i] = s[i] /\ s[i] \in Nat
  BY <1>1, <1>2, ElementOfSeq
<1>4. ASSUME NEW i \in 1..Len(t) PROVE (s \o t)[Len(s) + i] = t[i] /\ t[i] \in Nat
  <2>1. /\ Len(s) + i \in 1..(Len(s) + Len(t)) /\ ~(Len(s) + i <= Len(s))
        /\ (Len(s) + i) - Len(s) = i
    BY <1>1
  <2> QED
    BY <1>2, <2>1, ElementOfSeq
<1> QED
  BY <1>1, <1>3, <1>4 DEF Joins

\* An index of the joined sequence is an index of the first or, shifted, of the
\* second.
LEMMA JoinsIndex ==
    ASSUME NEW u, NEW s, NEW t, NEW m, NEW n, Joins(u, s, t, m, n), NEW i \in DOMAIN u
    PROVE  \/ i \in DOMAIN s /\ u[i] = s[i] /\ s[i] \in Numbers(s)
           \/ /\ i - m \in DOMAIN t /\ u[i] = t[i - m] /\ t[i - m] \in Numbers(t)
              /\ i = m + (i - m)
<1>1. m \in Nat /\ n \in Nat /\ i \in 1..(m + n)
  BY DEF Joins
<1>2. CASE i <= m
  BY <1>1, <1>2 DEF Joins, Numbers
<1>3. CASE i > m
  <2>1. i - m \in 1..n /\ i = m + (i - m)
    BY <1>1, <1>3
  <2> QED
    BY <2>1 DEF Joins, Numbers
<1> QED
  BY <1>1, <1>2, <1>3

LEMMA DistinctConcat ==
    ASSUME NEW s \in Seq(Nat), NEW t \in Seq(Nat), Distinct(s), Distinct(t),
           Numbers(s) \cap Numbers(t) = {}
    PROVE  Distinct(s \o t)
<1> DEFINE u == s \o t
           m == Len(s)
<1>1. Joins(u, s, t, m, Len(t))
  BY ConcatJoins
<1> SUFFICES ASSUME NEW i \in DOMAIN u, NEW j \in DOMAIN u, u[i] = u[j] PROVE i = j
  BY DEF Distinct
<1> HIDE DEF u, m
<1>2. \/ i \in DOMAIN s /\ u[i] = s[i] /\ s[i] \in Numbers(s)
      \/ /\ i - m \in DOMAIN t /\ u[i] = t[i - m] /\ t[i - m] \in Numbers(t)
         /\ i = m + (i - m)
  BY <1>1, JoinsIndex
<1>3. \/ j \in DOMAIN s /\ u[j] = s[j] /\ s[j] \in Numbers(s)
      \/ /\ j - m \in DOMAIN t /\ u[j] = t[j - m] /\ t[j - m] \in Numbers(t)
         /\ j = m + (j - m)
  BY <1>1, JoinsIndex
<1>4. CASE i \in DOMAIN s /\ u[i] = s[i] /\ s[i] \in Numbers(s)
  BY <1>3, <1>4 DEF Distinct
<1>5. CASE /\ i - m \in DOMAIN t /\ u[i] = t[i - m] /\ t[i - m] \in Numbers(t)
           /\ i = m + (i - m)
  <2>1. /\ j - m \in DOMAIN t /\ t[j - m] = t[i - m] /\ j = m + (j - m)
    BY <1>3, <1>5
  <2>2. i - m = j - m
    BY <1>5, <2>1 DEF Distinct
  <2> QED
    BY <1>5, <2>1, <2>2
<1> QED
  BY <1>2, <1>4, <1>5

LEMMA IncreasingAppend ==
    ASSUME NEW s \in Seq(Nat), NEW n \in Nat, Increasing(s), \A x \in Numbers(s) : x < n
    PROVE  Increasing(Append(s, n))
BY AppendProperties DEF Increasing, Numbers

LEMMA IncreasingConcat ==
    ASSUME NEW s \in Seq(Nat), NEW t \in Seq(Nat), Increasing(s), Increasing(t),
           Below(s, t)
    PROVE  Increasing(s \o t)
<1> DEFINE u == s \o t
           m == Len(s)
           n == Len(t)
<1>1. Joins(u, s, t, m, n)
  BY ConcatJoins
<1> SUFFICES ASSUME NEW i \in DOMAIN u, NEW j \in DOMAIN u, i < j PROVE u[i] < u[j]
  BY DEF Increasing
<1> HIDE DEF u, m, n
<1>2. m \in Nat /\ n \in Nat /\ i \in 1..(m + n) /\ j \in 1..(m + n)
  BY <1>1 DEF Joins
<1>3. CASE j <= m
  <2>1. i \in 1..m /\ j \in 1..m
    BY <1>2, <1>3
  <2>2. u[i] = s[i] /\ u[j] = s[j] /\ DOMAIN s = 1..m
    BY <1>1, <2>1 DEF Joins
  <2> QED
    BY <2>1, <2>2 DEF Increasing
<1>4. CASE i > m
  <2>1. i - m \in 1..n /\ j - m \in 1..n /\ i - m < j - m
    BY <1>2, <1>4
  <2>2. i = m + (i - m) /\ j = m + (j - m)
    BY <1>2
  <2>3. u[i] = t[i - m] /\ u[j] = t[j - m]
    BY <1>1, <2>1, <2>2 DEF Joins
  <2> QED
    BY <1>1, <2>1, <2>3 DEF Joins, Increasing
<1>5. CASE i <= m /\ j > m
  <2>1. u[i] \in Numbers(s)
    BY <1>1, <1>2, <1>5 DEF Joins, Numbers
  <2>2. j - m \in 1..n /\ j = m + (j - m)
    BY <1>2, <1>5
  <2>3. u[j] \in Numbers(t)
    BY <1>1, <2>2 DEF Joins, Numbers
  <2> QED
    BY <2>1, <2>3 DEF Below
<1> QED
  BY <1>2, <1>3, <1>4, <1>5

-----------------------------------------------------------------------------
(* The types.                                                              *)

LEMMA NothingIsEntry == Nothing \in Entry /\ \A m \in Kinds : Nothing[m] = <<>>
BY EmptySeq DEF Nothing, Entry

LEMMA TypeInit == Init => TypeOK
<1> SUFFICES ASSUME Init PROVE TypeOK
  OBVIOUS
<1>1. paused \in BOOLEAN
  BY DEF Init
<1>2. /\ pending \in [Keys -> Entry] /\ delivered \in [Keys -> Entry]
      /\ hand \in [Flushers -> [Keys -> Entry]]
  BY NothingIsEntry DEF Init
<1>3. lost \in [Keys -> [Kinds -> SUBSET Nat]]
  BY DEF Init
<1> QED
  BY <1>1, <1>2, <1>3 DEF Init, TypeOK

LEMMA TypeStep == TypeOK /\ [Next]_vars => TypeOK'
<1> SUFFICES ASSUME TypeOK, [Next]_vars PROVE TypeOK'
  OBVIOUS
<1>1. ASSUME NEW p \in Pollers \cup Callers, NEW k \in Keys, NEW m \in Kinds,
             Offer(p, k, m)
      PROVE  TypeOK'
  <2>1. Append(pending[k][m], accepted[k] + 1) \in Seq(Nat)
    BY AppendProperties DEF TypeOK, Entry
  <2>2. pending' \in [Keys -> Entry]
    BY <1>1, <2>1 DEF TypeOK, Offer, Entry
  <2>3. accepted' \in [Keys -> Nat]
    BY <1>1 DEF TypeOK, Offer
  <2> QED
    BY <1>1, <2>2, <2>3 DEF TypeOK, Offer, control
<1>2. ASSUME NEW p \in Pollers, PollerEnds(p) PROVE TypeOK'
  BY <1>2 DEF TypeOK, PollerEnds, flow
<1>3. ASSUME NEW f \in Flushers, Take(f)
      PROVE  /\ pending' \in [Keys -> Entry]
             /\ hand' \in [Flushers -> [Keys -> Entry]]
             /\ UNCHANGED <<accepted, delivered, lost>>
  BY <1>3, NothingIsEntry DEF TypeOK, Take
<1>4. ASSUME NEW f \in Flushers, NEW k \in Keys, NEW m \in Kinds,
             PublishOk(f, k, m) \/ PublishFails(f, k, m)
      PROVE  TypeOK'
  <2>1. hand[f][k] \in Entry /\ delivered[k] \in Entry
    BY DEF TypeOK
  <2>2. CASE PublishOk(f, k, m)
    <3>1. delivered[k][m] \o hand[f][k][m] \in Seq(Nat)
      BY <2>1, ConcatProperties DEF Entry
    <3>2. delivered' \in [Keys -> Entry]
      BY <2>2, <3>1 DEF TypeOK, PublishOk, Entry
    <3>3. <<>> \in Seq(Nat)
      BY EmptySeq
    <3>4. hand' \in [Flushers -> [Keys -> Entry]]
      BY <2>2, <3>3 DEF TypeOK, PublishOk, Entry
    <3> QED
      BY <2>2, <3>2, <3>4 DEF TypeOK, PublishOk, control
  <2>3. CASE PublishFails(f, k, m)
    <3>1. \A n \in Kinds : Numbers(hand[f][k][n]) \subseteq Nat
      BY <2>1, ElementOfSeq, LenProperties DEF Entry, Numbers
    <3>2. lost' \in [Keys -> [Kinds -> SUBSET Nat]]
      BY <2>3, <3>1 DEF TypeOK, PublishFails
    <3>3. hand' \in [Flushers -> [Keys -> Entry]]
      BY <2>3, NothingIsEntry DEF TypeOK, PublishFails
    <3> QED
      BY <2>3, <3>2, <3>3 DEF TypeOK, PublishFails, control
  <2> QED
    BY <1>4, <2>2, <2>3
<1>5. CASE Tick
  <2>1. CASE TickDue \/ TickDone \/ TickEnds
    BY <2>1 DEF TypeOK, TickDue, TickDone, TickEnds, flow
  <2>2. CASE TickFlush
    BY <1>3, <2>2 DEF TypeOK, TickFlush, Flushers
  <2>3. CASE Publish("tick")
    BY <1>4, <2>3 DEF Publish, Flushers
  <2> QED
    BY <1>5, <2>1, <2>2, <2>3 DEF Tick
<1>6. CASE Shutdown
  <2>1. CASE Joined \/ StopDone
    BY <2>1 DEF TypeOK, Joined, StopDone, flow
  <2>2. CASE StopFlush
    BY <1>3, <2>2 DEF TypeOK, StopFlush, Flushers
  <2>3. CASE Publish("stop")
    BY <1>4, <2>3 DEF Publish, Flushers
  <2> QED
    BY <1>6, <2>1, <2>2, <2>3 DEF Shutdown
<1>7. CASE Stop
  BY <1>7 DEF TypeOK, Stop, flow
<1>8. CASE Pause \/ Resume
  <2>1. paused' \in BOOLEAN
    BY <1>8 DEF Pause, Resume
  <2>2. pauses' \in Nat
    BY <1>8 DEF TypeOK, Pause, Resume
  <2> QED
    BY <1>8, <2>1, <2>2 DEF TypeOK, Pause, Resume, flow
<1>9. CASE UNCHANGED vars
  BY <1>9 DEF TypeOK, vars, flow, control
<1> QED
  BY <1>1, <1>2, <1>5, <1>6, <1>7, <1>8, <1>9 DEF Next

\* Every variable keeps its type.
THEOREM Typing == Spec => []TypeOK
BY TypeInit, TypeStep, PTL DEF Spec

-----------------------------------------------------------------------------
(* Where the samples are.  A flusher has nothing in hand unless it is      *)
(* flushing, so taking the batch overwrites nothing; a batch is in one     *)
(* place, so a message delivers or loses each of its samples once.         *)

HandsEmpty ==
    /\ tick # "flushing" => Flushed("tick")
    /\ stage # "flushing" => Flushed("stop")

\* The places of the samples of k with kind m are disjoint and without repeats.
Apart(k, m) ==
    /\ Distinct(pending[k][m]) /\ Distinct(delivered[k][m])
    /\ Distinct(hand["tick"][k][m]) /\ Distinct(hand["stop"][k][m])
    /\ Numbers(pending[k][m]) \cap Numbers(hand["tick"][k][m]) = {}
    /\ Numbers(pending[k][m]) \cap Numbers(hand["stop"][k][m]) = {}
    /\ Numbers(hand["tick"][k][m]) \cap Numbers(hand["stop"][k][m]) = {}
    /\ Held(k, m) \cap (Numbers(delivered[k][m]) \cup lost[k][m]) = {}
    /\ Numbers(delivered[k][m]) \cap lost[k][m] = {}

PlacesInv ==
    /\ HandsEmpty
    /\ \A k \in Keys : Everywhere(k) = 1..accepted[k]
    /\ \A k \in Keys, m \in Kinds : Apart(k, m)

LEMMA PlacesInit == Init => PlacesInv
<1> SUFFICES ASSUME Init PROVE PlacesInv
  OBVIOUS
<1>1. \A k \in Keys, m \in Kinds :
         /\ pending[k][m] = <<>> /\ delivered[k][m] = <<>>
         /\ hand["tick"][k][m] = <<>> /\ hand["stop"][k][m] = <<>>
         /\ lost[k][m] = {}
  BY NothingIsEntry DEF Init, Flushers
<1>2. \A k \in Keys, m \in Kinds : Apart(k, m)
  BY <1>1, NumbersEmpty DEF Apart, Distinct, Held
<1>3. \A k \in Keys : Everywhere(k) = {}
  BY <1>1, NumbersEmpty, ZenonT(60) DEF Everywhere, Held
<1>4. \A k \in Keys : 1..accepted[k] = {}
  <2>1. 1..0 = {}
    OBVIOUS
  <2> QED
    BY <2>1 DEF Init
<1>5. HandsEmpty
  BY DEF Init, HandsEmpty, Flushed, Flushers
<1> QED
  BY <1>2, <1>3, <1>4, <1>5 DEF PlacesInv

\* The places of k and m depend on the flow of k and m only.
LEMMA PlacesFrame ==
    ASSUME NEW k \in Keys, NEW m \in Kinds, Apart(k, m),
           pending'[k][m] = pending[k][m], delivered'[k][m] = delivered[k][m],
           hand'["tick"][k][m] = hand["tick"][k][m],
           hand'["stop"][k][m] = hand["stop"][k][m], lost'[k][m] = lost[k][m]
    PROVE  Apart(k, m)' /\ Held(k, m)' = Held(k, m)
BY DEF Apart, Held

\* A step that keeps the flow and the hands of idle flushers keeps the places.
LEMMA PlacesControl ==
    ASSUME PlacesInv, UNCHANGED flow, HandsEmpty'
    PROVE  PlacesInv'
<1>1. ASSUME NEW k \in Keys, NEW m \in Kinds
      PROVE  Apart(k, m)' /\ Held(k, m)' = Held(k, m)
  BY PlacesFrame DEF PlacesInv, flow
<1>2. \A k \in Keys : Everywhere(k)' = 1..accepted'[k]
  BY <1>1 DEF PlacesInv, Everywhere, flow
<1> QED
  BY <1>1, <1>2 DEF PlacesInv

LEMMA PlacesOffer ==
    ASSUME TypeOK, PlacesInv, NEW p, NEW k \in Keys, NEW m \in Kinds, Offer(p, k, m)
    PROVE  PlacesInv'
<1> DEFINE n == accepted[k] + 1
<1>1. /\ pending[k] \in Entry /\ accepted[k] \in Nat /\ pending[k][m] \in Seq(Nat)
      /\ n \in Nat
  BY DEF TypeOK, Entry
<1>2. /\ pending'[k][m] = Append(pending[k][m], n)
      /\ \A l \in Keys, h \in Kinds : l # k \/ h # m => pending'[l][h] = pending[l][h]
      /\ accepted'[k] = n /\ \A l \in Keys \ {k} : accepted'[l] = accepted[l]
      /\ UNCHANGED <<hand, delivered, lost, control>>
  BY DEF TypeOK, Entry, Offer
<1>3. Numbers(pending'[k][m]) = Numbers(pending[k][m]) \cup {n}
  BY <1>1, <1>2, NumbersAppend
<1>4. \A h \in Kinds : n \notin Held(k, h) \cup Numbers(delivered[k][h]) \cup lost[k][h]
  <2>1. n \notin 1..accepted[k]
    BY <1>1
  <2> QED
    BY <2>1 DEF PlacesInv, Everywhere
<1>5. Apart(k, m)' /\ Held(k, m)' = Held(k, m) \cup {n}
  <2>1. Apart(k, m)
    BY DEF PlacesInv
  <2>2. Distinct(pending'[k][m])
    <3>1. n \notin Numbers(pending[k][m])
      BY <1>4 DEF Held
    <3> QED
      BY <1>1, <1>2, <2>1, <3>1, DistinctAppend DEF Apart
  <2> HIDE DEF n
  <2> QED
    BY <1>2, <1>3, <1>4, <2>1, <2>2 DEF Apart, Held
<1>6. ASSUME NEW l \in Keys, NEW h \in Kinds, l # k \/ h # m
      PROVE  Apart(l, h)' /\ Held(l, h)' = Held(l, h)
  BY <1>2, <1>6, PlacesFrame DEF PlacesInv
<1>7. \A l \in Keys : Everywhere(l)' = 1..accepted'[l]
  <2>1. ASSUME NEW l \in Keys, l # k PROVE Everywhere(l)' = 1..accepted'[l]
    BY <1>2, <1>6, <2>1 DEF Everywhere, PlacesInv
  <2>2. Everywhere(k)' = Everywhere(k) \cup {n}
    BY <1>2, <1>5, <1>6 DEF Everywhere
  <2>3. 1..n = 1..accepted[k] \cup {n}
    BY <1>1
  <2> QED
    BY <1>2, <2>1, <2>2, <2>3 DEF PlacesInv
<1>8. HandsEmpty'
  BY <1>2 DEF PlacesInv, HandsEmpty, Flushed, control
<1> QED
  BY <1>5, <1>6, <1>7, <1>8 DEF PlacesInv

LEMMA PlacesTake ==
    ASSUME TypeOK, PlacesInv, NEW f \in Flushers, Flushed(f), Take(f), HandsEmpty'
    PROVE  PlacesInv'
<1>1. ASSUME NEW k \in Keys, NEW m \in Kinds
      PROVE  Apart(k, m)' /\ Held(k, m)' = Held(k, m)
  <2>1. /\ pending'[k][m] = <<>> /\ delivered'[k][m] = delivered[k][m]
        /\ lost'[k][m] = lost[k][m]
        /\ hand'[f][k][m] = pending[k][m]
        /\ \A g \in Flushers \ {f} : hand'[g] = hand[g]
        /\ hand[f][k][m] = <<>>
    BY NothingIsEntry DEF TypeOK, Take, Flushed
  <2>2. Apart(k, m)
    BY DEF PlacesInv
  <2>3. Distinct(<<>>)
    BY DEF Distinct
  <2>4. CASE f = "tick"
    <3>1. hand'["stop"] = hand["stop"]
      BY <2>1, <2>4 DEF Flushers
    <3> QED
      BY <2>1, <2>2, <2>3, <2>4, <3>1, NumbersEmpty DEF Apart, Held
  <2>5. CASE f = "stop"
    <3>1. hand'["tick"] = hand["tick"]
      BY <2>1, <2>5 DEF Flushers
    <3> QED
      BY <2>1, <2>2, <2>3, <2>5, <3>1, NumbersEmpty DEF Apart, Held
  <2> QED
    BY <2>4, <2>5 DEF Flushers
<1>2. \A k \in Keys : Everywhere(k)' = 1..accepted'[k]
  BY <1>1 DEF PlacesInv, Everywhere, Take
<1> QED
  BY <1>1, <1>2 DEF PlacesInv


LEMMA PlacesPublishOk ==
    ASSUME TypeOK, PlacesInv, NEW f \in Flushers, NEW k \in Keys, NEW m \in Kinds,
           PublishOk(f, k, m)
    PROVE  PlacesInv'
<1>1. /\ delivered'[k][m] = delivered[k][m] \o hand[f][k][m]
      /\ hand'[f][k][m] = <<>>
      /\ \A g \in Flushers, l \in Keys, h \in Kinds :
            g # f \/ l # k \/ h # m => hand'[g][l][h] = hand[g][l][h]
      /\ \A l \in Keys, h \in Kinds :
            l # k \/ h # m => delivered'[l][h] = delivered[l][h]
      /\ UNCHANGED <<accepted, pending, lost, control>>
  <2>1. /\ hand \in [Flushers -> [Keys -> [Kinds -> Seq(Nat)]]]
        /\ hand' = [hand EXCEPT ![f][k][m] = <<>>]
    BY DEF TypeOK, Entry, PublishOk
  <2>2. /\ delivered \in [Keys -> [Kinds -> Seq(Nat)]]
        /\ delivered' = [delivered EXCEPT ![k][m] = delivered[k][m] \o hand[f][k][m]]
    BY DEF TypeOK, Entry, PublishOk
  <2>3. /\ hand'[f][k][m] = <<>>
        /\ \A g \in Flushers, l \in Keys, h \in Kinds :
              g # f \/ l # k \/ h # m => hand'[g][l][h] = hand[g][l][h]
    BY <2>1
  <2>4. /\ delivered'[k][m] = delivered[k][m] \o hand[f][k][m]
        /\ \A l \in Keys, h \in Kinds :
              l # k \/ h # m => delivered'[l][h] = delivered[l][h]
    BY <2>2
  <2> QED
    BY <2>3, <2>4 DEF PublishOk
<1>2. delivered[k][m] \in Seq(Nat) /\ hand[f][k][m] \in Seq(Nat)
  BY DEF TypeOK, Entry
<1>3. Numbers(delivered'[k][m]) = Numbers(delivered[k][m]) \cup Numbers(hand[f][k][m])
  BY <1>1, <1>2, NumbersConcat
<1>4. Apart(k, m)
  BY DEF PlacesInv
<1>5. Distinct(delivered'[k][m])
  <2>1. Distinct(delivered[k][m]) /\ Distinct(hand[f][k][m])
    BY <1>4 DEF Apart, Flushers
  <2>2. Numbers(delivered[k][m]) \cap Numbers(hand[f][k][m]) = {}
    BY <1>4 DEF Apart, Held, Flushers
  <2> QED
    BY <1>1, <1>2, <2>1, <2>2, DistinctConcat
<1>6. Apart(k, m)' /\ Held(k, m) \cup Numbers(delivered[k][m])
                        = Held(k, m)' \cup Numbers(delivered'[k][m])
  <2>1. Distinct(<<>>)
    BY DEF Distinct
  <2>2. CASE f = "tick"
    <3>1. hand'["stop"][k][m] = hand["stop"][k][m]
      BY <1>1, <2>2 DEF Flushers
    <3> QED
      BY <1>1, <1>3, <1>4, <1>5, <2>1, <2>2, <3>1, NumbersEmpty DEF Apart, Held
  <2>3. CASE f = "stop"
    <3>1. hand'["tick"][k][m] = hand["tick"][k][m]
      BY <1>1, <2>3 DEF Flushers
    <3> QED
      BY <1>1, <1>3, <1>4, <1>5, <2>1, <2>3, <3>1, NumbersEmpty DEF Apart, Held
  <2> QED
    BY <2>2, <2>3 DEF Flushers
<1>7. ASSUME NEW l \in Keys, NEW h \in Kinds, l # k \/ h # m
      PROVE  Apart(l, h)' /\ Held(l, h)' = Held(l, h)
  <2>1. hand'["tick"][l][h] = hand["tick"][l][h] /\ hand'["stop"][l][h] = hand["stop"][l][h]
    BY <1>1, <1>7 DEF Flushers
  <2> QED
    BY <1>1, <1>7, <2>1, PlacesFrame DEF PlacesInv
<1>8. ASSUME NEW l \in Keys PROVE Everywhere(l)' = 1..accepted'[l]
  <2>1. \A h \in Kinds : Held(l, h)' \cup Numbers(delivered'[l][h]) \cup lost'[l][h]
                           = Held(l, h) \cup Numbers(delivered[l][h]) \cup lost[l][h]
    BY <1>1, <1>6, <1>7
  <2>2. Everywhere(l)' = Everywhere(l)
    BY <2>1 DEF Everywhere
  <2> QED
    BY <1>1, <2>2 DEF PlacesInv
<1>9. HandsEmpty'
  <2>1. ASSUME NEW g \in Flushers, Flushed(g) PROVE Flushed(g)'
    <3>1. g # f
      BY <2>1, NothingIsEntry DEF Flushed, PublishOk, NextMessage
    <3>2. hand'[g] = hand[g]
      BY <3>1 DEF TypeOK, PublishOk
    <3> QED
      BY <2>1, <3>2 DEF Flushed
  <2> QED
    BY <1>1, <2>1 DEF PlacesInv, HandsEmpty, Flushers, control
<1> QED
  BY <1>6, <1>7, <1>8, <1>9 DEF PlacesInv

LEMMA PlacesPublishFails ==
    ASSUME TypeOK, PlacesInv, NEW f \in Flushers, NEW k \in Keys, NEW m \in Kinds,
           PublishFails(f, k, m)
    PROVE  PlacesInv'
<1>1. /\ \A h \in Kinds : hand'[f][k][h] = <<>>
      /\ \A h \in Kinds : lost'[k][h] = lost[k][h] \cup Numbers(hand[f][k][h])
      /\ \A g \in Flushers, l \in Keys : g # f \/ l # k => hand'[g][l] = hand[g][l]
      /\ \A l \in Keys : l # k => lost'[l] = lost[l]
      /\ UNCHANGED <<accepted, pending, delivered, control>>
  BY NothingIsEntry DEF TypeOK, PublishFails
<1>2. ASSUME NEW h \in Kinds
      PROVE  Apart(k, h)' /\ Held(k, h) \cup lost[k][h] = Held(k, h)' \cup lost'[k][h]
  <2>1. Apart(k, h) /\ Distinct(<<>>)
    BY DEF PlacesInv, Distinct
  <2>2. CASE f = "tick"
    <3>1. hand'["stop"][k] = hand["stop"][k]
      BY <1>1, <2>2 DEF Flushers
    <3> QED
      BY <1>1, <2>1, <2>2, <3>1, NumbersEmpty DEF Apart, Held
  <2>3. CASE f = "stop"
    <3>1. hand'["tick"][k] = hand["tick"][k]
      BY <1>1, <2>3 DEF Flushers
    <3> QED
      BY <1>1, <2>1, <2>3, <3>1, NumbersEmpty DEF Apart, Held
  <2> QED
    BY <2>2, <2>3 DEF Flushers
<1>3. ASSUME NEW l \in Keys, NEW h \in Kinds, l # k
      PROVE  Apart(l, h)' /\ Held(l, h)' = Held(l, h)
  <2>1. hand'["tick"][l] = hand["tick"][l] /\ hand'["stop"][l] = hand["stop"][l]
    BY <1>1, <1>3 DEF Flushers
  <2> QED
    BY <1>1, <1>3, <2>1, PlacesFrame DEF PlacesInv
<1>4. ASSUME NEW l \in Keys PROVE Everywhere(l)' = 1..accepted'[l]
  <2>1. \A h \in Kinds : Held(l, h)' \cup Numbers(delivered'[l][h]) \cup lost'[l][h]
                           = Held(l, h) \cup Numbers(delivered[l][h]) \cup lost[l][h]
    BY <1>1, <1>2, <1>3
  <2>2. Everywhere(l)' = Everywhere(l)
    BY <2>1 DEF Everywhere
  <2> QED
    BY <1>1, <2>2 DEF PlacesInv
<1>5. HandsEmpty'
  <2>1. ASSUME NEW g \in Flushers, Flushed(g) PROVE Flushed(g)'
    <3>1. g # f
      BY <2>1, NothingIsEntry DEF Flushed, PublishFails, NextMessage
    <3>2. hand'[g] = hand[g]
      BY <3>1 DEF TypeOK, PublishFails
    <3> QED
      BY <2>1, <3>2 DEF Flushed
  <2> QED
    BY <1>1, <2>1 DEF PlacesInv, HandsEmpty, Flushers, control
<1> QED
  BY <1>2, <1>3, <1>4, <1>5 DEF PlacesInv

LEMMA PlacesStep == TypeOK /\ PlacesInv /\ [Next]_vars => PlacesInv'
<1> SUFFICES ASSUME TypeOK, PlacesInv, [Next]_vars PROVE PlacesInv'
  OBVIOUS
<1>1. ASSUME NEW p \in Pollers \cup Callers, NEW k \in Keys, NEW m \in Kinds,
             Offer(p, k, m)
      PROVE  PlacesInv'
  BY <1>1, PlacesOffer
<1>2. CASE Publish("tick") \/ Publish("stop")
  BY <1>2, PlacesPublishOk, PlacesPublishFails DEF Publish, Flushers
<1>3. CASE TickFlush
  <2>1. Flushed("tick") /\ HandsEmpty'
    BY <1>3 DEF TickFlush, Take, PlacesInv, HandsEmpty, Flushed, TypeOK, Flushers
  <2> QED
    BY <1>3, <2>1, PlacesTake DEF TickFlush, Flushers
<1>4. CASE StopFlush
  <2>1. Flushed("stop") /\ HandsEmpty'
    BY <1>4 DEF StopFlush, Take, PlacesInv, HandsEmpty, Flushed, TypeOK, Flushers
  <2> QED
    BY <1>4, <2>1, PlacesTake DEF StopFlush, Flushers
<1>5. ASSUME UNCHANGED flow,
             tick' # "flushing" => tick # "flushing" \/ Flushed("tick"),
             stage' # "flushing" => stage # "flushing" \/ Flushed("stop")
      PROVE  PlacesInv'
  <2>1. HandsEmpty'
    BY <1>5 DEF PlacesInv, HandsEmpty, Flushed, flow
  <2> QED
    BY <1>5, <2>1, PlacesControl
<1>6. CASE TickDue \/ TickDone \/ TickEnds
  BY <1>5, <1>6 DEF TickDue, TickDone, TickEnds
<1>7. CASE Joined \/ StopDone \/ Stop \/ \E p \in Pollers : PollerEnds(p)
  BY <1>5, <1>7 DEF Joined, StopDone, Stop, PollerEnds
<1>8. CASE Pause \/ Resume \/ UNCHANGED vars
  BY <1>5, <1>8 DEF Pause, Resume, vars, control
<1> QED
  BY <1>1, <1>2, <1>3, <1>4, <1>6, <1>7, <1>8 DEF Next, Tick, Shutdown

\* No sample disappears: every offered sample is in the batch, in the hand of a
\* flusher, delivered, or lost with a publish that failed (publisher.py:58-102),
\* also when the tick and stop flush at the same time.
THEOREM NothingVanishes == Spec => []NoneVanishes
<1>1. PlacesInv => NoneVanishes
  BY DEF PlacesInv, NoneVanishes
<1> QED
  BY <1>1, TypeInit, TypeStep, PlacesInit, PlacesStep, PTL DEF Spec

\* No sample is published twice, and none that was published is lost or still
\* underway: swapping the batch under the lock gives each sample to one flusher.
THEOREM DeliveredOnce == Spec => []AtMostOnce
<1>1. PlacesInv => AtMostOnce
  BY DEF PlacesInv, Apart, AtMostOnce, Distinct
<1> QED
  BY <1>1, TypeInit, TypeStep, PlacesInit, PlacesStep, PTL DEF Spec

\* Both together: each sample that was offered is in one place, and delivered
\* once or given up with a failed publish, whoever flushes.
THEOREM EachOnce == Spec => []EachSampleOnce
BY NothingVanishes, DeliveredOnce, PTL DEF EachSampleOnce

-----------------------------------------------------------------------------
(* The order of delivery.  While only the tick flushes, what it has in     *)
(* hand is older than what is pending and younger than what was delivered. *)

OneFlusher == stage \in {"running", "stopping", "joined"}

Ordered(k, m) ==
    /\ Increasing(pending[k][m]) /\ Increasing(delivered[k][m])
    /\ Increasing(hand["tick"][k][m])
    /\ Below(delivered[k][m], hand["tick"][k][m])
    /\ Below(delivered[k][m], pending[k][m])
    /\ Below(hand["tick"][k][m], pending[k][m])

OrderInv == OneFlusher => \A k \in Keys, m \in Kinds : Ordered(k, m)

LEMMA OrderInit == Init => OrderInv
<1> SUFFICES ASSUME Init PROVE OrderInv
  OBVIOUS
<1>1. \A k \in Keys, m \in Kinds :
         /\ pending[k][m] = <<>> /\ delivered[k][m] = <<>>
         /\ hand["tick"][k][m] = <<>>
  BY NothingIsEntry DEF Init, Flushers
<1>2. Increasing(<<>>) /\ Below(<<>>, <<>>)
  BY NumbersEmpty DEF Increasing, Below
<1> QED
  BY <1>1, <1>2 DEF OrderInv, Ordered

LEMMA OrderFrame ==
    ASSUME NEW k \in Keys, NEW m \in Kinds, Ordered(k, m),
           pending'[k][m] = pending[k][m], delivered'[k][m] = delivered[k][m],
           hand'["tick"][k][m] = hand["tick"][k][m]
    PROVE  Ordered(k, m)'
BY DEF Ordered

\* Before stop flushes, stop has nothing in hand.
LEMMA OnlyTick ==
    ASSUME PlacesInv, OneFlusher, NEW f \in Flushers, NEW k \in Keys, NEW m \in Kinds,
           NextMessage(f, k, m)
    PROVE  f = "tick"
BY NothingIsEntry DEF PlacesInv, HandsEmpty, OneFlusher, Flushed, Flushers, NextMessage

LEMMA OrderOffer ==
    ASSUME TypeOK, PlacesInv, OrderInv, OneFlusher, NEW p, NEW k \in Keys, NEW m \in Kinds,
           Offer(p, k, m)
    PROVE  OrderInv'
<1> DEFINE n == accepted[k] + 1
<1>1. accepted[k] \in Nat /\ pending[k][m] \in Seq(Nat) /\ n \in Nat
  BY DEF TypeOK, Entry
<1>2. /\ pending'[k][m] = Append(pending[k][m], n)
      /\ \A l \in Keys, h \in Kinds : l # k \/ h # m => pending'[l][h] = pending[l][h]
      /\ UNCHANGED <<hand, delivered>>
  BY DEF TypeOK, Entry, Offer
<1>3. \A x \in Numbers(pending[k][m]) \cup Numbers(delivered[k][m])
                 \cup Numbers(hand["tick"][k][m]) : x < n
  <2>1. \A x \in Everywhere(k) : x < n
    BY <1>1 DEF PlacesInv
  <2> QED
    BY <2>1 DEF Everywhere, Held
<1>4. Numbers(pending'[k][m]) = Numbers(pending[k][m]) \cup {n}
  BY <1>1, <1>2, NumbersAppend
<1>5. Ordered(k, m)'
  <2>1. Ordered(k, m)
    BY DEF OrderInv
  <2>2. Increasing(pending'[k][m])
    BY <1>1, <1>2, <1>3, <2>1, IncreasingAppend DEF Ordered
  <2> HIDE DEF n
  <2> QED
    BY <1>2, <1>3, <1>4, <2>1, <2>2 DEF Ordered, Below
<1>6. ASSUME NEW l \in Keys, NEW h \in Kinds, l # k \/ h # m PROVE Ordered(l, h)'
  BY <1>2, <1>6, OrderFrame DEF OrderInv
<1> QED
  BY <1>5, <1>6 DEF OrderInv

LEMMA OrderTake ==
    ASSUME TypeOK, OrderInv, OneFlusher, Flushed("tick"), Take("tick")
    PROVE  OrderInv'
<1> SUFFICES ASSUME NEW k \in Keys, NEW m \in Kinds PROVE Ordered(k, m)'
  BY DEF OrderInv
<1>1. /\ pending'[k][m] = <<>> /\ delivered'[k][m] = delivered[k][m]
      /\ hand'["tick"][k][m] = pending[k][m]
  BY NothingIsEntry DEF TypeOK, Take, Flushers
<1>2. Increasing(<<>>) /\ \A s : Below(s, <<>>)
  BY NumbersEmpty DEF Increasing, Below
<1> QED
  BY <1>1, <1>2 DEF OrderInv, Ordered

LEMMA OrderPublish ==
    ASSUME TypeOK, PlacesInv, OrderInv, OneFlusher,
           NEW f \in Flushers, NEW k \in Keys, NEW m \in Kinds,
           PublishOk(f, k, m) \/ PublishFails(f, k, m)
    PROVE  OrderInv'
<1>0. f = "tick"
  BY OnlyTick DEF PublishOk, PublishFails
<1>e. Increasing(<<>>) /\ \A s : Below(s, <<>>) /\ Below(<<>>, s)
  BY NumbersEmpty DEF Increasing, Below
<1>1. CASE PublishOk(f, k, m)
  <2>1. /\ hand["tick"] \in [Keys -> [Kinds -> Seq(Nat)]]
        /\ hand'["tick"] = [hand["tick"] EXCEPT ![k][m] = <<>>]
    BY <1>0, <1>1 DEF TypeOK, Entry, PublishOk, Flushers
  <2>2. /\ delivered \in [Keys -> [Kinds -> Seq(Nat)]]
        /\ delivered' = [delivered EXCEPT ![k][m] = delivered[k][m] \o hand["tick"][k][m]]
        /\ pending' = pending
    BY <1>0, <1>1 DEF TypeOK, Entry, PublishOk
  <2>3. /\ hand'["tick"][k][m] = <<>>
        /\ delivered'[k][m] = delivered[k][m] \o hand["tick"][k][m]
        /\ \A l \in Keys, h \in Kinds : l # k \/ h # m =>
              /\ hand'["tick"][l][h] = hand["tick"][l][h]
              /\ delivered'[l][h] = delivered[l][h]
    <3>1. /\ hand'["tick"][k][m] = <<>>
          /\ \A l \in Keys, h \in Kinds :
                l # k \/ h # m => hand'["tick"][l][h] = hand["tick"][l][h]
      BY <2>1
    <3>2. /\ delivered'[k][m] = delivered[k][m] \o hand["tick"][k][m]
          /\ \A l \in Keys, h \in Kinds :
                l # k \/ h # m => delivered'[l][h] = delivered[l][h]
      BY <2>2
    <3> QED
      BY <3>1, <3>2
  <2>4. Ordered(k, m)
    BY DEF OrderInv
  <2>5. Increasing(delivered'[k][m])
    <3> DEFINE gone == delivered[k][m]
               held == hand["tick"][k][m]
    <3>1. gone \in Seq(Nat) /\ held \in Seq(Nat)
      BY <2>1, <2>2
    <3>2. Increasing(gone) /\ Increasing(held) /\ Below(gone, held)
      BY <2>4 DEF Ordered
    <3>3. delivered'[k][m] = gone \o held
      BY <2>3
    <3> HIDE DEF gone, held
    <3> QED
      BY <3>1, <3>2, <3>3, IncreasingConcat
  <2>6. Numbers(delivered'[k][m]) = Numbers(delivered[k][m]) \cup Numbers(hand["tick"][k][m])
    BY <2>1, <2>2, <2>3, NumbersConcat
  <2>7. Below(delivered'[k][m], pending[k][m])
    BY <2>4, <2>6 DEF Ordered, Below
  <2>8. Ordered(k, m)'
    BY <1>e, <2>2, <2>3, <2>4, <2>5, <2>7 DEF Ordered
  <2>9. ASSUME NEW l \in Keys, NEW h \in Kinds, l # k \/ h # m PROVE Ordered(l, h)'
    BY <2>2, <2>3, <2>9, OrderFrame DEF OrderInv
  <2> QED
    BY <2>8, <2>9 DEF OrderInv
<1>2. CASE PublishFails(f, k, m)
  <2>1. /\ \A h \in Kinds : hand'["tick"][k][h] = <<>>
        /\ \A l \in Keys : l # k => hand'["tick"][l] = hand["tick"][l]
        /\ UNCHANGED <<pending, delivered>>
    BY <1>0, <1>2, NothingIsEntry DEF TypeOK, PublishFails, Flushers
  <2>2. ASSUME NEW l \in Keys, NEW h \in Kinds PROVE Ordered(l, h)'
    BY <1>e, <2>1 DEF OrderInv, Ordered
  <2> QED
    BY <2>2 DEF OrderInv
<1> QED
  BY <1>1, <1>2

LEMMA OrderStep == TypeOK /\ PlacesInv /\ OrderInv /\ [Next]_vars => OrderInv'
<1> SUFFICES ASSUME TypeOK, PlacesInv, OrderInv, [Next]_vars, OneFlusher' PROVE OrderInv'
  BY DEF OrderInv
<1>1. ASSUME NEW p \in Pollers \cup Callers, NEW k \in Keys, NEW m \in Kinds,
             Offer(p, k, m)
      PROVE  OrderInv'
  <2>1. OneFlusher
    BY <1>1 DEF Offer, control, OneFlusher
  <2> QED
    BY <1>1, <2>1, OrderOffer
<1>2. CASE Publish("tick") \/ Publish("stop")
  <2>1. OneFlusher
    BY <1>2 DEF Publish, PublishOk, PublishFails, control, OneFlusher
  <2> QED
    BY <1>2, <2>1, OrderPublish DEF Publish, Flushers
<1>3. CASE TickFlush
  <2>1. OneFlusher /\ Flushed("tick") /\ Take("tick")
    BY <1>3 DEF TickFlush, OneFlusher, PlacesInv, HandsEmpty
  <2> QED
    BY <2>1, OrderTake
<1>4. CASE StopFlush \/ StopDone
  BY <1>4 DEF StopFlush, StopDone, OneFlusher
<1>5. CASE \/ TickDue \/ TickDone \/ TickEnds \/ Joined \/ Stop \/ Pause \/ Resume
           \/ \E p \in Pollers : PollerEnds(p)
           \/ UNCHANGED vars
  <2>1. OneFlusher /\ UNCHANGED flow
    BY <1>5 DEF TickDue, TickDone, TickEnds, Joined, Stop, Pause, Resume, PollerEnds,
                vars, control, OneFlusher
  <2> QED
    BY <2>1, OrderFrame DEF OrderInv, flow
<1> QED
  BY <1>1, <1>2, <1>3, <1>4, <1>5 DEF Next, Tick, Shutdown

\* Until stop flushes beside the tick, the samples of a signal with the same
\* kind arrive in the order in which they were offered.
THEOREM DeliveredInOrder == Spec => []InOrderUntilStop
<1>1. OrderInv => InOrderUntilStop
  BY DEF OrderInv, OneFlusher, Ordered, InOrderUntilStop
<1> QED
  BY <1>1, TypeInit, TypeStep, PlacesInit, PlacesStep, OrderInit, OrderStep, PTL DEF Spec

-----------------------------------------------------------------------------
(* Shutdown: once stop has taken the batch, only samples that were offered *)
(* after the joins are left in it.                                         *)

DrainInv ==
    /\ stage \in {"joined", "flushing", "closed"} => \A k \in Keys : cutoff[k] <= accepted[k]
    /\ stage \in {"flushing", "closed"} =>
          \A k \in Keys, m \in Kinds : \A n \in Numbers(pending[k][m]) : cutoff[k] < n

LEMMA DrainInit == Init => DrainInv
BY DEF Init, DrainInv

\* An offer has a number above all that were there at the joins.
LEMMA DrainOffer ==
    ASSUME TypeOK, DrainInv, NEW p, NEW k \in Keys, NEW m \in Kinds, Offer(p, k, m)
    PROVE  DrainInv'
<1>1. /\ accepted'[k] = accepted[k] + 1 /\ \A j \in Keys \ {k} : accepted'[j] = accepted[j]
      /\ UNCHANGED <<stage, cutoff>>
  BY DEF Offer, TypeOK, control
<1>2. \A j \in Keys : accepted[j] \in Nat /\ cutoff[j] \in Nat
  BY DEF TypeOK
<1>3. pending[k][m] \in Seq(Nat)
  BY DEF TypeOK, Entry
<1>4. pending'[k][m] = Append(pending[k][m], accepted[k] + 1)
  BY DEF Offer, TypeOK, Entry
<1>5. Numbers(pending'[k][m]) = Numbers(pending[k][m]) \cup {accepted[k] + 1}
  BY <1>2, <1>3, <1>4, NumbersAppend
<1>6. \A j \in Keys, n \in Kinds : j # k \/ n # m => pending'[j][n] = pending[j][n]
  BY DEF Offer, TypeOK, Entry
<1>7. ASSUME stage' \in {"joined", "flushing", "closed"}, NEW j \in Keys
      PROVE  cutoff'[j] <= accepted'[j]
  BY <1>1, <1>2, <1>7 DEF DrainInv
<1>8. ASSUME stage' \in {"flushing", "closed"}, NEW j \in Keys, NEW n \in Kinds,
             NEW x \in Numbers(pending'[j][n])
      PROVE  cutoff'[j] < x
  <2>1. cutoff[j] <= accepted[j] /\ cutoff'[j] = cutoff[j]
    BY <1>1, <1>8 DEF DrainInv
  <2>2. CASE x \in Numbers(pending[j][n])
    BY <1>1, <1>8, <2>1, <2>2 DEF DrainInv
  <2>3. CASE x \notin Numbers(pending[j][n])
    <3>1. j = k /\ n = m /\ x = accepted[k] + 1
      BY <1>5, <1>6, <1>8, <2>3
    <3> QED
      BY <1>2, <2>1, <3>1
  <2> QED
    BY <2>2, <2>3
<1> QED
  BY <1>7, <1>8 DEF DrainInv

LEMMA DrainStep == TypeOK /\ DrainInv /\ [Next]_vars => DrainInv'
<1> SUFFICES ASSUME TypeOK, DrainInv, [Next]_vars PROVE DrainInv'
  OBVIOUS
<1>1. ASSUME NEW f, Take(f) PROVE \A k \in Keys, m \in Kinds : Numbers(pending'[k][m]) = {}
  BY <1>1, NothingIsEntry, NumbersEmpty DEF Take
<1>2. CASE TickFlush \/ StopFlush
  <2>1. \A k \in Keys, m \in Kinds : Numbers(pending'[k][m]) = {}
    BY <1>1, <1>2 DEF TickFlush, StopFlush
  <2>2. UNCHANGED <<accepted, cutoff>> /\ (stage' = stage \/ stage = "joined")
    BY <1>2 DEF TickFlush, StopFlush, Take
  <2> QED
    BY <2>1, <2>2 DEF DrainInv
<1>3. CASE Joined
  BY <1>3 DEF Joined, flow, DrainInv, TypeOK
<1>4. CASE Stop \/ StopDone
  BY <1>4 DEF Stop, StopDone, flow, DrainInv
<1>5. CASE \/ Publish("tick") \/ Publish("stop") \/ TickDue \/ TickDone \/ TickEnds
           \/ Pause \/ Resume
           \/ \E p \in Pollers : PollerEnds(p)
           \/ UNCHANGED vars
  <2>1. UNCHANGED <<accepted, pending, stage, cutoff>>
    BY <1>5 DEF Publish, PublishOk, PublishFails, TickDue, TickDone, TickEnds, Pause, Resume,
                PollerEnds, vars, flow, control
  <2> QED
    BY <2>1 DEF DrainInv
<1> QED
  BY <1>2, <1>3, <1>4, <1>5, DrainOffer DEF Next, Tick, Shutdown

\* When stop has closed, what was offered before its joins were over is delivered
\* or given up, but for what a tick that it does not wait for has in hand.
THEOREM Drained == Spec => []StopDrains
<1>1. TypeOK /\ PlacesInv /\ DrainInv => StopDrains
  <2> SUFFICES ASSUME TypeOK, PlacesInv, DrainInv, stage = "closed",
                      NEW k \in Keys, NEW m \in Kinds, NEW n \in Held(k, m), n <= cutoff[k]
               PROVE  n \in Numbers(hand["tick"][k][m])
    BY DEF StopDrains
  <2>1. Numbers(hand["stop"][k][m]) = {}
    BY NothingIsEntry, NumbersEmpty DEF PlacesInv, HandsEmpty, Flushed
  <2>2. ASSUME n \in Numbers(pending[k][m]) PROVE FALSE
    <3>1. cutoff[k] < n /\ cutoff[k] \in Nat
      BY <2>2 DEF DrainInv, TypeOK
    <3>2. n \in Nat
      BY <2>2, ElementOfSeq, LenProperties DEF TypeOK, Entry, Numbers
    <3> QED
      BY <3>1, <3>2
  <2> QED
    BY <2>1, <2>2 DEF Held
<1> QED
  BY <1>1, TypeInit, TypeStep, PlacesInit, PlacesStep, DrainInit, DrainStep, PTL DEF Spec

-----------------------------------------------------------------------------
(* Refinement: an offer accepts, a message delivers what it carries, a     *)
(* failed publish loses what the entry had left, and the flush of stop is  *)
(* where a second flusher appears.  Every other step stutters.             *)

HeldMap == [k \in Keys |-> [m \in Kinds |-> Held(k, m)]]
DeliveredMap == [k \in Keys |-> [m \in Kinds |-> Numbers(delivered[k][m])]]

LEMMA DeliveryInit == Init => Delivery!Init
<1> SUFFICES ASSUME Init PROVE Delivery!Init
  OBVIOUS
<1>1. \A k \in Keys, m \in Kinds :
         /\ pending[k][m] = <<>> /\ delivered[k][m] = <<>>
         /\ hand["tick"][k][m] = <<>> /\ hand["stop"][k][m] = <<>>
  BY NothingIsEntry DEF Init, Flushers
<1>2. \A k \in Keys, m \in Kinds : Held(k, m) = {} /\ Numbers(delivered[k][m]) = {}
  BY <1>1, NumbersEmpty DEF Held
<1>3. stage \in {"running", "stopping", "joined"}
  BY DEF Init
<1> QED
  BY <1>2, <1>3, Zenon DEF Init, Delivery!Init

LEMMA DeliveryOffer ==
    ASSUME TypeOK, PlacesInv, NEW p, NEW k \in Keys, NEW m \in Kinds, Offer(p, k, m)
    PROVE  Delivery!Accept(k, m)
<1> DEFINE n == accepted[k] + 1
<1>1. /\ pending'[k][m] = Append(pending[k][m], n)
      /\ \A l \in Keys, h \in Kinds : l # k \/ h # m => pending'[l][h] = pending[l][h]
      /\ UNCHANGED <<hand, delivered, lost, control>>
      /\ pending[k][m] \in Seq(Nat) /\ n \in Nat
  BY DEF TypeOK, Entry, Offer
<1>2. Held(k, m)' = Held(k, m) \cup {n}
  BY <1>1, NumbersAppend DEF Held
<1>3. \A l \in Keys, h \in Kinds : l # k \/ h # m => Held(l, h)' = Held(l, h)
  BY <1>1 DEF Held
<1>4. HeldMap' = [HeldMap EXCEPT ![k][m] = HeldMap[k][m] \cup {n}]
  BY <1>2, <1>3, Zenon DEF HeldMap
<1>5. DeliveredMap' = DeliveredMap /\ stage' = stage /\ lost' = lost
  BY <1>1 DEF DeliveredMap, control
<1>6. accepted' = [accepted EXCEPT ![k] = n]
  BY DEF Offer
<1> QED
  BY <1>4, <1>5, <1>6 DEF Delivery!Accept, HeldMap, DeliveredMap


LEMMA DeliveryPublishOk ==
    ASSUME TypeOK, PlacesInv, OrderInv, NEW f \in Flushers, NEW k \in Keys, NEW m \in Kinds,
           PublishOk(f, k, m)
    PROVE  Delivery!Deliver(k, m, Numbers(hand[f][k][m]))
<1> DEFINE S == Numbers(hand[f][k][m])
<1>1. /\ hand \in [Flushers -> [Keys -> [Kinds -> Seq(Nat)]]]
      /\ hand' = [hand EXCEPT ![f][k][m] = <<>>]
  BY DEF TypeOK, Entry, PublishOk
<1>2. /\ delivered \in [Keys -> [Kinds -> Seq(Nat)]]
      /\ delivered' = [delivered EXCEPT ![k][m] = delivered[k][m] \o hand[f][k][m]]
      /\ UNCHANGED <<accepted, pending, lost, stage>>
  BY DEF TypeOK, Entry, PublishOk, control
<1>3. /\ hand'[f][k][m] = <<>>
      /\ \A g \in Flushers, l \in Keys, h \in Kinds :
            g # f \/ l # k \/ h # m => hand'[g][l][h] = hand[g][l][h]
  BY <1>1
<1>4. /\ delivered'[k][m] = delivered[k][m] \o hand[f][k][m]
      /\ \A l \in Keys, h \in Kinds :
            l # k \/ h # m => delivered'[l][h] = delivered[l][h]
  BY <1>2
<1>5. Numbers(delivered'[k][m]) = Numbers(delivered[k][m]) \cup S
  BY <1>1, <1>2, <1>4, NumbersConcat
<1>6. Apart(k, m)
  BY DEF PlacesInv
<1>7. Held(k, m)' = Held(k, m) \ S /\ S \subseteq Held(k, m)
  <2>1. CASE f = "tick"
    BY <1>2, <1>3, <1>6, <2>1, NumbersEmpty DEF Apart, Held, Flushers
  <2>2. CASE f = "stop"
    BY <1>2, <1>3, <1>6, <2>2, NumbersEmpty DEF Apart, Held, Flushers
  <2> QED
    BY <2>1, <2>2 DEF Flushers
<1>8. \A l \in Keys, h \in Kinds : l # k \/ h # m => Held(l, h)' = Held(l, h)
  BY <1>2, <1>3 DEF Held, Flushers
<1>9. OneFlusher => \A x \in S, y \in Numbers(delivered[k][m]) : y < x
  <2> SUFFICES ASSUME OneFlusher PROVE Below(delivered[k][m], hand[f][k][m])
    BY DEF Below
  <2>1. f = "tick"
    BY OnlyTick DEF PublishOk
  <2> QED
    BY <2>1 DEF OrderInv, Ordered
<1> HIDE DEF S
<1>10. HeldMap' = [HeldMap EXCEPT ![k][m] = HeldMap[k][m] \ S]
  BY <1>7, <1>8, Zenon DEF HeldMap
<1>11. DeliveredMap' = [DeliveredMap EXCEPT ![k][m] = DeliveredMap[k][m] \cup S]
  <2>1. \A l \in Keys, h \in Kinds :
           l # k \/ h # m => Numbers(delivered'[l][h]) = Numbers(delivered[l][h])
    BY <1>4
  <2> QED
    BY <1>5, <2>1, Zenon DEF DeliveredMap
<1>12. S \subseteq HeldMap[k][m] /\ DeliveredMap[k][m] = Numbers(delivered[k][m])
  BY <1>7 DEF HeldMap, DeliveredMap
<1>13. Delivery!Deliver(k, m, S)
  BY <1>2, <1>9, <1>10, <1>11, <1>12, Zenon
  DEF Delivery!Deliver, HeldMap, DeliveredMap, OneFlusher
<1> QED
  BY <1>13 DEF S

LEMMA DeliveryPublishFails ==
    ASSUME TypeOK, PlacesInv, NEW f \in Flushers, NEW k \in Keys, NEW m \in Kinds,
           PublishFails(f, k, m)
    PROVE  Delivery!Next
<1> DEFINE S == [h \in Kinds |-> Numbers(hand[f][k][h])]
<1>1. /\ \A h \in Kinds : hand'[f][k][h] = <<>>
      /\ \A g \in Flushers, l \in Keys : g # f \/ l # k => hand'[g][l] = hand[g][l]
      /\ UNCHANGED <<accepted, pending, delivered, stage>>
      /\ lost' = [lost EXCEPT ![k] = [h \in Kinds |-> lost[k][h] \cup S[h]]]
  BY NothingIsEntry DEF TypeOK, PublishFails, control
<1>2. ASSUME NEW h \in Kinds
      PROVE  Held(k, h)' = Held(k, h) \ S[h] /\ S[h] \subseteq Held(k, h)
  <2>1. Apart(k, h) /\ S[h] = Numbers(hand[f][k][h])
    BY DEF PlacesInv
  <2> HIDE DEF S
  <2>2. CASE f = "tick"
    <3>1. hand'["stop"][k] = hand["stop"][k]
      BY <1>1, <2>2 DEF Flushers
    <3> QED
      BY <1>1, <2>1, <2>2, <3>1, NumbersEmpty DEF Apart, Held
  <2>3. CASE f = "stop"
    <3>1. hand'["tick"][k] = hand["tick"][k]
      BY <1>1, <2>3 DEF Flushers
    <3> QED
      BY <1>1, <2>1, <2>3, <3>1, NumbersEmpty DEF Apart, Held
  <2> QED
    BY <2>2, <2>3 DEF Flushers
<1>3. \A l \in Keys, h \in Kinds : l # k => Held(l, h)' = Held(l, h)
  BY <1>1 DEF Held, Flushers
<1> HIDE DEF S
<1>4. HeldMap' = [HeldMap EXCEPT ![k] = [h \in Kinds |-> HeldMap[k][h] \ S[h]]]
  BY <1>2, <1>3, Zenon DEF HeldMap
<1>5. DeliveredMap' = DeliveredMap
  <2>1. delivered' = delivered
    BY <1>1
  <2> QED
    BY <2>1, Zenon DEF DeliveredMap
<1>6. \A h \in Kinds : S[h] \subseteq HeldMap[k][h]
  BY <1>2 DEF HeldMap
<1>7. Delivery!Lose(k, S)
  BY <1>1, <1>4, <1>5, <1>6, Zenon DEF Delivery!Lose, HeldMap, DeliveredMap
<1>8. S \in [Kinds -> SUBSET UNION {HeldMap[k][h] : h \in Kinds}]
  BY <1>6, Zenon DEF S
<1> QED
  BY <1>7, <1>8, Zenon DEF Delivery!Next, HeldMap

LEMMA DeliveryStep ==
    TypeOK /\ PlacesInv /\ OrderInv /\ [Next]_vars => [Delivery!Next]_(Delivery!vars)
<1> SUFFICES ASSUME TypeOK, PlacesInv, OrderInv, [Next]_vars
             PROVE  Delivery!Next \/ UNCHANGED Delivery!vars
  OBVIOUS
<1>1. ASSUME NEW p \in Pollers \cup Callers, NEW k \in Keys, NEW m \in Kinds,
             Offer(p, k, m)
      PROVE  Delivery!Next
  BY <1>1, DeliveryOffer, Zenon DEF Delivery!Next
<1>2. ASSUME NEW f \in Flushers, Publish(f) PROVE Delivery!Next
  <2>1. PICK k \in Keys, m \in Kinds : PublishOk(f, k, m) \/ PublishFails(f, k, m)
    BY <1>2 DEF Publish
  <2>2. CASE PublishOk(f, k, m)
    <3>1. Numbers(hand[f][k][m]) \in SUBSET HeldMap[k][m]
      BY DEF HeldMap, Held, Flushers
    <3>2. Delivery!Deliver(k, m, Numbers(hand[f][k][m]))
      BY <2>2, DeliveryPublishOk
    <3> QED
      BY <3>1, <3>2, Zenon DEF Delivery!Next, HeldMap
  <2> QED
    BY <2>1, <2>2, DeliveryPublishFails
<1>3. ASSUME NEW f \in Flushers, Flushed(f), Take(f)
      PROVE  HeldMap' = HeldMap /\ DeliveredMap' = DeliveredMap
             /\ UNCHANGED <<accepted, lost>>
  <2>1. ASSUME NEW k \in Keys, NEW m \in Kinds PROVE Held(k, m)' = Held(k, m)
    <3>1. /\ pending'[k][m] = <<>> /\ hand'[f][k][m] = pending[k][m]
          /\ hand[f][k][m] = <<>>
          /\ \A g \in Flushers \ {f} : hand'[g] = hand[g]
      BY <1>3, NothingIsEntry DEF TypeOK, Take, Flushed
    <3>2. CASE f = "tick"
      <4>1. hand'["stop"] = hand["stop"]
        BY <3>1, <3>2 DEF Flushers
      <4> QED
        BY <3>1, <3>2, <4>1, NumbersEmpty DEF Held
    <3>3. CASE f = "stop"
      <4>1. hand'["tick"] = hand["tick"]
        BY <3>1, <3>3 DEF Flushers
      <4> QED
        BY <3>1, <3>3, <4>1, NumbersEmpty DEF Held
    <3> QED
      BY <3>2, <3>3 DEF Flushers
  <2> QED
    BY <1>3, <2>1 DEF HeldMap, DeliveredMap, Take
<1>4. CASE TickFlush
  <2>1. Flushed("tick") /\ Take("tick") /\ stage' = stage
    BY <1>4 DEF TickFlush, PlacesInv, HandsEmpty
  <2> QED
    BY <1>3, <2>1, Zenon DEF Delivery!vars, HeldMap, DeliveredMap, Flushers
<1>5. CASE StopFlush
  <2>1. Flushed("stop") /\ Take("stop") /\ stage = "joined" /\ stage' = "flushing"
    BY <1>5 DEF StopFlush, PlacesInv, HandsEmpty
  <2>2. /\ HeldMap' = HeldMap /\ DeliveredMap' = DeliveredMap
        /\ UNCHANGED <<accepted, lost>>
    BY <1>3, <2>1 DEF Flushers
  <2>3. OneFlusher /\ OneFlusher' = FALSE
    BY <2>1 DEF OneFlusher
  <2> QED
    BY <2>2, <2>3, Zenon
    DEF Delivery!Next, Delivery!SecondFlusher, HeldMap, DeliveredMap, OneFlusher
<1>6. ASSUME UNCHANGED flow, OneFlusher' = OneFlusher PROVE UNCHANGED Delivery!vars
  BY <1>6 DEF Delivery!vars, OneFlusher, flow, Held
<1>7. CASE \/ TickDue \/ TickDone \/ TickEnds \/ Joined \/ Stop \/ StopDone
           \/ Pause \/ Resume \/ \E p \in Pollers : PollerEnds(p)
           \/ UNCHANGED vars
  <2>1. UNCHANGED flow /\ OneFlusher' = OneFlusher
    BY <1>7 DEF TickDue, TickDone, TickEnds, Joined, Stop, StopDone, Pause, Resume,
                PollerEnds, vars, control, OneFlusher
  <2> QED
    BY <1>6, <2>1
<1> QED
  BY <1>1, <1>2, <1>4, <1>5, <1>7 DEF Next, Tick, Shutdown, Flushers

\* Batched publishing implements the abstract promise: each sample is accepted
\* once, then delivered once or lost, in order while a single flusher runs.
THEOREM Refinement == Spec => ImplementsDelivery
<1>1. Spec => Delivery!Spec
  BY DeliveryInit, DeliveryStep, TypeInit, TypeStep, PlacesInit, PlacesStep,
     OrderInit, OrderStep, PTL DEF Spec, Delivery!Spec
<1> QED
  BY <1>1 DEF ImplementsDelivery

=============================================================================
