-------------------------- MODULE SampleDelivery --------------------------
(***************************************************************************)
(* What publishing promises about samples, whatever is buffered and by     *)
(* whom it is flushed.  The samples of a signal are numbered in the order  *)
(* in which they are offered.  An accepted sample is delivered once or     *)
(* lost, and is never both; one of a kind never overtakes an older one of  *)
(* its kind as long as a single flusher runs (ordered).                    *)
(***************************************************************************)
EXTENDS Naturals

CONSTANTS
    Keys,        \* the signals
    Kinds        \* the kinds of sample: each kind is a message of its own

VARIABLES
    accepted,    \* accepted[k]: how many samples of k were offered
    held,        \* held[k][m]: numbers of samples of kind m that are underway
    delivered,   \* delivered[k][m]: numbers of those the consumer received
    lost,        \* lost[k][m]: numbers of those that are gone
    ordered      \* a single flusher runs

vars == <<accepted, held, delivered, lost, ordered>>

Init ==
    /\ accepted = [k \in Keys |-> 0]
    /\ held = [k \in Keys |-> [m \in Kinds |-> {}]]
    /\ delivered = [k \in Keys |-> [m \in Kinds |-> {}]]
    /\ lost = [k \in Keys |-> [m \in Kinds |-> {}]]
    /\ ordered = TRUE

Accept(k, m) ==
    LET n == accepted[k] + 1 IN
    /\ accepted' = [accepted EXCEPT ![k] = n]
    /\ held' = [held EXCEPT ![k][m] = held[k][m] \cup {n}]
    /\ UNCHANGED <<delivered, lost, ordered>>

\* One message with the samples S of one kind.
Deliver(k, m, S) ==
    /\ S \subseteq held[k][m]
    /\ ordered => \A x \in S, y \in delivered[k][m] : y < x
    /\ held' = [held EXCEPT ![k][m] = held[k][m] \ S]
    /\ delivered' = [delivered EXCEPT ![k][m] = delivered[k][m] \cup S]
    /\ UNCHANGED <<accepted, lost, ordered>>

\* A failed publish takes samples of any kind along.
Lose(k, S) ==
    /\ \A m \in Kinds : S[m] \subseteq held[k][m]
    /\ held' = [held EXCEPT ![k] = [m \in Kinds |-> held[k][m] \ S[m]]]
    /\ lost' = [lost EXCEPT ![k] = [m \in Kinds |-> lost[k][m] \cup S[m]]]
    /\ UNCHANGED <<accepted, delivered, ordered>>

SecondFlusher ==
    /\ ordered
    /\ ordered' = FALSE
    /\ UNCHANGED <<accepted, held, delivered, lost>>

Next ==
    \/ \E k \in Keys, m \in Kinds : Accept(k, m)
    \/ \E k \in Keys, m \in Kinds : \E S \in SUBSET held[k][m] : Deliver(k, m, S)
    \/ \E k \in Keys : \E S \in [Kinds -> SUBSET UNION {held[k][m] : m \in Kinds}] :
          Lose(k, S)
    \/ SecondFlusher

Spec == Init /\ [][Next]_vars

=============================================================================
