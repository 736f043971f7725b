----------------------------- MODULE Deadband -----------------------------
(***************************************************************************)
(* The change filter of a polled signal: config/deadband_spec.py.          *)
(*                                                                         *)
(* A decoded value is a record: a number, a bool, a text or the float NaN. *)
(* Numbers are integers, in whatever unit the smallest step of the signal  *)
(* has; float rounding is left out.                                        *)
(***************************************************************************)
EXTENDS Integers

Num(n) == [kind |-> "num", n |-> n]
Bool(n) == [kind |-> "bool", n |-> n]     \* n = 1 is True, n = 0 is False
Text(n) == [kind |-> "text", n |-> n]     \* the n-th text: none reads as a number
NaN == [kind |-> "nan", n |-> 0]

NoValue == [kind |-> "none", n |-> 0]     \* None: nothing was published yet

Bands == [type : {"none", "absolute", "percent"}, value : Nat]

Magnitude(i) == IF i < 0 THEN -i ELSE i

\* Python's new != old: NaN differs from everything, from itself too.
Differs(old, new) == old # new \/ new = NaN

\* float(value) succeeds for numbers, for NaN and for bools; it raises for a text.
HasFloat(v) == v.kind # "text"

\* Mutant: a change of exactly the band is not published.
ExceedsStrictly(band, old, new) ==
    LET delta == Magnitude(new.n - old.n)
    IN  \/ old = NoValue
        \/ band.type = "none" /\ Differs(old, new)
        \/ band.type = "absolute" /\ delta > band.value
        \/ band.type = "percent" /\ old.n = 0 /\ Differs(old, new)
        \/ band.type = "percent" /\ old.n # 0
             /\ delta * 100 > band.value * Magnitude(old.n)

\* True if new should be published given the last published old.  A comparison
\* with NaN is false, also the one of its magnitude with zero.
Exceeds(band, old, new) ==
    LET delta == Magnitude(new.n - old.n)
        base == Magnitude(old.n)
        any == band.type = "none" \/ ~HasFloat(old) \/ ~HasFloat(new)
    IN  \/ old = NoValue
        \/ any /\ Differs(old, new)
        \/ ~any /\ band.type = "absolute" /\ NaN \notin {old, new} /\ delta >= band.value
        \/ ~any /\ band.type = "percent" /\ old # NaN /\ base = 0 /\ Differs(old, new)
        \/ ~any /\ band.type = "percent" /\ NaN \notin {old, new} /\ base # 0
             /\ delta * 100 >= band.value * base

-----------------------------------------------------------------------------
(* Reference: what a consumer that holds old may miss.                     *)

\* The value a consumer holds stands for the one in the slave: they are equal,
\* or they are numbers and their distance is below the band.
StandsFor(band, old, new) ==
    \/ old = new
    \/ /\ old.kind = "num" /\ new.kind = "num"
       /\ LET delta == Magnitude(new.n - old.n)
          IN  \/ band.type = "absolute" /\ delta < band.value
              \/ band.type = "percent" /\ old.n # 0
                   /\ delta * 100 < band.value * Magnitude(old.n)

=============================================================================
