--------------------------- MODULE MCRegisterMap --------------------------
(* Instances of RegisterMap for TLC.  Bytes have two values, so a register *)
(* has four.  One family of layouts varies where signals lie, the other    *)
(* how a signal is encoded.                                                *)
EXTENDS RegisterMap

MCMaxRead == [t \in {"holding", "coil"} |-> 4]

Plain == [table |-> "holding", address |-> 0, type |-> "uint", length |-> 1,
          wordOrder |-> "big", byteOrder |-> "big", scale |-> 1, offset |-> 0, bit |-> 0]

\* Three signals at addresses 0..4, one to three registers long; two of them and
\* one that no request can carry; two in different tables.
Places == {[Plain EXCEPT !.address = a, !.length = n] : a \in 0..4, n \in 1..3}
TooLong == [Plain EXCEPT !.type = "string", !.address = 1, !.length = 5]
Coil == [Plain EXCEPT !.table = "coil", !.type = "bool", !.address = 1]
Spread == [1..3 -> Places] \cup {<<p, TooLong, q>> : p, q \in Places}
              \cup {<<Coil, p, Coil>> : p \in Places}

\* A signal of two registers beside one bit, in every order and scale.
Codings ==
    {[Plain EXCEPT !.length = n, !.type = y, !.wordOrder = w, !.byteOrder = b,
                   !.scale = x, !.offset = o] :
        n \in 1..2, y \in {"int", "uint", "string"}, w \in {"big", "little"},
        b \in {"big", "little"}, x \in 1..3, o \in 0..1}
Flag == [Plain EXCEPT !.type = "bool", !.address = 2, !.bit = 1]
Coded == {<<c, Flag>> : c \in Codings}

MCLayouts == Spread \cup Coded

\* Each register differs from its neighbours, each coil too.
MCMemories ==
    {[t \in {"holding", "coil"} |->
        [a \in 0..7 |-> IF t = "coil" THEN a % 2 = 1 ELSE <<(a \div 2) % 2, a % 2>>]]}

Texts == {<<>>, <<1>>, <<1, 0, 1>>, <<1, 1, 0>>, <<1, 0, 1, 1, 1>>}

MCInputs(sig) ==
    CASE sig.table = "coil" -> BOOLEAN
      [] sig.type = "string" -> Texts
      [] sig.type = "bool" -> {}
      [] sig.type \in {"int", "uint"} -> {-3, -1, 0, 2, 5, 7, 16}

=============================================================================
