------------------------------- MODULE Codec ------------------------------
(***************************************************************************)
(* Registers and values: codec.py.  A register is the pair of its bytes,   *)
(* high byte first.  Integers have the width of their registers; floats    *)
(* and float rounding are left out, and a string is the sequence of its    *)
(* bytes (UTF-8 belongs to Python).  A signal is a record with its type,   *)
(* length (registers), wordOrder, byteOrder, scale, offset and bit.        *)
(***************************************************************************)
EXTENDS Integers, SequencesExt

CONSTANT ByteBase    \* 256

ASSUME ByteBaseAssumption == ByteBase \in Nat \ {0, 1}

Bytes == 0..(ByteBase - 1)
BitTables == {"coil", "discrete"}
WritableTables == {"coil", "holding"}

Swap(order, s) == IF order = "little" THEN Reverse(s) ELSE s

\* Powers of the base: Power[k] is the number of values of k bytes.
Power[k \in Nat] == IF k = 0 THEN 1 ELSE ByteBase * Power[k - 1]

\* _assemble: registers to bytes, most significant first.
Assemble(sig, regs) ==
    LET words == Swap(sig.wordOrder, regs)
    IN  FlattenSeq([i \in DOMAIN words |-> Swap(sig.byteOrder, words[i])])

\* Mutant: the words are swapped, the bytes in them are not.
DisassembleWords(sig, bytes) ==
    Swap(sig.wordOrder, [i \in 1..(Len(bytes) \div 2) |-> <<bytes[2 * i - 1], bytes[2 * i]>>])

\* _disassemble: the inverse.
Disassemble(sig, bytes) ==
    Swap(sig.wordOrder, [i \in 1..(Len(bytes) \div 2) |->
                            Swap(sig.byteOrder, <<bytes[2 * i - 1], bytes[2 * i]>>)])

Unsigned(bytes) == FoldLeft(LAMBDA n, b : n * ByteBase + b, 0, bytes)
Digits(n, k) == [i \in 1..k |-> (n \div Power[k - i]) % ByteBase]

\* What struct.pack accepts: anything else raises.
Packable(sig) ==
    LET size == Power[2 * sig.length]
    IN  IF sig.type = "int" THEN (-(size \div 2))..(size \div 2 - 1) ELSE 0..(size - 1)

Integer(sig, bytes) ==
    LET n == Unsigned(bytes)
        size == Power[Len(bytes)]
    IN  IF sig.type = "int" /\ 2 * n >= size THEN n - size ELSE n

\* round(x / y): to the nearest integer, and to the even one of two.
Round(x, y) ==
    LET q == x \div y
        twice == 2 * (x % y)
    IN  IF twice > y \/ (twice = y /\ q % 2 = 1) THEN q + 1 ELSE q

Raw(sig, value) == Round(value - sig.offset, sig.scale)

\* rstrip("\x00")
Stripped(bytes) ==
    LET end == {n \in 0..Len(bytes) : \A i \in (n + 1)..Len(bytes) : bytes[i] = 0}
    IN  SubSeq(bytes, 1, CHOOSE n \in end : \A m \in end : n <= m)

Padded(bytes, n) == [i \in 1..n |-> IF i <= Len(bytes) THEN bytes[i] ELSE 0]

Decode(sig, cells) ==
    CASE sig.table \in BitTables -> cells[1]
      [] sig.table \notin BitTables /\ sig.type = "bool" ->
            (Unsigned(cells[1]) \div 2 ^ sig.bit) % 2 = 1
      [] sig.type = "string" -> Stripped(Assemble(sig, cells))
      [] sig.type \in {"int", "uint"} ->
            Integer(sig, Assemble(sig, cells)) * sig.scale + sig.offset

\* encode raises for an integer that does not fit and for a bool in a register.
Encodable(sig, value) ==
    \/ sig.table \in BitTables
    \/ sig.type = "string"
    \/ sig.type \in {"int", "uint"} /\ Raw(sig, value) \in Packable(sig)

Encode(sig, value) ==
    CASE sig.table \in BitTables -> <<value>>
      [] sig.type = "string" -> Disassemble(sig, Padded(value, 2 * sig.length))
      [] sig.type \in {"int", "uint"} ->
            LET n == Raw(sig, value)
                size == Power[2 * sig.length]
            IN  Disassemble(sig, Digits(IF n < 0 THEN n + size ELSE n, 2 * sig.length))

-----------------------------------------------------------------------------
(* Reference: what may be read back after value was written.               *)

\* A number comes back within half a step of its scale; a string comes back as
\* far as it fits, without the NULs at its end.
ReadsBackAs(sig, value, read) ==
    CASE sig.table \in BitTables -> read = value
      [] sig.type = "string" ->
            read = Stripped(SubSeq(value, 1, IF Len(value) < 2 * sig.length
                                             THEN Len(value) ELSE 2 * sig.length))
      [] sig.type \in {"int", "uint"} ->
            2 * (read - value) <= sig.scale /\ 2 * (value - read) <= sig.scale

=============================================================================
