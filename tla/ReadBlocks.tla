----------------------------- MODULE ReadBlocks ----------------------------
(***************************************************************************)
(* The read plan of a poll group: coalesce of poll_manager.py, and the     *)
(* slices of a block that _poll_group hands to the decoder.                *)
(*                                                                         *)
(* Each table has a plan of its own; the order in which the tables are     *)
(* read is left out.  A signal is a record with at least its table, its    *)
(* address and its length in protocol units (unit_length).                 *)
(***************************************************************************)
EXTENDS Integers, Sequences, FiniteSets

CONSTANT MaxRead    \* MaxRead[table]: the protocol's limit for one request

ASSUME MaxReadAssumption == \A t \in DOMAIN MaxRead : MaxRead[t] \in Nat \ {0}

EndOf(s) == s.address + s.length
LengthOf(b) == b.end - b.start

NewBlock(s) == [start |-> s.address, end |-> EndOf(s), signals |-> <<s>>]

\* Mutant: one unit more than the protocol allows.
JoinsOneMore(b, s, gap) ==
    /\ s.address <= b.end + gap
    /\ EndOf(s) - b.start <= MaxRead[s.table] + 1

\* Mutant: signals that touch are read apart.
JoinsOverlapping(b, s, gap) ==
    /\ s.address < b.end + gap
    /\ EndOf(s) - b.start <= MaxRead[s.table]

Joins(b, s, gap) ==
    /\ s.address <= b.end + gap
    /\ EndOf(s) - b.start <= MaxRead[s.table]

Larger(m, n) == IF m > n THEN m ELSE n

\* Mutant: the block ends where its last signal ends.
JoinAtLast(b, s) == [b EXCEPT !.end = EndOf(s), !.signals = Append(b.signals, s)]

Join(b, s) ==
    [b EXCEPT !.end = Larger(b.end, EndOf(s)), !.signals = Append(b.signals, s)]

\* A signal joins the block at hand or begins a new one.
Place(blocks, s, gap) ==
    IF blocks # <<>> /\ Joins(blocks[Len(blocks)], s, gap)
    THEN [blocks EXCEPT ![Len(blocks)] = Join(blocks[Len(blocks)], s)]
    ELSE Append(blocks, NewBlock(s))

\* The signals of a table, and how many of them come no later than i: sorted is
\* stable, signals at the same address keep their order.
InTable(sigs, table) == {i \in DOMAIN sigs : sigs[i].table = table}

Before(sigs, i, j) ==
    \/ sigs[i].address < sigs[j].address
    \/ sigs[i].address = sigs[j].address /\ i < j

Rank(sigs, table, i) ==
    Cardinality({j \in InTable(sigs, table) : j = i \/ Before(sigs, j, i)})

Order(sigs, table) ==
    [n \in 1..Cardinality(InTable(sigs, table)) |->
        CHOOSE i \in InTable(sigs, table) : Rank(sigs, table, i) = n]

Sorted(sigs, table) == [n \in DOMAIN Order(sigs, table) |-> sigs[Order(sigs, table)[n]]]

\* The blocks after each of the signals.
Coalescing(sorted, gap) ==
    LET blocks[n \in 0..Len(sorted)] ==
            IF n = 0 THEN <<>> ELSE Place(blocks[n - 1], sorted[n], gap)
    IN  blocks

\* The blocks of one table.
Coalesce(sigs, table, gap) ==
    LET sorted == Sorted(sigs, table) IN Coalescing(sorted, gap)[Len(sorted)]

\* Mutant: the slice is taken from the start of the block.
SliceFromStart(b, s, data) == SubSeq(data, 1, s.length)

\* The part of a block's data that belongs to s.
Slice(b, s, data) ==
    LET off == s.address - b.start IN SubSeq(data, off + 1, off + s.length)

-----------------------------------------------------------------------------
(* Reference: reads that serve a set of signals, however they are found.   *)

\* The signals I (indices of sigs) can share a read: within the limit, and
\* between any two that follow one another no more than the gap.
OneRead(sigs, I, table, gap) ==
    /\ \A i, j \in I : EndOf(sigs[i]) - sigs[j].address <= MaxRead[table]
    /\ \A i \in I :
          \/ \A j \in I : sigs[i].address <= sigs[j].address
          \/ \E j \in I \ {i} :
                /\ \/ sigs[j].address < sigs[i].address
                   \/ sigs[j].address = sigs[i].address /\ j < i
                /\ sigs[i].address <= EndOf(sigs[j]) + gap

\* n reads are enough for the signals of a table.
Served(sigs, table, gap, n) ==
    LET indices == {i \in DOMAIN sigs : sigs[i].table = table}
    IN  \E read \in [indices -> 1..n] :
            \A k \in 1..n : OneRead(sigs, {i \in indices : read[i] = k}, table, gap)

=============================================================================
