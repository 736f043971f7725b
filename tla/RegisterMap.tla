---------------------------- MODULE RegisterMap ---------------------------
(***************************************************************************)
(* The data path between a slave's registers and the values of signals:    *)
(* polled in blocks (poll_manager.py, lines 118-149), read one by one      *)
(* (_read_one of command_service.py) and written (_write_one there).       *)
(***************************************************************************)
EXTENDS ReadBlocks, Codec

CONSTANTS
    Layouts,      \* configurations: sequences of signals
    Gaps,         \* values of maxGap
    Memories,     \* what the slave's tables hold at the start
    Inputs(_),    \* Inputs(sig): the values that sb/write can carry for sig
    MaxWrites     \* bound on writes

Tables == DOMAIN MaxRead

\* What the configuration schema asks for; a string may be longer than a request.
\* Scales and offsets are integers here, and a scale is positive.
ASSUME LayoutsAssumption ==
    \A configured \in Layouts :
        /\ configured \in Seq(Range(configured))
        /\ \A s \in Range(configured) :
              /\ s.table \in Tables /\ s.address \in Nat /\ s.length \in Nat \ {0}
              /\ s.table \in BitTables => s.length = 1 /\ s.type = "bool"
              /\ s.type \in {"int", "uint"} => s.scale \in Nat \ {0} /\ s.offset \in Int
ASSUME GapsAssumption == Gaps \subseteq Nat

\* The slave has the cells of the signals; an sb/write carries an integer for
\* an integer, and for a string the bytes of str(value).
ASSUME MemoriesAssumption ==
    \A held \in Memories, configured \in Layouts : \A s \in Range(configured) :
        /\ s.table \in DOMAIN held
        /\ s.address..(s.address + s.length - 1) \subseteq DOMAIN held[s.table]
ASSUME InputsAssumption ==
    \A configured \in Layouts : \A s \in Range(configured) : \A value \in Inputs(s) :
        s.table \notin BitTables =>
            /\ s.type = "string" => value \in Seq(Bytes)
            /\ s.type \in {"int", "uint"} => value \in Int

VARIABLES
    layout, gap,    \* the configuration of the poll group
    memory,         \* the slave: memory[table][address]
    wrote,          \* history: the newest write, as signal and value
    writes          \* how many writes there were

vars == <<layout, gap, memory, wrote, writes>>

Nobody == [signal |-> 0, value |-> 0]

Init ==
    /\ layout \in Layouts
    /\ gap \in Gaps
    /\ memory \in Memories
    /\ wrote = Nobody
    /\ writes = 0

\* A request for count cells.
Request(table, start, count) == [i \in 1..count |-> memory[table][start + i - 1]]

Plan(table) == Coalesce(layout, table, gap)

\* The block that serves signal s.
BlockOf(s) ==
    LET blocks == Plan(s.table)
    IN  blocks[CHOOSE i \in DOMAIN blocks : s \in ToSet(blocks[i].signals)]

PolledValue(s) ==
    LET b == BlockOf(s) IN Decode(s, Slice(b, s, Request(s.table, b.start, LengthOf(b))))

ReadValue(s) == Decode(s, Request(s.table, s.address, s.length))

\* sb/write of one configured signal on a table that can be written: one request
\* with all its cells.
Write(i) ==
    LET s == layout[i] IN
    /\ writes < MaxWrites
    /\ s.table \in WritableTables
    /\ \E value \in Inputs(s) :
          /\ Encodable(s, value)
          /\ LET cells == Encode(s, value)
             IN  memory' = [memory EXCEPT ![s.table] =
                     [a \in DOMAIN memory[s.table] |->
                         IF a \in s.address..(s.address + s.length - 1)
                         THEN cells[a - s.address + 1] ELSE memory[s.table][a]]]
          /\ wrote' = [signal |-> i, value |-> value]
    /\ writes' = writes + 1
    /\ UNCHANGED <<layout, gap>>

Next == \E i \in DOMAIN layout : Write(i)

Spec == Init /\ [][Next]_vars

-----------------------------------------------------------------------------

Occurrences(s) ==
    LET blocks == Plan(s.table)
    IN  {ij \in (DOMAIN blocks) \X (1..Len(layout)) :
            /\ ij[2] \in DOMAIN blocks[ij[1]].signals
            /\ blocks[ij[1]].signals[ij[2]] = s}

\* Every signal is in the plan as often as in the configuration, in a block
\* that has all its cells.
PlanServesAll ==
    \A s \in ToSet(layout) :
        /\ Cardinality(Occurrences(s)) = Cardinality({i \in DOMAIN layout : layout[i] = s})
        /\ \A ij \in Occurrences(s) :
              LET b == Plan(s.table)[ij[1]]
              IN  b.start <= s.address /\ EndOf(s) <= b.end

\* No request exceeds the protocol's limit, unless a signal alone does: nothing
\* checks the count of a string (signal_spec.py, lines 49-51).
PlanWithinLimits ==
    \A t \in Tables : \A b \in ToSet(Plan(t)) :
        LengthOf(b) > MaxRead[t] =>
            \E s \in ToSet(b.signals) : s.length > MaxRead[t]

\* "coalescing contiguous addresses into the fewest Modbus reads"
\* (poll_manager.py:1): no other split of the signals needs fewer.
FewestReads ==
    writes = 0 =>
        \A t \in Tables :
            LET n == Len(Plan(t)) IN n > 0 => ~Served(layout, t, gap, n - 1)

\* A poll and sb/read see the same value in the same registers.
PollAgreesWithRead == \A s \in ToSet(layout) : PolledValue(s) = ReadValue(s)

\* What sb/write wrote is what polls and reads return next.
WrittenIsPolled ==
    writes > 0 =>
        LET s == layout[wrote.signal] IN ReadsBackAs(s, wrote.value, PolledValue(s))

=============================================================================
