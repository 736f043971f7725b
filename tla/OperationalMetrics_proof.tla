---------------------- MODULE OperationalMetrics_proof ----------------------
(***************************************************************************)
(* Proofs about OperationalMetrics, for any number of callers and any      *)
(* plans: the types, that the counts add up, and that the rows balance.    *)
(***************************************************************************)
EXTENDS OperationalMetrics, Induction

(***************************************************************************)
(* Bags.                                                                   *)
(***************************************************************************)
LEMMA CountIs ==
    ASSUME NEW S, NEW b, BagOf(b, S), NEW c
    PROVE  Count(c, b) \in Nat /\ (c \in DOMAIN b <=> Count(c, b) > 0)
BY DEF BagOf, IsABag, Count

LEMMA Widened ==
    ASSUME NEW S, NEW T, S \subseteq T, NEW b, BagOf(b, S)
    PROVE  BagOf(b, T)
BY DEF BagOf

LEMMA BagSum ==
    ASSUME NEW S, NEW a, NEW b, BagOf(a, S), BagOf(b, S)
    PROVE  BagOf(a (+) b, S)
<1>1. \A c \in DOMAIN a : a[c] \in Nat /\ a[c] > 0
  BY DEF BagOf, IsABag
<1>2. \A c \in DOMAIN b : b[c] \in Nat /\ b[c] > 0
  BY DEF BagOf, IsABag
<1> QED
  BY <1>1, <1>2 DEF BagOf, IsABag, (+)

LEMMA CountSum ==
    ASSUME NEW S, NEW a, NEW b, BagOf(a, S), BagOf(b, S)
    PROVE  \A c : Count(c, a (+) b) = Count(c, a) + Count(c, b)
<1>1. \A c \in DOMAIN a : a[c] \in Nat /\ a[c] > 0
  BY DEF BagOf, IsABag
<1>2. \A c \in DOMAIN b : b[c] \in Nat /\ b[c] > 0
  BY DEF BagOf, IsABag
<1> QED
  BY <1>1, <1>2 DEF Count, (+)

LEMMA BagPart ==
    ASSUME NEW S, NEW b, BagOf(b, S), NEW D \in SUBSET DOMAIN b
    PROVE  /\ BagOf(Restrict(b, D), S)
           /\ \A c : Count(c, Restrict(b, D)) = IF c \in D THEN Count(c, b) ELSE 0
BY DEF BagOf, IsABag, Count, Restrict

LEMMA CountsBag ==
    ASSUME NEW D, NEW f \in [D -> Nat]
    PROVE  /\ BagOf(Counts(f), D)
           /\ \A c : Count(c, Counts(f)) = IF c \in D THEN f[c] ELSE 0
BY DEF BagOf, IsABag, Count, Counts

LEMMA OneOfEach ==
    ASSUME NEW D
    PROVE  /\ BagOf(SetToBag(D), D)
           /\ \A c : Count(c, SetToBag(D)) = IF c \in D THEN 1 ELSE 0
BY DEF BagOf, IsABag, Count, SetToBag

LEMMA NoBag ==
    /\ \A S : BagOf(EmptyBag, S)
    /\ \A c : Count(c, EmptyBag) = 0
    /\ DOMAIN EmptyBag = {}
BY DEF BagOf, IsABag, Count, EmptyBag, SetToBag

-----------------------------------------------------------------------------
(***************************************************************************)
(* Plans, blocks and cells.                                                *)
(***************************************************************************)
LEMMA PlanIs ==
    ASSUME blocks \in Plans
    PROVE  /\ Len(blocks) \in Nat /\ Len(blocks) >= 1 /\ DOMAIN blocks = 1..Len(blocks)
           /\ \A i \in DOMAIN blocks :
                 /\ blocks[i].table \in TablesOf(blocks)
                 /\ blocks[i].signals \in Nat /\ blocks[i].signals >= 1
           /\ TablesOf(blocks) \subseteq Tables
<1>1. blocks # <<>> /\ blocks \in Seq([table : Tables, signals : Nat \ {0}])
  BY PlansAssumption
<1>2. /\ Len(blocks) \in Nat /\ Len(blocks) >= 1 /\ DOMAIN blocks = 1..Len(blocks)
      /\ \A i \in DOMAIN blocks : blocks[i] \in [table : Tables, signals : Nat \ {0}]
  <2> DEFINE S == [table : Tables, signals : Nat \ {0}]
  <2>1. blocks \in Seq(S)
    BY <1>1
  <2> HIDE DEF S
  <2>2. Len(blocks) \in Nat /\ DOMAIN blocks = 1..Len(blocks)
    BY <2>1, LenProperties
  <2>3. \A i \in 1..Len(blocks) : blocks[i] \in S
    BY <2>1, ElementOfSeq
  <2>4. Len(blocks) >= 1
    BY <1>1, <2>1, <2>2, EmptySeq
  <2> QED
    BY <2>2, <2>3, <2>4 DEF S
<1>3. TablesOf(blocks) \subseteq Tables
  BY DEF Tables
<1> QED
  BY <1>2, <1>3 DEF TablesOf

(* A table of any plan.                                                    *)
PollCells == {"poll"} \X Tables \X BlockMeasures

LEMMA PollCellIs ==
    ASSUME NEW table \in Tables, NEW result \in Results, NEW measure \in PollMeasures
    PROVE  /\ <<"poll", table, result, measure>> \in Cells
           /\ Fact(<<"poll", table, result, measure>>) = <<"poll", table, measure>>
           /\ <<"poll", table, measure>> \in {Fact(c) : c \in Cells}
<1>1. <<"poll", table, result, measure>> \in Cells
  BY DEF Cells
<1>2. Fact(<<"poll", table, result, measure>>) = <<"poll", table, measure>>
  BY DEF Fact
<1> QED
  BY <1>1, <1>2

LEMMA BlockMeasuresArePolls == BlockMeasures \subseteq PollMeasures
BY DEF PollMeasures

(* The facts: the cells of every other family, and poll cells without the result. *)
OtherCells == {c \in Cells : c[1] # "poll"}

LEMMA OtherFact == \A c \in OtherCells : Fact(c) = c /\ c \in {Fact(d) : d \in Cells}
BY DEF OtherCells, Fact

LEMMA CellsAre ==
    /\ \A m \in {"connectAttempts", "connectFailures", "reconnectAttempts", "reconnectFailures",
                 "connectionDrops"} : <<"connection", m>> \in OtherCells
    /\ \A m \in {"readErrors", "writeErrors", "reconnects"} : <<"health", m>> \in OtherCells
    /\ \A m \in {"read", "write"} : <<"status", m>> \in OtherCells
    /\ \A m \in {"dataMessagesPublished", "samplesPublished", "publishFailures", "batchFlushes",
                 "batchSize"} : <<"publish", m>> \in OtherCells
    /\ \A verb \in Verbs, result \in Results, m \in CommandMeasures :
          <<"command", verb, result, m>> \in OtherCells
BY DEF OtherCells, Cells

(* What one block counts.                                                  *)
BlockCounts(b, n) ==
    /\ DOMAIN n = BlockMeasures
    /\ \A m \in BlockMeasures : n[m] \in Nat
    /\ n.samplesGood = n["samplesGood"] /\ n.samplesBad = n["samplesBad"]
    /\ n["protocolReadRequests"] = 1
    /\ n["samplesGood"] + n["samplesBad"] = b.signals
    /\ n["samplesChanged"] + n["samplesSuppressed"] = n["samplesGood"]
    /\ n["samplesBad"] = 0 => n["protocolReadErrors"] = 0

LEMMA FailedBlock ==
    ASSUME NEW b, b.signals \in Nat, b.signals >= 1, NEW n \in BlockFailed(b)
    PROVE  BlockCounts(b, n)
BY DEF BlockFailed, BlockCounts, BlockMeasures

LEMMA ReadBlock ==
    ASSUME NEW b, b.signals \in Nat, b.signals >= 1, NEW n \in BlockRead(b)
    PROVE  BlockCounts(b, n)
<1>1. PICK s \in {split \in Splits : split[1] + split[2] <= b.signals} :
          n = [protocolReadRequests |-> 1, protocolReadErrors |-> 0,
               samplesGood |-> b.signals - s[1], samplesBad |-> s[1], samplesChanged |-> s[2],
               samplesSuppressed |-> b.signals - s[1] - s[2]]
  BY DEF BlockRead
<1>2. s[1] \in Nat /\ s[2] \in Nat /\ s[1] + s[2] <= b.signals
  BY SplitsAssumption
<1> QED
  BY <1>1, <1>2 DEF BlockCounts, BlockMeasures

(* What a command counts at its end.                                       *)
LEMMA CommandBag ==
    ASSUME NEW verb \in Verbs, NEW result \in Results, NEW values,
           DOMAIN values \subseteq CommandMeasures \ {"commandRequests", "commandErrors"},
           \A m \in DOMAIN values : values[m] \in Nat
    PROVE  /\ BagOf(CommandCounts(verb, result, values), OtherCells)
           /\ \A c : Count(c, CommandCounts(verb, result, values)) =
                 IF c \notin {"command"} \X {verb} \X {result} \X CommandMeasures THEN 0
                 ELSE IF c[4] = "commandRequests" THEN 1
                 ELSE IF c[4] = "commandErrors" THEN IF result = "error" THEN 1 ELSE 0
                 ELSE IF c[4] \in DOMAIN values THEN values[c[4]] ELSE 0
<1> DEFINE D == {"command"} \X {verb} \X {result} \X CommandMeasures
           f == [c \in D |->
                    CASE c[4] = "commandRequests" -> 1
                      [] c[4] = "commandErrors" -> IF result = "error" THEN 1 ELSE 0
                      [] c[4] \in DOMAIN values -> values[c[4]]
                      [] OTHER -> 0]
           g == [c \in D |->
                    IF c[4] = "commandRequests" THEN 1
                    ELSE IF c[4] = "commandErrors" THEN IF result = "error" THEN 1 ELSE 0
                    ELSE IF c[4] \in DOMAIN values THEN values[c[4]] ELSE 0]
<1>1. f = g
  OBVIOUS
<1>2. g \in [D -> Nat]
  OBVIOUS
<1>3. CommandCounts(verb, result, values) = Counts(g)
  BY <1>1 DEF CommandCounts
<1>4. D \subseteq OtherCells
  BY CellsAre
<1>5. /\ BagOf(Counts(g), D)
      /\ \A c : Count(c, Counts(g)) = IF c \in D THEN g[c] ELSE 0
  <2> HIDE DEF g, D
  <2> QED
    BY <1>2, CountsBag
<1>6. BagOf(Counts(g), OtherCells)
  <2> HIDE DEF g, D
  <2> QED
    BY <1>4, <1>5, Widened
<1> QED
  BY <1>3, <1>5, <1>6

LEMMA OneBag ==
    ASSUME NEW family, NEW measure, <<family, measure>> \in OtherCells
    PROVE  /\ BagOf(One(family, measure), OtherCells)
           /\ \A c : Count(c, One(family, measure)) = IF c = <<family, measure>> THEN 1 ELSE 0
<1>1. {<<family, measure>>} \subseteq OtherCells
  OBVIOUS
<1> QED
  BY <1>1, OneOfEach, Widened DEF One

-----------------------------------------------------------------------------
(***************************************************************************)
(* Types.  A thread that is at a block is at one of the plan; the others    *)
(* will begin at the first.                                                *)
(***************************************************************************)
Facts == {Fact(c) : c \in Cells}

AtBlock ==
    \A t \in Threads :
        IF pc[t] \in {"block", "answered"} THEN block[t] \in DOMAIN blocks ELSE block[t] = 1

Typed == MetricsTypeOK /\ AtBlock

(* What is recorded by others than polls is a cell and a fact.             *)
LEMMA RecordTypes ==
    ASSUME MetricsTypeOK, NEW counts, BagOf(counts, OtherCells), Record(counts)
    PROVE  BagOf(interval', Cells) /\ BagOf(happened', Facts)
<1>1. BagOf(counts, Cells) /\ BagOf(counts, Facts)
  <2>1. OtherCells \subseteq Cells /\ OtherCells \subseteq Facts
    BY OtherFact DEF OtherCells, Facts
  <2> QED
    BY <2>1, Widened
<1>2. BagOf(interval, Cells) /\ BagOf(happened, Facts)
  BY DEF MetricsTypeOK, Facts
<1> QED
  BY <1>1, <1>2, BagSum DEF Record, Happens

LEMMA TypesInit == MetricsInit => Typed
<1> SUFFICES ASSUME MetricsInit
             PROVE  Typed
  OBVIOUS
<1>1. \A t \in Threads : BagOf(stats[t], {"poll"} \X Tables \X BlockMeasures)
  BY NoBag DEF MetricsInit
<1>2. /\ \A b \in {interval, rows, received, lost} : BagOf(b, Cells)
      /\ BagOf(happened, {Fact(c) : c \in Cells})
  BY NoBag DEF MetricsInit
<1>3. /\ DOMAIN stats = Threads
      /\ pc \in [Threads -> {"idle"}] /\ block \in [Threads -> {1}]
      /\ outcome \in [Threads -> {"none"}] /\ tested \in [Threads -> BOOLEAN]
      /\ failed \in [Threads -> SUBSET Tables] /\ todo \in [Threads -> SUBSET Tables]
  BY DEF MetricsInit
<1>4. AtBlock
  BY <1>3 DEF AtBlock
<1>5. blocks \in Plans /\ phase = "connecting" /\ {falls, requests, events, ticks} \subseteq Nat
  BY DEF MetricsInit
<1>6. link \in BOOLEAN /\ seen \in BOOLEAN /\ believed \in BOOLEAN /\ raced \in BOOLEAN
  BY DEF MetricsInit
<1>7. /\ pc \in [Threads -> {"idle", "block", "answered", "record", "late", "overrun", "reply",
                           "reconnecting"}]
      /\ block \in [Threads -> Nat]
      /\ outcome \in [Threads -> {"none", "data", "exception", "lost", "noClient"}]
  BY <1>3
<1>8. MetricsTypeOK
  BY <1>1, <1>2, <1>3, <1>5, <1>6, <1>7 DEF MetricsTypeOK
<1> QED
  BY <1>4, <1>8 DEF Typed

-----------------------------------------------------------------------------
(***************************************************************************)
(* Rows that balance: the counts of which the rows are sums.               *)
(***************************************************************************)
LEMMA SignalsAre ==
    ASSUME blocks \in Plans, NEW table
    PROVE  /\ IsFiniteSet(DOMAIN blocks)
           /\ SignalsOf(table) \in [DOMAIN blocks -> Int]
           /\ Configured(table) \in Int
           /\ Configured(table) = SumFunctionOnSet(SignalsOf(table), DOMAIN blocks)
<1>1. IsFiniteSet(DOMAIN blocks)
  BY PlanIs, FS_Interval
<1>2. SignalsOf(table) \in [DOMAIN blocks -> Int] /\ DOMAIN SignalsOf(table) = DOMAIN blocks
  BY PlanIs DEF SignalsOf
<1>3. Configured(table) = SumFunctionOnSet(SignalsOf(table), DOMAIN blocks)
  BY <1>2 DEF Configured, SumFunction
<1>4. SumFunctionOnSet(SignalsOf(table), DOMAIN blocks) \in Int
  BY <1>1, <1>2, SumAdds
<1> QED
  BY <1>1, <1>2, <1>3, <1>4

LEMMA ReadBlocksAre ==
    ASSUME blocks \in Plans, NEW table
    PROVE  ReadBlocksOf(table) \in Nat
<1>1. IsFiniteSet({i \in DOMAIN blocks : blocks[i].table = table})
  BY SignalsAre, FS_Subset
<1> QED
  BY <1>1, FS_CardinalityType DEF ReadBlocksOf

(* Rows that balance, added to such rows.                                  *)
LEMMA RowsSum ==
    ASSUME blocks \in Plans, NEW a, NEW b, BagOf(a, Cells), BagOf(b, Cells), RowsOf(a), RowsOf(b)
    PROVE  RowsOf(a (+) b)
<1>1. \A c : /\ Count(c, a (+) b) = Count(c, a) + Count(c, b)
             /\ Count(c, a) \in Nat /\ Count(c, b) \in Nat
  <2>1. \A c : Count(c, a) \in Nat /\ Count(c, b) \in Nat
    BY CountIs
  <2>2. \A c : Count(c, a (+) b) = Count(c, a) + Count(c, b)
    BY CountSum
  <2> QED
    BY <2>1, <2>2
<1>2. ASSUME NEW table \in Tables, NEW result \in Results
      PROVE  PollRowBalances(table, result, a (+) b)
  <2>1. PollRowBalances(table, result, a) /\ PollRowBalances(table, result, b)
    BY DEF RowsOf
  <2>2. \A x, y \in Nat : /\ (x + y) * Configured(table) = x * Configured(table) + y * Configured(table)
                          /\ (x + y) * ReadBlocksOf(table) = x * ReadBlocksOf(table) + y * ReadBlocksOf(table)
    BY SignalsAre, ReadBlocksAre
  <2>3. \A x \in Nat : x * Configured(table) \in Int /\ x * ReadBlocksOf(table) \in Int
    BY SignalsAre, ReadBlocksAre
  <2> DEFINE A(m) == Count(<<"poll", table, result, m>>, a)
             B(m) == Count(<<"poll", table, result, m>>, b)
             C(m) == Count(<<"poll", table, result, m>>, a (+) b)
  <2>4. \A m : C(m) = A(m) + B(m) /\ A(m) \in Nat /\ B(m) \in Nat
    BY <1>1
  <2> HIDE DEF A, B, C
  <2>5. /\ A("samplesGood") + A("samplesBad") = A("pollCycles") * Configured(table)
        /\ A("protocolReadRequests") = A("pollCycles") * ReadBlocksOf(table)
        /\ B("samplesGood") + B("samplesBad") = B("pollCycles") * Configured(table)
        /\ B("protocolReadRequests") = B("pollCycles") * ReadBlocksOf(table)
    BY <2>1 DEF PollRowBalances, A, B
  <2>6. /\ C("samplesGood") + C("samplesBad") = C("pollCycles") * Configured(table)
        /\ C("protocolReadRequests") = C("pollCycles") * ReadBlocksOf(table)
    <3>1. /\ C("pollCycles") * Configured(table)
               = A("pollCycles") * Configured(table) + B("pollCycles") * Configured(table)
          /\ C("pollCycles") * ReadBlocksOf(table)
               = A("pollCycles") * ReadBlocksOf(table) + B("pollCycles") * ReadBlocksOf(table)
      BY <2>2, <2>4
    <3> QED
      BY <2>3, <2>4, <2>5, <3>1
  <2>7. /\ C("samplesChanged") + C("samplesSuppressed") = C("samplesGood")
        /\ result = "success" => C("samplesBad") + C("protocolReadErrors") = 0
        /\ result = "error" => C("samplesBad") >= C("pollCycles")
    <3>1. /\ A("samplesChanged") + A("samplesSuppressed") = A("samplesGood")
          /\ result = "success" => A("samplesBad") + A("protocolReadErrors") = 0
          /\ result = "error" => A("samplesBad") >= A("pollCycles")
          /\ B("samplesChanged") + B("samplesSuppressed") = B("samplesGood")
          /\ result = "success" => B("samplesBad") + B("protocolReadErrors") = 0
          /\ result = "error" => B("samplesBad") >= B("pollCycles")
      BY <2>1 DEF PollRowBalances, A, B
    <3> QED
      BY <2>4, <3>1
  <2> QED
    BY <2>6, <2>7 DEF PollRowBalances, C
<1>3. ASSUME NEW verb \in Verbs, NEW result \in Results
      PROVE  CommandRowBalances(verb, result, a (+) b)
  <2>1. CommandRowBalances(verb, result, a) /\ CommandRowBalances(verb, result, b)
    BY DEF RowsOf
  <2> QED
    BY <1>1, <2>1 DEF CommandRowBalances
<1>4. Count(<<"publish", "samplesPublished">>, a (+) b) <= Count(<<"publish", "batchSize">>, a (+) b)
  BY <1>1 DEF RowsOf
<1> QED
  BY <1>2, <1>3, <1>4 DEF RowsOf


(* A row that is taken out of such rows, or left in them, is a whole one.  *)
LEMMA RowsPart ==
    ASSUME blocks \in Plans, NEW b, BagOf(b, Cells), RowsOf(b), NEW D \in SUBSET DOMAIN b,
           \A c, d \in Cells :
              Row(c) = Row(d) /\ c \in DOMAIN b /\ d \in DOMAIN b => (c \in D <=> d \in D)
    PROVE  RowsOf(Restrict(b, D))
<1> DEFINE p == Restrict(b, D)
<1>1. \A c : /\ Count(c, p) = IF c \in D THEN Count(c, b) ELSE 0
             /\ Count(c, b) \in Nat
             /\ c \notin DOMAIN b => Count(c, b) = 0
  <2>1. \A c : Count(c, p) = IF c \in D THEN Count(c, b) ELSE 0
    BY BagPart
  <2>2. \A c : Count(c, b) \in Nat /\ (c \in DOMAIN b <=> Count(c, b) > 0)
    BY CountIs
  <2> QED
    BY <2>1, <2>2
<1> HIDE DEF p
(* Of the cells of one row, the counts are all kept or are all zero.       *)
<1>2. ASSUME NEW S \in SUBSET Cells, \A c, d \in S : Row(c) = Row(d)
      PROVE  \/ \A c \in S : Count(c, p) = Count(c, b)
             \/ \A c \in S : Count(c, p) = 0
  BY <1>1, <1>2
<1>3. ASSUME NEW table \in Tables, NEW result \in Results
      PROVE  PollRowBalances(table, result, p)
  <2> DEFINE N(m) == Count(<<"poll", table, result, m>>, p)
             B(m) == Count(<<"poll", table, result, m>>, b)
  <2>1. \/ \A m \in PollMeasures : N(m) = B(m)
        \/ \A m \in PollMeasures : N(m) = 0
    <3> DEFINE S == {<<"poll", table, result, m>> : m \in PollMeasures}
    <3>1. S \subseteq Cells /\ \A c, d \in S : Row(c) = Row(d)
      BY PollCellIs, SMTT(20) DEF Row
    <3>2. \A m \in PollMeasures : <<"poll", table, result, m>> \in S
      OBVIOUS
    <3> HIDE DEF S
    <3> QED
      BY <1>2, <3>1, <3>2
  <2>2. PollRowBalances(table, result, b)
    BY DEF RowsOf
  <2>3. /\ {"samplesGood", "samplesBad", "pollCycles", "samplesChanged", "samplesSuppressed",
            "protocolReadRequests", "protocolReadErrors"} \subseteq PollMeasures
        /\ 0 * Configured(table) = 0 /\ 0 * ReadBlocksOf(table) = 0
    BY SignalsAre, ReadBlocksAre DEF PollMeasures, BlockMeasures
  <2>4. CASE \A m \in PollMeasures : N(m) = B(m)
    BY <2>2, <2>3, <2>4 DEF PollRowBalances
  <2>5. CASE \A m \in PollMeasures : N(m) = 0
    BY <2>3, <2>5 DEF PollRowBalances
  <2> QED
    BY <2>1, <2>4, <2>5
<1>4. ASSUME NEW verb \in Verbs, NEW result \in Results
      PROVE  CommandRowBalances(verb, result, p)
  <2> DEFINE N(m) == Count(<<"command", verb, result, m>>, p)
             B(m) == Count(<<"command", verb, result, m>>, b)
  <2>1. \/ \A m \in CommandMeasures : N(m) = B(m)
        \/ \A m \in CommandMeasures : N(m) = 0
    <3> DEFINE S == {<<"command", verb, result, m>> : m \in CommandMeasures}
    <3>1. S \subseteq Cells /\ \A c, d \in S : Row(c) = Row(d)
      BY DEF Row, Cells
    <3>2. \A m \in CommandMeasures : <<"command", verb, result, m>> \in S
      OBVIOUS
    <3> HIDE DEF S
    <3> QED
      BY <1>2, <3>1, <3>2
  <2>2. CommandRowBalances(verb, result, b)
    BY DEF RowsOf
  <2>3. {"commandErrors", "commandRequests", "writeFailures", "writeSignals"} \subseteq CommandMeasures
    BY DEF CommandMeasures
  <2> QED
    BY <2>1, <2>2, <2>3 DEF CommandRowBalances
<1>5. Count(<<"publish", "samplesPublished">>, p) <= Count(<<"publish", "batchSize">>, p)
  <2> DEFINE S == {<<"publish", "samplesPublished">>, <<"publish", "batchSize">>}
  <2>1. S \subseteq Cells /\ \A c, d \in S : Row(c) = Row(d)
    BY DEF Row, Cells
  <2> HIDE DEF S
  <2>2. <<"publish", "samplesPublished">> \in S /\ <<"publish", "batchSize">> \in S
    BY DEF S
  <2> QED
    BY <1>2, <2>1, <2>2 DEF RowsOf
<1> QED
  BY <1>3, <1>4, <1>5 DEF RowsOf, p


(* Counts of others than polls.                                            *)
LEMMA OtherRows ==
    ASSUME blocks \in Plans, NEW b, BagOf(b, OtherCells),
           \A verb \in Verbs, result \in Results : CommandRowBalances(verb, result, b),
           Count(<<"publish", "samplesPublished">>, b) <= Count(<<"publish", "batchSize">>, b)
    PROVE  RowsOf(b)
<1>1. ASSUME NEW table \in Tables, NEW result \in Results
      PROVE  PollRowBalances(table, result, b)
  <2>1. \A m : Count(<<"poll", table, result, m>>, b) = 0
    <3>1. \A m : <<"poll", table, result, m>> \notin OtherCells
      BY DEF OtherCells
    <3> QED
      BY <3>1 DEF BagOf, Count
  <2>2. 0 * Configured(table) = 0 /\ 0 * ReadBlocksOf(table) = 0
    BY SignalsAre, ReadBlocksAre
  <2> QED
    BY <2>1, <2>2 DEF PollRowBalances
<1> QED
  BY <1>1 DEF RowsOf

(* Counts of neither polls nor commands nor publishes.                     *)
LEMMA FreeRows ==
    ASSUME blocks \in Plans, NEW b, BagOf(b, OtherCells),
           \A c \in DOMAIN b : c[1] \notin {"command", "publish"}
    PROVE  RowsOf(b)
<1>1. \A c : c[1] \in {"command", "publish"} => Count(c, b) = 0
  BY DEF Count
<1>2. \A verb \in Verbs, result \in Results : CommandRowBalances(verb, result, b)
  BY <1>1 DEF CommandRowBalances
<1>3. Count(<<"publish", "samplesPublished">>, b) <= Count(<<"publish", "batchSize">>, b)
  BY <1>1
<1> QED
  BY <1>2, <1>3, OtherRows

(* A command.                                                              *)
LEMMA CommandRows ==
    ASSUME blocks \in Plans,
           NEW verb \in Verbs, NEW result \in Results, NEW values,
           DOMAIN values \subseteq CommandMeasures \ {"commandRequests", "commandErrors"},
           \A m \in DOMAIN values : values[m] \in Nat,
           "writeFailures" \in DOMAIN values =>
              "writeSignals" \in DOMAIN values /\ values["writeFailures"] <= values["writeSignals"]
    PROVE  /\ BagOf(CommandCounts(verb, result, values), OtherCells)
           /\ Count(Drops, CommandCounts(verb, result, values)) = 0
           /\ RowsOf(CommandCounts(verb, result, values))
<1> DEFINE b == CommandCounts(verb, result, values)
<1>1. BagOf(b, OtherCells)
  BY CommandBag
<1>2. \A c : Count(c, b) =
                 IF c \notin {"command"} \X {verb} \X {result} \X CommandMeasures THEN 0
                 ELSE IF c[4] = "commandRequests" THEN 1
                 ELSE IF c[4] = "commandErrors" THEN IF result = "error" THEN 1 ELSE 0
                 ELSE IF c[4] \in DOMAIN values THEN values[c[4]] ELSE 0
  BY CommandBag
<1> HIDE DEF b
<1>3. ASSUME NEW v \in Verbs, NEW r \in Results
      PROVE  CommandRowBalances(v, r, b)
  <2> DEFINE N(m) == Count(<<"command", v, r, m>>, b)
  <2>1. CASE v = verb /\ r = result
    <3>1. \A m \in CommandMeasures : N(m) =
             IF m = "commandRequests" THEN 1
             ELSE IF m = "commandErrors" THEN IF result = "error" THEN 1 ELSE 0
             ELSE IF m \in DOMAIN values THEN values[m] ELSE 0
      BY <1>2, <2>1
    <3>2. {"commandErrors", "commandRequests", "writeFailures", "writeSignals"} \subseteq CommandMeasures
      BY DEF CommandMeasures
    <3>3. /\ N("commandRequests") = 1
          /\ N("commandErrors") = IF result = "error" THEN 1 ELSE 0
          /\ N("writeFailures") = IF "writeFailures" \in DOMAIN values THEN values["writeFailures"] ELSE 0
          /\ N("writeSignals") = IF "writeSignals" \in DOMAIN values THEN values["writeSignals"] ELSE 0
      BY <3>1, <3>2
    <3> HIDE DEF N
    <3>4. N("writeFailures") <= N("writeSignals")
      BY <3>3
    <3> QED
      BY <2>1, <3>3, <3>4 DEF CommandRowBalances, N
  <2>2. CASE v # verb \/ r # result
    <3>1. \A m : N(m) = 0
      BY <1>2, <2>2
    <3> QED
      BY <3>1 DEF CommandRowBalances
  <2> QED
    BY <2>1, <2>2
<1>4. /\ Count(<<"publish", "samplesPublished">>, b) = 0
      /\ Count(<<"publish", "batchSize">>, b) = 0
      /\ Count(Drops, b) = 0
  BY <1>2 DEF Drops
<1>5. RowsOf(b)
  BY <1>1, <1>3, <1>4, OtherRows
<1> QED
  BY <1>1, <1>4, <1>5 DEF b

-----------------------------------------------------------------------------
(***************************************************************************)
(* The steps of others than polls: what they count, and what they leave.   *)
(***************************************************************************)
OtherStep ==
    \/ \E c \in Callers :
        RepollEnds(c) \/ RepollRefused(c) \/ Write(c) \/ BeginReconnect(c) \/ EndReconnect(c)
    \/ Publish
    \/ ConnectFails
    \/ Connect
    \/ Recover

Plain(counts) == BagOf(counts, OtherCells) /\ Count(Drops, counts) = 0 /\ RowsOf(counts)

Recorded == \E counts : Plain(counts) /\ Record(counts)

LEMMA OtherIsCell == OtherCells \subseteq Cells /\ OtherCells \subseteq Facts
BY OtherFact DEF OtherCells, Facts

LEMMA PlainSum ==
    ASSUME blocks \in Plans, NEW a, NEW b, Plain(a), Plain(b)
    PROVE  Plain(a (+) b)
<1>1. BagOf(a (+) b, OtherCells)
  BY BagSum DEF Plain
<1>2. Count(Drops, a (+) b) = 0
  <2>1. \A c : Count(c, a (+) b) = Count(c, a) + Count(c, b)
    BY CountSum DEF Plain
  <2> QED
    BY <2>1 DEF Plain
<1>3. RowsOf(a (+) b)
  BY OtherIsCell, Widened, RowsSum DEF Plain
<1> QED
  BY <1>1, <1>2, <1>3 DEF Plain

LEMMA PlainNothing ==
    ASSUME blocks \in Plans
    PROVE  Plain(EmptyBag)
BY NoBag, FreeRows DEF Plain

LEMMA PlainOne ==
    ASSUME blocks \in Plans, NEW family \in {"connection", "health"}, NEW measure,
           <<family, measure>> \in OtherCells, measure # "connectionDrops"
    PROVE  Plain(One(family, measure))
<1>1. BagOf(One(family, measure), OtherCells)
  BY OneBag
<1>2. \A c : Count(c, One(family, measure)) = IF c = <<family, measure>> THEN 1 ELSE 0
  BY OneBag
<1>3. \A c \in DOMAIN One(family, measure) : c[1] \notin {"command", "publish"}
  BY DEF One, SetToBag
<1>4. Count(Drops, One(family, measure)) = 0
  BY <1>2 DEF Drops
<1> QED
  BY <1>1, <1>3, <1>4, FreeRows DEF Plain

LEMMA PlainCommand ==
    ASSUME blocks \in Plans,
           NEW verb \in Verbs, NEW result \in Results, NEW values,
           DOMAIN values \subseteq CommandMeasures \ {"commandRequests", "commandErrors"},
           \A m \in DOMAIN values : values[m] \in Nat,
           "writeFailures" \in DOMAIN values =>
              "writeSignals" \in DOMAIN values /\ values["writeFailures"] <= values["writeSignals"]
    PROVE  Plain(CommandCounts(verb, result, values))
BY CommandRows DEF Plain

(* What is counted signal by signal.                                       *)
Samples(good, bad, status, measure) ==
    [c \in {<<"status", status>>, <<"health", measure>>} |-> IF c[1] = "status" THEN good ELSE bad]

LEMMA PlainSamples ==
    ASSUME blocks \in Plans, NEW good \in Nat, NEW bad \in Nat,
           NEW status \in {"read", "write"}, NEW measure \in {"readErrors", "writeErrors"}
    PROVE  Plain(Counts(Samples(good, bad, status, measure)))
<1> DEFINE D == {<<"status", status>>, <<"health", measure>>}
           f == Samples(good, bad, status, measure)
<1>1. f \in [D -> Nat]
  BY DEF Samples
<1>2. D \subseteq OtherCells /\ Drops \notin D /\ \A c \in D : c[1] \notin {"command", "publish"}
  BY CellsAre DEF Drops
<1> HIDE DEF D, f
<1>3. BagOf(Counts(f), D)
  BY <1>1, CountsBag
<1>4. BagOf(Counts(f), OtherCells) /\ DOMAIN Counts(f) \subseteq D
  BY <1>2, <1>3, Widened DEF BagOf
<1>5. Count(Drops, Counts(f)) = 0
  BY <1>2, <1>4 DEF Count
<1>6. RowsOf(Counts(f))
  BY <1>2, <1>4, FreeRows
<1> QED
  BY <1>4, <1>5, <1>6 DEF Plain, f

LEMMA EndCounts ==
    ASSUME blocks \in Plans, NEW result \in Results
    PROVE  /\ Plain(CommandCounts("repoll", result, [repollRequests |-> 1]))
           /\ Plain(CommandCounts("reconnect", result, [reconnectRequests |-> 1]))
           /\ Plain(CommandCounts("sb/status", result, <<>>))
<1>1. {"repoll", "reconnect", "sb/status"} \subseteq Verbs
  BY DEF Verbs
<1>2. Plain(CommandCounts("repoll", result, [repollRequests |-> 1]))
  <2> DEFINE v == [repollRequests |-> 1]
  <2>1. DOMAIN v = {"repollRequests"} /\ \A m \in DOMAIN v : v[m] \in Nat
    OBVIOUS
  <2>2. "repollRequests" \in CommandMeasures \ {"commandRequests", "commandErrors"}
    BY DEF CommandMeasures
  <2> HIDE DEF v
  <2>3. Plain(CommandCounts("repoll", result, v))
    BY <1>1, <2>1, <2>2, PlainCommand
  <2> QED
    BY <2>3 DEF v
<1>3. Plain(CommandCounts("reconnect", result, [reconnectRequests |-> 1]))
  <2> DEFINE v == [reconnectRequests |-> 1]
  <2>1. DOMAIN v = {"reconnectRequests"} /\ \A m \in DOMAIN v : v[m] \in Nat
    OBVIOUS
  <2>2. "reconnectRequests" \in CommandMeasures \ {"commandRequests", "commandErrors"}
    BY DEF CommandMeasures
  <2> HIDE DEF v
  <2>3. Plain(CommandCounts("reconnect", result, v))
    BY <1>1, <2>1, <2>2, PlainCommand
  <2> QED
    BY <2>3 DEF v
<1>4. Plain(CommandCounts("sb/status", result, <<>>))
  <2>1. DOMAIN <<>> = {}
    OBVIOUS
  <2> QED
    BY <1>1, <2>1, PlainCommand
<1> QED
  BY <1>2, <1>3, <1>4

LEMMA WriteCounts ==
    ASSUME blocks \in Plans, NEW n \in Nat, NEW written \in Nat, NEW rejected \in Nat,
           NEW missed \in Nat, missed <= n, NEW result \in Results
    PROVE  Plain(CommandCounts("sb/write", result, [writeSignals |-> n, writeFailures |-> missed])
                 (+) Counts([cell \in {<<"status", "write">>, <<"health", "writeErrors">>} |->
                                     IF cell[1] = "status" THEN written ELSE rejected]))
<1>1. Plain(CommandCounts("sb/write", result, [writeSignals |-> n, writeFailures |-> missed]))
  <2> DEFINE v == [writeSignals |-> n, writeFailures |-> missed]
  <2>1. /\ DOMAIN v = {"writeSignals", "writeFailures"}
        /\ v["writeSignals"] = n /\ v["writeFailures"] = missed
    OBVIOUS
  <2>2. {"writeSignals", "writeFailures"} \subseteq CommandMeasures \ {"commandRequests", "commandErrors"}
    BY DEF CommandMeasures
  <2>3. "sb/write" \in Verbs
    BY DEF Verbs
  <2> HIDE DEF v
  <2>4. \A m \in DOMAIN v : v[m] \in Nat
    BY <2>1
  <2>5. "writeFailures" \in DOMAIN v =>
              "writeSignals" \in DOMAIN v /\ v["writeFailures"] <= v["writeSignals"]
    BY <2>1
  <2>6. DOMAIN v \subseteq CommandMeasures \ {"commandRequests", "commandErrors"}
    BY <2>1, <2>2
  <2>7. Plain(CommandCounts("sb/write", result, v))
    BY <2>3, <2>4, <2>5, <2>6, PlainCommand
  <2> QED
    BY <2>7 DEF v
<1>2. Plain(Counts(Samples(written, rejected, "write", "writeErrors")))
  BY PlainSamples
<1> QED
  BY <1>1, <1>2, PlainSum DEF Samples

LEMMA PublishCounts ==
    ASSUME blocks \in Plans,
           NEW counts \in {[batchFlushes |-> 1], [publishFailures |-> 1]}
                  \cup {[dataMessagesPublished |-> 2, samplesPublished |-> 2, batchSize |-> 2],
                        [dataMessagesPublished |-> 1, samplesPublished |-> 1, batchSize |-> 2]}
    PROVE  Plain([c \in {"publish"} \X DOMAIN counts |-> counts[c[2]]])
<1> DEFINE b == [c \in {"publish"} \X DOMAIN counts |-> counts[c[2]]]
<1>1. /\ DOMAIN counts \subseteq {"dataMessagesPublished", "samplesPublished", "publishFailures",
                                 "batchFlushes", "batchSize"}
      /\ \A m \in DOMAIN counts : counts[m] \in {1, 2}
      /\ "samplesPublished" \in DOMAIN counts =>
            "batchSize" \in DOMAIN counts /\ counts["samplesPublished"] <= counts["batchSize"]
  OBVIOUS
<1>2. DOMAIN b \subseteq OtherCells
  BY <1>1, CellsAre
<1>3. BagOf(b, OtherCells)
  BY <1>1, <1>2 DEF BagOf, IsABag
<1>4. \A m : Count(<<"publish", m>>, b) = IF m \in DOMAIN counts THEN counts[m] ELSE 0
  BY DEF Count
<1>5. \A c : c[1] # "publish" => Count(c, b) = 0
  BY DEF Count
<1> HIDE DEF b
<1>6. \A verb \in Verbs, result \in Results : CommandRowBalances(verb, result, b)
  BY <1>5 DEF CommandRowBalances
<1>7. Count(<<"publish", "samplesPublished">>, b) <= Count(<<"publish", "batchSize">>, b)
  BY <1>1, <1>4
<1>8. Count(Drops, b) = 0
  BY <1>5 DEF Drops
<1>9. RowsOf(b)
  BY <1>3, <1>6, <1>7, OtherRows
<1> QED
  BY <1>3, <1>8, <1>9 DEF Plain, b

LEMMA OtherRecords ==
    ASSUME blocks \in Plans, OtherStep
    PROVE  Recorded
<1>1. ASSUME NEW c \in Callers, RepollEnds(c)
      PROVE  Recorded
  BY <1>1, EndCounts DEF RepollEnds, Recorded, Results
<1>2. ASSUME NEW c \in Callers, RepollRefused(c)
      PROVE  Recorded
  BY <1>2, EndCounts DEF RepollRefused, Command, Recorded, Results
<1>3. ASSUME NEW c \in Callers, Write(c)
      PROVE  Recorded
  <2>1. PICK n, written, rejected, missed \in 0..MaxEntries, result \in Results :
          /\ rejected <= missed /\ written + missed <= n
          /\ Command(c, CommandCounts("sb/write", result,
                                    [writeSignals |-> n, writeFailures |-> missed])
                      (+) Counts([cell \in {<<"status", "write">>, <<"health", "writeErrors">>} |->
                                     IF cell[1] = "status" THEN written ELSE rejected]))
    BY <1>3, ZenonT(60) DEF Write
  <2>2. n \in Nat /\ written \in Nat /\ rejected \in Nat /\ missed \in Nat /\ missed <= n
    BY <2>1, MetricsBounds
  <2>3. Plain(CommandCounts("sb/write", result, [writeSignals |-> n, writeFailures |-> missed])
                 (+) Counts([cell \in {<<"status", "write">>, <<"health", "writeErrors">>} |->
                                     IF cell[1] = "status" THEN written ELSE rejected]))
    BY <2>2, WriteCounts
  <2> QED
    BY <2>1, <2>3 DEF Command, Recorded
<1>4. ASSUME NEW c \in Callers, BeginReconnect(c)
      PROVE  Recorded
  BY <1>4, PlainOne, CellsAre DEF BeginReconnect, Recorded
<1>5. ASSUME NEW c \in Callers, EndReconnect(c)
      PROVE  Recorded
  <2>1. PICK result \in Results :
          Record(CommandCounts("reconnect", result, [reconnectRequests |-> 1])
                  (+) (IF result = "error" THEN One("connection", "reconnectFailures")
                       ELSE EmptyBag))
    BY <1>5 DEF EndReconnect
  <2>2. Plain(IF result = "error" THEN One("connection", "reconnectFailures") ELSE EmptyBag)
    BY PlainOne, PlainNothing, CellsAre
  <2>3. Plain(CommandCounts("reconnect", result, [reconnectRequests |-> 1]))
    BY EndCounts
  <2>4. Plain(CommandCounts("reconnect", result, [reconnectRequests |-> 1])
                  (+) (IF result = "error" THEN One("connection", "reconnectFailures")
                       ELSE EmptyBag))
    BY <2>2, <2>3, PlainSum
  <2> QED
    BY <2>1, <2>4 DEF Recorded
<1>6. CASE Publish
  BY <1>6, PublishCounts DEF Publish, Recorded
<1>7. CASE ConnectFails
  <2>1. Plain(One("connection", "connectAttempts")) /\ Plain(One("connection", "connectFailures"))
    BY PlainOne, CellsAre
  <2>2. Plain(One("connection", "connectAttempts") (+) One("connection", "connectFailures"))
    BY <2>1, PlainSum
  <2> QED
    BY <1>7, <2>2 DEF ConnectFails, Recorded
<1>8. CASE Connect
  BY <1>8, PlainOne, CellsAre DEF Connect, Recorded
<1>9. CASE Recover
  <2>1. Plain(IF seen /\ ~believed THEN One("health", "reconnects") ELSE EmptyBag)
    BY PlainOne, PlainNothing, CellsAre
  <2> QED
    BY <1>9, <2>1 DEF Recover, Recorded
<1> QED
  BY <1>1, <1>2, <1>3, <1>4, <1>5, <1>6, <1>7, <1>8, <1>9 DEF OtherStep

(* A thread that ends a command, begins or ends a reconnect, or does neither. *)
Moves(t) ==
    \/ pc'[t] = pc[t] /\ failed'[t] = failed[t]
    \/ /\ pc[t] \in {"idle", "reconnecting", "reply"} /\ pc'[t] \in {"idle", "reconnecting"}
       /\ failed'[t] = IF pc[t] = "reply" THEN {} ELSE failed[t]
       /\ t # Loop

OtherFrame ==
    /\ UNCHANGED <<blocks, block, outcome, tested, stats, todo, rows, received, lost, falls, raced>>
    /\ \A t \in Threads : Moves(t)

LEMMA OtherLeaves ==
    ASSUME Typed, OtherStep
    PROVE  OtherFrame
<1> USE DEF OtherFrame, Moves, poll, report, metricsBounds
<1>0. /\ \A c \in Callers : c \in Threads /\ c # Loop
      /\ pc \in [Threads -> {"idle", "block", "answered", "record", "late", "overrun", "reply",
                           "reconnecting"}]
      /\ failed \in [Threads -> SUBSET Tables]
  BY CallersAssumption DEF Typed, MetricsTypeOK, Threads
<1>1. ASSUME NEW c \in Callers, RepollEnds(c)
      PROVE  OtherFrame
  BY <1>0, <1>1 DEF RepollEnds, Leave
<1>2. ASSUME NEW c \in Callers, RepollRefused(c)
      PROVE  OtherFrame
  BY <1>2 DEF RepollRefused, Command
<1>3. ASSUME NEW c \in Callers, Write(c)
      PROVE  OtherFrame
  BY <1>3 DEF Write, Command
<1>4. ASSUME NEW c \in Callers, BeginReconnect(c)
      PROVE  OtherFrame
  BY <1>0, <1>4 DEF BeginReconnect
<1>5. ASSUME NEW c \in Callers, EndReconnect(c)
      PROVE  OtherFrame
  BY <1>0, <1>5 DEF EndReconnect
<1>6. CASE Publish
  BY <1>6 DEF Publish
<1>7. CASE ConnectFails
  BY <1>7 DEF ConnectFails
<1>8. CASE Connect
  BY <1>8 DEF Connect
<1>9. CASE Recover
  BY <1>9 DEF Recover
<1> QED
  BY <1>1, <1>2, <1>3, <1>4, <1>5, <1>6, <1>7, <1>8, <1>9 DEF OtherStep

LEMMA OtherTypes ==
    ASSUME Typed, OtherStep
    PROVE  Typed'
<1>1. Recorded /\ OtherFrame
  BY OtherRecords, OtherLeaves DEF Typed, MetricsTypeOK
<1>2. PICK counts : Plain(counts) /\ Record(counts)
  BY <1>1 DEF Recorded
<1>3. BagOf(interval', Cells) /\ BagOf(happened', {Fact(c) : c \in Cells})
  BY <1>2, RecordTypes DEF Typed, Facts, Plain
<1>4. /\ pc' \in [Threads -> {"idle", "block", "answered", "record", "late", "overrun", "reply",
                           "reconnecting"}]
      /\ failed' \in [Threads -> SUBSET Tables]
      /\ phase' \in {"connecting", "connected", "running"}
  <2> DEFINE Places ==
               /\ pc' \in [Threads -> {"idle", "block", "answered", "record", "late", "overrun",
                                        "reply", "reconnecting"}]
               /\ failed' \in [Threads -> SUBSET Tables]
               /\ phase' \in {"connecting", "connected", "running"}
  <2> USE DEF Typed, MetricsTypeOK, poll
  <2>1. ASSUME NEW c \in Callers, RepollEnds(c)
        PROVE  Places
    BY <2>1 DEF RepollEnds, Leave
  <2>2. ASSUME NEW c \in Callers, RepollRefused(c)
        PROVE  Places
    BY <2>2 DEF RepollRefused, Command
  <2>3. ASSUME NEW c \in Callers, Write(c)
        PROVE  Places
    BY <2>3 DEF Write, Command
  <2>4. ASSUME NEW c \in Callers, BeginReconnect(c)
        PROVE  Places
    BY <2>4 DEF BeginReconnect
  <2>5. ASSUME NEW c \in Callers, EndReconnect(c)
        PROVE  Places
    BY <2>5 DEF EndReconnect
  <2>6. CASE Publish
    BY <2>6 DEF Publish
  <2>7. CASE ConnectFails
    BY <2>7 DEF ConnectFails
  <2>8. CASE Connect
    BY <2>8 DEF Connect
  <2>9. CASE Recover
    BY <2>9 DEF Recover
  <2> QED
    BY <2>1, <2>2, <2>3, <2>4, <2>5, <2>6, <2>7, <2>8, <2>9 DEF OtherStep
<1>5. link' \in BOOLEAN /\ seen' \in BOOLEAN /\ believed' \in BOOLEAN
      /\ {requests', events', ticks'} \subseteq Nat
  <2> DEFINE Values == /\ link' \in BOOLEAN /\ seen' \in BOOLEAN /\ believed' \in BOOLEAN
                       /\ requests' \in Nat /\ events' \in Nat /\ ticks' \in Nat
  <2> USE DEF Typed, MetricsTypeOK, report, metricsBounds
  <2>1. ASSUME NEW c \in Callers, RepollEnds(c)
        PROVE  Values
    BY <2>1 DEF RepollEnds, Leave
  <2>2. ASSUME NEW c \in Callers, RepollRefused(c)
        PROVE  Values
    BY <2>2 DEF RepollRefused, Command
  <2>3. ASSUME NEW c \in Callers, Write(c)
        PROVE  Values
    BY <2>3 DEF Write, Command
  <2>4. ASSUME NEW c \in Callers, BeginReconnect(c)
        PROVE  Values
    <3>1. link' = FALSE /\ UNCHANGED <<report, requests, ticks>> /\ events' = events + 1
      BY <2>4 DEF BeginReconnect
    <3>2. link' \in BOOLEAN
      BY <3>1, Zenon
    <3> QED
      BY <3>1, <3>2
  <2>5. ASSUME NEW c \in Callers, EndReconnect(c)
        PROVE  Values
    BY <2>5 DEF EndReconnect
  <2>6. CASE Publish
    BY <2>6 DEF Publish
  <2>7. CASE ConnectFails
    BY <2>7 DEF ConnectFails
  <2>8. CASE Connect
    BY <2>8 DEF Connect
  <2>9. CASE Recover
    BY <2>9 DEF Recover
  <2> QED
    BY <2>1, <2>2, <2>3, <2>4, <2>5, <2>6, <2>7, <2>8, <2>9 DEF OtherStep
<1>6. AtBlock'
  BY <1>1 DEF OtherFrame, Moves, Typed, AtBlock
<1>7. MetricsTypeOK'
  BY <1>1, <1>3, <1>4, <1>5 DEF OtherFrame, Typed, MetricsTypeOK
<1> QED
  BY <1>6, <1>7 DEF Typed

-----------------------------------------------------------------------------
(***************************************************************************)
(* The steps of polls: what they count.                                    *)
(***************************************************************************)
PollCounts(table, n) == Counts([f \in {"poll"} \X {table} \X DOMAIN n |-> n[f[3]]])

Client(n) ==
    Counts([c \in {<<"status", "read">>, <<"health", "readErrors">>} |->
                                 IF c[1] = "status" THEN n.samplesGood ELSE n.samplesBad])

LEMMA PollCountsBag ==
    ASSUME NEW table \in Tables, NEW n, DOMAIN n = BlockMeasures, \A m \in BlockMeasures : n[m] \in Nat
    PROVE  /\ BagOf(PollCounts(table, n), PollCells)
           /\ \A c : Count(c, PollCounts(table, n)) =
                 IF c \in {"poll"} \X {table} \X BlockMeasures THEN n[c[3]] ELSE 0
<1> DEFINE D == {"poll"} \X {table} \X BlockMeasures
           f == [c \in D |-> n[c[3]]]
<1>1. f \in [D -> Nat]
  OBVIOUS
<1>2. PollCounts(table, n) = Counts(f)
  BY DEF PollCounts
<1>3. D \subseteq PollCells
  BY DEF PollCells
<1> HIDE DEF f, D
<1>4. /\ BagOf(Counts(f), D)
      /\ \A c : Count(c, Counts(f)) = IF c \in D THEN f[c] ELSE 0
  BY <1>1, CountsBag
<1>5. BagOf(Counts(f), PollCells)
  BY <1>3, <1>4, Widened
<1> QED
  BY <1>2, <1>4, <1>5 DEF f, D

(* The answer of a thread that is at a block of the plan.                  *)
AnswerCounts(t, n) ==
    /\ BlockCounts(blocks[block[t]], n)
    /\ stats' = [stats EXCEPT ![t] = stats[t] (+) PollCounts(blocks[block[t]].table, n)]
    /\ failed' = IF n.samplesBad > 0
                  THEN [failed EXCEPT ![t] = failed[t] \cup {blocks[block[t]].table}] ELSE failed
    /\ interval' = interval (+) Client(n)
    /\ happened' = happened (+) (Client(n) (+) PollCounts(blocks[block[t]].table, n))

LEMMA AnswerCount ==
    ASSUME Typed, NEW t \in Threads, Answer(t)
    PROVE  /\ block[t] \in DOMAIN blocks
           /\ blocks[block[t]].table \in TablesOf(blocks)
           /\ blocks[block[t]].table \in Tables
           /\ \E n : AnswerCounts(t, n)
<1> DEFINE b == blocks[block[t]]
<1>1. block[t] \in DOMAIN blocks
  BY DEF Typed, AtBlock, Answer
<1>2. /\ b.table \in TablesOf(blocks) /\ b.table \in Tables
      /\ b.signals \in Nat /\ b.signals >= 1
  BY <1>1, PlanIs DEF Typed, MetricsTypeOK
<1>3. PICK n \in IF outcome[t] = "data" THEN BlockRead(b) ELSE BlockFailed(b) :
        /\ stats' = [stats EXCEPT ![t] = stats[t] (+) PollCounts(b.table, n)]
        /\ failed' = IF n.samplesBad > 0
                  THEN [failed EXCEPT ![t] = failed[t] \cup {b.table}] ELSE failed
        /\ interval' = interval (+) Client(n)
        /\ happened' = happened (+) (Client(n) (+) PollCounts(b.table, n))
  BY DEF Answer, Happens, PollCounts, Client
<1>4. BlockCounts(b, n)
  BY <1>2, FailedBlock, ReadBlock
<1> QED
  BY <1>1, <1>2, <1>3, <1>4 DEF AnswerCounts

LEMMA ClientPlain ==
    ASSUME blocks \in Plans, NEW b, NEW n, BlockCounts(b, n)
    PROVE  Plain(Client(n))
<1>1. n.samplesGood \in Nat /\ n.samplesBad \in Nat
  BY DEF BlockCounts, BlockMeasures
<1> QED
  BY <1>1, PlainSamples DEF Client, Samples

(* A table is recorded: the cells of its counts, and what is left.         *)
Own(t, table) == {f \in DOMAIN stats[t] : f[2] = table}

Moved(t, table) ==
    [c \in {<<"poll", table, Result(t, table), f[3]>> : f \in Own(t, table)}
                    |-> stats[t][<<"poll", table, c[4]>>]]

Cycle(t, table) == SetToBag({<<"poll", table, Result(t, table), "pollCycles">>})

LEMMA ResultIs == \A t, table : Result(t, table) \in Results
BY DEF Result, Results

LEMMA MovedBag ==
    ASSUME MetricsTypeOK, NEW t \in Threads, NEW table \in Tables
    PROVE  /\ BagOf(Moved(t, table), Cells)
           /\ \A c : c[1] # "poll" => Count(c, Moved(t, table)) = 0
           /\ \A tb, r, m : Count(<<"poll", tb, r, m>>, Moved(t, table)) =
                 IF tb = table /\ r = Result(t, table) THEN Count(<<"poll", table, m>>, stats[t])
                 ELSE 0
<1> DEFINE R == Result(t, table)
           b == Moved(t, table)
<1>1. BagOf(stats[t], {"poll"} \X Tables \X BlockMeasures)
  BY DEF MetricsTypeOK
<1>2. /\ DOMAIN stats[t] \subseteq {"poll"} \X Tables \X BlockMeasures
      /\ \A f \in DOMAIN stats[t] : stats[t][f] \in Nat /\ stats[t][f] > 0
  BY <1>1 DEF BagOf, IsABag
<1>3. DOMAIN b = {<<"poll", table, R, f[3]>> : f \in Own(t, table)}
  BY DEF Moved
<1>4. \A f \in Own(t, table) : f = <<"poll", table, f[3]>> /\ f[3] \in BlockMeasures
  BY <1>2 DEF Own
<1>5. \A tb, r, m : <<"poll", tb, r, m>> \in DOMAIN b <=>
                       tb = table /\ r = R /\ <<"poll", table, m>> \in DOMAIN stats[t]
  <2>1. \A m : <<"poll", table, m>> \in DOMAIN stats[t] => <<"poll", table, m>> \in Own(t, table)
    BY DEF Own
  <2>2. \A f \in Own(t, table) : f \in DOMAIN stats[t]
    BY DEF Own
  <2> HIDE DEF R, b
  <2>3. ASSUME NEW tb, NEW r, NEW m, <<"poll", tb, r, m>> \in DOMAIN b
        PROVE  tb = table /\ r = R /\ <<"poll", table, m>> \in DOMAIN stats[t]
    <3>1. PICK f \in Own(t, table) : <<"poll", tb, r, m>> = <<"poll", table, R, f[3]>>
      BY <1>3, <2>3
    <3>2. tb = table /\ r = R /\ m = f[3]
      BY <3>1
    <3> QED
      BY <1>4, <2>2, <3>2
  <2>4. ASSUME NEW m, <<"poll", table, m>> \in DOMAIN stats[t]
        PROVE  <<"poll", table, R, m>> \in DOMAIN b
    <3>1. <<"poll", table, m>> \in Own(t, table) /\ <<"poll", table, m>>[3] = m
      BY <2>1, <2>4
    <3> QED
      BY <1>3, <3>1
  <2> QED
    BY <2>3, <2>4
<1>6. \A m : <<"poll", table, R, m>> \in DOMAIN b =>
                b[<<"poll", table, R, m>>] = stats[t][<<"poll", table, m>>]
  BY <1>3 DEF Moved
<1>7. BagOf(b, Cells)
  <2>1. \A c \in DOMAIN b : \E m \in BlockMeasures : c = <<"poll", table, R, m>>
    BY <1>3, <1>4
  <2>2. DOMAIN b \subseteq Cells
    BY <2>1, ResultIs, PollCellIs, BlockMeasuresArePolls
  <2>3. \A c \in DOMAIN b : b[c] \in Nat /\ b[c] > 0
    <3> HIDE DEF b, R
    <3> SUFFICES ASSUME NEW c \in DOMAIN b
                 PROVE  b[c] \in Nat /\ b[c] > 0
      OBVIOUS
    <3>1. PICK m \in BlockMeasures : c = <<"poll", table, R, m>>
      BY <2>1
    <3>2. <<"poll", table, m>> \in DOMAIN stats[t] /\ b[c] = stats[t][<<"poll", table, m>>]
      BY <1>5, <1>6, <3>1
    <3> QED
      BY <1>2, <3>2
  <2>4. b = [c \in DOMAIN b |-> b[c]]
    BY <1>3 DEF Moved
  <2> HIDE DEF b
  <2> QED
    BY <2>2, <2>3, <2>4 DEF BagOf, IsABag
<1>8. \A c : c[1] # "poll" => Count(c, b) = 0
  BY <1>3 DEF Count
<1> HIDE DEF b, R
<1>9. ASSUME NEW tb, NEW r, NEW m
      PROVE  Count(<<"poll", tb, r, m>>, b) =
                 IF tb = table /\ r = R THEN Count(<<"poll", table, m>>, stats[t]) ELSE 0
  BY <1>5, <1>6 DEF Count
<1> QED
  BY <1>7, <1>8, <1>9 DEF b, R

LEMMA RecordPollIs ==
    ASSUME NEW t \in Threads, NEW table \in Tables, RecordPoll(t, table)
    PROVE  /\ stats' = [stats EXCEPT ![t] = Restrict(stats[t], DOMAIN stats[t] \ Own(t, table))]
           /\ interval' = (interval (+) Moved(t, table)) (+) Cycle(t, table)
           /\ happened' = happened (+) SetToBag({<<"poll", table, "pollCycles">>})
BY DEF RecordPoll, Own, Moved, Cycle, Happens

(* One cell of a poll, and its fact.                                       *)
LEMMA PollCell ==
    ASSUME NEW table \in Tables, NEW result \in Results, NEW measure \in PollMeasures
    PROVE  /\ BagOf(SetToBag({<<"poll", table, result, measure>>}), Cells)
           /\ \A c : Count(c, SetToBag({<<"poll", table, result, measure>>})) =
                 IF c = <<"poll", table, result, measure>> THEN 1 ELSE 0
           /\ BagOf(SetToBag({<<"poll", table, measure>>}), Facts)
           /\ \A c : Count(c, SetToBag({<<"poll", table, measure>>})) =
                 IF c = <<"poll", table, measure>> THEN 1 ELSE 0
<1>1. /\ {<<"poll", table, result, measure>>} \subseteq Cells
      /\ {<<"poll", table, measure>>} \subseteq Facts
  BY PollCellIs DEF Facts
<1>2. \A D : /\ BagOf(SetToBag(D), D)
             /\ \A c : Count(c, SetToBag(D)) = IF c \in D THEN 1 ELSE 0
  BY OneOfEach
<1> QED
  BY <1>1, <1>2, Widened

LEMMA PollCellFacts ==
    /\ PollCells \subseteq Facts
    /\ "pollCycles" \in PollMeasures /\ "pollOverruns" \in PollMeasures
<1>1. "success" \in Results
  BY DEF Results
<1>2. PollCells \subseteq Facts
  <2> SUFFICES ASSUME NEW table \in Tables, NEW m \in BlockMeasures
               PROVE  <<"poll", table, m>> \in Facts
    BY DEF PollCells
  <2> QED
    BY <1>1, PollCellIs, BlockMeasuresArePolls DEF Facts
<1> QED
  BY <1>2 DEF PollMeasures

-----------------------------------------------------------------------------
(* Types of the steps of polls.                                            *)

LEMMA BeginTypes ==
    ASSUME Typed, NEW t \in Threads, BeginPoll(t)
    PROVE  Typed'
<1>1. /\ UNCHANGED <<blocks, phase, link, interval, outcome, tested, stats, rows, received, lost,
                     happened, falls, failed, todo, block, seen, believed, raced, ticks>>
      /\ pc' = [pc EXCEPT ![t] = "block"]
      /\ requests' = requests + Len(blocks) /\ events' = events + 1
  BY DEF BeginPoll, report
<1>2. {requests', events', ticks'} \subseteq Nat
  BY <1>1, PlanIs DEF Typed, MetricsTypeOK
<1>3. pc' \in [Threads -> {"idle", "block", "answered", "record", "late", "overrun", "reply",
                                "reconnecting"}]
  BY <1>1 DEF Typed, MetricsTypeOK
<1>4. AtBlock'
  <2>1. 1 \in DOMAIN blocks
    BY PlanIs DEF Typed, MetricsTypeOK
  <2> QED
    BY <1>1, <2>1 DEF Typed, MetricsTypeOK, AtBlock, BeginPoll
<1> QED
  BY <1>1, <1>2, <1>3, <1>4 DEF Typed, MetricsTypeOK

LEMMA RequestTypes ==
    ASSUME Typed, NEW t \in Threads, Request(t)
    PROVE  Typed'
<1>1. PICK how \in {"data", "exception", "lost", "noClient"} :
        /\ pc[t] = "block"
        /\ pc' = [pc EXCEPT ![t] = "answered"]
        /\ outcome' = [outcome EXCEPT ![t] = how]
        /\ tested' = [tested EXCEPT ![t] = link]
        /\ interval' = IF how = "lost" /\ link
              THEN interval (+) One("connection", "connectionDrops") ELSE interval
        /\ UNCHANGED <<blocks, phase, link, block, stats, failed, todo, report, happened, falls,
                       raced, metricsBounds>>
  BY DEF Request
<1>2. BagOf(interval', Cells)
  <2>1. BagOf(One("connection", "connectionDrops"), Cells)
    BY OneBag, CellsAre, OtherIsCell, Widened
  <2>2. BagOf(interval, Cells)
    BY DEF Typed, MetricsTypeOK
  <2> QED
    BY <1>1, <2>1, <2>2, BagSum
<1>3. tested' \in [Threads -> BOOLEAN]
  BY <1>1 DEF Typed, MetricsTypeOK
<1>4. /\ pc' \in [Threads -> {"idle", "block", "answered", "record", "late", "overrun", "reply",
                                "reconnecting"}]
      /\ outcome' \in [Threads -> {"none", "data", "exception", "lost", "noClient"}]
  BY <1>1 DEF Typed, MetricsTypeOK
<1>5. AtBlock'
  BY <1>1 DEF Typed, MetricsTypeOK, AtBlock
<1>6. UNCHANGED <<blocks, phase, link, block, stats, failed, todo, rows, seen, believed, received,
                   lost, happened, falls, raced, requests, events, ticks>>
  BY <1>1 DEF report, metricsBounds
<1> QED
  BY <1>2, <1>3, <1>4, <1>5, <1>6 DEF Typed, MetricsTypeOK

LEMMA AnswerTypes ==
    ASSUME Typed, NEW t \in Threads, Answer(t)
    PROVE  Typed'
<1> DEFINE b == blocks[block[t]]
           done == block[t] = Len(blocks)
<1>1. PICK n : AnswerCounts(t, n)
  BY AnswerCount
<1>2. block[t] \in DOMAIN blocks /\ b.table \in Tables
  BY AnswerCount
<1>3. BagOf(Client(n), OtherCells)
  BY <1>1, ClientPlain DEF AnswerCounts, Plain, Typed, MetricsTypeOK
<1>4. BagOf(PollCounts(b.table, n), PollCells)
  BY <1>1, <1>2, PollCountsBag DEF AnswerCounts, BlockCounts
<1>5. BagOf(interval', Cells)
  <2>1. BagOf(interval, Cells) /\ BagOf(Client(n), Cells)
    BY <1>3, OtherIsCell, Widened DEF Typed, MetricsTypeOK
  <2> QED
    BY <1>1, <2>1, BagSum DEF AnswerCounts
<1>6. BagOf(happened', Facts)
  <2>1. BagOf(happened, Facts) /\ BagOf(Client(n), Facts) /\ BagOf(PollCounts(b.table, n), Facts)
    BY <1>3, <1>4, OtherIsCell, PollCellFacts, Widened DEF Typed, MetricsTypeOK, Facts
  <2>2. BagOf(Client(n) (+) PollCounts(b.table, n), Facts)
    BY <2>1, BagSum
  <2> QED
    BY <1>1, <2>1, <2>2, BagSum DEF AnswerCounts
<1>7. DOMAIN stats' = Threads /\ \A u \in Threads : BagOf(stats'[u], PollCells)
  <2>1. DOMAIN stats = Threads /\ \A u \in Threads : BagOf(stats[u], PollCells)
    BY DEF Typed, MetricsTypeOK, PollCells
  <2>2. BagOf(stats[t] (+) PollCounts(b.table, n), PollCells)
    BY <1>4, <2>1, BagSum
  <2> QED
    BY <1>1, <2>1, <2>2 DEF AnswerCounts
<1>8. /\ pc' = [pc EXCEPT ![t] = IF done THEN "record" ELSE "block"]
      /\ block' = [block EXCEPT ![t] = IF done THEN 1 ELSE block[t] + 1]
      /\ todo' = [todo EXCEPT ![t] = IF done THEN TablesOf(blocks) ELSE {}]
      /\ falls' = falls + (IF link /\ outcome[t] = "lost" THEN 1 ELSE 0)
      /\ outcome' = [outcome EXCEPT ![t] = "none"]
      /\ tested' = [tested EXCEPT ![t] = FALSE]
      /\ UNCHANGED <<blocks, phase, report, metricsBounds>>
  BY DEF Answer
<1>9. /\ pc' \in [Threads -> {"idle", "block", "answered", "record", "late", "overrun", "reply",
                                "reconnecting"}]
      /\ outcome' \in [Threads -> {"none", "data", "exception", "lost", "noClient"}]
      /\ block' \in [Threads -> Nat]
      /\ todo' \in [Threads -> SUBSET Tables]
      /\ falls' \in Nat
  <2>1. TablesOf(blocks) \subseteq Tables
    BY PlanIs DEF Typed, MetricsTypeOK
  <2> QED
    BY <1>8, <2>1 DEF Typed, MetricsTypeOK
<1>10. failed' \in [Threads -> SUBSET Tables]
  BY <1>1, <1>2 DEF AnswerCounts, Typed, MetricsTypeOK
<1>11. tested' \in [Threads -> BOOLEAN]
  BY <1>8 DEF Typed, MetricsTypeOK
<1>12. link' \in BOOLEAN
  BY DEF Answer, Typed, MetricsTypeOK
<1>13. raced' \in BOOLEAN
  BY DEF Answer, Typed, MetricsTypeOK
<1>14. AtBlock'
  <2> SUFFICES ASSUME NEW u \in Threads
               PROVE  IF pc'[u] \in {"block", "answered"} THEN block'[u] \in DOMAIN blocks
                      ELSE block'[u] = 1
    BY <1>8 DEF AtBlock
  <2>1. CASE u = t
    <3>1. /\ pc'[u] = IF done THEN "record" ELSE "block"
          /\ block'[u] = IF done THEN 1 ELSE block[t] + 1
      BY <1>8, <2>1 DEF Typed, MetricsTypeOK
    <3>2. ~done => block[t] + 1 \in DOMAIN blocks
      BY <1>2, PlanIs DEF Typed, MetricsTypeOK
    <3> QED
      BY <3>1, <3>2
  <2>2. CASE u # t
    BY <1>8, <2>2 DEF Typed, MetricsTypeOK, AtBlock
  <2> QED
    BY <2>1, <2>2
<1>15. MetricsTypeOK'
  <2>1. UNCHANGED <<blocks, phase, rows, received, lost, seen, believed, requests, events, ticks>>
    BY <1>8 DEF report, metricsBounds
  <2>2. \A x \in {interval, rows, received, lost}' : BagOf(x, Cells)
    BY <1>5, <2>1 DEF Typed, MetricsTypeOK
  <2>3. /\ BagOf(happened', {Fact(c) : c \in Cells}) /\ DOMAIN stats' = Threads
        /\ \A u \in Threads : BagOf(stats'[u], {"poll"} \X Tables \X BlockMeasures)
    BY <1>6, <1>7 DEF PollCells, Facts
  <2> QED
    BY <1>9, <1>10, <1>11, <1>12, <1>13, <2>1, <2>2, <2>3 DEF Typed, MetricsTypeOK
<1> QED
  BY <1>14, <1>15 DEF Typed

LEMMA RecordPollTypes ==
    ASSUME Typed, NEW t \in Threads, NEW table \in Tables, RecordPoll(t, table)
    PROVE  Typed'
<1>1. /\ todo' = [todo EXCEPT ![t] = todo[t] \ {table}]
      /\ pc[t] = "record"
      /\ pc' = IF todo[t] = {table}
              THEN [pc EXCEPT ![t] = IF t = Loop THEN "late" ELSE "reply"] ELSE pc
      /\ UNCHANGED <<blocks, phase, link, block, outcome, tested, failed, report, falls, raced,
                       metricsBounds>>
  BY DEF RecordPoll
<1>2. UNCHANGED <<rows, received, lost, seen, believed, requests, events, ticks>>
  BY <1>1 DEF report, metricsBounds
<1>3. \A x \in {interval, rows, received, lost}' : BagOf(x, Cells)
  <2>1. BagOf(interval, Cells) /\ BagOf(Moved(t, table), Cells) /\ BagOf(Cycle(t, table), Cells)
    BY MovedBag, PollCell, ResultIs, PollCellFacts DEF Typed, MetricsTypeOK, Cycle
  <2>2. BagOf(interval (+) Moved(t, table), Cells)
    BY <2>1, BagSum
  <2>3. BagOf((interval (+) Moved(t, table)) (+) Cycle(t, table), Cells)
    BY <2>1, <2>2, BagSum
  <2>4. BagOf(interval', Cells)
    BY <2>3, RecordPollIs
  <2> QED
    BY <1>2, <2>4 DEF Typed, MetricsTypeOK
<1>4. BagOf(happened', {Fact(c) : c \in Cells})
  <2>1. BagOf(happened, Facts)
    BY DEF Typed, MetricsTypeOK, Facts
  <2>2. BagOf(SetToBag({<<"poll", table, "pollCycles">>}), Facts)
    BY PollCell, ResultIs, PollCellFacts
  <2>3. BagOf(happened (+) SetToBag({<<"poll", table, "pollCycles">>}), Facts)
    BY <2>1, <2>2, BagSum
  <2> QED
    BY <2>3, RecordPollIs DEF Facts
<1>5. /\ DOMAIN stats' = Threads
      /\ \A u \in Threads : BagOf(stats'[u], {"poll"} \X Tables \X BlockMeasures)
  <2>1. DOMAIN stats = Threads /\ \A u \in Threads : BagOf(stats[u], PollCells)
    BY DEF Typed, MetricsTypeOK, PollCells
  <2>2. DOMAIN stats[t] \ Own(t, table) \in SUBSET DOMAIN stats[t]
    OBVIOUS
  <2>3. BagOf(Restrict(stats[t], DOMAIN stats[t] \ Own(t, table)), PollCells)
    BY <2>1, <2>2, BagPart
  <2>4. stats' = [stats EXCEPT ![t] = Restrict(stats[t], DOMAIN stats[t] \ Own(t, table))]
    BY RecordPollIs
  <2> QED
    BY <2>1, <2>3, <2>4 DEF PollCells
<1>6. /\ pc' \in [Threads -> {"idle", "block", "answered", "record", "late", "overrun", "reply",
                                "reconnecting"}]
      /\ todo' \in [Threads -> SUBSET Tables]
  BY <1>1 DEF Typed, MetricsTypeOK
<1>7. AtBlock'
  BY <1>1 DEF Typed, MetricsTypeOK, AtBlock
<1> QED
  BY <1>1, <1>2, <1>3, <1>4, <1>5, <1>6, <1>7 DEF Typed, MetricsTypeOK

LEMMA InTimeTypes ==
    ASSUME Typed, InTime
    PROVE  Typed'
<1>1. Loop \in Threads
  BY DEF Threads
<1>2. /\ pc' \in [Threads -> {"idle", "block", "answered", "record", "late", "overrun", "reply",
                                "reconnecting"}]
      /\ todo' \in [Threads -> SUBSET Tables]
      /\ failed' \in [Threads -> SUBSET Tables]
  <2>1. TablesOf(blocks) \subseteq Tables
    BY PlanIs DEF Typed, MetricsTypeOK
  <2> QED
    BY <1>1, <2>1 DEF InTime, Leave, Typed, MetricsTypeOK
<1>3. AtBlock'
  BY <1>1 DEF InTime, Typed, MetricsTypeOK, AtBlock
<1>4. UNCHANGED <<blocks, phase, link, block, outcome, tested, stats, interval, happened, falls, raced,
                  rows, received, lost, seen, believed, requests, events, ticks>>
  BY DEF InTime, report, metricsBounds
<1> QED
  BY <1>2, <1>3, <1>4 DEF Typed, MetricsTypeOK

LEMMA OverrunTypes ==
    ASSUME Typed, NEW table \in Tables, RecordOverrun(table)
    PROVE  Typed'
<1>1. Loop \in Threads
  BY DEF Threads
<1>2. /\ pc' \in [Threads -> {"idle", "block", "answered", "record", "late", "overrun", "reply",
                                "reconnecting"}]
      /\ todo' \in [Threads -> SUBSET Tables]
      /\ failed' \in [Threads -> SUBSET Tables]
  BY <1>1 DEF RecordOverrun, Leave, Typed, MetricsTypeOK
<1>3. AtBlock'
  BY <1>1 DEF RecordOverrun, Typed, MetricsTypeOK, AtBlock
<1>4. UNCHANGED <<blocks, phase, link, block, outcome, tested, stats, falls, raced,
                  rows, received, lost, seen, believed, requests, events, ticks>>
  BY DEF RecordOverrun, report, metricsBounds
<1>5. BagOf(interval', Cells)
  <2>1. BagOf(SetToBag({<<"poll", table, Result(Loop, table), "pollOverruns">>}), Cells)
    BY PollCell, ResultIs, PollCellFacts
  <2> QED
    BY <2>1, BagSum DEF RecordOverrun, Typed, MetricsTypeOK
<1>6. BagOf(happened', {Fact(c) : c \in Cells})
  <2>1. BagOf(SetToBag({<<"poll", table, "pollOverruns">>}), {Fact(c) : c \in Cells})
    BY PollCell, ResultIs, PollCellFacts DEF Facts
  <2> QED
    BY <2>1, BagSum DEF RecordOverrun, Happens, Typed, MetricsTypeOK
<1>7. \A x \in {interval, rows, received, lost}' : BagOf(x, Cells)
  BY <1>4, <1>5 DEF Typed, MetricsTypeOK
<1> QED
  BY <1>2, <1>3, <1>4, <1>6, <1>7 DEF Typed, MetricsTypeOK

-----------------------------------------------------------------------------
(***************************************************************************)
(* The reports: what is drained or sent, and what is not.                  *)
(***************************************************************************)
LEMMA Parts ==
    ASSUME blocks \in Plans, NEW b, BagOf(b, Cells), NEW D \in SUBSET DOMAIN b, NEW E,
           E = DOMAIN b \ D
    PROVE  /\ BagOf(Restrict(b, D), Cells) /\ BagOf(Restrict(b, E), Cells)
           /\ \A c : /\ Count(c, Restrict(b, D)) = IF c \in D THEN Count(c, b) ELSE 0
                     /\ Count(c, Restrict(b, E)) = IF c \in D THEN 0 ELSE Count(c, b)
<1>1. \A c : c \notin DOMAIN b => Count(c, b) = 0
  BY DEF Count
<1>2. E \in SUBSET DOMAIN b
  OBVIOUS
<1>3. \A c : Count(c, Restrict(b, D)) = IF c \in D THEN Count(c, b) ELSE 0
  BY BagPart
<1>4. \A c : Count(c, Restrict(b, E)) = IF c \in E THEN Count(c, b) ELSE 0
  BY <1>2, BagPart
<1>5. BagOf(Restrict(b, D), Cells) /\ BagOf(Restrict(b, E), Cells)
  BY <1>2, BagPart
<1> QED
  BY <1>1, <1>3, <1>4, <1>5

(* x and y together are b.                                                 *)
SplitInto(b, x, y) ==
    /\ BagOf(x, Cells) /\ BagOf(y, Cells)
    /\ \A c : \/ Count(c, x) = Count(c, b) /\ Count(c, y) = 0
              \/ Count(c, y) = Count(c, b) /\ Count(c, x) = 0
    /\ RowsOf(b) => RowsOf(x) /\ RowsOf(y)

LEMMA DrainSplits ==
    ASSUME Typed, NEW family
    PROVE  SplitInto(interval, Drained(family), Remaining(family))
<1> DEFINE D == {c \in DOMAIN interval : c[1] = family}
           E == {c \in DOMAIN interval : c[1] # family}
<1>1. blocks \in Plans /\ BagOf(interval, Cells)
  BY DEF Typed, MetricsTypeOK
<1>2. D \in SUBSET DOMAIN interval /\ E \in SUBSET DOMAIN interval /\ E = DOMAIN interval \ D
  OBVIOUS
<1>3. \A c, d \in Cells : Row(c) = Row(d) => c[1] = d[1]
  <2>1. \A c : Row(c)[1] = c[1]
    BY DEF Row
  <2> QED
    BY <2>1
<1>4. \A c, d \in Cells : Row(c) = Row(d) /\ c \in DOMAIN interval /\ d \in DOMAIN interval =>
                             (c \in D <=> d \in D) /\ (c \in E <=> d \in E)
  BY <1>3
<1>5. Drained(family) = Restrict(interval, D) /\ Remaining(family) = Restrict(interval, E)
  BY DEF Drained, Remaining
<1> HIDE DEF D, E
<1>6. /\ BagOf(Restrict(interval, D), Cells) /\ BagOf(Restrict(interval, E), Cells)
      /\ \A c : /\ Count(c, Restrict(interval, D)) = IF c \in D THEN Count(c, interval) ELSE 0
                /\ Count(c, Restrict(interval, E)) = IF c \in D THEN 0 ELSE Count(c, interval)
  BY <1>1, <1>2, Parts
<1>7. RowsOf(interval) => RowsOf(Restrict(interval, D)) /\ RowsOf(Restrict(interval, E))
  BY <1>1, <1>2, <1>4, RowsPart
<1>8. BagOf(Drained(family), Cells) /\ BagOf(Remaining(family), Cells)
  BY <1>5, <1>6
<1>9. \A c : \/ Count(c, Drained(family)) = Count(c, interval) /\ Count(c, Remaining(family)) = 0
             \/ Count(c, Remaining(family)) = Count(c, interval) /\ Count(c, Drained(family)) = 0
  <2> SUFFICES ASSUME NEW c
               PROVE  \/ Count(c, Drained(family)) = Count(c, interval) /\ Count(c, Remaining(family)) = 0
                      \/ Count(c, Remaining(family)) = Count(c, interval) /\ Count(c, Drained(family)) = 0
    OBVIOUS
  <2>1. /\ Count(c, Drained(family)) = IF c \in D THEN Count(c, interval) ELSE 0
        /\ Count(c, Remaining(family)) = IF c \in D THEN 0 ELSE Count(c, interval)
    BY <1>5, <1>6
  <2> QED
    BY <2>1
<1> QED
  BY <1>5, <1>7, <1>8, <1>9 DEF SplitInto

LEMMA SendSplits ==
    ASSUME Typed, NEW row
    PROVE  SplitInto(rows, Leaves(row), Stays(row))
<1> DEFINE D == {c \in DOMAIN rows : Row(c) = row}
           E == {c \in DOMAIN rows : Row(c) # row}
<1>1. blocks \in Plans /\ BagOf(rows, Cells)
  BY DEF Typed, MetricsTypeOK
<1>2. D \in SUBSET DOMAIN rows /\ E \in SUBSET DOMAIN rows /\ E = DOMAIN rows \ D
  OBVIOUS
<1>4. \A c, d \in Cells : Row(c) = Row(d) /\ c \in DOMAIN rows /\ d \in DOMAIN rows =>
                             (c \in D <=> d \in D) /\ (c \in E <=> d \in E)
  OBVIOUS
<1>5. Leaves(row) = Restrict(rows, D) /\ Stays(row) = Restrict(rows, E)
  BY DEF Leaves, Stays
<1> HIDE DEF D, E
<1>6. /\ BagOf(Restrict(rows, D), Cells) /\ BagOf(Restrict(rows, E), Cells)
      /\ \A c : /\ Count(c, Restrict(rows, D)) = IF c \in D THEN Count(c, rows) ELSE 0
                /\ Count(c, Restrict(rows, E)) = IF c \in D THEN 0 ELSE Count(c, rows)
  BY <1>1, <1>2, Parts
<1>7. RowsOf(rows) => RowsOf(Restrict(rows, D)) /\ RowsOf(Restrict(rows, E))
  BY <1>1, <1>2, <1>4, RowsPart
<1>8. BagOf(Leaves(row), Cells) /\ BagOf(Stays(row), Cells)
  BY <1>5, <1>6
<1>9. \A c : \/ Count(c, Leaves(row)) = Count(c, rows) /\ Count(c, Stays(row)) = 0
             \/ Count(c, Stays(row)) = Count(c, rows) /\ Count(c, Leaves(row)) = 0
  <2> SUFFICES ASSUME NEW c
               PROVE  \/ Count(c, Leaves(row)) = Count(c, rows) /\ Count(c, Stays(row)) = 0
                      \/ Count(c, Stays(row)) = Count(c, rows) /\ Count(c, Leaves(row)) = 0
    OBVIOUS
  <2>1. /\ Count(c, Leaves(row)) = IF c \in D THEN Count(c, rows) ELSE 0
        /\ Count(c, Stays(row)) = IF c \in D THEN 0 ELSE Count(c, rows)
    BY <1>5, <1>6
  <2> QED
    BY <2>1
<1> QED
  BY <1>5, <1>7, <1>8, <1>9 DEF SplitInto

(* The bags of a step of the reports: all else is left.                    *)
LEMMA ReportTypes ==
    ASSUME Typed,
           UNCHANGED <<blocks, link, poll, falls, raced>>,
           phase' \in {"connecting", "connected", "running"},
           seen' \in BOOLEAN, believed' = believed,
           BagOf(interval', Cells), BagOf(rows', Cells), BagOf(received', Cells), BagOf(lost', Cells),
           BagOf(happened', Facts), {requests', events', ticks'} \subseteq Nat
    PROVE  Typed'
<1>1. UNCHANGED <<pc, block, outcome, tested, stats, failed, todo>>
  BY DEF poll
<1>2. AtBlock'
  BY <1>1 DEF Typed, AtBlock
<1>3. \A x \in {interval, rows, received, lost}' : BagOf(x, Cells)
  OBVIOUS
<1> QED
  BY <1>1, <1>2, <1>3 DEF Typed, MetricsTypeOK, Facts

ReportStep ==
    \/ \E c \in Callers : Status(c)
    \/ Start
    \/ Tick
    \/ Drain
    \/ Send
    \/ SendFails

StatusCounts == CommandCounts("sb/status", "success", <<>>)

(* What is reported is moved: the console receives it, or it is lost.      *)
StatusMoves ==
    /\ SplitInto(interval, Drained("status"), Remaining("status"))
    /\ Plain(StatusCounts)
    /\ interval' = Remaining("status") (+) StatusCounts
    /\ happened' = happened (+) StatusCounts
    /\ received' = received (+) Drained("status")
    /\ UNCHANGED <<rows, lost>>

DrainMoves ==
    \E x, y : /\ SplitInto(interval, x, y)
              /\ interval' = y /\ rows' = x /\ DOMAIN rows = {}
              /\ UNCHANGED <<received, lost, happened>>

SendMoves ==
    \E x, y : /\ SplitInto(rows, x, y)
              /\ rows' = y
              /\ \/ received' = received (+) x /\ lost' = lost
                 \/ lost' = lost (+) x /\ received' = received
              /\ UNCHANGED <<interval, happened>>

LEMMA ReportMoves ==
    ASSUME Typed, ReportStep
    PROVE  /\ UNCHANGED <<blocks, link, poll, falls, raced>>
           /\ \/ UNCHANGED <<interval, rows, received, lost, happened>>
              \/ StatusMoves
              \/ DrainMoves
              \/ SendMoves
<1>1. ASSUME NEW c \in Callers, Status(c)
      PROVE  /\ UNCHANGED <<blocks, link, poll, falls, raced>>
             /\ StatusMoves
  <2>1. SplitInto(interval, Drained("status"), Remaining("status"))
    BY DrainSplits
  <2>2. Plain(StatusCounts)
    BY EndCounts DEF StatusCounts, Results, Typed, MetricsTypeOK
  <2> QED
    BY <1>1, <2>1, <2>2 DEF Status, StatusMoves, StatusCounts, Happens
<1>2. CASE Start
  BY <1>2 DEF Start, report
<1>3. CASE Tick
  BY <1>3 DEF Tick
<1>4. CASE Drain
  <2>1. SplitInto(interval, Drained(Head(stage)), Remaining(Head(stage)))
    BY DrainSplits
  <2>2. DOMAIN rows = {}
    BY <1>4, NoBag DEF Drain
  <2>3. /\ rows' = Drained(Head(stage)) /\ interval' = Remaining(Head(stage))
        /\ UNCHANGED <<received, lost, happened>>
    BY <1>4 DEF Drain
  <2>4. DrainMoves
    BY <2>1, <2>2, <2>3 DEF DrainMoves
  <2> QED
    BY <1>4, <2>4 DEF Drain
<1>5. CASE Send
  <2>1. PICK c \in DOMAIN rows :
          /\ rows' = Stays(Row(c))
          /\ received' = received (+) Leaves(Row(c))
          /\ UNCHANGED <<interval, lost, happened>>
    BY <1>5 DEF Send
  <2>2. SendMoves
    BY <2>1, SendSplits DEF SendMoves
  <2> QED
    BY <1>5, <2>2 DEF Send
<1>6. CASE SendFails
  <2>1. PICK c \in DOMAIN rows :
          /\ rows' = Stays(Row(c))
          /\ lost' = lost (+) Leaves(Row(c))
          /\ UNCHANGED <<interval, received, happened>>
    BY <1>6 DEF SendFails
  <2>2. SendMoves
    BY <2>1, SendSplits DEF SendMoves
  <2> QED
    BY <1>6, <2>2 DEF SendFails
<1> QED
  BY <1>1, <1>2, <1>3, <1>4, <1>5, <1>6 DEF ReportStep

LEMMA ReportStepTypes ==
    ASSUME Typed, ReportStep
    PROVE  Typed'
<1>1. /\ UNCHANGED <<blocks, link, poll, falls, raced>>
      /\ \/ UNCHANGED <<interval, rows, received, lost, happened>>
         \/ StatusMoves
         \/ DrainMoves
         \/ SendMoves
  BY ReportMoves
<1>2. /\ phase' \in {"connecting", "connected", "running"} /\ believed' = believed
      /\ requests' \in Nat /\ events' \in Nat /\ ticks' \in Nat
  BY DEF ReportStep, Status, Start, Tick, Drain, Send, SendFails, Typed, MetricsTypeOK, report,
         metricsBounds
<1>3. seen' \in BOOLEAN
  BY DEF ReportStep, Status, Start, Tick, Drain, Send, SendFails, Typed, MetricsTypeOK, report
<1>4. /\ BagOf(interval, Cells) /\ BagOf(rows, Cells) /\ BagOf(received, Cells) /\ BagOf(lost, Cells)
      /\ BagOf(happened, Facts)
  BY DEF Typed, MetricsTypeOK, Facts
<1>5. /\ BagOf(interval', Cells) /\ BagOf(rows', Cells) /\ BagOf(received', Cells)
      /\ BagOf(lost', Cells) /\ BagOf(happened', Facts)
  <2>1. CASE UNCHANGED <<interval, rows, received, lost, happened>>
    BY <1>4, <2>1
  <2>2. CASE StatusMoves
    <3>1. BagOf(StatusCounts, Cells) /\ BagOf(StatusCounts, Facts)
      BY <2>2, OtherIsCell, Widened DEF StatusMoves, Plain
    <3>2. BagOf(interval', Cells)
      BY <2>2, <3>1, BagSum DEF StatusMoves, SplitInto
    <3>3. BagOf(received', Cells)
      BY <1>4, <2>2, BagSum DEF StatusMoves, SplitInto
    <3>4. BagOf(happened', Facts)
      BY <1>4, <2>2, <3>1, BagSum DEF StatusMoves
    <3> QED
      BY <1>4, <2>2, <3>2, <3>3, <3>4 DEF StatusMoves
  <2>3. CASE DrainMoves
    BY <1>4, <2>3 DEF DrainMoves, SplitInto
  <2>4. CASE SendMoves
    <3>1. PICK x, y : /\ SplitInto(rows, x, y)
                      /\ rows' = y
                      /\ \/ received' = received (+) x /\ lost' = lost
                         \/ lost' = lost (+) x /\ received' = received
                      /\ UNCHANGED <<interval, happened>>
      BY <2>4 DEF SendMoves
    <3>2. BagOf(x, Cells) /\ BagOf(y, Cells)
      BY <3>1 DEF SplitInto
    <3>3. BagOf(received (+) x, Cells) /\ BagOf(lost (+) x, Cells)
      BY <1>4, <3>2, BagSum
    <3> QED
      BY <1>4, <3>1, <3>2, <3>3
  <2> QED
    BY <1>1, <2>1, <2>2, <2>3, <2>4
<1> QED
  BY <1>1, <1>2, <1>3, <1>5, ReportTypes

-----------------------------------------------------------------------------

(* Every step is one of these.                                             *)
PollStep ==
    \/ \E t \in Threads :
        \/ BeginPoll(t)
        \/ Request(t)
        \/ Answer(t)
        \/ \E table \in Tables : RecordPoll(t, table)
    \/ InTime
    \/ \E table \in Tables : RecordOverrun(table)

LEMMA StepIs == MetricsNext => PollStep \/ OtherStep \/ ReportStep
BY DEF MetricsNext, PollStep, OtherStep, ReportStep

LEMMA TypesStep == Typed /\ [MetricsNext]_metricsVars => Typed'
<1> SUFFICES ASSUME Typed, [MetricsNext]_metricsVars
             PROVE  Typed'
  OBVIOUS
<1>1. CASE PollStep
  BY <1>1, BeginTypes, RequestTypes, AnswerTypes, RecordPollTypes, InTimeTypes, OverrunTypes
     DEF PollStep
<1>2. CASE OtherStep
  BY <1>2, OtherTypes
<1>3. CASE ReportStep
  BY <1>3, ReportStepTypes
<1>4. CASE UNCHANGED metricsVars
  BY <1>4 DEF Typed, MetricsTypeOK, AtBlock, metricsVars, poll, report, metricsBounds
<1> QED
  BY <1>1, <1>2, <1>3, <1>4, StepIs

LEMMA AlwaysTyped == MetricsSpec => []Typed
BY TypesInit, TypesStep, PTL DEF MetricsSpec

(* The types of the counters, for any number of threads and any plans: each *)
(* record_* and each drain of metrics.py leaves bags of the cells for which *)
(* a metric is defined.                                                    *)
THEOREM MetricsTyping == MetricsSpec => []MetricsTypeOK
<1>1. Typed => MetricsTypeOK
  BY DEF Typed
<1> QED
  BY <1>1, AlwaysTyped, PTL

-----------------------------------------------------------------------------
(***************************************************************************)
(* Where the counts are.  Held is the count of a cell in what is reported, *)
(* Unended that of a fact in what polls have counted.                      *)
(***************************************************************************)
Held(c) == Count(c, interval) + Count(c, rows) + Count(c, received) + Count(c, lost)

LEMMA FourBags ==
    ASSUME NEW a, NEW b, NEW x, NEW y,
           BagOf(a, Cells), BagOf(b, Cells), BagOf(x, Cells), BagOf(y, Cells)
    PROVE  /\ BagOf(a (+) b (+) x (+) y, Cells)
           /\ \A c : Count(c, a (+) b (+) x (+) y) =
                        Count(c, a) + Count(c, b) + Count(c, x) + Count(c, y)
<1>1. BagOf(a (+) b, Cells)
  BY BagSum
<1>2. BagOf((a (+) b) (+) x, Cells)
  BY <1>1, BagSum
<1>3. BagOf(((a (+) b) (+) x) (+) y, Cells)
  BY <1>2, BagSum
<1>4. \A c : Count(c, a (+) b) = Count(c, a) + Count(c, b)
  BY CountSum
<1>5. \A c : Count(c, (a (+) b) (+) x) = Count(c, a (+) b) + Count(c, x)
  BY <1>1, CountSum
<1>6. \A c : Count(c, ((a (+) b) (+) x) (+) y) = Count(c, (a (+) b) (+) x) + Count(c, y)
  BY <1>2, CountSum
<1> QED
  BY <1>3, <1>4, <1>5, <1>6

LEMMA HeldIs ==
    ASSUME MetricsTypeOK
    PROVE  /\ BagOf(Reported, Cells)
           /\ \A c : Count(c, Reported) = Held(c)
<1>1. BagOf(interval, Cells) /\ BagOf(rows, Cells) /\ BagOf(received, Cells) /\ BagOf(lost, Cells)
  BY DEF MetricsTypeOK
<1> QED
  BY <1>1, FourBags DEF Reported, Held

LEMMA CountsAre ==
    ASSUME MetricsTypeOK
    PROVE  \A c : /\ Count(c, interval) \in Nat /\ Count(c, rows) \in Nat
                  /\ Count(c, received) \in Nat /\ Count(c, lost) \in Nat
                  /\ Count(c, happened) \in Nat /\ Held(c) \in Nat
<1>1. /\ BagOf(interval, Cells) /\ BagOf(rows, Cells) /\ BagOf(received, Cells) /\ BagOf(lost, Cells)
      /\ BagOf(happened, {Fact(c) : c \in Cells})
  BY DEF MetricsTypeOK
<1>2. \A c : /\ Count(c, interval) \in Nat /\ Count(c, rows) \in Nat
             /\ Count(c, received) \in Nat /\ Count(c, lost) \in Nat
             /\ Count(c, happened) \in Nat
  BY <1>1, CountIs
<1> QED
  BY <1>2 DEF Held

LEMMA StatsAre ==
    ASSUME MetricsTypeOK
    PROVE  \A t \in Threads : \A c : Count(c, stats[t]) \in Nat
<1>1. \A t \in Threads : BagOf(stats[t], {"poll"} \X Tables \X BlockMeasures)
  BY DEF MetricsTypeOK
<1> QED
  BY <1>1, CountIs

LEMMA ThreadsFinite == IsFiniteSet(Threads)
BY CallersAssumption, FS_AddElement DEF Threads

LEMMA UnendedChanges ==
    ASSUME MetricsTypeOK, MetricsTypeOK', NEW t \in Threads,
           \A u \in Threads \ {t} : stats'[u] = stats[u], NEW fact
    PROVE  /\ Unended(fact) \in Int
           /\ Unended(fact)' = Unended(fact) + Count(fact, stats'[t]) - Count(fact, stats[t])
<1> DEFINE g == [u \in Threads |-> Count(fact, stats[u])]
           h == [u \in Threads |-> Count(fact, stats'[u])]
<1>1. g \in [Threads -> Int] /\ h \in [Threads -> Int]
  <2>1. \A u \in Threads : Count(fact, stats[u]) \in Nat
    BY StatsAre
  <2>2. \A u \in Threads : Count(fact, stats'[u]) \in Nat
    <3>1. \A u \in Threads : BagOf(stats'[u], {"poll"} \X Tables \X BlockMeasures)
      BY DEF MetricsTypeOK
    <3> QED
      BY <3>1, CountIs
  <2> QED
    BY <2>1, <2>2
<1>2. \A u \in Threads \ {t} : h[u] = g[u]
  OBVIOUS
<1>3. Unended(fact) = SumFunction(g) /\ Unended(fact)' = SumFunction(h)
  BY DEF Unended
<1>4. h[t] = Count(fact, stats'[t]) /\ g[t] = Count(fact, stats[t])
  OBVIOUS
<1> HIDE DEF g, h
<1>5. SumFunction(g) \in Int /\ SumFunction(h) = SumFunction(g) + h[t] - g[t]
  BY <1>1, <1>2, ThreadsFinite, SumChanges
<1> QED
  BY <1>3, <1>4, <1>5

LEMMA UnendedInt ==
    ASSUME MetricsTypeOK, NEW fact
    PROVE  Unended(fact) \in Int
<1> DEFINE g == [u \in Threads |-> Count(fact, stats[u])]
<1>1. g \in [Threads -> Int]
  BY StatsAre
<1>2. Unended(fact) = SumFunctionOnSet(g, Threads)
  BY DEF Unended, SumFunction
<1> HIDE DEF g
<1> QED
  BY <1>1, <1>2, ThreadsFinite, SumAdds

LEMMA UnendedZero ==
    ASSUME MetricsTypeOK, NEW fact, \A t \in Threads : Count(fact, stats[t]) = 0
    PROVE  Unended(fact) = 0
<1> DEFINE g == [u \in Threads |-> Count(fact, stats[u])]
<1>1. g \in [Threads -> Int] /\ \A u \in Threads : g[u] = 0
  OBVIOUS
<1>2. Unended(fact) = SumFunction(g)
  BY DEF Unended
<1> HIDE DEF g
<1> QED
  BY <1>1, <1>2, ThreadsFinite, SumOfZeros

-----------------------------------------------------------------------------
(***************************************************************************)
(* The counts add up, cell by cell and fact by fact.                       *)
(***************************************************************************)
OtherBalances == \A c \in OtherCells \ {Drops} : Count(c, happened) = Held(c)

PollBalances ==
    \A table \in Tables, m \in PollMeasures :
        Count(<<"poll", table, m>>, happened)
            = Unended(<<"poll", table, m>>)
              + Held(<<"poll", table, "success", m>>) + Held(<<"poll", table, "error", m>>)

Balance == Count(Drops, happened) = 0 /\ OtherBalances /\ PollBalances

(* Nothing moves between the facts: what happens, and what is held, changes *)
(* by the same counts of cells that are of no poll.                        *)
LEMMA BalanceKept ==
    ASSUME Typed, Balance, UNCHANGED stats, NEW counts, BagOf(counts, OtherCells),
           Count(Drops, counts) = 0,
           \A c : Count(c, happened') = Count(c, happened) + Count(c, counts),
           \A c \in Cells \ {Drops} : Held(c)' = Held(c) + Count(c, counts)
    PROVE  Balance'
<1>1. \A c : c[1] = "poll" => Count(c, counts) = 0
  BY DEF BagOf, OtherCells, Count
<1>2. \A fact : Unended(fact)' = Unended(fact)
  BY DEF Unended
<1>3. OtherBalances'
  BY OtherIsCell DEF Balance, OtherBalances
<1>4. PollBalances'
  <2> SUFFICES ASSUME NEW table \in Tables, NEW m \in PollMeasures
               PROVE  Count(<<"poll", table, m>>, happened')
                        = Unended(<<"poll", table, m>>)'
                          + Held(<<"poll", table, "success", m>>)' + Held(<<"poll", table, "error", m>>)'
    BY DEF PollBalances
  <2> DEFINE f == <<"poll", table, m>>
             s == <<"poll", table, "success", m>>
             e == <<"poll", table, "error", m>>
  <2>1. s \in Cells \ {Drops} /\ e \in Cells \ {Drops}
    BY PollCellIs DEF Results, Drops
  <2>2. Count(f, counts) = 0 /\ Count(s, counts) = 0 /\ Count(e, counts) = 0
    BY <1>1
  <2>3. Count(f, happened) = Unended(f) + Held(s) + Held(e)
    BY DEF Balance, PollBalances
  <2>4. Count(f, happened) \in Nat /\ Held(s) \in Nat /\ Held(e) \in Nat
    BY CountsAre DEF Typed
  <2> HIDE DEF f, s, e
  <2>5. Count(f, happened') = Count(f, happened) + 0 /\ Held(s)' = Held(s) + 0 /\ Held(e)' = Held(e) + 0
    BY <2>1, <2>2
  <2> QED
    BY <1>2, <2>3, <2>4, <2>5 DEF f, s, e
<1>5. Count(Drops, happened') = 0
  BY DEF Balance
<1> QED
  BY <1>3, <1>4, <1>5 DEF Balance

LEMMA BalanceInit == MetricsInit => Balance
<1> SUFFICES ASSUME MetricsInit
             PROVE  Balance
  OBVIOUS
<1>1. MetricsTypeOK
  BY TypesInit DEF Typed
<1>2. \A c : Held(c) = 0 /\ Count(c, happened) = 0
  BY NoBag DEF Held, MetricsInit
<1>3. \A fact : Unended(fact) = 0
  <2>1. \A fact : \A t \in Threads : Count(fact, stats[t]) = 0
    BY NoBag DEF MetricsInit
  <2> QED
    BY <1>1, <2>1, UnendedZero
<1> QED
  BY <1>2, <1>3 DEF Balance, OtherBalances, PollBalances

(* What others record.                                                     *)
LEMMA RecordHolds ==
    ASSUME Typed, NEW counts, BagOf(counts, OtherCells), Record(counts),
           UNCHANGED <<rows, received, lost>>
    PROVE  /\ \A c : Count(c, happened') = Count(c, happened) + Count(c, counts)
           /\ \A c : Held(c)' = Held(c) + Count(c, counts)
<1>1. BagOf(counts, Cells) /\ BagOf(counts, Facts)
  BY OtherIsCell, Widened
<1>2. BagOf(interval, Cells) /\ BagOf(happened, Facts)
  BY DEF Typed, MetricsTypeOK, Facts
<1>3. \A c : Count(c, happened') = Count(c, happened) + Count(c, counts)
  BY <1>1, <1>2, CountSum DEF Record, Happens
<1>4. \A c : Count(c, interval') = Count(c, interval) + Count(c, counts)
  BY <1>1, <1>2, CountSum DEF Record
<1>5. \A c : /\ Count(c, interval) \in Nat /\ Count(c, rows) \in Nat
             /\ Count(c, received) \in Nat /\ Count(c, lost) \in Nat
  BY CountsAre DEF Typed
<1>6. \A c : Count(c, counts) \in Nat
  BY CountIs
<1>7. \A c : Held(c)' = Held(c) + Count(c, counts)
  BY <1>4, <1>5, <1>6 DEF Held
<1> QED
  BY <1>3, <1>7

LEMMA OtherKeeps ==
    ASSUME Typed, Balance, OtherStep
    PROVE  /\ Balance'
           /\ Held(Drops)' = Held(Drops)
<1>1. Recorded /\ OtherFrame
  BY OtherRecords, OtherLeaves DEF Typed, MetricsTypeOK
<1>2. PICK counts : Plain(counts) /\ Record(counts)
  BY <1>1 DEF Recorded
<1>3. /\ \A c : Count(c, happened') = Count(c, happened) + Count(c, counts)
      /\ \A c : Held(c)' = Held(c) + Count(c, counts)
  BY <1>1, <1>2, RecordHolds DEF Plain, OtherFrame
<1>4. Held(Drops) \in Nat
  BY CountsAre DEF Typed
<1> QED
  BY <1>1, <1>2, <1>3, <1>4, BalanceKept DEF Plain, OtherFrame

(* What is drained and sent.                                               *)
LEMMA SplitHolds ==
    ASSUME NEW b, NEW x, NEW y, SplitInto(b, x, y), BagOf(b, Cells)
    PROVE  \A c : /\ Count(c, b) = Count(c, x) + Count(c, y)
                  /\ Count(c, x) \in Nat /\ Count(c, y) \in Nat
<1>1. \A c : Count(c, x) \in Nat /\ Count(c, y) \in Nat
  BY CountIs DEF SplitInto
<1> QED
  BY <1>1 DEF SplitInto

LEMMA MovesHold ==
    ASSUME Typed, DrainMoves \/ SendMoves
    PROVE  \A c : Held(c)' = Held(c)
<1>1. \A c : /\ Count(c, interval) \in Nat /\ Count(c, rows) \in Nat
             /\ Count(c, received) \in Nat /\ Count(c, lost) \in Nat
  BY CountsAre DEF Typed
<1>2. BagOf(interval, Cells) /\ BagOf(rows, Cells) /\ BagOf(received, Cells) /\ BagOf(lost, Cells)
  BY DEF Typed, MetricsTypeOK
<1>3. CASE DrainMoves
  <2>1. PICK x, y : /\ SplitInto(interval, x, y)
                    /\ interval' = y /\ rows' = x /\ DOMAIN rows = {}
                    /\ UNCHANGED <<received, lost, happened>>
    BY <1>3 DEF DrainMoves
  <2>2. \A c : /\ Count(c, interval) = Count(c, x) + Count(c, y)
               /\ Count(c, x) \in Nat /\ Count(c, y) \in Nat
    BY <1>2, <2>1, SplitHolds
  <2>3. \A c : Count(c, rows) = 0
    BY <2>1 DEF Count
  <2>4. \A c : /\ Count(c, interval') = Count(c, y) /\ Count(c, rows') = Count(c, x)
               /\ Count(c, received') = Count(c, received) /\ Count(c, lost') = Count(c, lost)
    BY <2>1
  <2> QED
    BY <1>1, <2>2, <2>3, <2>4 DEF Held
<1>4. CASE SendMoves
  <2>1. PICK x, y : /\ SplitInto(rows, x, y)
                    /\ rows' = y
                    /\ \/ received' = received (+) x /\ lost' = lost
                       \/ lost' = lost (+) x /\ received' = received
                    /\ UNCHANGED <<interval, happened>>
    BY <1>4 DEF SendMoves
  <2>2. \A c : /\ Count(c, rows) = Count(c, x) + Count(c, y)
               /\ Count(c, x) \in Nat /\ Count(c, y) \in Nat
    BY <1>2, <2>1, SplitHolds
  <2>3. BagOf(x, Cells)
    BY <2>1 DEF SplitInto
  <2>4. \A c : Count(c, received (+) x) = Count(c, received) + Count(c, x)
    BY <1>2, <2>3, CountSum
  <2>5. \A c : Count(c, lost (+) x) = Count(c, lost) + Count(c, x)
    BY <1>2, <2>3, CountSum
  <2>6. \A c : /\ Count(c, interval') = Count(c, interval) /\ Count(c, rows') = Count(c, y)
               /\ \/ /\ Count(c, received') = Count(c, received) + Count(c, x)
                     /\ Count(c, lost') = Count(c, lost)
                  \/ /\ Count(c, received') = Count(c, received)
                     /\ Count(c, lost') = Count(c, lost) + Count(c, x)
    BY <2>1, <2>4, <2>5
  <2> QED
    BY <1>1, <2>2, <2>6 DEF Held
<1> QED
  BY <1>3, <1>4

LEMMA StatusHolds ==
    ASSUME Typed, StatusMoves
    PROVE  /\ \A c : Count(c, happened') = Count(c, happened) + Count(c, StatusCounts)
           /\ \A c : Held(c)' = Held(c) + Count(c, StatusCounts)
<1> DEFINE x == Drained("status")
           y == Remaining("status")
           counts == StatusCounts
<1>1. /\ SplitInto(interval, x, y) /\ Plain(counts)
      /\ interval' = y (+) counts /\ happened' = happened (+) counts
      /\ received' = received (+) x /\ UNCHANGED <<rows, lost>>
  BY DEF StatusMoves
<1> HIDE DEF x, y, counts
<1>2. /\ BagOf(interval, Cells) /\ BagOf(received, Cells) /\ BagOf(happened, Facts)
      /\ BagOf(counts, Cells) /\ BagOf(counts, Facts) /\ BagOf(x, Cells) /\ BagOf(y, Cells)
  BY <1>1, OtherIsCell, Widened DEF Typed, MetricsTypeOK, Facts, Plain, SplitInto
<1>3. \A c : Count(c, happened') = Count(c, happened) + Count(c, counts)
  BY <1>1, <1>2, CountSum
<1>4. \A c : Count(c, interval') = Count(c, y) + Count(c, counts)
  BY <1>1, <1>2, CountSum
<1>5. \A c : Count(c, received') = Count(c, received) + Count(c, x)
  BY <1>1, <1>2, CountSum
<1>6. \A c : Count(c, interval) = Count(c, x) + Count(c, y) /\ Count(c, x) \in Nat /\ Count(c, y) \in Nat
  BY <1>1, <1>2, SplitHolds
<1>7. \A c : Count(c, rows) \in Nat /\ Count(c, received) \in Nat /\ Count(c, lost) \in Nat
  BY CountsAre DEF Typed
<1>8. \A c : Count(c, counts) \in Nat
  BY <1>2, CountIs
<1>9. \A c : Held(c)' = Held(c) + Count(c, counts)
  BY <1>1, <1>4, <1>5, <1>6, <1>7, <1>8 DEF Held
<1> QED
  BY <1>3, <1>9 DEF counts

LEMMA ReportKeeps ==
    ASSUME Typed, Balance, ReportStep
    PROVE  /\ Balance'
           /\ Held(Drops)' = Held(Drops)
<1>1. /\ UNCHANGED stats
      /\ \/ UNCHANGED <<interval, rows, received, lost, happened>>
         \/ StatusMoves
         \/ DrainMoves
         \/ SendMoves
  BY ReportMoves DEF poll
<1>2. \A c : Held(c) \in Nat /\ Count(c, happened) \in Nat
  BY CountsAre DEF Typed
<1>3. CASE StatusMoves
  <2>1. /\ \A c : Count(c, happened') = Count(c, happened) + Count(c, StatusCounts)
        /\ \A c : Held(c)' = Held(c) + Count(c, StatusCounts)
    BY <1>3, StatusHolds
  <2>2. BagOf(StatusCounts, OtherCells) /\ Count(Drops, StatusCounts) = 0
    BY <1>3 DEF StatusMoves, Plain
  <2>3. Held(Drops)' = Held(Drops)
    BY <1>2, <2>1, <2>2
  <2> QED
    BY <1>1, <2>1, <2>2, <2>3, BalanceKept
<1>4. CASE \/ UNCHANGED <<interval, rows, received, lost, happened>>
           \/ DrainMoves
           \/ SendMoves
  <2>1. UNCHANGED happened
    BY <1>4 DEF DrainMoves, SendMoves
  <2>2. \A c : Held(c)' = Held(c)
    BY <1>4, MovesHold DEF Held
  <2>3. BagOf(EmptyBag, OtherCells) /\ \A c : Count(c, EmptyBag) = 0
    BY NoBag
  <2>4. \A c : Count(c, happened') = Count(c, happened) + Count(c, EmptyBag)
    BY <1>2, <2>1, <2>3
  <2>5. \A c \in Cells \ {Drops} : Held(c)' = Held(c) + Count(c, EmptyBag)
    BY <1>2, <2>2, <2>3
  <2>6. Balance'
    BY <1>1, <2>3, <2>4, <2>5, BalanceKept
  <2> QED
    BY <2>2, <2>6
<1> QED
  BY <1>1, <1>3, <1>4

(* A block has its answer: its counts go to the poll's own.                *)
LEMMA AnswerKeeps ==
    ASSUME Typed, Typed', Balance, NEW t \in Threads, Answer(t)
    PROVE  /\ Balance'
           /\ Held(Drops)' = Held(Drops)
<1> DEFINE table == blocks[block[t]].table
<1>1. PICK n : AnswerCounts(t, n)
  BY AnswerCount
<1>2. table \in Tables
  BY AnswerCount
<1> DEFINE client == Client(n)
           counts == PollCounts(table, n)
<1>3. Plain(client)
  BY <1>1, ClientPlain DEF AnswerCounts, Typed, MetricsTypeOK
<1>4. BagOf(counts, PollCells)
  BY <1>1, <1>2, PollCountsBag DEF AnswerCounts, BlockCounts
<1>5. /\ stats' = [stats EXCEPT ![t] = stats[t] (+) counts]
      /\ interval' = interval (+) client
      /\ happened' = happened (+) (client (+) counts)
  BY <1>1 DEF AnswerCounts
<1>6. UNCHANGED <<rows, received, lost>>
  BY DEF Answer, report
<1> HIDE DEF table, client, counts
<1>7. /\ BagOf(interval, Cells) /\ BagOf(happened, Facts) /\ BagOf(stats[t], PollCells)
      /\ BagOf(client, OtherCells) /\ BagOf(client, Cells) /\ BagOf(client, Facts)
      /\ BagOf(counts, Facts)
  BY <1>3, <1>4, OtherIsCell, PollCellFacts, Widened
     DEF Typed, MetricsTypeOK, Facts, PollCells, Plain
<1>8. BagOf(client (+) counts, Facts)
  BY <1>7, BagSum
<1>9. \A c : Count(c, client (+) counts) = Count(c, client) + Count(c, counts)
  BY <1>7, CountSum
<1>10. \A c : Count(c, happened') = Count(c, happened) + Count(c, client (+) counts)
  BY <1>5, <1>7, <1>8, CountSum
<1>11. \A c : Count(c, interval') = Count(c, interval) + Count(c, client)
  BY <1>5, <1>7, CountSum
<1>12. \A c : Count(c, stats[t] (+) counts) = Count(c, stats[t]) + Count(c, counts)
  BY <1>4, <1>7, CountSum
<1>13. \A c : Count(c, client) \in Nat /\ Count(c, counts) \in Nat
  BY <1>4, <1>7, CountIs
<1>14. \A c : /\ Count(c, interval) \in Nat /\ Count(c, rows) \in Nat
              /\ Count(c, received) \in Nat /\ Count(c, lost) \in Nat
              /\ Count(c, happened) \in Nat
  BY CountsAre DEF Typed
<1>15. \A c : Count(c, stats[t]) \in Nat
  BY StatsAre DEF Typed
<1>16. \A c : Held(c)' = Held(c) + Count(c, client)
  BY <1>6, <1>11, <1>13, <1>14 DEF Held
<1>17. \A c : Unended(c) \in Int /\ Unended(c)' = Unended(c) + Count(c, counts)
  <2> SUFFICES ASSUME NEW c
               PROVE  Unended(c) \in Int /\ Unended(c)' = Unended(c) + Count(c, counts)
    OBVIOUS
  <2>1. DOMAIN stats = Threads
    BY DEF Typed, MetricsTypeOK
  <2>2. stats'[t] = stats[t] (+) counts /\ \A u \in Threads \ {t} : stats'[u] = stats[u]
    BY <1>5, <2>1
  <2>3. Unended(c) \in Int /\ Unended(c)' = Unended(c) + Count(c, stats'[t]) - Count(c, stats[t])
    BY <2>2, UnendedChanges DEF Typed
  <2>4. Count(c, stats'[t]) = Count(c, stats[t]) + Count(c, counts)
    BY <1>12, <2>2
  <2> QED
    BY <1>13, <1>15, <2>3, <2>4
<1>18. \A c : c[1] # "poll" => Count(c, counts) = 0
  BY <1>4 DEF BagOf, PollCells, Count
<1>19. \A c : c[1] = "poll" => Count(c, client) = 0
  BY <1>7 DEF BagOf, OtherCells, Count
<1>20. OtherBalances'
  <2> SUFFICES ASSUME NEW c \in OtherCells \ {Drops}
               PROVE  Count(c, happened') = Held(c)'
    BY DEF OtherBalances
  <2>1. Count(c, counts) = 0 /\ Count(c, happened) = Held(c)
    BY <1>18 DEF OtherCells, Balance, OtherBalances
  <2>2. Count(c, happened') = Count(c, happened) + (Count(c, client) + Count(c, counts))
    BY <1>9, <1>10
  <2> QED
    BY <1>13, <1>14, <1>16, <2>1, <2>2
<1>21. PollBalances'
  <2> SUFFICES ASSUME NEW tb \in Tables, NEW m \in PollMeasures
               PROVE  Count(<<"poll", tb, m>>, happened')
                        = Unended(<<"poll", tb, m>>)'
                          + Held(<<"poll", tb, "success", m>>)' + Held(<<"poll", tb, "error", m>>)'
    BY DEF PollBalances
  <2> DEFINE f == <<"poll", tb, m>>
             s == <<"poll", tb, "success", m>>
             e == <<"poll", tb, "error", m>>
  <2>1. Count(f, client) = 0 /\ Count(s, client) = 0 /\ Count(e, client) = 0
    BY <1>19
  <2>2. Count(f, happened) = Unended(f) + Held(s) + Held(e)
    BY DEF Balance, PollBalances
  <2>3. Count(f, happened) \in Nat /\ Held(s) \in Nat /\ Held(e) \in Nat
    BY CountsAre DEF Typed
  <2> HIDE DEF f, s, e
  <2>4. /\ Count(f, happened') = Count(f, happened) + (Count(f, client) + Count(f, counts))
        /\ Held(s)' = Held(s) + Count(s, client) /\ Held(e)' = Held(e) + Count(e, client)
        /\ Unended(f) \in Int /\ Unended(f)' = Unended(f) + Count(f, counts)
    BY <1>9, <1>10, <1>16, <1>17
  <2>5. Count(f, counts) \in Nat
    BY <1>13
  <2>6. Count(f, happened') = Unended(f)' + Held(s)' + Held(e)'
    BY <2>1, <2>2, <2>3, <2>4, <2>5
  <2> QED
    BY <2>6 DEF f, s, e
<1>22. Count(Drops, client) = 0 /\ Count(Drops, counts) = 0
  BY <1>3, <1>18 DEF Plain, Drops
<1>23. Count(Drops, happened') = 0 /\ Held(Drops)' = Held(Drops)
  <2>1. Count(Drops, happened') = Count(Drops, happened) + (Count(Drops, client) + Count(Drops, counts))
    BY <1>9, <1>10
  <2>2. Held(Drops)' = Held(Drops) + Count(Drops, client) /\ Held(Drops) \in Nat
    BY <1>16, CountsAre DEF Typed
  <2> QED
    BY <1>22, <2>1, <2>2 DEF Balance
<1> QED
  BY <1>20, <1>21, <1>23 DEF Balance

(* The counts of one cell of a poll, and of its fact.                      *)
LEMMA OneHolds ==
    ASSUME Typed, NEW table \in Tables, NEW result \in Results, NEW measure \in PollMeasures, NEW b,
           BagOf(b, Cells), interval' = b (+) SetToBag({<<"poll", table, result, measure>>}),
           happened' = happened (+) SetToBag({<<"poll", table, measure>>}),
           UNCHANGED <<rows, received, lost>>
    PROVE  /\ \A c : Held(c)' = Held(c) + Count(c, b) - Count(c, interval)
                                + (IF c = <<"poll", table, result, measure>> THEN 1 ELSE 0)
           /\ \A c : Count(c, happened') =
                        Count(c, happened) + (IF c = <<"poll", table, measure>> THEN 1 ELSE 0)
<1> DEFINE x == SetToBag({<<"poll", table, result, measure>>})
           y == SetToBag({<<"poll", table, measure>>})
<1>1. /\ BagOf(x, Cells) /\ \A c : Count(c, x) = IF c = <<"poll", table, result, measure>> THEN 1 ELSE 0
      /\ BagOf(y, Facts) /\ \A c : Count(c, y) = IF c = <<"poll", table, measure>> THEN 1 ELSE 0
  BY PollCell
<1>2. interval' = b (+) x /\ happened' = happened (+) y
  OBVIOUS
<1> HIDE DEF x, y
<1>3. \A c : Count(c, interval') = Count(c, b) + Count(c, x)
  BY <1>1, <1>2, CountSum
<1>4. \A c : Count(c, happened') = Count(c, happened) + Count(c, y)
  BY <1>1, <1>2, CountSum DEF Typed, MetricsTypeOK, Facts
<1>5. \A c : /\ Count(c, interval) \in Nat /\ Count(c, rows) \in Nat
             /\ Count(c, received) \in Nat /\ Count(c, lost) \in Nat
  BY CountsAre DEF Typed
<1>6. \A c : Count(c, b) \in Nat
  BY CountIs
<1>7. \A c : Count(c, x) \in Nat /\ Count(c, rows') = Count(c, rows)
             /\ Count(c, received') = Count(c, received) /\ Count(c, lost') = Count(c, lost)
  BY <1>1
<1>8. \A c : Held(c)' = Held(c) + Count(c, b) - Count(c, interval) + Count(c, x)
  <2> SUFFICES ASSUME NEW c
               PROVE  Held(c)' = Held(c) + Count(c, b) - Count(c, interval) + Count(c, x)
    OBVIOUS
  <2>1. Held(c)' = Count(c, b) + Count(c, x) + Count(c, rows) + Count(c, received) + Count(c, lost)
    BY <1>3, <1>7 DEF Held
  <2>2. Held(c) = Count(c, interval) + Count(c, rows) + Count(c, received) + Count(c, lost)
    BY DEF Held
  <2> QED
    BY <1>5, <1>6, <1>7, <2>1, <2>2
<1> QED
  BY <1>1, <1>4, <1>8

(* A table is recorded: the poll's counts of it go to the interval, under   *)
(* the result of the poll.                                                 *)
LEMMA RecordPollKeeps ==
    ASSUME Typed, Typed', Balance, NEW t \in Threads, NEW table \in Tables, RecordPoll(t, table)
    PROVE  /\ Balance'
           /\ Held(Drops)' = Held(Drops)
<1> DEFINE R == Result(t, table)
           b == interval (+) Moved(t, table)
           left == Restrict(stats[t], DOMAIN stats[t] \ Own(t, table))
<1>1. /\ stats' = [stats EXCEPT ![t] = left]
      /\ interval' = b (+) SetToBag({<<"poll", table, R, "pollCycles">>})
      /\ happened' = happened (+) SetToBag({<<"poll", table, "pollCycles">>})
      /\ UNCHANGED <<rows, received, lost>>
  BY RecordPollIs DEF Cycle, RecordPoll, report
<1>2. R \in Results /\ "pollCycles" \in PollMeasures
  BY ResultIs, PollCellFacts
<1>3. BagOf(interval, Cells) /\ BagOf(stats[t], PollCells)
  BY DEF Typed, MetricsTypeOK, PollCells
<1>4. /\ BagOf(Moved(t, table), Cells)
      /\ \A c : c[1] # "poll" => Count(c, Moved(t, table)) = 0
      /\ \A tb, r, m : Count(<<"poll", tb, r, m>>, Moved(t, table)) =
                 IF tb = table /\ r = R THEN Count(<<"poll", table, m>>, stats[t])
                 ELSE 0
  BY MovedBag DEF Typed
<1>5. BagOf(b, Cells)
  BY <1>3, <1>4, BagSum
<1>6. \A c : Count(c, b) = Count(c, interval) + Count(c, Moved(t, table))
  BY <1>3, <1>4, CountSum
<1>7. \A tb, m : Count(<<"poll", tb, m>>, left) = IF tb = table THEN 0 ELSE Count(<<"poll", tb, m>>, stats[t])
  <2>1. DOMAIN stats[t] \ Own(t, table) \in SUBSET DOMAIN stats[t]
    OBVIOUS
  <2>2. \A c : Count(c, left) = IF c \in DOMAIN stats[t] \ Own(t, table) THEN Count(c, stats[t]) ELSE 0
    BY <1>3, <2>1, BagPart
  <2>3. \A c : c \notin DOMAIN stats[t] => Count(c, stats[t]) = 0
    BY DEF Count
  <2>4. \A tb, m : <<"poll", tb, m>> \in Own(t, table) <=>
                      tb = table /\ <<"poll", tb, m>> \in DOMAIN stats[t]
    BY DEF Own
  <2> HIDE DEF left
  <2> QED
    BY <2>2, <2>3, <2>4
<1> HIDE DEF R, b, left
<1>8. /\ \A c : Held(c)' = Held(c) + Count(c, b) - Count(c, interval)
                           + (IF c = <<"poll", table, R, "pollCycles">> THEN 1 ELSE 0)
      /\ \A c : Count(c, happened') =
                   Count(c, happened) + (IF c = <<"poll", table, "pollCycles">> THEN 1 ELSE 0)
  BY <1>1, <1>2, <1>5, OneHolds
<1>9. \A c : /\ Count(c, interval) \in Nat /\ Count(c, Moved(t, table)) \in Nat
             /\ Held(c) \in Nat /\ Count(c, happened) \in Nat /\ Count(c, stats[t]) \in Nat
  <2>1. \A c : Count(c, Moved(t, table)) \in Nat
    BY <1>4, CountIs
  <2>2. \A c : Count(c, stats[t]) \in Nat
    BY StatsAre DEF Typed
  <2>3. \A c : Count(c, interval) \in Nat /\ Held(c) \in Nat /\ Count(c, happened) \in Nat
    BY CountsAre DEF Typed
  <2> QED
    BY <2>1, <2>2, <2>3
<1>10. \A c : Held(c)' = Held(c) + Count(c, Moved(t, table))
                         + (IF c = <<"poll", table, R, "pollCycles">> THEN 1 ELSE 0)
  BY <1>6, <1>8, <1>9
<1>11. \A c : c[1] # "poll" => Held(c)' = Held(c) /\ Count(c, happened') = Count(c, happened)
  BY <1>4, <1>8, <1>9, <1>10
<1>12. OtherBalances'
  BY <1>11 DEF Balance, OtherBalances, OtherCells
<1>13. PollBalances'
  <2> SUFFICES ASSUME NEW tb \in Tables, NEW m \in PollMeasures
               PROVE  Count(<<"poll", tb, m>>, happened')
                        = Unended(<<"poll", tb, m>>)'
                          + Held(<<"poll", tb, "success", m>>)' + Held(<<"poll", tb, "error", m>>)'
    BY DEF PollBalances
  <2> DEFINE f == <<"poll", tb, m>>
             s == <<"poll", tb, "success", m>>
             e == <<"poll", tb, "error", m>>
             k == IF tb = table THEN Count(f, stats[t]) ELSE 0
             j == IF tb = table /\ m = "pollCycles" THEN 1 ELSE 0
  <2>1. Unended(f) \in Int /\ Unended(f)' = Unended(f) - k
    <3>1. DOMAIN stats = Threads
      BY DEF Typed, MetricsTypeOK
    <3>2. stats'[t] = left /\ \A u \in Threads \ {t} : stats'[u] = stats[u]
      BY <1>1, <3>1
    <3>3. Unended(f) \in Int /\ Unended(f)' = Unended(f) + Count(f, stats'[t]) - Count(f, stats[t])
      <4> HIDE DEF f
      <4> QED
        BY <3>2, UnendedChanges DEF Typed
    <3>4. Count(f, stats'[t]) = IF tb = table THEN 0 ELSE Count(f, stats[t])
      BY <1>7, <3>2
    <3>5. Count(f, stats[t]) \in Nat
      BY <1>9
    <3> HIDE DEF f
    <3> QED
      BY <3>3, <3>4, <3>5
  <2>2. Count(f, happened') = Count(f, happened) + j
    <3>1. f = <<"poll", table, "pollCycles">> <=> tb = table /\ m = "pollCycles"
      OBVIOUS
    <3> HIDE DEF f
    <3> QED
      BY <1>8, <3>1
  <2>3. /\ Count(s, Moved(t, table)) = IF R = "success" THEN k ELSE 0
        /\ Count(e, Moved(t, table)) = IF R = "error" THEN k ELSE 0
    BY <1>4
  <2>4. /\ Held(s)' = Held(s) + (IF R = "success" THEN k ELSE 0) + (IF R = "success" THEN j ELSE 0)
        /\ Held(e)' = Held(e) + (IF R = "error" THEN k ELSE 0) + (IF R = "error" THEN j ELSE 0)
    <3>1. /\ s = <<"poll", table, R, "pollCycles">> <=> R = "success" /\ tb = table /\ m = "pollCycles"
          /\ e = <<"poll", table, R, "pollCycles">> <=> R = "error" /\ tb = table /\ m = "pollCycles"
      OBVIOUS
    <3> HIDE DEF s, e, k
    <3> QED
      BY <1>10, <2>3, <3>1
  <2>5. Count(f, happened) = Unended(f) + Held(s) + Held(e)
    BY DEF Balance, PollBalances
  <2>6. Count(f, happened) \in Nat /\ Held(s) \in Nat /\ Held(e) \in Nat /\ k \in Nat /\ j \in Nat
    BY <1>9
  <2>7. R = "success" \/ R = "error"
    BY <1>2 DEF Results
  <2> HIDE DEF f, s, e, k, j
  <2>8. Count(f, happened') = Unended(f)' + Held(s)' + Held(e)'
    BY <2>1, <2>2, <2>4, <2>5, <2>6, <2>7
  <2> QED
    BY <2>8 DEF f, s, e
<1>14. Count(Drops, happened') = 0 /\ Held(Drops)' = Held(Drops)
  BY <1>11 DEF Drops, Balance
<1> QED
  BY <1>12, <1>13, <1>14 DEF Balance

LEMMA OverrunKeeps ==
    ASSUME Typed, Balance, NEW table \in Tables, RecordOverrun(table)
    PROVE  /\ Balance'
           /\ Held(Drops)' = Held(Drops)
<1> DEFINE R == Result(Loop, table)
<1>1. /\ interval' = interval (+) SetToBag({<<"poll", table, R, "pollOverruns">>})
      /\ happened' = happened (+) SetToBag({<<"poll", table, "pollOverruns">>})
      /\ UNCHANGED <<rows, received, lost, stats>>
  BY DEF RecordOverrun, Happens, report
<1>2. R \in Results /\ "pollOverruns" \in PollMeasures
  BY ResultIs, PollCellFacts
<1> HIDE DEF R
<1>3. /\ \A c : Held(c)' = Held(c) + Count(c, interval) - Count(c, interval)
                           + (IF c = <<"poll", table, R, "pollOverruns">> THEN 1 ELSE 0)
      /\ \A c : Count(c, happened') =
                   Count(c, happened) + (IF c = <<"poll", table, "pollOverruns">> THEN 1 ELSE 0)
  BY <1>1, <1>2, OneHolds DEF Typed, MetricsTypeOK
<1>4. \A c : Held(c) \in Nat /\ Count(c, happened) \in Nat /\ Count(c, interval) \in Nat
  BY CountsAre DEF Typed
<1>5. \A c : Held(c)' = Held(c) + (IF c = <<"poll", table, R, "pollOverruns">> THEN 1 ELSE 0)
  BY <1>3, <1>4
<1>6. \A c : c[1] # "poll" => Held(c)' = Held(c) /\ Count(c, happened') = Count(c, happened)
  BY <1>3, <1>4, <1>5
<1>7. OtherBalances'
  BY <1>6 DEF Balance, OtherBalances, OtherCells
<1>8. PollBalances'
  <2> SUFFICES ASSUME NEW tb \in Tables, NEW m \in PollMeasures
               PROVE  Count(<<"poll", tb, m>>, happened')
                        = Unended(<<"poll", tb, m>>)'
                          + Held(<<"poll", tb, "success", m>>)' + Held(<<"poll", tb, "error", m>>)'
    BY DEF PollBalances
  <2> DEFINE f == <<"poll", tb, m>>
             s == <<"poll", tb, "success", m>>
             e == <<"poll", tb, "error", m>>
             j == IF tb = table /\ m = "pollOverruns" THEN 1 ELSE 0
  <2>1. Unended(f)' = Unended(f)
    BY <1>1 DEF Unended
  <2>2. Count(f, happened') = Count(f, happened) + j
    <3>1. f = <<"poll", table, "pollOverruns">> <=> tb = table /\ m = "pollOverruns"
      OBVIOUS
    <3> HIDE DEF f
    <3> QED
      BY <1>3, <3>1
  <2>3. /\ Held(s)' = Held(s) + (IF R = "success" THEN j ELSE 0)
        /\ Held(e)' = Held(e) + (IF R = "error" THEN j ELSE 0)
    <3>1. /\ s = <<"poll", table, R, "pollOverruns">> <=> R = "success" /\ tb = table /\ m = "pollOverruns"
          /\ e = <<"poll", table, R, "pollOverruns">> <=> R = "error" /\ tb = table /\ m = "pollOverruns"
      OBVIOUS
    <3> HIDE DEF s, e
    <3> QED
      BY <1>5, <3>1
  <2>4. Count(f, happened) = Unended(f) + Held(s) + Held(e)
    BY DEF Balance, PollBalances
  <2>5. Count(f, happened) \in Nat /\ Held(s) \in Nat /\ Held(e) \in Nat /\ j \in Nat
    BY <1>4
  <2>6. R = "success" \/ R = "error"
    BY <1>2 DEF Results
  <2>7. Unended(f) \in Int
    <3>1. MetricsTypeOK
      BY DEF Typed
    <3> HIDE DEF f
    <3> QED
      BY <2>4, <2>5, <3>1, UnendedInt
  <2> HIDE DEF f, s, e, j
  <2>8. Count(f, happened') = Unended(f)' + Held(s)' + Held(e)'
    BY <2>1, <2>2, <2>3, <2>4, <2>5, <2>6, <2>7
  <2> QED
    BY <2>8 DEF f, s, e
<1>9. Count(Drops, happened') = 0 /\ Held(Drops)' = Held(Drops)
  BY <1>6 DEF Drops, Balance
<1> QED
  BY <1>7, <1>8, <1>9 DEF Balance

-----------------------------------------------------------------------------
(* The drops: counted by those who have found the flag up, as long as they  *)
(* have not set it.                                                        *)
DropsCounted == ~raced => Held(Drops) = falls + Cardinality(Falling)

LEMMA FallingFinite == IsFiniteSet(Falling) /\ Cardinality(Falling) \in Nat
<1>1. IsFiniteSet(Falling)
  BY ThreadsFinite, FS_Subset DEF Falling
<1> QED
  BY <1>1, FS_CardinalityType

(* A request that finds the link lost and the flag up counts a drop.       *)
LEMMA RequestKeeps ==
    ASSUME Typed, Balance, DropsCounted, NEW t \in Threads, Request(t)
    PROVE  Balance' /\ DropsCounted'
<1>1. PICK how \in {"data", "exception", "lost", "noClient"} :
        /\ pc[t] = "block"
        /\ pc' = [pc EXCEPT ![t] = "answered"]
        /\ outcome' = [outcome EXCEPT ![t] = how]
        /\ tested' = [tested EXCEPT ![t] = link]
        /\ interval' = IF how = "lost" /\ link
              THEN interval (+) One("connection", "connectionDrops") ELSE interval
        /\ UNCHANGED <<blocks, phase, link, block, stats, failed, todo, report, happened, falls,
                       raced, metricsBounds>>
  BY DEF Request
<1>2. UNCHANGED <<rows, received, lost>>
  BY <1>1 DEF report
<1> DEFINE d == IF how = "lost" /\ link THEN 1 ELSE 0
<1>3. \A c : Count(c, interval') = Count(c, interval) + (IF c = Drops THEN d ELSE 0)
  <2>1. /\ BagOf(One("connection", "connectionDrops"), Cells)
        /\ \A c : Count(c, One("connection", "connectionDrops")) = IF c = Drops THEN 1 ELSE 0
    BY OneBag, CellsAre, OtherIsCell, Widened DEF Drops
  <2>2. BagOf(interval, Cells)
    BY DEF Typed, MetricsTypeOK
  <2>3. \A c : Count(c, interval (+) One("connection", "connectionDrops"))
                  = Count(c, interval) + Count(c, One("connection", "connectionDrops"))
    BY <2>1, <2>2, CountSum
  <2>4. \A c : Count(c, interval) \in Nat
    BY CountsAre DEF Typed
  <2> QED
    BY <1>1, <2>1, <2>3, <2>4
<1>4. \A c : /\ Count(c, interval) \in Nat /\ Count(c, rows) \in Nat
             /\ Count(c, received) \in Nat /\ Count(c, lost) \in Nat
             /\ Count(c, happened) \in Nat /\ Held(c) \in Nat
  BY CountsAre DEF Typed
<1>5. \A c : Held(c)' = Held(c) + (IF c = Drops THEN d ELSE 0)
  BY <1>2, <1>3, <1>4 DEF Held
<1>6. Balance'
  <2>1. BagOf(EmptyBag, OtherCells) /\ \A c : Count(c, EmptyBag) = 0
    BY NoBag
  <2>2. \A c : Count(c, happened') = Count(c, happened) + Count(c, EmptyBag)
    BY <1>1, <1>4, <2>1
  <2>3. \A c \in Cells \ {Drops} : Held(c)' = Held(c) + Count(c, EmptyBag)
    BY <1>4, <1>5, <2>1
  <2> QED
    BY <1>1, <2>1, <2>2, <2>3, BalanceKept
<1>7. Cardinality(Falling') = Cardinality(Falling) + d
  <2>1. /\ pc'[t] = "answered" /\ outcome'[t] = how /\ tested'[t] = link
        /\ \A u \in Threads \ {t} : /\ pc'[u] = pc[u] /\ outcome'[u] = outcome[u]
                                    /\ tested'[u] = tested[u]
    BY <1>1 DEF Typed, MetricsTypeOK
  <2>2. t \notin Falling
    BY <1>1 DEF Falling
  <2>3. CASE how = "lost" /\ link
    <3>1. Falling' = Falling \cup {t}
      BY <2>1, <2>3 DEF Falling
    <3>2. Cardinality(Falling \cup {t}) = Cardinality(Falling) + 1
      BY <2>2, FallingFinite, FS_AddElement
    <3> QED
      BY <2>3, <3>1, <3>2
  <2>4. CASE ~ (how = "lost" /\ link)
    <3>1. Falling' = Falling
      BY <2>1, <2>2, <2>4 DEF Falling
    <3> QED
      BY <2>4, <3>1, FallingFinite
  <2> QED
    BY <2>3, <2>4
<1>8. DropsCounted'
  <2>1. Held(Drops)' = Held(Drops) + d /\ falls \in Nat /\ d \in Nat
    BY <1>5 DEF Typed, MetricsTypeOK
  <2>2. falls' = falls /\ raced' = raced
    BY <1>1
  <2> HIDE DEF d
  <2> QED
    BY <1>4, <1>7, <2>1, <2>2, FallingFinite DEF DropsCounted
<1> QED
  BY <1>6, <1>8

(* An answer that sets the flag down is the fall that was counted, unless   *)
(* the flag has been set since it was tested.                              *)
LEMMA AnswerDrops ==
    ASSUME Typed, DropsCounted, NEW t \in Threads, Answer(t), Held(Drops)' = Held(Drops)
    PROVE  DropsCounted'
<1>1. /\ pc[t] = "answered" /\ pc'[t] # "answered"
      /\ outcome'[t] = "none"
      /\ \A u \in Threads \ {t} : /\ pc'[u] = pc[u] /\ outcome'[u] = outcome[u]
                                  /\ tested'[u] = tested[u]
      /\ raced' = (raced \/ (Marks(outcome[t]) /\ tested[t] # link))
      /\ falls' = falls + (IF link /\ outcome[t] = "lost" THEN 1 ELSE 0)
  BY DEF Answer, Typed, MetricsTypeOK
<1>2. Falling' = Falling \ {t}
  BY <1>1 DEF Falling
<1>3. link \in BOOLEAN /\ tested[t] \in BOOLEAN /\ falls \in Nat /\ Held(Drops) \in Nat
  BY CountsAre DEF Typed, MetricsTypeOK
<1> SUFFICES ASSUME ~raced'
             PROVE  Held(Drops)' = falls' + Cardinality(Falling')
  BY DEF DropsCounted
<1>4. ~raced /\ (outcome[t] = "lost" => tested[t] = link)
  BY <1>1 DEF Marks
<1>5. Held(Drops) = falls + Cardinality(Falling)
  BY <1>4 DEF DropsCounted
<1>6. CASE outcome[t] = "lost" /\ tested[t]
  <2>1. t \in Falling
    BY <1>1, <1>6 DEF Falling
  <2>2. Cardinality(Falling \ {t}) = Cardinality(Falling) - 1
    BY <2>1, FallingFinite, FS_RemoveElement
  <2>3. falls' = falls + 1
    BY <1>1, <1>4, <1>6
  <2> QED
    BY <1>2, <1>3, <1>5, <2>2, <2>3, FallingFinite
<1>7. CASE ~ (outcome[t] = "lost" /\ tested[t])
  <2>1. Falling \ {t} = Falling
    BY <1>7 DEF Falling
  <2>2. falls' = falls
    BY <1>1, <1>3, <1>4, <1>7
  <2> QED
    BY <1>2, <1>5, <2>1, <2>2
<1> QED
  BY <1>6, <1>7

(* The others neither count a drop nor set the flag by a read.             *)
LEMMA NoDrops ==
    ASSUME DropsCounted, Held(Drops)' = Held(Drops), UNCHANGED <<falls, raced, outcome, tested>>,
           \A t \in Threads : pc'[t] = "answered" <=> pc[t] = "answered"
    PROVE  DropsCounted'
<1>1. Falling' = Falling
  BY DEF Falling
<1> QED
  BY <1>1 DEF DropsCounted

LEMMA StepKeeps ==
    ASSUME Typed, Typed', Balance, DropsCounted, [MetricsNext]_metricsVars
    PROVE  Balance' /\ DropsCounted'
<1>1. ASSUME NEW t \in Threads, BeginPoll(t)
      PROVE  Balance' /\ DropsCounted'
  <2>1. UNCHANGED <<interval, rows, received, lost, happened, stats, falls, raced, outcome, tested>>
    BY <1>1 DEF BeginPoll, report
  <2>2. Balance' /\ Held(Drops)' = Held(Drops)
    BY <2>1 DEF Balance, OtherBalances, PollBalances, Held, Unended
  <2>3. \A u \in Threads : pc'[u] = "answered" <=> pc[u] = "answered"
    BY <1>1 DEF BeginPoll, Typed, MetricsTypeOK
  <2> QED
    BY <2>1, <2>2, <2>3, NoDrops
<1>2. ASSUME NEW t \in Threads, Request(t)
      PROVE  Balance' /\ DropsCounted'
  BY <1>2, RequestKeeps
<1>3. ASSUME NEW t \in Threads, Answer(t)
      PROVE  Balance' /\ DropsCounted'
  BY <1>3, AnswerKeeps, AnswerDrops
<1>4. ASSUME NEW t \in Threads, NEW table \in Tables, RecordPoll(t, table)
      PROVE  Balance' /\ DropsCounted'
  <2>1. Balance' /\ Held(Drops)' = Held(Drops)
    BY <1>4, RecordPollKeeps
  <2>2. UNCHANGED <<falls, raced, outcome, tested>>
    BY <1>4 DEF RecordPoll
  <2>3. \A u \in Threads : pc'[u] = "answered" <=> pc[u] = "answered"
    BY <1>4 DEF RecordPoll, Typed, MetricsTypeOK
  <2> QED
    BY <2>1, <2>2, <2>3, NoDrops
<1>5. CASE InTime
  <2>1. UNCHANGED <<interval, rows, received, lost, happened, stats, falls, raced, outcome, tested>>
    BY <1>5 DEF InTime, report
  <2>2. Balance' /\ Held(Drops)' = Held(Drops)
    BY <2>1 DEF Balance, OtherBalances, PollBalances, Held, Unended
  <2>3. \A u \in Threads : pc'[u] = "answered" <=> pc[u] = "answered"
    BY <1>5 DEF InTime, Typed, MetricsTypeOK
  <2> QED
    BY <2>1, <2>2, <2>3, NoDrops
<1>6. ASSUME NEW table \in Tables, RecordOverrun(table)
      PROVE  Balance' /\ DropsCounted'
  <2>1. Balance' /\ Held(Drops)' = Held(Drops)
    BY <1>6, OverrunKeeps
  <2>2. UNCHANGED <<falls, raced, outcome, tested>>
    BY <1>6 DEF RecordOverrun
  <2>3. \A u \in Threads : pc'[u] = "answered" <=> pc[u] = "answered"
    BY <1>6 DEF RecordOverrun, Typed, MetricsTypeOK
  <2> QED
    BY <2>1, <2>2, <2>3, NoDrops
<1>7. CASE OtherStep
  <2>1. Balance' /\ Held(Drops)' = Held(Drops)
    BY <1>7, OtherKeeps
  <2>2. OtherFrame
    BY <1>7, OtherLeaves
  <2>3. \A u \in Threads : pc'[u] = "answered" <=> pc[u] = "answered"
    BY <2>2 DEF OtherFrame, Moves
  <2> QED
    BY <2>1, <2>2, <2>3, NoDrops DEF OtherFrame
<1>8. CASE ReportStep
  <2>1. Balance' /\ Held(Drops)' = Held(Drops)
    BY <1>8, ReportKeeps
  <2>2. UNCHANGED <<falls, raced, outcome, tested, pc>>
    BY <1>8, ReportMoves DEF poll
  <2> QED
    BY <2>1, <2>2, NoDrops
<1>9. CASE UNCHANGED metricsVars
  <2>1. UNCHANGED <<interval, rows, received, lost, happened, stats, falls, raced, outcome, tested, pc>>
    BY <1>9 DEF metricsVars, poll, report
  <2>2. Balance' /\ Held(Drops)' = Held(Drops)
    BY <2>1 DEF Balance, OtherBalances, PollBalances, Held, Unended
  <2> QED
    BY <2>1, <2>2, NoDrops
<1> QED
  BY <1>1, <1>2, <1>3, <1>4, <1>5, <1>6, <1>7, <1>8, <1>9, StepIs DEF PollStep

LEMMA DropsInit == MetricsInit => DropsCounted
<1> SUFFICES ASSUME MetricsInit
             PROVE  DropsCounted
  OBVIOUS
<1>1. Falling = {}
  BY DEF MetricsInit, Falling
<1>2. Held(Drops) = 0
  BY NoBag DEF Held, MetricsInit
<1>3. Cardinality({}) = 0
  BY FS_EmptySet
<1> QED
  BY <1>1, <1>2, <1>3 DEF DropsCounted, MetricsInit

(* From the cells to the counts that the run checks.                       *)
LEMMA BalanceImplies ==
    ASSUME Typed, Balance, DropsCounted
    PROVE  CountsAddUp
<1>1. /\ BagOf(Reported, Cells)
      /\ \A c : Count(c, Reported) = Held(c)
  BY HeldIs DEF Typed
<1>2. ASSUME NEW fact \in Facts, fact # Drops
      PROVE  Count(fact, happened) = Unended(fact) + Copies(fact)
  <2>1. PICK c \in Cells : fact = Fact(c)
    BY DEF Facts
  <2>2. CASE c[1] = "poll"
    <3>1. PICK table \in Tables, result \in Results, m \in PollMeasures :
             c = <<"poll", table, result, m>>
      BY <2>2 DEF Cells
    <3>2. fact = <<"poll", table, m>>
      BY <2>1, <3>1 DEF Fact
    <3>3. Copies(fact) = Held(<<"poll", table, "success", m>>) + Held(<<"poll", table, "error", m>>)
      BY <1>1, <3>2 DEF Copies
    <3>4. Count(fact, happened) = Unended(fact)
              + Held(<<"poll", table, "success", m>>) + Held(<<"poll", table, "error", m>>)
      BY <3>2 DEF Balance, PollBalances
    <3>5. /\ Unended(fact) \in Int /\ Held(<<"poll", table, "success", m>>) \in Nat
          /\ Held(<<"poll", table, "error", m>>) \in Nat
      BY UnendedInt, CountsAre DEF Typed
    <3> QED
      BY <3>3, <3>4, <3>5
  <2>3. CASE c[1] # "poll"
    <3>1. fact = c /\ fact \in OtherCells \ {Drops}
      BY <1>2, <2>1, <2>3 DEF Fact, OtherCells
    <3>2. Copies(fact) = Held(fact)
      BY <1>1, <2>3, <3>1 DEF Copies
    <3>3. \A t \in Threads : Count(fact, stats[t]) = 0
      BY <2>3, <3>1 DEF Typed, MetricsTypeOK, BagOf, Count
    <3>4. Unended(fact) = 0
      BY <3>3, UnendedZero DEF Typed
    <3>5. Count(fact, happened) = Held(fact) /\ Held(fact) \in Nat
      BY <3>1, CountsAre DEF Balance, OtherBalances, Typed
    <3> QED
      BY <3>2, <3>4, <3>5
  <2> QED
    BY <2>2, <2>3
<1>3. ASSUME NEW fact \in DOMAIN happened
      PROVE  fact \in Facts /\ fact # Drops
  <2>1. BagOf(happened, Facts)
    BY DEF Typed, MetricsTypeOK, Facts
  <2>2. Count(fact, happened) > 0
    BY <1>3, <2>1, CountIs
  <2>3. fact \in Facts
    BY <1>3, <2>1 DEF BagOf
  <2> QED
    BY <2>2, <2>3 DEF Balance
<1>4. ASSUME NEW c \in DOMAIN Reported \ {Drops}
      PROVE  Fact(c) \in Facts /\ Fact(c) # Drops
  <2>1. c \in Cells
    BY <1>1 DEF BagOf
  <2> QED
    BY <2>1 DEF Facts, Fact, Drops
<1>5. ASSUME NEW t \in Threads, NEW fact \in DOMAIN stats[t]
      PROVE  fact \in Facts /\ fact # Drops
  <2>1. fact \in PollCells
    BY DEF Typed, MetricsTypeOK, BagOf, PollCells
  <2> QED
    BY <2>1, PollCellFacts DEF PollCells, Drops
<1>6. \A fact \in DOMAIN happened \cup {Fact(c) : c \in DOMAIN Reported \ {Drops}}
                     \cup UNION {DOMAIN stats[t] : t \in Threads} :
          Count(fact, happened) = Unended(fact) + Copies(fact)
  BY <1>2, <1>3, <1>4, <1>5
<1>7. ~raced => Count(Drops, Reported) = falls + Cardinality(Falling)
  BY <1>1 DEF DropsCounted
<1> QED
  BY <1>6, <1>7 DEF CountsAddUp

LEMMA AlwaysBalanced == MetricsSpec => [](Typed /\ Balance /\ DropsCounted)
<1>1. MetricsInit => Typed /\ Balance /\ DropsCounted
  BY TypesInit, BalanceInit, DropsInit
<1>2. (Typed /\ Balance /\ DropsCounted) /\ [MetricsNext]_metricsVars
         => (Typed /\ Balance /\ DropsCounted)'
  BY TypesStep, StepKeeps
<1> QED
  BY <1>1, <1>2, PTL DEF MetricsSpec

(* Nothing that is counted is lost or counted twice between the polls, the  *)
(* commands, the drains and the failing emissions, and a drop is counted    *)
(* once: for any number of threads, any plans and any number of reports.   *)
THEOREM MetricsAddUp == MetricsSpec => []CountsAddUp
BY AlwaysBalanced, BalanceImplies, PTL

-----------------------------------------------------------------------------
(***************************************************************************)
(* The rows balance.  A poll that has counted the blocks of Done has        *)
(* counted each of their signals once; what it moves to the interval is a   *)
(* whole row, and what is drained or sent is a set of whole rows.           *)
(***************************************************************************)
Tally(t, table, m) == Count(<<"poll", table, m>>, stats[t])

Done(t) == IF pc[t] = "record" THEN DOMAIN blocks ELSE 1..(block[t] - 1)

\* The poll still holds what it has counted of the table.
Counting(t, table) == pc[t] \in {"block", "answered"} \/ (pc[t] = "record" /\ table \in todo[t])

BlocksIn(D, table) == {i \in D : blocks[i].table = table}

Tallied(t, table) ==
    /\ Tally(t, table, "samplesGood") + Tally(t, table, "samplesBad")
          = SumFunctionOnSet(SignalsOf(table), Done(t))
    /\ Tally(t, table, "protocolReadRequests") = Cardinality(BlocksIn(Done(t), table))
    /\ Tally(t, table, "samplesChanged") + Tally(t, table, "samplesSuppressed")
          = Tally(t, table, "samplesGood")
    /\ IF table \in failed[t] THEN Tally(t, table, "samplesBad") >= 1
       ELSE Tally(t, table, "samplesBad") + Tally(t, table, "protocolReadErrors") = 0

PollStats ==
    \A t \in Threads, table \in TablesOf(blocks) :
        IF Counting(t, table) THEN Tallied(t, table)
        ELSE \A m \in BlockMeasures : Tally(t, table, m) = 0

\* No result of an earlier poll is left when one begins.
Places ==
    \A t \in Threads : /\ pc[t] \in {"idle", "reconnecting"} => failed[t] = {}
                       /\ todo[t] \subseteq TablesOf(blocks)

\* The loop has recorded its cycle of the table, and may yet record an overrun.
Owing(table, result) ==
    IF /\ Result(Loop, table) = result
       /\ \/ pc[Loop] = "record" /\ table \in TablesOf(blocks) \ todo[Loop]
          \/ pc[Loop] = "late" /\ table \in TablesOf(blocks)
          \/ pc[Loop] = "overrun" /\ table \in todo[Loop]
    THEN 1 ELSE 0

Overruns ==
    \A table \in Tables, result \in Results :
        Held(<<"poll", table, result, "pollOverruns">>) + Owing(table, result)
            <= Held(<<"poll", table, result, "pollCycles">>)

Balancing == RowsOf(interval) /\ RowsOf(rows) /\ PollStats /\ Places /\ Overruns

LEMMA MeasuresAre ==
    {"samplesGood", "samplesBad", "samplesChanged", "samplesSuppressed",
     "protocolReadRequests", "protocolReadErrors"} = BlockMeasures
BY DEF BlockMeasures

LEMMA TallyNat ==
    ASSUME Typed, NEW t \in Threads
    PROVE  \A table, m : Tally(t, table, m) \in Nat
BY StatsAre DEF Tally, Typed

LEMMA NoRows ==
    ASSUME blocks \in Plans, NEW b, BagOf(b, Cells),
           \A c \in Cells : Count(c, b) > 0 => c[1] = "poll" /\ c[4] = "pollOverruns"
    PROVE  RowsOf(b)
<1>1. \A c : Count(c, b) \in Nat /\ (Count(c, b) > 0 => c \in Cells)
  BY CountIs DEF BagOf
<1>2. \A c : c[1] # "poll" \/ c[4] # "pollOverruns" => Count(c, b) = 0
  BY <1>1
<1>3. ASSUME NEW table \in Tables, NEW result \in Results
      PROVE  PollRowBalances(table, result, b)
  <2>1. \A m : m # "pollOverruns" => Count(<<"poll", table, result, m>>, b) = 0
    BY <1>2
  <2>2. 0 * Configured(table) = 0 /\ 0 * ReadBlocksOf(table) = 0
    BY SignalsAre, ReadBlocksAre
  <2> QED
    BY <2>1, <2>2 DEF PollRowBalances
<1>4. ASSUME NEW verb \in Verbs, NEW result \in Results
      PROVE  CommandRowBalances(verb, result, b)
  BY <1>2 DEF CommandRowBalances
<1>5. Count(<<"publish", "samplesPublished">>, b) <= Count(<<"publish", "batchSize">>, b)
  BY <1>2
<1> QED
  BY <1>3, <1>4, <1>5 DEF RowsOf

LEMMA RowsNext ==
    ASSUME blocks' = blocks
    PROVE  /\ RowsOf(interval') => RowsOf(interval)'
           /\ RowsOf(rows') => RowsOf(rows)'
<1>1. \A table : Configured(table)' = Configured(table) /\ ReadBlocksOf(table)' = ReadBlocksOf(table)
  BY DEF Configured, SignalsOf, ReadBlocksOf
<1> QED
  BY <1>1 DEF RowsOf, PollRowBalances, CommandRowBalances

(* A step that leaves the counts of polls alone.                           *)
LEMMA StatsKept ==
    ASSUME Typed, PollStats, blocks' = blocks, stats' = stats,
           \A t \in Threads :
              \/ UNCHANGED <<pc[t], block[t], todo[t], failed[t]>>
              \/ pc[t] = "block" /\ pc'[t] = "answered" /\ UNCHANGED <<block[t], todo[t], failed[t]>>
              \/ /\ pc[t] \notin {"block", "answered", "record"}
                 /\ pc'[t] \notin {"block", "answered", "record"}
    PROVE  PollStats'
<1> SUFFICES ASSUME NEW t \in Threads, NEW table \in TablesOf(blocks)
             PROVE  (IF Counting(t, table) THEN Tallied(t, table)
                     ELSE \A m \in BlockMeasures : Tally(t, table, m) = 0)'
  BY DEF PollStats, TablesOf
<1>1. \A m : Tally(t, table, m)' = Tally(t, table, m)
  BY DEF Tally
<1>2. CASE \/ UNCHANGED <<pc[t], block[t], todo[t], failed[t]>>
           \/ pc[t] = "block" /\ pc'[t] = "answered" /\ UNCHANGED <<block[t], todo[t], failed[t]>>
  <2>1. Counting(t, table)' <=> Counting(t, table)
    BY <1>2 DEF Counting
  <2>2. Done(t)' = Done(t)
    BY <1>2 DEF Done
  <2>3. BlocksIn(Done(t), table)' = BlocksIn(Done(t), table)
    BY <2>2 DEF BlocksIn
  <2>4. SignalsOf(table)' = SignalsOf(table)
    BY DEF SignalsOf
  <2>5. failed'[t] = failed[t]
    BY <1>2
  <2>6. Tallied(t, table)' <=> Tallied(t, table)
    BY <1>1, <2>2, <2>3, <2>4, <2>5 DEF Tallied
  <2> QED
    BY <1>1, <2>1, <2>6 DEF PollStats
<1>3. CASE /\ pc[t] \notin {"block", "answered", "record"}
           /\ pc'[t] \notin {"block", "answered", "record"}
  <2>1. ~ Counting(t, table) /\ ~ Counting(t, table)'
    BY <1>3 DEF Counting
  <2> QED
    BY <1>1, <2>1 DEF PollStats
<1> QED
  BY <1>2, <1>3

(* A poll begins: nothing is counted, and no block is done.                *)
LEMMA BeginStats ==
    ASSUME Typed, PollStats, Places, NEW t \in Threads, BeginPoll(t)
    PROVE  PollStats'
<1> SUFFICES ASSUME NEW u \in Threads, NEW table \in TablesOf(blocks)
             PROVE  (IF Counting(u, table) THEN Tallied(u, table)
                     ELSE \A m \in BlockMeasures : Tally(u, table, m) = 0)'
  BY DEF PollStats, TablesOf, BeginPoll
<1>1. /\ pc[t] = "idle" /\ pc'[t] = "block" /\ \A w \in Threads \ {t} : pc'[w] = pc[w]
      /\ UNCHANGED <<blocks, block, stats, failed, todo>>
  BY DEF BeginPoll, Typed, MetricsTypeOK
<1>2. \A m : Tally(u, table, m)' = Tally(u, table, m)
  BY <1>1 DEF Tally
<1>3. SignalsOf(table)' = SignalsOf(table)
  BY <1>1 DEF SignalsOf
<1>4. CASE u = t
  <2>1. ~ Counting(t, table) /\ Counting(t, table)'
    BY <1>1 DEF Counting
  <2>2. \A m \in BlockMeasures : Tally(t, table, m) = 0
    BY <2>1 DEF PollStats
  <2>3. failed'[t] = {} /\ block'[t] = 1
    BY <1>1 DEF Places, Typed, AtBlock
  <2>4. Done(t)' = {}
    BY <1>1, <2>3 DEF Done
  <2>5. BlocksIn(Done(t), table)' = {}
    BY <2>4 DEF BlocksIn
  <2>6. Cardinality({}) = 0 /\ SumFunctionOnSet(SignalsOf(table), {}) = 0
    <3>1. /\ IsFiniteSet(DOMAIN blocks) /\ SignalsOf(table) \in [DOMAIN blocks -> Int]
          /\ {} \in SUBSET DOMAIN blocks
      BY SignalsAre DEF Typed, MetricsTypeOK
    <3> QED
      BY <3>1, FS_EmptySet, SumAdds
  <2>7. Tallied(t, table)'
    BY <1>2, <1>3, <1>4, <2>2, <2>3, <2>4, <2>5, <2>6, MeasuresAre DEF Tallied
  <2> QED
    BY <1>4, <2>1, <2>7
<1>5. CASE u # t
  <2>1. Counting(u, table)' <=> Counting(u, table)
    BY <1>1, <1>5 DEF Counting
  <2>2. Done(u)' = Done(u)
    BY <1>1, <1>5 DEF Done
  <2>3. BlocksIn(Done(u), table)' = BlocksIn(Done(u), table)
    BY <1>1, <2>2 DEF BlocksIn
  <2>4. Tallied(u, table)' <=> Tallied(u, table)
    BY <1>1, <1>2, <1>3, <2>2, <2>3 DEF Tallied
  <2> QED
    BY <1>2, <2>1, <2>4 DEF PollStats
<1> QED
  BY <1>4, <1>5

(* One more block.                                                         *)
LEMMA OneBlockMore ==
    ASSUME blocks \in Plans, NEW k \in DOMAIN blocks, NEW table
    PROVE  /\ SumFunctionOnSet(SignalsOf(table), 1..k)
                 = SumFunctionOnSet(SignalsOf(table), 1..(k - 1))
                   + (IF blocks[k].table = table THEN blocks[k].signals ELSE 0)
           /\ Cardinality(BlocksIn(1..k, table))
                 = Cardinality(BlocksIn(1..(k - 1), table)) + (IF blocks[k].table = table THEN 1 ELSE 0)
           /\ SumFunctionOnSet(SignalsOf(table), 1..(k - 1)) \in Int
           /\ Cardinality(BlocksIn(1..(k - 1), table)) \in Nat
<1> DEFINE D == 1..(k - 1)
           S == SignalsOf(table)
<1>1. /\ DOMAIN blocks = 1..Len(blocks) /\ Len(blocks) \in Nat
      /\ D \in SUBSET DOMAIN blocks /\ k \in DOMAIN blocks \ D /\ D \cup {k} = 1..k
  BY PlanIs
<1>2. /\ IsFiniteSet(DOMAIN blocks) /\ S \in [DOMAIN blocks -> Int]
  BY SignalsAre
<1>3. S[k] = IF blocks[k].table = table THEN blocks[k].signals ELSE 0
  BY DEF SignalsOf
<1> HIDE DEF S
<1>4. /\ SumFunctionOnSet(S, D) \in Int
      /\ \A x \in DOMAIN blocks \ D : SumFunctionOnSet(S, D \cup {x}) = SumFunctionOnSet(S, D) + S[x]
  <2> HIDE DEF D
  <2> QED
    BY <1>1, <1>2, SumAdds, SMTT(20)
<1>5. SumFunctionOnSet(S, 1..k) = SumFunctionOnSet(S, D) + S[k]
  BY <1>1, <1>4
<1>6. IsFiniteSet(BlocksIn(D, table)) /\ Cardinality(BlocksIn(D, table)) \in Nat
  <2>1. IsFiniteSet(BlocksIn(D, table))
    BY <1>1, <1>2, FS_Subset DEF BlocksIn
  <2> QED
    BY <2>1, FS_CardinalityType
<1>7. Cardinality(BlocksIn(1..k, table))
         = Cardinality(BlocksIn(D, table)) + (IF blocks[k].table = table THEN 1 ELSE 0)
  <2>1. CASE blocks[k].table = table
    <3>1. BlocksIn(1..k, table) = BlocksIn(D, table) \cup {k} /\ k \notin BlocksIn(D, table)
      BY <1>1, <2>1 DEF BlocksIn
    <3>2. Cardinality(BlocksIn(D, table) \cup {k}) = Cardinality(BlocksIn(D, table)) + 1
      BY <1>6, <3>1, FS_AddElement
    <3> QED
      BY <2>1, <3>1, <3>2
  <2>2. CASE blocks[k].table # table
    <3>1. BlocksIn(1..k, table) = BlocksIn(D, table)
      BY <1>1, <2>2 DEF BlocksIn
    <3> QED
      BY <1>6, <2>2, <3>1
  <2> QED
    BY <2>1, <2>2
<1> QED
  BY <1>3, <1>4, <1>5, <1>6, <1>7 DEF S

LEMMA AnswerStats ==
    ASSUME Typed, PollStats, NEW t \in Threads, Answer(t)
    PROVE  PollStats'
<1> SUFFICES ASSUME NEW u \in Threads, NEW table \in TablesOf(blocks)
             PROVE  (IF Counting(u, table) THEN Tallied(u, table)
                     ELSE \A m \in BlockMeasures : Tally(u, table, m) = 0)'
  BY DEF PollStats, TablesOf, Answer
<1> DEFINE k == block[t]
           b == blocks[k]
           done == k = Len(blocks)
<1>1. PICK n : AnswerCounts(t, n)
  BY AnswerCount
<1>2. /\ k \in DOMAIN blocks /\ b.table \in Tables /\ b.table \in TablesOf(blocks)
      /\ k \in Nat /\ DOMAIN blocks = 1..Len(blocks) /\ Len(blocks) \in Nat
      /\ b.signals \in Nat
  BY AnswerCount, PlanIs DEF Typed, MetricsTypeOK
<1>3. /\ blocks' = blocks
      /\ pc[t] = "answered" /\ pc'[t] = (IF done THEN "record" ELSE "block")
      /\ block'[t] = (IF done THEN 1 ELSE k + 1)
      /\ todo'[t] = (IF done THEN TablesOf(blocks) ELSE {})
      /\ \A w \in Threads \ {t} : /\ pc'[w] = pc[w] /\ block'[w] = block[w] /\ todo'[w] = todo[w]
  BY DEF Answer, Typed, MetricsTypeOK
<1>4. SignalsOf(table)' = SignalsOf(table)
  BY <1>3 DEF SignalsOf
<1>5. CASE u = t
  <2>1. Counting(t, table) /\ Counting(t, table)'
    BY <1>3 DEF Counting
  <2>2. Done(t) = 1..(k - 1)
    BY <1>3 DEF Done
  <2>3. Done(t)' = 1..k
    <3>1. CASE done
      BY <1>2, <1>3, <3>1 DEF Done
    <3>2. CASE ~done
      BY <1>2, <1>3, <3>2 DEF Done
    <3> QED
      BY <3>1, <3>2
  <2>4. BlocksIn(Done(t), table)' = BlocksIn(1..k, table)
    BY <1>3, <2>3 DEF BlocksIn
  <2>5. \A m \in BlockMeasures :
            Tally(t, table, m)' = Tally(t, table, m) + (IF table = b.table THEN n[m] ELSE 0)
    <3>1. /\ BagOf(PollCounts(b.table, n), PollCells)
          /\ \A c : Count(c, PollCounts(b.table, n)) =
                IF c \in {"poll"} \X {b.table} \X BlockMeasures THEN n[c[3]] ELSE 0
      BY <1>1, <1>2, PollCountsBag DEF AnswerCounts, BlockCounts
    <3>2. BagOf(stats[t], PollCells) /\ DOMAIN stats = Threads
      BY DEF Typed, MetricsTypeOK, PollCells
    <3>3. stats'[t] = stats[t] (+) PollCounts(b.table, n)
      BY <1>1, <3>2 DEF AnswerCounts
    <3>4. \A c : Count(c, stats[t] (+) PollCounts(b.table, n))
                    = Count(c, stats[t]) + Count(c, PollCounts(b.table, n))
      BY <3>1, <3>2, CountSum
    <3>5. \A m \in BlockMeasures : Count(<<"poll", table, m>>, PollCounts(b.table, n))
                                      = IF table = b.table THEN n[m] ELSE 0
      BY <3>1
    <3> QED
      BY <3>3, <3>4, <3>5 DEF Tally
  <2>6. /\ \A m \in BlockMeasures : n[m] \in Nat
        /\ n.samplesBad = n["samplesBad"]
        /\ n["protocolReadRequests"] = 1
        /\ n["samplesGood"] + n["samplesBad"] = b.signals
        /\ n["samplesChanged"] + n["samplesSuppressed"] = n["samplesGood"]
        /\ n["samplesBad"] = 0 => n["protocolReadErrors"] = 0
    BY <1>1 DEF AnswerCounts, BlockCounts
  <2>7. failed'[t] = IF n["samplesBad"] > 0 THEN failed[t] \cup {b.table} ELSE failed[t]
    BY <1>1, <2>6 DEF AnswerCounts, Typed, MetricsTypeOK
  <2>8. /\ SumFunctionOnSet(SignalsOf(table), 1..k)
                 = SumFunctionOnSet(SignalsOf(table), 1..(k - 1))
                   + (IF b.table = table THEN b.signals ELSE 0)
        /\ Cardinality(BlocksIn(1..k, table))
                 = Cardinality(BlocksIn(1..(k - 1), table)) + (IF b.table = table THEN 1 ELSE 0)
        /\ SumFunctionOnSet(SignalsOf(table), 1..(k - 1)) \in Int
        /\ Cardinality(BlocksIn(1..(k - 1), table)) \in Nat
    BY <1>2, OneBlockMore DEF Typed, MetricsTypeOK
  <2>9. Tallied(t, table)
    BY <2>1 DEF PollStats
  <2>10. \A m : Tally(t, table, m) \in Nat
    BY TallyNat
  <2> HIDE DEF b, k
  <2>11. /\ Tally(t, table, "samplesGood")' + Tally(t, table, "samplesBad")'
               = SumFunctionOnSet(SignalsOf(table), 1..k)
         /\ Tally(t, table, "protocolReadRequests")' = Cardinality(BlocksIn(1..k, table))
         /\ Tally(t, table, "samplesChanged")' + Tally(t, table, "samplesSuppressed")'
               = Tally(t, table, "samplesGood")'
    <3>1. /\ Tally(t, table, "samplesGood") + Tally(t, table, "samplesBad")
                = SumFunctionOnSet(SignalsOf(table), 1..(k - 1))
          /\ Tally(t, table, "protocolReadRequests") = Cardinality(BlocksIn(1..(k - 1), table))
          /\ Tally(t, table, "samplesChanged") + Tally(t, table, "samplesSuppressed")
                = Tally(t, table, "samplesGood")
      BY <2>2, <2>9 DEF Tallied
    <3>2. CASE table = b.table
      <4>1. /\ Tally(t, table, "samplesGood")' = Tally(t, table, "samplesGood") + n["samplesGood"]
            /\ Tally(t, table, "samplesBad")' = Tally(t, table, "samplesBad") + n["samplesBad"]
            /\ Tally(t, table, "samplesChanged")'
                  = Tally(t, table, "samplesChanged") + n["samplesChanged"]
            /\ Tally(t, table, "samplesSuppressed")'
                  = Tally(t, table, "samplesSuppressed") + n["samplesSuppressed"]
            /\ Tally(t, table, "protocolReadRequests")' = Tally(t, table, "protocolReadRequests") + 1
        BY <2>5, <2>6, <3>2, MeasuresAre
      <4>2. /\ n["samplesGood"] \in Nat /\ n["samplesBad"] \in Nat
            /\ n["samplesChanged"] \in Nat /\ n["samplesSuppressed"] \in Nat
            /\ n["samplesGood"] + n["samplesBad"] = b.signals
            /\ n["samplesChanged"] + n["samplesSuppressed"] = n["samplesGood"]
        BY <2>6, MeasuresAre
      <4>3. /\ SumFunctionOnSet(SignalsOf(table), 1..k)
                  = SumFunctionOnSet(SignalsOf(table), 1..(k - 1)) + b.signals
            /\ Cardinality(BlocksIn(1..k, table)) = Cardinality(BlocksIn(1..(k - 1), table)) + 1
        BY <2>8, <3>2
      <4>4. /\ Tally(t, table, "samplesGood") \in Nat /\ Tally(t, table, "samplesBad") \in Nat
            /\ Tally(t, table, "samplesChanged") \in Nat
            /\ Tally(t, table, "samplesSuppressed") \in Nat
        BY <2>10
      <4> DEFINE A(m) == Tally(t, table, m)
                 N(m) == n[m]
                 C(m) == Tally(t, table, m)'
                 sum == SumFunctionOnSet(SignalsOf(table), 1..(k - 1))
                 next == SumFunctionOnSet(SignalsOf(table), 1..k)
                 signals == b.signals
      <4>8. /\ C("samplesGood") = A("samplesGood") + N("samplesGood")
            /\ C("samplesBad") = A("samplesBad") + N("samplesBad")
            /\ C("samplesChanged") = A("samplesChanged") + N("samplesChanged")
            /\ C("samplesSuppressed") = A("samplesSuppressed") + N("samplesSuppressed")
            /\ A("samplesGood") \in Nat /\ A("samplesBad") \in Nat
            /\ A("samplesChanged") \in Nat /\ A("samplesSuppressed") \in Nat
            /\ N("samplesGood") \in Nat /\ N("samplesBad") \in Nat
            /\ N("samplesChanged") \in Nat /\ N("samplesSuppressed") \in Nat
            /\ A("samplesGood") + A("samplesBad") = sum /\ next = sum + signals
            /\ N("samplesGood") + N("samplesBad") = signals
            /\ A("samplesChanged") + A("samplesSuppressed") = A("samplesGood")
            /\ N("samplesChanged") + N("samplesSuppressed") = N("samplesGood")
        BY <3>1, <4>1, <4>2, <4>3, <4>4
      <4> HIDE DEF A, N, C, sum, next, signals
      <4>5. C("samplesGood") + C("samplesBad") = next
        BY <4>8
      <4>7. C("samplesChanged") + C("samplesSuppressed") = C("samplesGood")
        BY <4>8
      <4>6. Tally(t, table, "protocolReadRequests")' = Cardinality(BlocksIn(1..k, table))
        BY <3>1, <4>1, <4>3
      <4> QED
        BY <4>5, <4>6, <4>7 DEF A, C, next
    <3>3. CASE table # b.table
      <4>1. \A m \in BlockMeasures : Tally(t, table, m)' = Tally(t, table, m)
        BY <2>5, <2>10, <3>3
      <4>2. /\ SumFunctionOnSet(SignalsOf(table), 1..k)
                  = SumFunctionOnSet(SignalsOf(table), 1..(k - 1))
            /\ Cardinality(BlocksIn(1..k, table)) = Cardinality(BlocksIn(1..(k - 1), table))
        BY <2>8, <3>3
      <4> QED
        BY <3>1, <4>1, <4>2, MeasuresAre
    <3> QED
      BY <3>2, <3>3
  <2>12. IF table \in failed'[t] THEN Tally(t, table, "samplesBad")' >= 1
         ELSE Tally(t, table, "samplesBad")' + Tally(t, table, "protocolReadErrors")' = 0
    <3>1. IF table \in failed[t] THEN Tally(t, table, "samplesBad") >= 1
          ELSE Tally(t, table, "samplesBad") + Tally(t, table, "protocolReadErrors") = 0
      BY <2>9 DEF Tallied
    <3>2. CASE table = b.table
      <4>1. /\ Tally(t, table, "samplesBad")' = Tally(t, table, "samplesBad") + n["samplesBad"]
            /\ Tally(t, table, "protocolReadErrors")'
                  = Tally(t, table, "protocolReadErrors") + n["protocolReadErrors"]
            /\ n["samplesBad"] \in Nat /\ n["protocolReadErrors"] \in Nat
        BY <2>5, <2>6, <3>2, MeasuresAre
      <4>2. table \in failed'[t] <=> table \in failed[t] \/ n["samplesBad"] > 0
        BY <2>7, <3>2
      <4> QED
        BY <2>6, <2>10, <3>1, <4>1, <4>2
    <3>3. CASE table # b.table
      <4>1. /\ Tally(t, table, "samplesBad")' = Tally(t, table, "samplesBad")
            /\ Tally(t, table, "protocolReadErrors")' = Tally(t, table, "protocolReadErrors")
        BY <2>5, <2>10, <3>3, MeasuresAre
      <4>2. table \in failed'[t] <=> table \in failed[t]
        BY <2>7, <3>3
      <4> QED
        BY <3>1, <4>1, <4>2
    <3> QED
      BY <3>2, <3>3
  <2>13. Tallied(t, table)'
    BY <1>4, <2>3, <2>4, <2>11, <2>12 DEF Tallied
  <2> QED
    BY <1>5, <2>1, <2>13
<1>6. CASE u # t
  <2>1. stats'[u] = stats[u] /\ failed'[u] = failed[u]
    BY <1>1, <1>6 DEF AnswerCounts, Typed, MetricsTypeOK
  <2>2. \A m : Tally(u, table, m)' = Tally(u, table, m)
    BY <2>1 DEF Tally
  <2>3. Counting(u, table)' <=> Counting(u, table)
    BY <1>3, <1>6 DEF Counting
  <2>4. Done(u)' = Done(u)
    BY <1>3, <1>6 DEF Done
  <2>5. BlocksIn(Done(u), table)' = BlocksIn(Done(u), table)
    BY <1>3, <2>4 DEF BlocksIn
  <2>6. Tallied(u, table)' <=> Tallied(u, table)
    BY <1>4, <2>1, <2>2, <2>4, <2>5 DEF Tallied
  <2> QED
    BY <2>2, <2>3, <2>6 DEF PollStats
<1> QED
  BY <1>5, <1>6

(* A table is recorded: what the poll has counted of it is no longer its own. *)
LEMMA LeftAlone ==
    ASSUME Typed, NEW t \in Threads, NEW table \in Tables, RecordPoll(t, table)
    PROVE  \A u \in Threads : \A tb, m :
              Tally(u, tb, m)' = IF u = t /\ tb = table THEN 0 ELSE Tally(u, tb, m)
<1> DEFINE left == Restrict(stats[t], DOMAIN stats[t] \ Own(t, table))
<1>1. stats' = [stats EXCEPT ![t] = left] /\ DOMAIN stats = Threads
  BY RecordPollIs DEF Typed, MetricsTypeOK
<1>2. BagOf(stats[t], PollCells)
  BY DEF Typed, MetricsTypeOK, PollCells
<1>3. \A tb, m : Count(<<"poll", tb, m>>, left) = IF tb = table THEN 0 ELSE Count(<<"poll", tb, m>>, stats[t])
  <2>1. DOMAIN stats[t] \ Own(t, table) \in SUBSET DOMAIN stats[t]
    OBVIOUS
  <2>2. \A c : Count(c, left) = IF c \in DOMAIN stats[t] \ Own(t, table) THEN Count(c, stats[t]) ELSE 0
    BY <1>2, <2>1, BagPart
  <2>3. \A c : c \notin DOMAIN stats[t] => Count(c, stats[t]) = 0
    BY DEF Count
  <2>4. \A tb, m : <<"poll", tb, m>> \in Own(t, table) <=>
                      tb = table /\ <<"poll", tb, m>> \in DOMAIN stats[t]
    BY DEF Own
  <2> HIDE DEF left
  <2> QED
    BY <2>2, <2>3, <2>4
<1> HIDE DEF left
<1>4. stats'[t] = left /\ \A u \in Threads \ {t} : stats'[u] = stats[u]
  BY <1>1
<1>5. ASSUME NEW u \in Threads, NEW tb, NEW m
      PROVE  Count(<<"poll", tb, m>>, stats'[u])
                = IF u = t /\ tb = table THEN 0 ELSE Count(<<"poll", tb, m>>, stats[u])
  <2>1. CASE u = t
    BY <1>3, <1>4, <2>1
  <2>2. CASE u # t
    BY <1>4, <2>2
  <2> QED
    BY <2>1, <2>2
<1> QED
  BY <1>5 DEF Tally

LEMMA RecordPollStats ==
    ASSUME Typed, PollStats, NEW t \in Threads, NEW table \in Tables, RecordPoll(t, table)
    PROVE  PollStats'
<1> SUFFICES ASSUME NEW u \in Threads, NEW tb \in TablesOf(blocks)
             PROVE  (IF Counting(u, tb) THEN Tallied(u, tb)
                     ELSE \A m \in BlockMeasures : Tally(u, tb, m) = 0)'
  BY DEF PollStats, TablesOf, RecordPoll
<1>1. \A m : Tally(u, tb, m)' = IF u = t /\ tb = table THEN 0 ELSE Tally(u, tb, m)
  BY LeftAlone
<1>2. /\ UNCHANGED <<blocks, block, failed>>
      /\ pc[t] = "record" /\ pc'[t] \in {"record", "late", "reply"}
      /\ pc'[t] # "record" => todo[t] = {table}
      /\ todo'[t] = todo[t] \ {table}
      /\ \A w \in Threads \ {t} : pc'[w] = pc[w] /\ todo'[w] = todo[w]
  BY DEF RecordPoll, Typed, MetricsTypeOK
<1>3. SignalsOf(tb)' = SignalsOf(tb)
  BY <1>2 DEF SignalsOf
<1>4. CASE u = t /\ tb = table
  <2>1. ~ Counting(u, tb)'
    BY <1>2, <1>4 DEF Counting
  <2> QED
    BY <1>1, <1>4, <2>1
<1>5. CASE ~ (u = t /\ tb = table)
  <2>1. Counting(u, tb)' <=> Counting(u, tb)
    BY <1>2, <1>5 DEF Counting
  <2>2. Counting(u, tb) => Done(u)' = Done(u)
    BY <1>2, <1>5, <2>1 DEF Done, Counting
  <2>3. Counting(u, tb) => BlocksIn(Done(u), tb)' = BlocksIn(Done(u), tb)
    BY <1>2, <2>2 DEF BlocksIn
  <2>4. Counting(u, tb) => (Tallied(u, tb)' <=> Tallied(u, tb))
    BY <1>1, <1>2, <1>3, <1>5, <2>2, <2>3 DEF Tallied
  <2>5. \A m : Tally(u, tb, m)' = Tally(u, tb, m)
    BY <1>1, <1>5
  <2> QED
    BY <2>1, <2>4, <2>5 DEF PollStats
<1> QED
  BY <1>4, <1>5

(* A whole table of a poll is a row that balances.                         *)
LEMMA PollRow ==
    ASSUME Typed, PollStats, NEW t \in Threads, NEW table \in TablesOf(blocks),
           pc[t] = "record", table \in todo[t]
    PROVE  RowsOf(Moved(t, table) (+) Cycle(t, table))
<1> DEFINE R == Result(t, table)
           b == Moved(t, table) (+) Cycle(t, table)
           x == Moved(t, table)
           y == Cycle(t, table)
           A(m) == Tally(t, table, m)
<1>0. table \in Tables /\ R \in Results /\ "pollCycles" \in PollMeasures /\ blocks \in Plans
  BY PlanIs, ResultIs, PollCellFacts DEF Typed, MetricsTypeOK
<1>1. /\ BagOf(x, Cells)
      /\ \A c : c[1] # "poll" => Count(c, x) = 0
      /\ \A tb, r, m : Count(<<"poll", tb, r, m>>, x) =
                 IF tb = table /\ r = R THEN A(m) ELSE 0
  BY <1>0, MovedBag DEF Typed, Tally
<1>2. /\ BagOf(y, Cells)
      /\ \A c : Count(c, y) = IF c = <<"poll", table, R, "pollCycles">> THEN 1 ELSE 0
  BY <1>0, PollCell DEF Cycle
<1>3. Tallied(t, table) /\ Done(t) = DOMAIN blocks
  BY DEF PollStats, Counting, Done
<1>4. \A m : A(m) \in Nat
  BY TallyNat
<1>5. A("pollCycles") = 0
  <2>1. BagOf(stats[t], PollCells) /\ <<"poll", table, "pollCycles">> \notin PollCells
    BY DEF Typed, MetricsTypeOK, PollCells, BlockMeasures
  <2> QED
    BY <2>1 DEF BagOf, Tally, Count
<1> HIDE DEF R, x, y, A
<1>6. \A c : Count(c, b) = Count(c, x) + Count(c, y)
  BY <1>1, <1>2, CountSum DEF x, y
<1> HIDE DEF b
<1>7. \A c : c[1] # "poll" => Count(c, b) = 0
  BY <1>1, <1>2, <1>6
<1>8. \A tb, r, m : Count(<<"poll", tb, r, m>>, b) =
          IF tb = table /\ r = R THEN IF m = "pollCycles" THEN 1 ELSE A(m) ELSE 0
  <2> SUFFICES ASSUME NEW tb, NEW r, NEW m
               PROVE  Count(<<"poll", tb, r, m>>, b) =
                        IF tb = table /\ r = R THEN IF m = "pollCycles" THEN 1 ELSE A(m) ELSE 0
    OBVIOUS
  <2> DEFINE c == <<"poll", tb, r, m>>
  <2>1. Count(c, x) = IF tb = table /\ r = R THEN A(m) ELSE 0
    BY <1>1
  <2>2. c = <<"poll", table, R, "pollCycles">> <=> tb = table /\ r = R /\ m = "pollCycles"
    OBVIOUS
  <2> HIDE DEF c
  <2>3. Count(c, b) = Count(c, x) + Count(c, y) /\ Count(c, y) = IF c = <<"poll", table, R, "pollCycles">> THEN 1 ELSE 0
    BY <1>2, <1>6
  <2>4. A(m) \in Nat
    BY <1>4
  <2> QED
    BY <1>5, <2>1, <2>2, <2>3, <2>4 DEF c
<1>9. ASSUME NEW tb \in Tables, NEW r \in Results
      PROVE  PollRowBalances(tb, r, b)
  <2> DEFINE N(m) == Count(<<"poll", tb, r, m>>, b)
  <2>1. CASE tb = table /\ r = R
    <3>1. /\ N("pollCycles") = 1
          /\ \A m \in BlockMeasures : N(m) = A(m)
      BY <1>8, <2>1 DEF BlockMeasures
    <3>2. A("samplesGood") + A("samplesBad") = Configured(tb) /\ Configured(tb) \in Int
      BY <1>0, <1>3, <2>1, SignalsAre DEF Tallied, A
    <3>3. A("protocolReadRequests") = ReadBlocksOf(tb) /\ ReadBlocksOf(tb) \in Nat
      BY <1>0, <1>3, <2>1, ReadBlocksAre DEF Tallied, A, ReadBlocksOf, BlocksIn
    <3>4. /\ A("samplesChanged") + A("samplesSuppressed") = A("samplesGood")
          /\ r = "success" => A("samplesBad") + A("protocolReadErrors") = 0
          /\ r = "error" => A("samplesBad") >= 1
      BY <1>3, <2>1 DEF Tallied, A, R, Result
    <3> HIDE DEF N
    <3>5. /\ N("samplesGood") = A("samplesGood") /\ N("samplesBad") = A("samplesBad")
          /\ N("samplesChanged") = A("samplesChanged") /\ N("samplesSuppressed") = A("samplesSuppressed")
          /\ N("protocolReadRequests") = A("protocolReadRequests")
          /\ N("protocolReadErrors") = A("protocolReadErrors")
      BY <3>1, MeasuresAre
    <3>6. N("pollCycles") * Configured(tb) = Configured(tb) /\ N("pollCycles") * ReadBlocksOf(tb) = ReadBlocksOf(tb)
      BY <3>1, <3>2, <3>3
    <3>7. /\ N("samplesGood") + N("samplesBad") = N("pollCycles") * Configured(tb)
          /\ N("protocolReadRequests") = N("pollCycles") * ReadBlocksOf(tb)
          /\ N("samplesChanged") + N("samplesSuppressed") = N("samplesGood")
          /\ r = "success" => N("samplesBad") + N("protocolReadErrors") = 0
          /\ r = "error" => N("samplesBad") >= N("pollCycles")
      BY <3>1, <3>2, <3>3, <3>4, <3>5, <3>6
    <3> QED
      BY <3>7 DEF PollRowBalances, N
  <2>2. CASE ~ (tb = table /\ r = R)
    <3>1. \A m : N(m) = 0
      BY <1>8, <2>2
    <3>2. 0 * Configured(tb) = 0 /\ 0 * ReadBlocksOf(tb) = 0
      BY <1>0, SignalsAre, ReadBlocksAre
    <3> QED
      BY <3>1, <3>2 DEF PollRowBalances
  <2> QED
    BY <2>1, <2>2
<1>10. ASSUME NEW verb \in Verbs, NEW result \in Results
       PROVE  CommandRowBalances(verb, result, b)
  BY <1>7 DEF CommandRowBalances
<1>11. Count(<<"publish", "samplesPublished">>, b) <= Count(<<"publish", "batchSize">>, b)
  BY <1>7
<1>12. RowsOf(b)
  BY <1>9, <1>10, <1>11 DEF RowsOf
<1> QED
  BY <1>12 DEF b, x, y


(* Only the counts matter.                                                 *)
LEMMA RowsAlike ==
    ASSUME NEW a, NEW b, \A c : Count(c, a) = Count(c, b), RowsOf(a)
    PROVE  RowsOf(b)
<1>1. ASSUME NEW table \in Tables, NEW result \in Results
      PROVE  PollRowBalances(table, result, b)
  <2>1. \A m : Count(<<"poll", table, result, m>>, a) = Count(<<"poll", table, result, m>>, b)
    OBVIOUS
  <2>2. PollRowBalances(table, result, a)
    BY DEF RowsOf
  <2> QED
    BY <2>1, <2>2 DEF PollRowBalances
<1>2. ASSUME NEW verb \in Verbs, NEW result \in Results
      PROVE  CommandRowBalances(verb, result, b)
  <2>1. \A m : Count(<<"command", verb, result, m>>, a) = Count(<<"command", verb, result, m>>, b)
    OBVIOUS
  <2>2. CommandRowBalances(verb, result, a)
    BY DEF RowsOf
  <2> QED
    BY <2>1, <2>2 DEF CommandRowBalances
<1>3. Count(<<"publish", "samplesPublished">>, b) <= Count(<<"publish", "batchSize">>, b)
  BY DEF RowsOf
<1> QED
  BY <1>1, <1>2, <1>3 DEF RowsOf

(* The rows of the interval, when a bag that balances is added.            *)
LEMMA RowsAdded ==
    ASSUME Typed, RowsOf(interval), NEW b, BagOf(b, Cells), RowsOf(b), interval' = interval (+) b
    PROVE  RowsOf(interval')
BY RowsSum DEF Typed, MetricsTypeOK

LEMMA RecordPollRows ==
    ASSUME Typed, RowsOf(interval), PollStats, Places, NEW t \in Threads, NEW table \in Tables,
           RecordPoll(t, table)
    PROVE  RowsOf(interval')
<1> DEFINE x == Moved(t, table)
           y == Cycle(t, table)
<1>1. interval' = (interval (+) x) (+) y
  BY RecordPollIs
<1>2. RowsOf(x (+) y)
  BY PollRow DEF RecordPoll, Places
<1>3. BagOf(interval, Cells) /\ BagOf(x, Cells) /\ BagOf(y, Cells) /\ blocks \in Plans
  BY MovedBag, PollCell, ResultIs, PollCellFacts DEF Typed, MetricsTypeOK, Cycle
<1> HIDE DEF x, y
<1>4. BagOf(interval (+) x, Cells) /\ BagOf(x (+) y, Cells)
  BY <1>3, BagSum
<1>5. RowsOf(interval (+) (x (+) y))
  BY <1>2, <1>3, <1>4, RowsSum
<1>6. \A c : Count(c, interval (+) (x (+) y)) = Count(c, (interval (+) x) (+) y)
  <2>1. \A c : Count(c, interval (+) (x (+) y)) = Count(c, interval) + Count(c, x (+) y)
    BY <1>3, <1>4, CountSum
  <2>2. \A c : Count(c, x (+) y) = Count(c, x) + Count(c, y)
    BY <1>3, CountSum
  <2>3. \A c : Count(c, (interval (+) x) (+) y) = Count(c, interval (+) x) + Count(c, y)
    BY <1>3, <1>4, CountSum
  <2>4. \A c : Count(c, interval (+) x) = Count(c, interval) + Count(c, x)
    BY <1>3, CountSum
  <2>5. \A c : Count(c, interval) \in Nat /\ Count(c, x) \in Nat /\ Count(c, y) \in Nat
    BY <1>3, CountIs
  <2> QED
    BY <2>1, <2>2, <2>3, <2>4, <2>5
<1> QED
  BY <1>1, <1>5, <1>6, RowsAlike

LEMMA OverrunRows ==
    ASSUME Typed, RowsOf(interval), NEW table \in Tables, RecordOverrun(table)
    PROVE  RowsOf(interval')
<1> DEFINE b == SetToBag({<<"poll", table, Result(Loop, table), "pollOverruns">>})
<1>1. interval' = interval (+) b
  BY DEF RecordOverrun
<1>2. /\ BagOf(b, Cells)
      /\ \A c : Count(c, b) = IF c = <<"poll", table, Result(Loop, table), "pollOverruns">> THEN 1 ELSE 0
  BY ResultIs, PollCellFacts, PollCell
<1> HIDE DEF b
<1>3. \A c \in Cells : Count(c, b) > 0 => c[1] = "poll" /\ c[4] = "pollOverruns"
  BY <1>2
<1>4. RowsOf(b)
  BY <1>2, <1>3, NoRows DEF Typed, MetricsTypeOK
<1> QED
  BY <1>1, <1>2, <1>4, RowsAdded

LEMMA RequestRows ==
    ASSUME Typed, RowsOf(interval), NEW t \in Threads, Request(t)
    PROVE  RowsOf(interval')
<1> DEFINE b == One("connection", "connectionDrops")
<1>1. interval' = interval \/ interval' = interval (+) b
  BY DEF Request
<1>2. BagOf(b, OtherCells)
  BY OneBag, CellsAre
<1>3. \A c \in DOMAIN b : c[1] \notin {"command", "publish"}
  BY DEF One, SetToBag
<1> HIDE DEF b
<1>4. RowsOf(b) /\ BagOf(b, Cells)
  BY <1>2, <1>3, FreeRows, OtherIsCell, Widened DEF Typed, MetricsTypeOK
<1> QED
  BY <1>1, <1>4, RowsAdded

LEMMA AnswerRows ==
    ASSUME Typed, RowsOf(interval), NEW t \in Threads, Answer(t)
    PROVE  RowsOf(interval')
<1>1. PICK n : AnswerCounts(t, n)
  BY AnswerCount
<1>2. Plain(Client(n))
  BY <1>1, ClientPlain DEF AnswerCounts, Typed, MetricsTypeOK
<1>3. BagOf(Client(n), Cells) /\ RowsOf(Client(n))
  BY <1>2, OtherIsCell, Widened DEF Plain
<1> QED
  BY <1>1, <1>3, RowsAdded DEF AnswerCounts

LEMMA OtherStepRows ==
    ASSUME Typed, RowsOf(interval), OtherStep
    PROVE  RowsOf(interval')
<1>1. PICK counts : Plain(counts) /\ Record(counts)
  BY OtherRecords DEF Typed, MetricsTypeOK, Recorded
<1>2. BagOf(counts, Cells) /\ RowsOf(counts)
  BY <1>1, OtherIsCell, Widened DEF Plain
<1> QED
  BY <1>1, <1>2, RowsAdded DEF Record

LEMMA ReportRows ==
    ASSUME Typed, RowsOf(interval), RowsOf(rows), ReportStep
    PROVE  RowsOf(interval') /\ RowsOf(rows')
<1>1. CASE UNCHANGED <<interval, rows, received, lost, happened>>
  BY <1>1
<1>2. CASE StatusMoves
  <2>1. /\ RowsOf(Remaining("status")) /\ BagOf(Remaining("status"), Cells)
        /\ RowsOf(StatusCounts) /\ BagOf(StatusCounts, Cells)
    BY <1>2, OtherIsCell, Widened DEF StatusMoves, SplitInto, Plain
  <2>2. RowsOf(Remaining("status") (+) StatusCounts)
    BY <2>1, RowsSum DEF Typed, MetricsTypeOK
  <2> QED
    BY <1>2, <2>2 DEF StatusMoves
<1>3. CASE DrainMoves
  BY <1>3 DEF DrainMoves, SplitInto
<1>4. CASE SendMoves
  BY <1>4 DEF SendMoves, SplitInto
<1> QED
  BY <1>1, <1>2, <1>3, <1>4, ReportMoves


(* Where the threads are.                                                  *)
LEMMA PlacesStep ==
    ASSUME Typed, Places, [MetricsNext]_metricsVars
    PROVE  Places'
<1> SUFFICES ASSUME NEW u \in Threads
             PROVE  /\ pc'[u] \in {"idle", "reconnecting"} => failed'[u] = {}
                    /\ todo'[u] \subseteq TablesOf(blocks)'
  BY DEF Places
<1> DEFINE At == /\ pc'[u] \in {"idle", "reconnecting"} => failed'[u] = {}
                 /\ todo'[u] \subseteq TablesOf(blocks)'
<1>0. /\ pc[u] \in {"idle", "reconnecting"} => failed[u] = {}
      /\ todo[u] \subseteq TablesOf(blocks)
      /\ pc \in [Threads -> {"idle", "block", "answered", "record", "late", "overrun", "reply",
                           "reconnecting"}]
      /\ failed \in [Threads -> SUBSET Tables] /\ todo \in [Threads -> SUBSET Tables]
      /\ Loop \in Threads
  BY DEF Places, Typed, MetricsTypeOK, Threads
<1>1. ASSUME NEW t \in Threads, BeginPoll(t)
      PROVE  At
  BY <1>0, <1>1 DEF BeginPoll, TablesOf
<1>2. ASSUME NEW t \in Threads, Request(t)
      PROVE  At
  BY <1>0, <1>2 DEF Request, TablesOf
<1>3. ASSUME NEW t \in Threads, Answer(t)
      PROVE  At
  <2>1. PICK n : AnswerCounts(t, n)
    BY <1>3, AnswerCount
  <2>2. /\ pc'[t] \in {"record", "block"} /\ \A w \in Threads \ {t} : pc'[w] = pc[w]
        /\ todo'[t] \in {TablesOf(blocks), {}} /\ \A w \in Threads \ {t} : todo'[w] = todo[w]
        /\ blocks' = blocks
    BY <1>0, <1>3 DEF Answer
  <2>3. \A w \in Threads \ {t} : failed'[w] = failed[w]
    BY <1>0, <2>1 DEF AnswerCounts
  <2> QED
    BY <1>0, <2>2, <2>3 DEF TablesOf
<1>4. ASSUME NEW t \in Threads, NEW table \in Tables, RecordPoll(t, table)
      PROVE  At
  BY <1>0, <1>4 DEF RecordPoll, TablesOf
<1>5. CASE InTime
  BY <1>0, <1>5 DEF InTime, Leave, TablesOf
<1>6. ASSUME NEW table \in Tables, RecordOverrun(table)
      PROVE  At
  BY <1>0, <1>6 DEF RecordOverrun, Leave, TablesOf
<1>7. CASE OtherStep
  <2>1. OtherFrame
    BY <1>7, OtherLeaves
  <2> QED
    BY <1>0, <2>1 DEF OtherFrame, Moves, TablesOf
<1>8. CASE ReportStep
  <2>1. UNCHANGED <<blocks, pc, failed, todo>>
    BY <1>8, ReportMoves DEF poll
  <2> QED
    BY <1>0, <2>1 DEF TablesOf
<1>9. CASE UNCHANGED metricsVars
  BY <1>0, <1>9 DEF metricsVars, poll, TablesOf
<1> QED
  BY <1>1, <1>2, <1>3, <1>4, <1>5, <1>6, <1>7, <1>8, <1>9, StepIs DEF PollStep

(* A step that counts neither cycles nor overruns.                         *)
LEMMA OwingIs == \A table, result : Owing(table, result) \in {0, 1}
BY DEF Owing

LEMMA OverrunsKept ==
    ASSUME Typed, Overruns,
           \A c \in Cells : c[1] = "poll" => Held(c)' = Held(c),
           \A table, result : Owing(table, result)' <= Owing(table, result)
    PROVE  Overruns'
<1> SUFFICES ASSUME NEW table \in Tables, NEW result \in Results
             PROVE  Held(<<"poll", table, result, "pollOverruns">>)' + Owing(table, result)'
                        <= Held(<<"poll", table, result, "pollCycles">>)'
  BY DEF Overruns
<1> DEFINE o == <<"poll", table, result, "pollOverruns">>
           c == <<"poll", table, result, "pollCycles">>
<1>1. o \in Cells /\ c \in Cells /\ o[1] = "poll" /\ c[1] = "poll"
  BY PollCellIs, PollCellFacts
<1>2. Held(o) + Owing(table, result) <= Held(c)
  BY DEF Overruns
<1> HIDE DEF o, c
<1>3. Held(o) \in Nat /\ Held(c) \in Nat
  BY CountsAre DEF Typed
<1>4. Owing(table, result) \in {0, 1} /\ Owing(table, result)' \in {0, 1}
  BY OwingIs DEF Owing
<1>5. Held(o)' = Held(o) /\ Held(c)' = Held(c) /\ Owing(table, result)' <= Owing(table, result)
  BY <1>1
<1>6. Held(o)' + Owing(table, result)' <= Held(c)'
  BY <1>2, <1>3, <1>4, <1>5
<1> QED
  BY <1>6 DEF o, c

LEMMA OwingKept ==
    ASSUME blocks' = blocks, UNCHANGED <<pc[Loop], todo[Loop], failed[Loop]>>
    PROVE  \A table, result : Owing(table, result)' = Owing(table, result)
BY DEF Owing, Result, TablesOf


(* A table is recorded: one cycle more, and if it is the loop's poll, an    *)
(* overrun may follow.                                                     *)
LEMMA RecordPollOverruns ==
    ASSUME Typed, Places, Overruns, NEW t \in Threads, NEW table \in Tables, RecordPoll(t, table)
    PROVE  Overruns'
<1> SUFFICES ASSUME NEW tb \in Tables, NEW result \in Results
             PROVE  Held(<<"poll", tb, result, "pollOverruns">>)' + Owing(tb, result)'
                        <= Held(<<"poll", tb, result, "pollCycles">>)'
  BY DEF Overruns
<1> DEFINE R == Result(t, table)
           x == Moved(t, table)
           b == interval (+) x
           o == <<"poll", tb, result, "pollOverruns">>
           c == <<"poll", tb, result, "pollCycles">>
           one == IF tb = table /\ result = R THEN 1 ELSE 0
<1>1. /\ interval' = b (+) SetToBag({<<"poll", table, R, "pollCycles">>})
      /\ happened' = happened (+) SetToBag({<<"poll", table, "pollCycles">>})
      /\ UNCHANGED <<rows, received, lost>>
  BY RecordPollIs DEF Cycle, RecordPoll, report
<1>2. R \in Results /\ "pollCycles" \in PollMeasures
  BY ResultIs, PollCellFacts
<1>3. /\ BagOf(x, Cells)
      /\ \A tb1, r, m : Count(<<"poll", tb1, r, m>>, x) =
                 IF tb1 = table /\ r = R THEN Count(<<"poll", table, m>>, stats[t]) ELSE 0
  BY MovedBag DEF Typed
<1>4. BagOf(interval, Cells)
  BY DEF Typed, MetricsTypeOK
<1>5. Count(o, x) = 0 /\ Count(c, x) = 0
  <2>1. /\ BagOf(stats[t], PollCells)
        /\ <<"poll", table, "pollCycles">> \notin PollCells
        /\ <<"poll", table, "pollOverruns">> \notin PollCells
    BY DEF Typed, MetricsTypeOK, PollCells, BlockMeasures
  <2>2. /\ Count(<<"poll", table, "pollCycles">>, stats[t]) = 0
        /\ Count(<<"poll", table, "pollOverruns">>, stats[t]) = 0
    BY <2>1 DEF BagOf, Count
  <2> QED
    BY <1>3, <2>2
<1> HIDE DEF x
<1>6. BagOf(b, Cells)
  BY <1>3, <1>4, BagSum
<1>7. \A d : Count(d, b) = Count(d, interval) + Count(d, x)
  BY <1>3, <1>4, CountSum
<1>8. R = Result(t, table)
  OBVIOUS
<1> HIDE DEF R, b
<1>9. \A d : Held(d)' = Held(d) + Count(d, b) - Count(d, interval)
                        + (IF d = <<"poll", table, R, "pollCycles">> THEN 1 ELSE 0)
  BY <1>1, <1>2, <1>6, OneHolds
<1>10. \A d : Count(d, interval) \in Nat /\ Held(d) \in Nat
  BY CountsAre DEF Typed
<1>11. Held(o)' = Held(o) /\ Held(c)' = Held(c) + one
  <2>1. /\ o # <<"poll", table, R, "pollCycles">>
        /\ c = <<"poll", table, R, "pollCycles">> <=> tb = table /\ result = R
    OBVIOUS
  <2> HIDE DEF o, c
  <2>2. /\ Count(o, b) = Count(o, interval) /\ Count(c, b) = Count(c, interval)
        /\ Count(o, interval) \in Nat /\ Count(c, interval) \in Nat
        /\ Held(o) \in Nat /\ Held(c) \in Nat
    BY <1>5, <1>7, <1>10
  <2> QED
    BY <1>9, <2>1, <2>2
<1>12. Owing(tb, result)' <= Owing(tb, result) + one
  <2>1. /\ UNCHANGED <<blocks, failed>> /\ TablesOf(blocks)' = TablesOf(blocks)
        /\ pc[t] = "record" /\ table \in todo[t]
        /\ pc'[t] = IF todo[t] = {table} THEN IF t = Loop THEN "late" ELSE "reply" ELSE "record"
        /\ todo'[t] = todo[t] \ {table}
        /\ \A w \in Threads \ {t} : pc'[w] = pc[w] /\ todo'[w] = todo[w]
    BY DEF RecordPoll, Typed, MetricsTypeOK, TablesOf
  <2>2. Result(Loop, tb)' = Result(Loop, tb) /\ Loop \in Threads
    BY <2>1 DEF Result, Threads
  <2>3. CASE t # Loop
    <3>1. UNCHANGED <<pc[Loop], todo[Loop], failed[Loop]>>
      BY <2>1, <2>2, <2>3
    <3>2. Owing(tb, result)' = Owing(tb, result)
      BY <2>1, <3>1, OwingKept
    <3>3. one \in {0, 1}
      OBVIOUS
    <3> QED
      BY <3>2, <3>3, OwingIs
  <2>4. CASE t = Loop /\ tb = table
    <3>1. Owing(tb, result)' = 0 \/ result = Result(Loop, table)
      BY <2>2, <2>4 DEF Owing
    <3>2. Owing(tb, result)' \in {0, 1} /\ Owing(tb, result) \in {0, 1}
      BY DEF Owing
    <3> QED
      BY <1>8, <2>4, <3>1, <3>2
  <2>5. CASE t = Loop /\ tb # table
    <3>1. Owing(tb, result)' = Owing(tb, result)
      BY <2>1, <2>2, <2>5 DEF Owing
    <3>2. one = 0
      BY <2>5
    <3> QED
      BY <3>1, <3>2, OwingIs
  <2> QED
    BY <2>3, <2>4, <2>5
<1>13. Held(o) + Owing(tb, result) <= Held(c)
  BY DEF Overruns
<1>14. Held(o) \in Nat /\ Held(c) \in Nat
  BY <1>10
<1>15. Owing(tb, result) \in {0, 1} /\ Owing(tb, result)' \in {0, 1} /\ one \in {0, 1}
  BY DEF Owing
<1> HIDE DEF o, c, one
<1>16. Held(o)' + Owing(tb, result)' <= Held(c)'
  BY <1>11, <1>12, <1>13, <1>14, <1>15
<1> QED
  BY <1>16 DEF o, c

(* An overrun is recorded: that of a table whose cycle has been recorded.  *)
LEMMA OverrunOverruns ==
    ASSUME Typed, Places, Overruns, NEW table \in Tables, RecordOverrun(table)
    PROVE  Overruns'
<1> SUFFICES ASSUME NEW tb \in Tables, NEW result \in Results
             PROVE  Held(<<"poll", tb, result, "pollOverruns">>)' + Owing(tb, result)'
                        <= Held(<<"poll", tb, result, "pollCycles">>)'
  BY DEF Overruns
<1> DEFINE R == Result(Loop, table)
           o == <<"poll", tb, result, "pollOverruns">>
           c == <<"poll", tb, result, "pollCycles">>
           one == IF tb = table /\ result = R THEN 1 ELSE 0
<1>1. /\ interval' = interval (+) SetToBag({<<"poll", table, R, "pollOverruns">>})
      /\ happened' = happened (+) SetToBag({<<"poll", table, "pollOverruns">>})
      /\ UNCHANGED <<rows, received, lost>>
  BY DEF RecordOverrun, Happens, report
<1>2. R \in Results /\ "pollOverruns" \in PollMeasures
  BY ResultIs, PollCellFacts
<1>3. R = Result(Loop, table)
  OBVIOUS
<1> HIDE DEF R
<1>4. \A d : Held(d)' = Held(d) + Count(d, interval) - Count(d, interval)
                        + (IF d = <<"poll", table, R, "pollOverruns">> THEN 1 ELSE 0)
  <2>1. BagOf(interval, Cells)
    BY DEF Typed, MetricsTypeOK
  <2> QED
    BY <1>1, <1>2, <2>1, OneHolds
<1>5. \A d : Count(d, interval) \in Nat /\ Held(d) \in Nat
  BY CountsAre DEF Typed
<1>6. Held(o)' = Held(o) + one /\ Held(c)' = Held(c)
  <2>1. /\ c # <<"poll", table, R, "pollOverruns">>
        /\ o = <<"poll", table, R, "pollOverruns">> <=> tb = table /\ result = R
    OBVIOUS
  <2> HIDE DEF o, c
  <2>2. /\ Count(o, interval) \in Nat /\ Count(c, interval) \in Nat
        /\ Held(o) \in Nat /\ Held(c) \in Nat
    BY <1>5
  <2> QED
    BY <1>4, <2>1, <2>2
<1>7. Owing(tb, result)' + one <= Owing(tb, result)
  <2>1. /\ pc[Loop] = "overrun" /\ table \in todo[Loop]
        /\ pc'[Loop] = IF todo[Loop] = {table} THEN "idle" ELSE "overrun"
        /\ todo'[Loop] = todo[Loop] \ {table}
        /\ todo[Loop] # {table} => failed'[Loop] = failed[Loop]
    BY DEF RecordOverrun, Typed, MetricsTypeOK, Threads
  <2>2. CASE todo[Loop] = {table}
    <3>1. Owing(tb, result)' = 0
      BY <2>1, <2>2 DEF Owing
    <3>2. one = 1 => Owing(tb, result) = 1
      BY <1>3, <2>1 DEF Owing
    <3> QED
      BY <3>1, <3>2, OwingIs
  <2>3. CASE todo[Loop] # {table}
    <3>1. Result(Loop, tb)' = Result(Loop, tb)
      BY <2>1, <2>3 DEF Result
    <3>2. CASE tb = table
      <4>1. Owing(tb, result)' = 0
        BY <2>1, <2>3, <3>2 DEF Owing
      <4>2. one = 1 => Owing(tb, result) = 1
        BY <1>3, <2>1 DEF Owing
      <4> QED
        BY <4>1, <4>2, OwingIs
    <3>3. CASE tb # table
      <4>1. Owing(tb, result)' = Owing(tb, result)
        BY <2>1, <2>3, <3>1, <3>3 DEF Owing
      <4>2. one = 0
        BY <3>3
      <4> QED
        BY <4>1, <4>2, OwingIs
    <3> QED
      BY <3>2, <3>3
  <2> QED
    BY <2>2, <2>3
<1>8. Held(o) + Owing(tb, result) <= Held(c)
  BY DEF Overruns
<1>9. Held(o) \in Nat /\ Held(c) \in Nat
  BY <1>5
<1>10. Owing(tb, result) \in {0, 1} /\ Owing(tb, result)' \in {0, 1} /\ one \in {0, 1}
  BY DEF Owing
<1> HIDE DEF o, c, one
<1>11. Held(o)' + Owing(tb, result)' <= Held(c)'
  BY <1>6, <1>7, <1>8, <1>9, <1>10
<1> QED
  BY <1>11 DEF o, c


LEMMA BalancingInit == MetricsInit => Balancing
<1> SUFFICES ASSUME MetricsInit
             PROVE  Balancing
  OBVIOUS
<1>1. Typed /\ blocks \in Plans
  BY TypesInit DEF MetricsInit
<1>2. interval = EmptyBag /\ rows = EmptyBag
  BY DEF MetricsInit
<1>3. RowsOf(EmptyBag)
  BY <1>1, PlainNothing DEF Plain
<1>4. PollStats
  <2>1. \A t \in Threads : \A table, m : Tally(t, table, m) = 0
    BY NoBag DEF MetricsInit, Tally
  <2>2. \A t \in Threads : \A table : ~ Counting(t, table)
    BY DEF MetricsInit, Counting
  <2> QED
    BY <2>1, <2>2 DEF PollStats
<1>5. Places
  BY DEF MetricsInit, Places
<1>6. Overruns
  <2>1. \A c : Held(c) = 0
    BY NoBag DEF Held, MetricsInit
  <2>2. pc[Loop] = "idle"
    BY DEF MetricsInit, Threads
  <2>3. \A table, result : Owing(table, result) = 0
    BY <2>2 DEF Owing
  <2> QED
    BY <2>1, <2>3 DEF Overruns
<1> QED
  BY <1>2, <1>3, <1>4, <1>5, <1>6 DEF Balancing

(* Every step keeps the rows, the stats of the polls, and the overruns.    *)
LEMMA RowsStep ==
    ASSUME Typed, Balancing, [MetricsNext]_metricsVars
    PROVE  RowsOf(interval)' /\ RowsOf(rows)'
<1>0. RowsOf(interval) /\ RowsOf(rows) /\ PollStats /\ Places
  BY DEF Balancing
<1> DEFINE Goal == blocks' = blocks /\ RowsOf(interval') /\ RowsOf(rows')
<1>1. ASSUME NEW t \in Threads, BeginPoll(t)
      PROVE  Goal
  BY <1>0, <1>1 DEF BeginPoll, report
<1>2. ASSUME NEW t \in Threads, Request(t)
      PROVE  Goal
  <2>1. blocks' = blocks /\ rows' = rows
    BY <1>2 DEF Request, report
  <2> QED
    BY <1>0, <1>2, <2>1, RequestRows
<1>3. ASSUME NEW t \in Threads, Answer(t)
      PROVE  Goal
  <2>1. blocks' = blocks /\ rows' = rows
    BY <1>3 DEF Answer, report
  <2> QED
    BY <1>0, <1>3, <2>1, AnswerRows
<1>4. ASSUME NEW t \in Threads, NEW table \in Tables, RecordPoll(t, table)
      PROVE  Goal
  <2>1. blocks' = blocks /\ rows' = rows
    BY <1>4 DEF RecordPoll, report
  <2> QED
    BY <1>0, <1>4, <2>1, RecordPollRows
<1>5. ASSUME InTime
      PROVE  Goal
  BY <1>0, <1>5 DEF InTime, report
<1>6. ASSUME NEW table \in Tables, RecordOverrun(table)
      PROVE  Goal
  <2>1. blocks' = blocks /\ rows' = rows
    BY <1>6 DEF RecordOverrun, report
  <2> QED
    BY <1>0, <1>6, <2>1, OverrunRows
<1>7. ASSUME OtherStep
      PROVE  Goal
  <2>1. blocks' = blocks /\ rows' = rows
    BY <1>7, OtherLeaves DEF OtherFrame
  <2> QED
    BY <1>0, <1>7, <2>1, OtherStepRows
<1>8. ASSUME ReportStep
      PROVE  Goal
  BY <1>0, <1>8, ReportMoves, ReportRows
<1>9. ASSUME UNCHANGED metricsVars
      PROVE  Goal
  BY <1>0, <1>9 DEF metricsVars, report
<1>10. Goal
  BY <1>1, <1>2, <1>3, <1>4, <1>5, <1>6, <1>7, <1>8, <1>9, StepIs DEF PollStep
<1> QED
  BY <1>10, RowsNext

LEMMA StatsStep ==
    ASSUME Typed, PollStats, Places, [MetricsNext]_metricsVars
    PROVE  PollStats'
<1>0. /\ pc \in [Threads -> {"idle", "block", "answered", "record", "late", "overrun", "reply",
                           "reconnecting"}]
      /\ Loop \in Threads
  BY DEF Typed, MetricsTypeOK, Threads
<1>1. ASSUME NEW t \in Threads, BeginPoll(t)
      PROVE  PollStats'
  BY <1>1, BeginStats
<1>2. ASSUME NEW t \in Threads, Request(t)
      PROVE  PollStats'
  <2>1. UNCHANGED <<blocks, stats, block, todo, failed>>
    BY <1>2 DEF Request
  <2>2. /\ pc[t] = "block" /\ pc'[t] = "answered"
        /\ \A u \in Threads \ {t} : pc'[u] = pc[u]
    BY <1>0, <1>2 DEF Request
  <2> QED
    BY <2>1, <2>2, StatsKept
<1>3. ASSUME NEW t \in Threads, Answer(t)
      PROVE  PollStats'
  BY <1>3, AnswerStats
<1>4. ASSUME NEW t \in Threads, NEW table \in Tables, RecordPoll(t, table)
      PROVE  PollStats'
  BY <1>4, RecordPollStats
<1>5. CASE InTime
  <2>1. UNCHANGED <<blocks, stats, block>>
    BY <1>5 DEF InTime
  <2>2. /\ pc[Loop] = "late" /\ pc'[Loop] \in {"idle", "overrun"}
        /\ \A u \in Threads \ {Loop} : UNCHANGED <<pc[u], todo[u], failed[u]>>
    BY <1>0, <1>5 DEF InTime, Leave, Typed, MetricsTypeOK
  <2> QED
    BY <2>1, <2>2, StatsKept
<1>6. ASSUME NEW table \in Tables, RecordOverrun(table)
      PROVE  PollStats'
  <2>1. UNCHANGED <<blocks, stats, block>>
    BY <1>6 DEF RecordOverrun
  <2>2. /\ pc[Loop] = "overrun" /\ pc'[Loop] \in {"idle", "overrun"}
        /\ \A u \in Threads \ {Loop} : UNCHANGED <<pc[u], todo[u], failed[u]>>
    BY <1>0, <1>6 DEF RecordOverrun, Leave, Typed, MetricsTypeOK
  <2> QED
    BY <2>1, <2>2, StatsKept
<1>7. CASE OtherStep
  <2>1. OtherFrame
    BY <1>7, OtherLeaves
  <2>2. UNCHANGED <<blocks, stats, block, todo>>
    BY <2>1 DEF OtherFrame
  <2>3. \A t \in Threads :
           \/ UNCHANGED <<pc[t], block[t], todo[t], failed[t]>>
           \/ /\ pc[t] \notin {"block", "answered", "record"}
              /\ pc'[t] \notin {"block", "answered", "record"}
    BY <2>1, <2>2 DEF OtherFrame, Moves
  <2> QED
    BY <2>2, <2>3, StatsKept
<1>8. CASE ReportStep
  <2>1. UNCHANGED <<blocks, pc, failed, todo, stats, block>>
    BY <1>8, ReportMoves DEF poll
  <2> QED
    BY <2>1, StatsKept
<1>9. CASE UNCHANGED metricsVars
  <2>1. UNCHANGED <<blocks, pc, failed, todo, stats, block>>
    BY <1>9 DEF metricsVars, poll
  <2> QED
    BY <2>1, StatsKept
<1> QED
  BY <1>1, <1>2, <1>3, <1>4, <1>5, <1>6, <1>7, <1>8, <1>9, StepIs DEF PollStep


LEMMA OverrunsStep ==
    ASSUME Typed, Places, Overruns, [MetricsNext]_metricsVars
    PROVE  Overruns'
<1>0. /\ pc \in [Threads -> {"idle", "block", "answered", "record", "late", "overrun", "reply",
                           "reconnecting"}]
      /\ todo \in [Threads -> SUBSET Tables] /\ failed \in [Threads -> SUBSET Tables]
      /\ Loop \in Threads
      /\ \A table, result : Owing(table, result) \in {0, 1}
      /\ \A c : Held(c) \in Nat
  BY OwingIs, CountsAre DEF Typed, MetricsTypeOK, Threads
<1>1. ASSUME NEW t \in Threads, BeginPoll(t)
      PROVE  Overruns'
  <2>1. \A c : Held(c)' = Held(c)
    BY <1>1 DEF BeginPoll, report, Held
  <2>2. \A table, result : Owing(table, result)' <= Owing(table, result)
    <3>1. CASE t = Loop
      <4>1. pc'[Loop] = "block"
        BY <1>0, <1>1, <3>1 DEF BeginPoll
      <4>2. \A table, result : Owing(table, result)' = 0
        BY <4>1 DEF Owing
      <4> QED
        BY <1>0, <4>2
    <3>2. CASE t # Loop
      <4>1. blocks' = blocks /\ UNCHANGED <<pc[Loop], todo[Loop], failed[Loop]>>
        BY <1>0, <1>1, <3>2 DEF BeginPoll
      <4>2. \A table, result : Owing(table, result)' = Owing(table, result)
        BY <4>1, OwingKept
      <4> QED
        BY <1>0, <4>2
    <3> QED
      BY <3>1, <3>2
  <2> QED
    BY <2>1, <2>2, OverrunsKept
<1>2. ASSUME NEW t \in Threads, Request(t)
      PROVE  Overruns'
  <2>1. \A c \in Cells : c[1] = "poll" => Held(c)' = Held(c)
    <3> DEFINE one == One("connection", "connectionDrops")
    <3>1. /\ interval' = interval \/ interval' = interval (+) one
          /\ UNCHANGED <<rows, received, lost>>
      BY <1>2 DEF Request, report
    <3>2. BagOf(one, OtherCells)
      BY OneBag, CellsAre
    <3> HIDE DEF one
    <3>3. \A c : c[1] = "poll" => Count(c, one) = 0
      BY <3>2 DEF BagOf, OtherCells, Count
    <3>4. \A c : Count(c, interval (+) one) = Count(c, interval) + Count(c, one)
      <4>1. BagOf(interval, Cells) /\ BagOf(one, Cells)
        BY <3>2, OtherIsCell, Widened DEF Typed, MetricsTypeOK
      <4> QED
        BY <4>1, CountSum
    <3>5. \A c : Count(c, interval) \in Nat
      BY CountsAre DEF Typed
    <3>6. \A c : c[1] = "poll" => Count(c, interval') = Count(c, interval)
      BY <3>1, <3>3, <3>4, <3>5
    <3> QED
      BY <3>1, <3>6 DEF Held
  <2>2. \A table, result : Owing(table, result)' <= Owing(table, result)
    <3>1. CASE t = Loop
      <4>1. pc'[Loop] = "answered"
        BY <1>0, <1>2, <3>1 DEF Request
      <4>2. \A table, result : Owing(table, result)' = 0
        BY <4>1 DEF Owing
      <4> QED
        BY <1>0, <4>2
    <3>2. CASE t # Loop
      <4>1. blocks' = blocks /\ UNCHANGED <<pc[Loop], todo[Loop], failed[Loop]>>
        BY <1>0, <1>2, <3>2 DEF Request
      <4>2. \A table, result : Owing(table, result)' = Owing(table, result)
        BY <4>1, OwingKept
      <4> QED
        BY <1>0, <4>2
    <3> QED
      BY <3>1, <3>2
  <2> QED
    BY <2>1, <2>2, OverrunsKept
<1>3. ASSUME NEW t \in Threads, Answer(t)
      PROVE  Overruns'
  <2>1. PICK n : AnswerCounts(t, n)
    BY <1>3, AnswerCount
  <2>2. \A c \in Cells : c[1] = "poll" => Held(c)' = Held(c)
    <3> DEFINE client == Client(n)
    <3>1. interval' = interval (+) client /\ UNCHANGED <<rows, received, lost>>
      BY <1>3, <2>1 DEF AnswerCounts, Answer, report
    <3>2. BagOf(client, OtherCells)
      BY <2>1, ClientPlain DEF AnswerCounts, Plain, Typed, MetricsTypeOK
    <3> HIDE DEF client
    <3>3. \A c : c[1] = "poll" => Count(c, client) = 0
      BY <3>2 DEF BagOf, OtherCells, Count
    <3>4. \A c : Count(c, interval (+) client) = Count(c, interval) + Count(c, client)
      <4>1. BagOf(interval, Cells) /\ BagOf(client, Cells)
        BY <3>2, OtherIsCell, Widened DEF Typed, MetricsTypeOK
      <4> QED
        BY <4>1, CountSum
    <3>5. \A c : Count(c, interval) \in Nat
      BY CountsAre DEF Typed
    <3>6. \A c : c[1] = "poll" => Count(c, interval') = Count(c, interval)
      BY <3>1, <3>3, <3>4, <3>5
    <3> QED
      BY <3>1, <3>6 DEF Held
  <2>3. \A table, result : Owing(table, result)' <= Owing(table, result)
    <3>0. /\ pc'[t] \in {"record", "block"} /\ blocks' = blocks
          /\ pc'[t] = "record" => todo'[t] = TablesOf(blocks)
          /\ \A w \in Threads \ {t} : pc'[w] = pc[w] /\ todo'[w] = todo[w]
      BY <1>0, <1>3 DEF Answer
    <3>1. CASE t = Loop
      <4>1. \A table, result : Owing(table, result)' = 0
        BY <3>0, <3>1 DEF Owing, TablesOf
      <4> QED
        BY <1>0, <4>1
    <3>2. CASE t # Loop
      <4>1. failed'[Loop] = failed[Loop]
        BY <1>0, <2>1, <3>2 DEF AnswerCounts
      <4>2. \A table, result : Owing(table, result)' = Owing(table, result)
        BY <1>0, <3>0, <3>2, <4>1, OwingKept
      <4> QED
        BY <1>0, <4>2
    <3> QED
      BY <3>1, <3>2
  <2> QED
    BY <2>2, <2>3, OverrunsKept
<1>4. ASSUME NEW t \in Threads, NEW table \in Tables, RecordPoll(t, table)
      PROVE  Overruns'
  BY <1>4, RecordPollOverruns
<1>5. CASE InTime
  <2>1. \A c : Held(c)' = Held(c)
    BY <1>5 DEF InTime, report, Held
  <2>2. \A table, result : Owing(table, result)' <= Owing(table, result)
    <3>1. pc[Loop] = "late" /\ blocks' = blocks
      BY <1>5 DEF InTime
    <3>2. CASE pc'[Loop] = "idle"
      <4>1. \A table, result : Owing(table, result)' = 0
        BY <3>2 DEF Owing
      <4> QED
        BY <1>0, <4>1
    <3>3. CASE pc'[Loop] = "overrun"
      <4>1. todo'[Loop] = TablesOf(blocks) /\ failed' = failed
        BY <1>0, <1>5, <3>3 DEF InTime
      <4>2. \A table : Result(Loop, table)' = Result(Loop, table)
        BY <4>1 DEF Result
      <4>3. \A table, result : Owing(table, result)' = Owing(table, result)
        BY <3>1, <3>3, <4>1, <4>2 DEF Owing
      <4> QED
        BY <1>0, <4>3
    <3> QED
      BY <1>0, <1>5, <3>2, <3>3 DEF InTime
  <2> QED
    BY <2>1, <2>2, OverrunsKept
<1>6. ASSUME NEW table \in Tables, RecordOverrun(table)
      PROVE  Overruns'
  BY <1>6, OverrunOverruns
<1>7. CASE OtherStep
  <2>1. PICK counts : Plain(counts) /\ Record(counts)
    BY <1>7, OtherRecords DEF Typed, MetricsTypeOK, Recorded
  <2>2. OtherFrame
    BY <1>7, OtherLeaves
  <2>3. \A c : Held(c)' = Held(c) + Count(c, counts)
    BY <2>1, <2>2, RecordHolds DEF Plain, OtherFrame
  <2>4. \A c : c[1] = "poll" => Count(c, counts) = 0
    BY <2>1 DEF Plain, BagOf, OtherCells, Count
  <2>5. \A c \in Cells : c[1] = "poll" => Held(c)' = Held(c)
    BY <1>0, <2>3, <2>4
  <2>6. blocks' = blocks /\ UNCHANGED todo
    BY <2>2 DEF OtherFrame
  <2>7. UNCHANGED <<pc[Loop], failed[Loop]>>
    BY <1>0, <2>2 DEF OtherFrame, Moves
  <2>8. \A table, result : Owing(table, result)' = Owing(table, result)
    BY <2>6, <2>7, OwingKept
  <2>9. \A table, result : Owing(table, result)' <= Owing(table, result)
    BY <1>0, <2>8
  <2> QED
    BY <2>5, <2>9, OverrunsKept
<1>8. CASE ReportStep
  <2>1. UNCHANGED <<blocks, pc, failed, todo>>
    BY <1>8, ReportMoves DEF poll
  <2>2. \A table, result : Owing(table, result)' = Owing(table, result)
    BY <2>1, OwingKept
  <2>3. \A table, result : Owing(table, result)' <= Owing(table, result)
    BY <1>0, <2>2
  <2>4. \A c \in Cells : c[1] = "poll" => Held(c)' = Held(c)
    <3>1. CASE UNCHANGED <<interval, rows, received, lost, happened>>
      BY <3>1 DEF Held
    <3>2. CASE StatusMoves
      <4>1. \A c : Held(c)' = Held(c) + Count(c, StatusCounts)
        BY <3>2, StatusHolds
      <4>2. \A c : c[1] = "poll" => Count(c, StatusCounts) = 0
        BY <3>2 DEF StatusMoves, Plain, BagOf, OtherCells, Count
      <4> QED
        BY <1>0, <4>1, <4>2
    <3>3. CASE DrainMoves \/ SendMoves
      BY <3>3, MovesHold
    <3> QED
      BY <1>8, <3>1, <3>2, <3>3, ReportMoves
  <2> QED
    BY <2>3, <2>4, OverrunsKept
<1>9. CASE UNCHANGED metricsVars
  <2>1. UNCHANGED <<blocks, pc, failed, todo, interval, rows, received, lost>>
    BY <1>9 DEF metricsVars, poll, report
  <2>2. \A table, result : Owing(table, result)' = Owing(table, result)
    BY <2>1, OwingKept
  <2>3. \A table, result : Owing(table, result)' <= Owing(table, result)
    BY <1>0, <2>2
  <2>4. \A c : Held(c)' = Held(c)
    BY <2>1 DEF Held
  <2> QED
    BY <2>3, <2>4, OverrunsKept
<1> QED
  BY <1>1, <1>2, <1>3, <1>4, <1>5, <1>6, <1>7, <1>8, <1>9, StepIs DEF PollStep

LEMMA BalancingImplies ==
    ASSUME Typed, Balancing
    PROVE  RowsBalance
<1>1. \A c : Count(c, Reported) = Held(c) /\ Held(c) \in Nat
  BY HeldIs, CountsAre DEF Typed
<1>2. ASSUME NEW table \in Tables, NEW result \in Results
      PROVE  Count(<<"poll", table, result, "pollOverruns">>, Reported)
              <= Count(<<"poll", table, result, "pollCycles">>, Reported)
  <2> DEFINE o == <<"poll", table, result, "pollOverruns">>
             c == <<"poll", table, result, "pollCycles">>
  <2>1. Held(o) + Owing(table, result) <= Held(c) /\ Owing(table, result) \in {0, 1}
    BY OwingIs DEF Balancing, Overruns
  <2> HIDE DEF o, c
  <2>2. Held(o) \in Nat /\ Held(c) \in Nat /\ Count(o, Reported) = Held(o) /\ Count(c, Reported) = Held(c)
    BY <1>1
  <2>3. Count(o, Reported) <= Count(c, Reported)
    BY <2>1, <2>2
  <2> QED
    BY <2>3 DEF o, c
<1> QED
  BY <1>2 DEF Balancing, RowsBalance

LEMMA AlwaysBalancing == MetricsSpec => [](Typed /\ Balancing)
<1>1. MetricsInit => Typed /\ Balancing
  BY TypesInit, BalancingInit
<1>2. (Typed /\ Balancing) /\ [MetricsNext]_metricsVars => (Typed /\ Balancing)'
  BY TypesStep, RowsStep, StatsStep, PlacesStep, OverrunsStep DEF Balancing
<1> QED
  BY <1>1, <1>2, PTL DEF MetricsSpec

(* Every row that is sent is a set of whole polls and commands: its signals, *)
(* read blocks and errors agree with its cycles and requests, for any plan,  *)
(* any number of threads and any order of recording, draining and sending;   *)
(* and no overrun is reported without its cycle.                             *)
THEOREM MetricsRowsBalance == MetricsSpec => []RowsBalance
BY AlwaysBalancing, BalancingImplies, PTL

=============================================================================
