------------------------ MODULE CommandSurface_proof ----------------------
(***************************************************************************)
(* Proofs about the command surface: about the batches of CommandService,  *)
(* for any callers, signals, values, batches and losses; about             *)
(* InstanceState, for any consoles, reports, changes of the link and       *)
(* pauses; about SignalInventory, for any poll groups and requests; and    *)
(* about the three side by side.                                           *)
(***************************************************************************)
EXTENDS MCCommandService, Induction

-----------------------------------------------------------------------------
(* The invariants.                                                         *)

\* A result says what the checks found or, for an entry that was tried, what
\* came of it.
Settled(c, i) ==
    /\ batch[c][i].ref # Malformed
    /\ \/ results[c][i] = Verdict(batch[c][i]) /\ results[c][i] \in Skipped
       \/ Verdict(batch[c][i]) = "attempt" /\ results[c][i] \in Attempted
    /\ results[c][i] = "ok" <=> i \in applied[c] \ silent[c]

\* What the slave carried out is settled, apart from the entry at hand between
\* its request and its answer.
Carried(c) ==
    /\ silent[c] \subseteq applied[c]
    /\ \A i \in applied[c] :
          /\ i \in 1..Len(batch[c]) /\ Verdict(batch[c][i]) = "attempt"
          /\ i \in 1..Len(results[c]) \/ (pc[c] = "sent" /\ i = AtHand(c))

\* Between a request and its audit a handler has in hand an entry that it may try.
InHand(c) ==
    /\ pc[c] = "sent" =>
          /\ verb[c] = "sb/write" /\ HasEntry(c)
          /\ Entry(c).ref # Malformed /\ Verdict(Entry(c)) = "attempt"
          /\ AtHand(c) \in applied[c] \ silent[c]
    /\ pc[c] = "audit" =>
          /\ verb[c] = "sb/write"
          /\ results[c] # <<>> /\ results[c][Len(results[c])] \in Attempted

\* The reply to a batch of results.
Answer(c) ==
    IF WordsOf(c) = {"refused"} THEN "WRITE_NOT_ALLOWED"
    ELSE IF WordsOf(c) \cap Failed # {} /\ "ok" \notin WordsOf(c) THEN "WRITE_FAILED"
    ELSE "ok"

WriteInv(c) ==
    /\ Len(results[c]) <= Len(batch[c])
    /\ verb[c] = "sb/write" => \A i \in 1..Len(results[c]) : Settled(c, i)
    /\ Carried(c)
    /\ InHand(c)
    /\ Replied(c, "sb/write") =>
          Len(results[c]) = Len(batch[c]) /\ reply[c] = Answer(c)

\* Each entry so far that could be resolved has its place in the reply, and what
\* was read there was held; the slave's present values are among those held.
ReadInv(c) ==
    verb[c] = "sb/read" =>
        /\ Len(reads[c]) = Resolved(batch[c], Len(results[c]))
        /\ \A k \in 1..Len(results[c]) : batch[c][k].ref # Unknown =>
              LET place == Resolved(batch[c], k)
              IN  /\ place \in 1..Len(reads[c])
                  /\ reads[c][place].signal = batch[c][k].ref
                  /\ reads[c][place].quality = "GOOD" =>
                        <<reads[c][place].signal, reads[c][place].value>> \in held[c]
        /\ pc[c] # "idle" => \A s \in Signals : <<s, registers[s]>> \in held[c]
        /\ Replied(c, "sb/read") => Len(results[c]) = Len(batch[c])

\* A write to s that the slave has carried out and the trail does not tell yet.
Owed(c, s) ==
    \/ pc[c] = "sent" /\ Entry(c).ref = s
    \/ pc[c] = "audit" /\ Event(c).ok /\ Event(c).signal = s

\* The value of that write.
OwedValue(c) == IF pc[c] = "sent" THEN Entry(c).value ELSE Event(c).value

\* The caller that wrote s last: it owes the event of that write, or has sent it
\* and no other of s since.
WroteLast(c, s) ==
    IF Owed(c, s) THEN registers[s] = OwedValue(c)
    ELSE \E i \in NewestOf(c, s) : registers[s] = trail[i].value

TrailInv ==
    losses = 0 => \A s \in Signals :
        \/ /\ registers[s] = FirstValue
           /\ \A c \in Callers : ~Owed(c, s) /\ NewestOf(c, s) = {}
        \/ \E c \in Callers : WroteLast(c, s)

BatchInv == \A c \in Callers : WriteInv(c) /\ ReadInv(c)

\* All that one caller may do.
Act(c) ==
    \/ \E body \in Writes : Begin(c, "sb/write", body)
    \/ \E body \in Reads : Begin(c, "sb/read", body)
    \/ Write(c)
    \/ ReadSkipped(c)
    \/ ReadArrives(c)
    \/ ReadFails(c)
    \/ FinishRead(c)
    \/ Abort(c)

-----------------------------------------------------------------------------
(* Facts about batches, verdicts and sequences.                            *)

LEMMA BatchType ==
    ASSUME TypeOK, NEW c \in Callers
    PROVE  batch[c] \in Seq(Entries)
<1>1. batch[c] \in Writes \cup Reads \cup {<<>>}
  BY DEF TypeOK
<1>2. <<>> \in Seq(Entries)
  BY EmptySeq
<1> HIDE DEF Entries
<1> QED
  BY <1>1, <1>2, BatchesAssumption

LEMMA ResultsType ==
    ASSUME TypeOK, NEW c \in Callers
    PROVE  /\ results[c] \in Seq(Words)
           /\ reads[c] \in Seq(Sample)
           /\ Len(results[c]) \in Nat /\ Len(batch[c]) \in Nat /\ Len(reads[c]) \in Nat
           /\ AtHand(c) \in Nat \ {0}
BY BatchType DEF TypeOK, AtHand

LEMMA EntryType ==
    ASSUME TypeOK, NEW c \in Callers, NEW i \in 1..Len(batch[c])
    PROVE  batch[c][i] \in Entries /\ batch[c][i].ref \in Refs
<1>1. batch[c][i] \in Entries
  BY BatchType, ElementOfSeq
<1> QED
  BY <1>1 DEF Entries

LEMMA AtHandType ==
    ASSUME TypeOK, NEW c \in Callers, HasEntry(c)
    PROVE  Entry(c) \in Entries /\ AtHand(c) \in 1..Len(batch[c])
<1>1. AtHand(c) \in 1..Len(batch[c])
  BY ResultsType DEF HasEntry
<1> QED
  BY <1>1, EntryType DEF Entry

\* What the checks let through names a signal on the list and has a value.
LEMMA VerdictMeans ==
    ASSUME NEW e \in Entries
    PROVE  /\ Verdict(e) \in Skipped \cup {"attempt"}
           /\ Verdict(e) = "attempt" =>
                 /\ e.ref \in Signals /\ e.ref \in Permitted \ (ReadOnly \cup BitSignals)
                 /\ e.value \in Values
           /\ e.ref # Malformed =>
                 (Verdict(e) = "refused" <=> e.ref \in Signals \ Permitted)
BY SignalsAssumption DEF Entries, Refs, Verdict, Skipped

\* Appending leaves what was there in place.
LEMMA Appended ==
    ASSUME NEW T, NEW s \in Seq(T), NEW x \in T
    PROVE  /\ Append(s, x) \in Seq(T)
           /\ Len(Append(s, x)) = Len(s) + 1
           /\ \A i \in 1..Len(s) : Append(s, x)[i] = s[i]
           /\ Append(s, x)[Len(s) + 1] = x
BY AppendProperties

LEMMA ResultAppended ==
    ASSUME TypeOK, NEW c \in Callers, NEW word \in Words, Result(c, word)
    PROVE  /\ results' \in [Callers -> Seq(Words)]
           /\ Len(results'[c]) = Len(results[c]) + 1
           /\ \A i \in 1..Len(results[c]) : results'[c][i] = results[c][i]
           /\ results'[c][Len(results[c]) + 1] = word
           /\ \A d \in Callers \ {c} : results'[d] = results[d]
<1>1. results'[c] = Append(results[c], word)
  BY DEF Result, TypeOK
<1>2. results[c] \in Seq(Words)
  BY DEF TypeOK
<1>3. Append(results[c], word) \in Seq(Words)
  BY <1>2, Appended
<1> QED
  BY <1>1, <1>2, <1>3, Appended DEF Result, TypeOK

\* Counting the refs that can be resolved goes entry by entry.
LEMMA ResolvedFrom ==
    ASSUME NEW body
    PROVE  Resolved(body, 0) = 0
<1>1. {i \in 1..0 : body[i].ref # Unknown} = {}
  OBVIOUS
<1> QED
  BY <1>1, FS_EmptySet DEF Resolved

LEMMA ResolvedNext ==
    ASSUME NEW body, NEW k \in Nat
    PROVE  /\ Resolved(body, k) \in Nat
           /\ Resolved(body, k + 1) =
                 IF body[k + 1].ref # Unknown THEN Resolved(body, k) + 1 ELSE Resolved(body, k)
<1> DEFINE So(n) == {i \in 1..n : body[i].ref # Unknown}
<1>1. IsFiniteSet(1..k)
  BY FS_Interval
<1>2. IsFiniteSet(So(k)) /\ Cardinality(So(k)) \in Nat
  BY <1>1, FS_Subset, FS_CardinalityType
<1>3. CASE body[k + 1].ref # Unknown
  <2>1. So(k + 1) = So(k) \cup {k + 1} /\ k + 1 \notin So(k)
    BY <1>3
  <2> QED
    BY <1>2, <1>3, <2>1, FS_AddElement DEF Resolved
<1>4. CASE body[k + 1].ref = Unknown
  <2>1. So(k + 1) = So(k)
    BY <1>4
  <2> QED
    BY <1>2, <1>4, <2>1 DEF Resolved
<1> QED
  BY <1>3, <1>4

-----------------------------------------------------------------------------
(* Types.  The event of an audit has them because of InHand.               *)

EventType == [caller : Callers, signal : Signals, value : Values, ok : BOOLEAN]

LEMMA TypedInit == Init => TypeOK
<1> SUFFICES ASSUME Init PROVE TypeOK
  OBVIOUS
<1>1. results \in [Callers -> Seq(Words)] /\ reads \in [Callers -> Seq(Sample)] /\ trail = <<>>
  BY EmptySeq DEF Init
<1>2. trail \in Seq(EventType)
  BY <1>1, EmptySeq
<1> QED
  BY <1>1, <1>2, ValuesAssumption DEF Init, TypeOK, EventType

LEMMA EventTyped ==
    ASSUME TypeOK, NEW c \in Callers, WriteInv(c), pc[c] = "audit"
    PROVE  /\ Event(c) \in EventType
           /\ Len(results[c]) \in 1..Len(batch[c]) /\ Len(results[c]) \in 1..Len(results[c])
           /\ Event(c).ok <=> results[c][Len(results[c])] = "ok"
           /\ Event(c).caller = c
           /\ Event(c).signal = batch[c][Len(results[c])].ref
           /\ Event(c).value = batch[c][Len(results[c])].value
<1>1. results[c] # <<>> /\ verb[c] = "sb/write" /\ results[c][Len(results[c])] \in Attempted
  BY DEF WriteInv, InHand
<1>2. Len(results[c]) \in 1..Len(batch[c]) /\ Len(results[c]) \in 1..Len(results[c])
  BY <1>1, ResultsType, EmptySeq DEF WriteInv
<1>3. Settled(c, Len(results[c]))
  BY <1>1, <1>2 DEF WriteInv
<1>4. Verdict(batch[c][Len(results[c])]) = "attempt"
  BY <1>1, <1>3 DEF Settled, Attempted, Failed, Skipped
<1>5. /\ batch[c][Len(results[c])].ref \in Signals
      /\ batch[c][Len(results[c])].value \in Values
  BY <1>2, <1>4, EntryType, VerdictMeans
<1> QED
  BY <1>2, <1>5 DEF Event, EventType

LEMMA TypedStep ==
    ASSUME TypeOK, NEW c \in Callers, WriteInv(c), Act(c)
    PROVE  TypeOK'
<1> USE DEF Goto, handling, history
<1>1. ASSUME NEW body \in Writes \cup Reads, NEW name \in {"sb/write", "sb/read"},
             Begin(c, name, body)
      PROVE  TypeOK'
  <2>1. <<>> \in Seq(Words) /\ <<>> \in Seq(Sample)
    BY EmptySeq
  <2>2. {<<s, registers[s]>> : s \in Signals} \subseteq Signals \X Values
    BY DEF TypeOK
  <2> QED
    BY <1>1, <2>1, <2>2 DEF Begin, TypeOK
<1>2. CASE Skip(c)
  <2>1. Verdict(Entry(c)) \in Words
    BY <1>2 DEF Skip, Words
  <2> QED
    BY <1>2, <2>1, ResultAppended DEF Skip, TypeOK
<1>3. ASSUME NEW word \in Words, Settle(c, word) PROVE TypeOK'
  BY <1>3, ResultAppended DEF Settle, TypeOK
<1>4. CASE Apply(c)
  <2>1. Entry(c).ref \in Signals /\ Entry(c).value \in Values /\ AtHand(c) \in Nat
    BY <1>4, AtHandType, VerdictMeans DEF Apply, At
  <2>2. registers' \in [Signals -> Values]
    BY <1>4, <2>1 DEF Apply, TypeOK
  <2>3. held' \in [Callers -> SUBSET (Signals \X Values)]
    BY <1>4, <2>1 DEF Apply, TypeOK
  <2>4. applied' \in [Callers -> SUBSET Nat]
    BY <1>4, <2>1 DEF Apply, TypeOK
  <2>5. pc' \in [Callers -> {"idle", "entry", "sent", "audit"}]
    BY <1>4 DEF Apply, TypeOK
  <2> QED
    BY <1>4, <2>2, <2>3, <2>4, <2>5 DEF Apply, TypeOK
<1>5. CASE Answered(c)
  <2>1. "ok" \in Words
    BY DEF Words, Attempted
  <2> QED
    BY <1>5, <2>1, ResultAppended DEF Answered, TypeOK
<1>6. CASE Unanswered(c)
  <2>1. "unanswered" \in Words /\ AtHand(c) \in Nat
    BY ResultsType DEF Words, Attempted, Failed
  <2>2. results' \in [Callers -> Seq(Words)]
    BY <1>6, <2>1, ResultAppended DEF Unanswered
  <2>3. silent' \in [Callers -> SUBSET Nat]
    BY <1>6, <2>1 DEF Unanswered, TypeOK
  <2> QED
    BY <1>6, <2>2, <2>3 DEF Unanswered, TypeOK
<1>7. CASE AuditArrives(c)
  <2>1. Event(c) \in EventType
    BY <1>7, EventTyped DEF AuditArrives
  <2>2. trail' \in Seq(EventType)
    BY <1>7, <2>1, Appended DEF AuditArrives, TypeOK, EventType
  <2> QED
    BY <1>7, <2>2 DEF AuditArrives, TypeOK, EventType
<1>8. CASE AuditLost(c)
  BY <1>8 DEF AuditLost, TypeOK
<1>9. CASE FinishWrite(c)
  BY <1>9 DEF FinishWrite, TypeOK
<1>10. CASE ReadSkipped(c)
  <2>1. "unresolvable" \in Words
    BY DEF Words, Skipped
  <2> QED
    BY <1>10, <2>1, ResultAppended DEF ReadSkipped, TypeOK
<1>11. ASSUME NEW word \in {"good", "bad"}, NEW quality \in {"GOOD", "BAD"},
              NEW value \in Values \cup {Absent}, ReadOne(c, word, quality, value)
       PROVE  TypeOK'
  <2>1. word \in Words
    BY DEF Words
  <2>2. Entry(c).ref \in Signals
    BY <1>11, AtHandType DEF ReadOne, At, Entries, Refs
  <2>3. reads' \in [Callers -> Seq(Sample)]
    BY <1>11, <2>2, ResultsType, Appended DEF ReadOne, TypeOK, Sample
  <2> QED
    BY <1>11, <2>1, <2>3, ResultAppended DEF ReadOne, TypeOK
<1>12. CASE ReadArrives(c)
  <2>1. Entry(c).ref \in Signals
    BY <1>12, AtHandType DEF ReadArrives, ReadOne, At, Entries, Refs
  <2> QED
    BY <1>11, <1>12, <2>1 DEF ReadArrives, TypeOK
<1>13. CASE FinishRead(c)
  BY <1>13 DEF FinishRead, TypeOK
<1>14. CASE Abort(c)
  BY <1>14 DEF Abort, TypeOK
<1>15. "unencodable" \in Words /\ "rejected" \in Words
  BY DEF Words, Attempted, Failed
<1> QED
  BY <1>1, <1>2, <1>3, <1>4, <1>5, <1>6, <1>7, <1>8, <1>9, <1>10, <1>11, <1>12, <1>13, <1>14,
     <1>15 DEF Act, Write, EncodeFails, Rejected, ReadFails

-----------------------------------------------------------------------------
(* A batch of writes.                                                      *)

\* A step of one caller leaves what the others have in hand.
LEMMA OthersKept ==
    ASSUME TypeOK, NEW c \in Callers, Act(c), NEW d \in Callers \ {c}
    PROVE  /\ pc'[d] = pc[d] /\ verb'[d] = verb[d] /\ batch'[d] = batch[d]
           /\ results'[d] = results[d] /\ reads'[d] = reads[d] /\ reply'[d] = reply[d]
           /\ applied'[d] = applied[d] /\ silent'[d] = silent[d]
<1> USE DEF TypeOK, Goto, handling, history, Result
<1>1. ASSUME NEW body, NEW name, Begin(c, name, body)
      PROVE  /\ pc'[d] = pc[d] /\ verb'[d] = verb[d] /\ batch'[d] = batch[d]
             /\ results'[d] = results[d] /\ reads'[d] = reads[d] /\ reply'[d] = reply[d]
             /\ applied'[d] = applied[d] /\ silent'[d] = silent[d]
  BY <1>1 DEF Begin
<1>2. CASE Skip(c) \/ EncodeFails(c) \/ Rejected(c) \/ Apply(c) \/ Answered(c) \/ Unanswered(c)
  BY <1>2 DEF Skip, EncodeFails, Rejected, Settle, Apply, Answered, Unanswered
<1>3. CASE AuditArrives(c) \/ AuditLost(c) \/ FinishWrite(c) \/ FinishRead(c) \/ Abort(c)
  BY <1>3 DEF AuditArrives, AuditLost, FinishWrite, FinishRead, Abort
<1>4. CASE ReadSkipped(c) \/ ReadArrives(c) \/ ReadFails(c)
  BY <1>4 DEF ReadSkipped, ReadArrives, ReadFails, ReadOne
<1> QED
  BY <1>1, <1>2, <1>3, <1>4 DEF Act, Write

LEMMA WriteKept ==
    ASSUME NEW d, WriteInv(d),
           /\ pc'[d] = pc[d] /\ verb'[d] = verb[d] /\ batch'[d] = batch[d]
           /\ results'[d] = results[d] /\ reply'[d] = reply[d]
           /\ applied'[d] = applied[d] /\ silent'[d] = silent[d]
    PROVE  WriteInv(d)'
<1>1. ASSUME NEW i, Settled(d, i) PROVE Settled(d, i)'
  BY <1>1 DEF Settled
<1>2. Carried(d)'
  BY DEF WriteInv, Carried, AtHand
<1>3. InHand(d)'
  BY DEF WriteInv, InHand, HasEntry, AtHand, Entry
<1>4. Replied(d, "sb/write")' => Len(results'[d]) = Len(batch'[d]) /\ reply'[d] = Answer(d)'
  BY ZenonT(60) DEF WriteInv, Replied, Answer, WordsOf
<1> QED
  BY <1>1, <1>2, <1>3, <1>4 DEF WriteInv

LEMMA WriteInit == TypeOK /\ Init => \A c \in Callers : WriteInv(c)
<1> SUFFICES ASSUME TypeOK, Init, NEW c \in Callers PROVE WriteInv(c)
  OBVIOUS
<1>1. /\ pc[c] = "idle" /\ results[c] = <<>> /\ batch[c] = <<>> /\ reply[c] = "none"
      /\ applied[c] = {} /\ silent[c] = {}
  BY DEF Init
<1>2. Len(<<>>) = 0
  OBVIOUS
<1> QED
  BY <1>1, <1>2 DEF WriteInv, Carried, InHand, Replied

\* The entry at hand gets its result.
LEMMA SettleNext ==
    ASSUME TypeOK, NEW c \in Callers, WriteInv(c), NEW word \in Skipped \cup Attempted,
           Result(c, word), HasEntry(c), Entry(c).ref # Malformed,
           \/ word = Verdict(Entry(c)) /\ word \in Skipped
           \/ Verdict(Entry(c)) = "attempt" /\ word \in Attempted,
           UNCHANGED <<verb, batch, applied>>, verb[c] = "sb/write", pc[c] # "idle",
           silent'[c] \subseteq applied[c],
           silent'[c] \ {AtHand(c)} = silent[c] \ {AtHand(c)},
           word = "ok" <=> AtHand(c) \in applied[c] \ silent'[c]
    PROVE  /\ Len(results'[c]) = AtHand(c) /\ Len(results'[c]) <= Len(batch'[c])
           /\ results'[c][Len(results'[c])] = word
           /\ \A i \in 1..Len(results'[c]) : Settled(c, i)'
<1>1. word \in Words
  BY DEF Words
<1>2. /\ Len(results'[c]) = Len(results[c]) + 1
      /\ \A i \in 1..Len(results[c]) : results'[c][i] = results[c][i]
      /\ results'[c][Len(results[c]) + 1] = word
  BY <1>1, ResultAppended
<1>3. Len(results[c]) \in Nat /\ Len(batch[c]) \in Nat
  BY ResultsType
<1>4. ASSUME NEW i \in 1..Len(results[c]) PROVE Settled(c, i)'
  <2>1. Settled(c, i)
    BY <1>4 DEF WriteInv
  <2>2. i # AtHand(c)
    BY <1>3 DEF AtHand
  <2> QED
    BY <1>2, <2>1, <2>2 DEF Settled
<1>5. ASSUME NEW i \in Nat, i = AtHand(c) PROVE Settled(c, i)'
  <2>1. results'[c][i] = word /\ batch'[c][i] = Entry(c)
    BY <1>2, <1>5 DEF AtHand, Entry
  <2>2. word = "ok" <=> i \in applied'[c] \ silent'[c]
    BY <1>5
  <2> QED
    BY <2>1, <2>2 DEF Settled
<1>6. Len(results'[c]) = AtHand(c) /\ AtHand(c) <= Len(batch[c]) /\ AtHand(c) \in Nat
  BY <1>2, <1>3 DEF AtHand, HasEntry
<1>7. \A i \in 1..AtHand(c) : i \in 1..Len(results[c]) \/ i = AtHand(c)
  BY <1>3 DEF AtHand
<1> QED
  BY <1>2, <1>4, <1>5, <1>6, <1>7 DEF AtHand

\* Past its checks, without a request under way, an entry is not carried out.
LEMMA NotYetApplied ==
    ASSUME TypeOK, NEW c \in Callers, WriteInv(c), pc[c] # "sent"
    PROVE  AtHand(c) \notin applied[c] /\ AtHand(c) \notin silent[c]
<1>1. AtHand(c) \notin 1..Len(results[c])
  BY ResultsType DEF AtHand
<1> QED
  BY <1>1 DEF WriteInv, Carried

LEMMA WriteStep ==
    ASSUME TypeOK, NEW c \in Callers, WriteInv(c), Act(c)
    PROVE  WriteInv(c)'
<1> USE DEF Goto, handling, history
<1>0. /\ Len(results[c]) \in Nat /\ Len(batch[c]) \in Nat
      /\ "attempt" \notin Skipped /\ "ok" \notin Skipped
      /\ "unencodable" \in Attempted \ {"ok"} /\ "rejected" \in Attempted \ {"ok"}
      /\ "unanswered" \in Attempted \ {"ok"} /\ "ok" \in Attempted
  BY ResultsType DEF Skipped, Attempted, Failed
<1>1. ASSUME NEW body \in Writes \cup Reads, NEW name \in {"sb/write", "sb/read"},
             Begin(c, name, body)
      PROVE  WriteInv(c)'
  <2>1. /\ results'[c] = <<>> /\ batch'[c] = body /\ applied'[c] = {} /\ silent'[c] = {}
        /\ pc'[c] = "entry"
    BY <1>1 DEF Begin, TypeOK
  <2>2. Len(body) \in Nat
    BY BatchesAssumption
  <2> QED
    BY <2>1, <2>2 DEF WriteInv, Carried, InHand, Replied
<1>2. CASE Skip(c)
  <2>1. Verdict(Entry(c)) # "ok" /\ pc'[c] = "entry" /\ pc[c] = "entry"
    BY <1>0, <1>2 DEF Skip
  <2>2. /\ Len(results'[c]) = AtHand(c) /\ Len(results'[c]) <= Len(batch'[c])
        /\ \A i \in 1..Len(results'[c]) : Settled(c, i)'
    BY <1>2, <2>1, SettleNext, NotYetApplied DEF Skip, At, WriteInv, Carried
  <2> QED
    BY <1>0, <1>2, <2>1, <2>2 DEF Skip, WriteInv, Carried, InHand, Replied, AtHand
<1>3. ASSUME NEW word \in Attempted \ {"ok"}, Settle(c, word) PROVE WriteInv(c)'
  <2>1. pc'[c] = "audit" /\ pc[c] = "entry" /\ verb'[c] = "sb/write"
    BY <1>3 DEF Settle, At, TypeOK
  <2>2. /\ Len(results'[c]) = AtHand(c) /\ Len(results'[c]) <= Len(batch'[c])
        /\ results'[c][Len(results'[c])] = word
        /\ \A i \in 1..Len(results'[c]) : Settled(c, i)'
    BY <1>3, <2>1, SettleNext, NotYetApplied DEF Settle, At, WriteInv, Carried
  <2>3. results'[c] # <<>>
    BY <1>0, <2>2 DEF AtHand
  <2> QED
    BY <1>0, <1>3, <2>1, <2>2, <2>3 DEF Settle, WriteInv, Carried, InHand, Replied, AtHand
<1>4. CASE Apply(c)
  <2>1. /\ pc'[c] = "sent" /\ pc[c] = "entry" /\ verb[c] = "sb/write" /\ HasEntry(c)
        /\ Entry(c).ref # Malformed /\ Verdict(Entry(c)) = "attempt"
        /\ applied'[c] = applied[c] \cup {AtHand(c)}
        /\ UNCHANGED <<verb, batch, results, silent>>
    BY <1>4 DEF Apply, At, TypeOK
  <2>2. AtHand(c) \notin applied[c] /\ AtHand(c) \notin silent[c]
    BY <2>1, NotYetApplied
  <2>3. AtHand(c) \in 1..Len(batch[c]) /\ AtHand(c) \notin 1..Len(results[c])
    BY <1>0, <2>1, AtHandType DEF AtHand
  <2>4. \A i \in 1..Len(results[c]) : Settled(c, i)'
    BY <2>1, <2>3 DEF WriteInv, Settled
  <2>5. Carried(c)'
    BY <2>1, <2>3 DEF WriteInv, Carried, AtHand, Entry
  <2>6. InHand(c)'
    BY <2>1, <2>2 DEF InHand, HasEntry, AtHand, Entry
  <2> QED
    BY <2>1, <2>4, <2>5, <2>6 DEF WriteInv, Replied
<1>5. ASSUME NEW word \in {"ok", "unanswered"}, Goto(c, "sent", "audit"), Result(c, word),
             UNCHANGED <<verb, batch, applied>>,
             silent'[c] = IF word = "ok" THEN silent[c] ELSE silent[c] \cup {AtHand(c)}
      PROVE  WriteInv(c)'
  <2>1. /\ pc'[c] = "audit" /\ pc[c] = "sent" /\ verb[c] = "sb/write" /\ HasEntry(c)
        /\ Entry(c).ref # Malformed /\ Verdict(Entry(c)) = "attempt"
        /\ AtHand(c) \in applied[c] \ silent[c]
    BY <1>5 DEF WriteInv, InHand, TypeOK
  <2>2. silent'[c] \subseteq applied[c]
    BY <1>5, <2>1 DEF WriteInv, Carried
  <2>3. word \in Attempted
    BY <1>0
  <2>4. /\ Len(results'[c]) = AtHand(c) /\ Len(results'[c]) <= Len(batch'[c])
        /\ results'[c][Len(results'[c])] = word
        /\ \A i \in 1..Len(results'[c]) : Settled(c, i)'
    BY <1>5, <2>1, <2>2, <2>3, SettleNext
  <2>5. Carried(c)'
    BY <1>0, <1>5, <2>1, <2>2, <2>4 DEF WriteInv, Carried, AtHand
  <2>6. results'[c] # <<>>
    BY <1>0, <2>4 DEF AtHand
  <2> QED
    BY <1>5, <2>1, <2>3, <2>4, <2>5, <2>6 DEF WriteInv, InHand, Replied
<1>6. CASE AuditArrives(c) \/ AuditLost(c)
  <2>1. pc'[c] = "entry" /\ pc[c] = "audit" /\ UNCHANGED <<verb, batch, results, applied, silent>>
    BY <1>6 DEF AuditArrives, AuditLost, TypeOK
  <2> QED
    BY <2>1 DEF WriteInv, Settled, Carried, InHand, Replied, AtHand
<1>7. CASE FinishWrite(c)
  <2>1. /\ pc'[c] = "idle" /\ pc[c] = "entry" /\ reply'[c] = Answer(c)
        /\ UNCHANGED <<verb, batch, results, applied, silent>>
    BY <1>7 DEF FinishWrite, TypeOK, Answer
  <2>2. Len(results[c]) = Len(batch[c])
    BY <1>0, <1>7 DEF FinishWrite, WriteInv, HasEntry, AtHand
  <2> QED
    BY <2>1, <2>2 DEF WriteInv, Settled, Carried, InHand, Replied, AtHand, Answer, WordsOf
<1>8. ASSUME NEW word \in Words, Result(c, word), verb[c] = "sb/read", pc[c] = "entry", HasEntry(c),
             UNCHANGED <<pc, verb, batch, applied, silent>>
      PROVE  WriteInv(c)'
  <2>1. Len(results'[c]) = Len(results[c]) + 1
    BY <1>8, ResultAppended
  <2> QED
    BY <1>0, <1>8, <2>1 DEF WriteInv, Carried, InHand, Replied, HasEntry, AtHand
<1>9. CASE FinishRead(c)
  <2>1. /\ pc'[c] = "idle" /\ pc[c] = "entry" /\ verb[c] = "sb/read"
        /\ UNCHANGED <<verb, batch, results, applied, silent>>
    BY <1>9 DEF FinishRead, TypeOK
  <2> QED
    BY <2>1 DEF WriteInv, Carried, InHand, Replied, AtHand
<1>10. CASE Abort(c)
  <2>1. /\ pc'[c] = "idle" /\ pc[c] = "entry" /\ reply'[c] = "error"
        /\ UNCHANGED <<verb, batch, results, applied, silent>>
    BY <1>10 DEF Abort, TypeOK
  <2> QED
    BY <2>1 DEF WriteInv, Settled, Carried, InHand, Replied, AtHand
<1>11. CASE Write(c)
  BY <1>0, <1>2, <1>3, <1>4, <1>5, <1>6, <1>7, <1>11
     DEF Write, EncodeFails, Rejected, Answered, Unanswered, TypeOK
<1>12. CASE ReadSkipped(c) \/ ReadArrives(c) \/ ReadFails(c)
  <2>1. "unresolvable" \in Words /\ "good" \in Words /\ "bad" \in Words
    BY DEF Words, Skipped
  <2> QED
    BY <1>8, <1>12, <2>1 DEF ReadSkipped, ReadArrives, ReadFails, ReadOne, At
<1> QED
  BY <1>1, <1>9, <1>10, <1>11, <1>12 DEF Act

-----------------------------------------------------------------------------
(* A batch of reads.                                                       *)

Holds(d) == \A s \in Signals : <<s, registers[s]>> \in held[d]

\* A write reaches the histories of all reads under way, and nothing but the
\* beginning of a batch takes anything from them.
LEMMA HeldGrows ==
    ASSUME TypeOK, NEW c \in Callers, Write(c), NEW d \in Callers
    PROVE  /\ held[d] \subseteq held'[d]
           /\ pc[d] # "idle" /\ verb[d] = "sb/read" /\ Holds(d) => Holds(d)'
<1>1. CASE Apply(c)
  <2>1. /\ registers' = [registers EXCEPT ![Entry(c).ref] = Entry(c).value]
        /\ held'[d] = IF pc[d] # "idle" /\ verb[d] = "sb/read"
                      THEN held[d] \cup {<<Entry(c).ref, Entry(c).value>>} ELSE held[d]
    BY <1>1 DEF Apply
  <2> QED
    BY <2>1 DEF Holds, TypeOK
<1>2. CASE UNCHANGED <<registers, held>>
  BY <1>2 DEF Holds
<1>3. Apply(c) \/ UNCHANGED <<registers, held>>
  BY DEF Write, Skip, EncodeFails, Rejected, Settle, Answered, Unanswered, AuditArrives, AuditLost,
         FinishWrite, history
<1> QED
  BY <1>1, <1>2, <1>3

LEMMA ReadKept ==
    ASSUME NEW d, ReadInv(d), held[d] \subseteq held'[d],
           pc[d] # "idle" /\ verb[d] = "sb/read" /\ Holds(d) => Holds(d)',
           /\ pc'[d] = pc[d] /\ verb'[d] = verb[d] /\ batch'[d] = batch[d]
           /\ results'[d] = results[d] /\ reads'[d] = reads[d] /\ reply'[d] = reply[d]
    PROVE  ReadInv(d)'
<1> SUFFICES ASSUME verb[d] = "sb/read" PROVE ReadInv(d)'
  BY DEF ReadInv
<1>1. Len(reads'[d]) = Resolved(batch'[d], Len(results'[d]))
  BY DEF ReadInv
<1>2. ASSUME NEW k \in 1..Len(results'[d]), batch'[d][k].ref # Unknown
      PROVE  LET place == Resolved(batch'[d], k)
             IN  /\ place \in 1..Len(reads'[d])
                 /\ reads'[d][place].signal = batch'[d][k].ref
                 /\ reads'[d][place].quality = "GOOD" =>
                       <<reads'[d][place].signal, reads'[d][place].value>> \in held'[d]
  BY <1>2 DEF ReadInv
<1>3. pc'[d] # "idle" => Holds(d)'
  BY DEF ReadInv, Holds
<1>4. Replied(d, "sb/read")' => Len(results'[d]) = Len(batch'[d])
  BY DEF ReadInv, Replied
<1> QED
  BY <1>1, <1>2, <1>3, <1>4 DEF ReadInv, Holds

LEMMA ReadInit == TypeOK /\ Init => \A c \in Callers : ReadInv(c)
BY DEF Init, ReadInv

\* The entry at hand has its result and, if it could be resolved, its place.
LEMMA ReadNext ==
    ASSUME TypeOK, NEW c \in Callers, ReadInv(c), pc[c] = "entry", At(c, "sb/read"),
           NEW word \in Words, Result(c, word),
           UNCHANGED <<registers, pc, verb, batch, held, reply>>,
           \/ Entry(c).ref = Unknown /\ UNCHANGED reads
           \/ /\ Entry(c).ref # Unknown
              /\ \E read \in Sample :
                    /\ reads'[c] = Append(reads[c], read)
                    /\ read.signal = Entry(c).ref
                    /\ read.quality = "GOOD" => <<read.signal, read.value>> \in held[c]
    PROVE  ReadInv(c)'
<1> DEFINE n == Len(results[c])
<1>1. /\ Len(results'[c]) = n + 1 /\ n \in Nat
  BY ResultAppended, ResultsType
<1>2. /\ Resolved(batch[c], n) = Len(reads[c]) /\ Len(reads[c]) \in Nat /\ Holds(c)
      /\ \A k \in 1..n : batch[c][k].ref # Unknown =>
            /\ Resolved(batch[c], k) \in 1..Len(reads[c])
            /\ reads[c][Resolved(batch[c], k)].signal = batch[c][k].ref
            /\ reads[c][Resolved(batch[c], k)].quality = "GOOD" =>
                  <<reads[c][Resolved(batch[c], k)].signal,
                    reads[c][Resolved(batch[c], k)].value>> \in held[c]
  BY ResultsType DEF ReadInv, At, Holds
<1>3. Resolved(batch[c], n + 1) =
         IF batch[c][n + 1].ref # Unknown THEN Resolved(batch[c], n) + 1 ELSE Resolved(batch[c], n)
  BY <1>1, ResolvedNext
<1>4. Entry(c) = batch[c][n + 1]
  BY DEF Entry, AtHand
<1>5. reads[c] \in Seq(Sample)
  BY ResultsType
<1>6. \A k \in 1..(n + 1) : k \in 1..n \/ k = n + 1
  BY <1>1
<1>7. CASE Entry(c).ref = Unknown
  <2>1. Len(reads'[c]) = Resolved(batch'[c], Len(results'[c])) /\ reads'[c] = reads[c]
    BY <1>1, <1>2, <1>3, <1>4, <1>7
  <2>2. ASSUME NEW k \in 1..Len(results'[c]), batch'[c][k].ref # Unknown PROVE k \in 1..n
    BY <1>1, <1>4, <1>6, <1>7, <2>2
  <2> QED
    BY <1>2, <2>1, <2>2 DEF ReadInv, Replied, Holds
<1>8. CASE Entry(c).ref # Unknown
  <2>1. PICK read \in Sample :
           /\ reads'[c] = Append(reads[c], read)
           /\ read.signal = Entry(c).ref
           /\ read.quality = "GOOD" => <<read.signal, read.value>> \in held[c]
    BY <1>8
  <2>2. /\ Len(reads'[c]) = Len(reads[c]) + 1
        /\ \A i \in 1..Len(reads[c]) : reads'[c][i] = reads[c][i]
        /\ reads'[c][Len(reads[c]) + 1] = read
    BY <1>5, <2>1, Appended
  <2>3. Len(reads'[c]) = Resolved(batch'[c], Len(results'[c]))
    BY <1>1, <1>2, <1>3, <1>4, <1>8, <2>2
  <2>4. ASSUME NEW k \in 1..Len(results'[c]), batch[c][k].ref # Unknown
        PROVE  /\ Resolved(batch[c], k) \in 1..Len(reads'[c])
               /\ reads'[c][Resolved(batch[c], k)].signal = batch[c][k].ref
               /\ reads'[c][Resolved(batch[c], k)].quality = "GOOD" =>
                     <<reads'[c][Resolved(batch[c], k)].signal,
                       reads'[c][Resolved(batch[c], k)].value>> \in held[c]
    <3> DEFINE place == Resolved(batch[c], k)
    <3>1. CASE k \in 1..n
      <4>1. /\ place \in 1..Len(reads[c]) /\ reads[c][place].signal = batch[c][k].ref
            /\ reads[c][place].quality = "GOOD" =>
                  <<reads[c][place].signal, reads[c][place].value>> \in held[c]
        BY <1>2, <2>4, <3>1
      <4>2. place \in 1..Len(reads'[c]) /\ reads'[c][place] = reads[c][place]
        BY <1>2, <2>2, <4>1
      <4> QED
        BY <4>1, <4>2
    <3>2. CASE k = n + 1
      <4>1. place = Len(reads[c]) + 1
        BY <1>2, <1>3, <1>4, <1>8, <3>2
      <4>2. place \in 1..Len(reads'[c]) /\ reads'[c][place] = read
        BY <1>2, <2>2, <4>1
      <4> QED
        BY <1>4, <2>1, <3>2, <4>2
    <3> QED
      BY <1>1, <1>6, <2>4, <3>1, <3>2
  <2> QED
    BY <1>2, <2>3, <2>4 DEF ReadInv, Replied, Holds
<1> QED
  BY <1>7, <1>8

LEMMA ReadStep ==
    ASSUME TypeOK, NEW c \in Callers, WriteInv(c), ReadInv(c), Act(c)
    PROVE  ReadInv(c)'
<1> USE DEF Goto, handling, history
<1>1. ASSUME NEW body, Begin(c, "sb/read", body) PROVE ReadInv(c)'
  <2>1. /\ results'[c] = <<>> /\ batch'[c] = body /\ reads'[c] = <<>> /\ pc'[c] = "entry"
        /\ held'[c] = {<<s, registers[s]>> : s \in Signals} /\ registers' = registers
    BY <1>1 DEF Begin, TypeOK
  <2>2. Len(<<>>) = 0 /\ 1..0 = {}
    OBVIOUS
  <2> QED
    BY <2>1, <2>2, ResolvedFrom DEF ReadInv, Replied
<1>2. ASSUME NEW body, Begin(c, "sb/write", body) PROVE ReadInv(c)'
  BY <1>2 DEF Begin, TypeOK, ReadInv
<1>3. CASE Write(c)
  <2>1. verb'[c] = "sb/write"
    BY <1>3 DEF Write, Skip, EncodeFails, Rejected, Settle, Apply, At, Answered, Unanswered,
                AuditArrives, AuditLost, FinishWrite, WriteInv, InHand
  <2> QED
    BY <2>1 DEF ReadInv
<1>4. CASE ReadSkipped(c)
  <2>1. "unresolvable" \in Words
    BY DEF Words, Skipped
  <2> QED
    BY <1>4, <2>1, ReadNext DEF ReadSkipped
<1>5. ASSUME NEW word \in {"good", "bad"}, NEW quality \in {"GOOD", "BAD"},
             NEW value \in Values \cup {Absent}, ReadOne(c, word, quality, value),
             quality = "GOOD" => value = registers[Entry(c).ref]
      PROVE  ReadInv(c)'
  <2> DEFINE read == [signal |-> Entry(c).ref, quality |-> quality, value |-> value]
  <2>1. word \in Words
    BY DEF Words
  <2>2. Entry(c).ref \in Signals
    BY <1>5, AtHandType DEF ReadOne, At, Entries, Refs
  <2>3. read \in Sample /\ reads'[c] = Append(reads[c], read)
    BY <1>5, <2>2 DEF ReadOne, TypeOK, Sample
  <2>4. Holds(c)
    BY <1>5 DEF ReadInv, ReadOne, At, Holds
  <2>5. read.quality = "GOOD" => <<read.signal, read.value>> \in held[c]
    BY <1>5, <2>2, <2>4 DEF Holds
  <2>6. read.signal = Entry(c).ref
    OBVIOUS
  <2> HIDE DEF read
  <2> QED
    BY <1>5, <2>1, <2>3, <2>5, <2>6, ReadNext DEF ReadOne
<1>6. CASE ReadArrives(c)
  <2>1. Entry(c).ref \in Signals
    BY <1>6, AtHandType DEF ReadArrives, ReadOne, At, Entries, Refs
  <2> QED
    BY <1>5, <1>6, <2>1 DEF ReadArrives, TypeOK
<1>7. CASE FinishRead(c)
  <2>1. /\ Len(results[c]) = Len(batch[c]) /\ pc'[c] = "idle"
        /\ UNCHANGED <<verb, batch, results, reads, held>>
    BY <1>7, ResultsType DEF FinishRead, WriteInv, HasEntry, AtHand, TypeOK
  <2> QED
    BY <2>1 DEF ReadInv
<1>8. CASE Abort(c)
  <2>1. /\ pc'[c] = "idle" /\ reply'[c] = "error"
        /\ UNCHANGED <<verb, batch, results, reads, held>>
    BY <1>8 DEF Abort, TypeOK
  <2> QED
    BY <2>1 DEF ReadInv, Replied
<1> QED
  BY <1>1, <1>2, <1>3, <1>4, <1>5, <1>6, <1>7, <1>8 DEF Act, ReadFails

-----------------------------------------------------------------------------
(* The audit trail against the slave.                                      *)

LEMMA NewestAppended ==
    ASSUME trail \in Seq(EventType), NEW e \in EventType, trail' = Append(trail, e),
           NEW d \in Callers, NEW s \in Signals
    PROVE  /\ \A i \in NewestOf(d, s) : i \in 1..Len(trail) /\ trail'[i] = trail[i]
           /\ e.caller = d /\ e.signal = s /\ e.ok =>
                 NewestOf(d, s)' = {Len(trail) + 1} /\ trail'[Len(trail) + 1] = e
           /\ ~(e.caller = d /\ e.signal = s /\ e.ok) => NewestOf(d, s)' = NewestOf(d, s)
<1> DEFINE Told(t) == {i \in DOMAIN t : t[i].caller = d /\ t[i].signal = s /\ t[i].ok}
<1>1. /\ Len(trail) \in Nat /\ DOMAIN trail = 1..Len(trail) /\ DOMAIN trail' = 1..(Len(trail) + 1)
      /\ \A i \in 1..Len(trail) : trail'[i] = trail[i]
      /\ trail'[Len(trail) + 1] = e
  BY AppendProperties
<1>2. CASE e.caller = d /\ e.signal = s /\ e.ok
  <2>1. Told(trail') = Told(trail) \cup {Len(trail) + 1}
    BY <1>1, <1>2
  <2>2. \A i \in Told(trail) : i \in Nat /\ i < Len(trail) + 1
    BY <1>1
  <2>3. NewestOf(d, s)' = {Len(trail) + 1}
    BY <1>1, <2>1, <2>2 DEF NewestOf
  <2> QED
    BY <1>1, <1>2, <2>3 DEF NewestOf
<1>3. CASE ~(e.caller = d /\ e.signal = s /\ e.ok)
  <2>1. Told(trail') = Told(trail)
    BY <1>1, <1>3
  <2> QED
    BY <1>1, <1>3, <2>1 DEF NewestOf
<1> QED
  BY <1>2, <1>3

LEMMA TrailInit == Init => TrailInv
<1> SUFFICES ASSUME Init, NEW s \in Signals
             PROVE  /\ registers[s] = FirstValue
                    /\ \A c \in Callers : ~Owed(c, s) /\ NewestOf(c, s) = {}
  BY DEF TrailInv
<1>1. DOMAIN trail = {}
  BY DEF Init
<1> QED
  BY <1>1 DEF Init, Owed, NewestOf

\* Nobody wrote and nobody's debt to the trail changed.
LEMMA TrailKept ==
    ASSUME TrailInv, losses' = 0 => losses = 0, UNCHANGED <<registers, trail>>,
           \A d \in Callers, s \in Signals :
              /\ Owed(d, s)' <=> Owed(d, s)
              /\ Owed(d, s) => OwedValue(d)' = OwedValue(d)
    PROVE  TrailInv'
<1>1. \A d \in Callers, s \in Signals : NewestOf(d, s)' = NewestOf(d, s)
  BY DEF NewestOf
<1>2. \A d \in Callers, s \in Signals : WroteLast(d, s) => WroteLast(d, s)'
  BY <1>1 DEF WroteLast
<1> QED
  BY <1>1, <1>2 DEF TrailInv

\* What a caller owes depends on what it has in hand.
LEMMA OwedKept ==
    ASSUME NEW d, pc'[d] = pc[d], batch'[d] = batch[d], results'[d] = results[d]
    PROVE  /\ \A s \in Signals : Owed(d, s)' <=> Owed(d, s)
           /\ OwedValue(d)' = OwedValue(d)
BY DEF Owed, OwedValue, Entry, AtHand, Event

\* Outside a write there is nothing to owe, nor after one that failed.
LEMMA NothingOwed ==
    ASSUME NEW d, pc[d] \in {"idle", "entry"}
    PROVE  \A s \in Signals : ~Owed(d, s)
BY DEF Owed

LEMMA TrailStep ==
    ASSUME TypeOK, NEW c \in Callers, WriteInv(c), Act(c), TrailInv
    PROVE  TrailInv'
<1> USE DEF Goto, handling, history
<1> SUFFICES ASSUME losses' = 0 PROVE TrailInv'
  BY DEF TrailInv
<1>0. \A d \in Callers \ {c}, s \in Signals :
         (Owed(d, s)' <=> Owed(d, s)) /\ OwedValue(d)' = OwedValue(d)
  BY OthersKept, OwedKept
<1>1. ASSUME pc[c] \in {"idle", "entry"}, pc'[c] \in {"idle", "entry"},
             UNCHANGED <<registers, trail, losses>>
      PROVE  TrailInv'
  <2>1. \A s \in Signals : ~Owed(c, s) /\ ~Owed(c, s)'
    BY <1>1 DEF Owed
  <2> QED
    BY <1>0, <1>1, <2>1, TrailKept
<1>2. ASSUME NEW word \in Words \ {"ok"}, Settle(c, word) PROVE TrailInv'
  <2>1. pc[c] = "entry" /\ pc'[c] = "audit" /\ results'[c][Len(results'[c])] = word
    BY <1>2, ResultAppended, ResultsType DEF Settle, TypeOK
  <2>2. \A s \in Signals : ~Owed(c, s) /\ ~Owed(c, s)'
    BY <2>1 DEF Owed, Event
  <2> QED
    BY <1>0, <1>2, <2>2, TrailKept DEF Settle
<1>3. CASE Answered(c)
  <2>1. "ok" \in Words
    BY DEF Words, Attempted
  <2>2. /\ pc[c] = "sent" /\ pc'[c] = "audit" /\ batch' = batch
        /\ Len(results'[c]) = AtHand(c) /\ results'[c][AtHand(c)] = "ok"
    BY <1>3, <2>1, ResultAppended DEF Answered, TypeOK, AtHand
  <2>3. /\ \A s \in Signals : Owed(c, s)' <=> Owed(c, s)
        /\ OwedValue(c)' = OwedValue(c)
    BY <2>2 DEF Owed, OwedValue, Event, Entry
  <2> QED
    BY <1>0, <1>3, <2>3, TrailKept DEF Answered
<1>4. CASE Unanswered(c) \/ AuditLost(c)
  <2>1. losses' = losses + 1 /\ losses \in Nat
    BY <1>4 DEF Unanswered, AuditLost, TypeOK
  <2> QED
    BY <2>1
<1>5. CASE Apply(c)
  <2>1. /\ pc[c] = "entry" /\ pc'[c] = "sent" /\ losses = 0
        /\ registers' = [registers EXCEPT ![Entry(c).ref] = Entry(c).value]
        /\ UNCHANGED <<batch, results, trail>>
    BY <1>5 DEF Apply, TypeOK
  <2>2. Entry(c)' = Entry(c)
    BY <2>1 DEF Entry, AtHand
  <2>3. \A d \in Callers, s \in Signals : NewestOf(d, s)' = NewestOf(d, s)
    BY <2>1 DEF NewestOf
  <2>4. WroteLast(c, Entry(c).ref)' \/ Entry(c).ref \notin Signals
    BY <2>1, <2>2 DEF WroteLast, Owed, OwedValue, TypeOK
  <2>5. ASSUME NEW s \in Signals, s # Entry(c).ref
        PROVE  /\ registers'[s] = registers[s]
               /\ \A d \in Callers : Owed(d, s)' <=> Owed(d, s)
               /\ \A d \in Callers : WroteLast(d, s) => WroteLast(d, s)'
    <3>1. ~Owed(c, s) /\ ~Owed(c, s)'
      BY <2>1, <2>2, <2>5 DEF Owed
    <3>2. registers'[s] = registers[s]
      BY <2>1, <2>5 DEF TypeOK
    <3> QED
      BY <1>0, <2>1, <2>3, <3>1, <3>2 DEF WroteLast
  <2>6. ASSUME NEW s \in Signals, s = Entry(c).ref PROVE \E d \in Callers : WroteLast(d, s)'
    <3>1. Owed(c, s)' /\ OwedValue(c)' = Entry(c).value
      BY <2>1, <2>2, <2>6 DEF Owed, OwedValue
    <3>2. registers'[s] = Entry(c).value
      BY <2>1, <2>6 DEF TypeOK
    <3> QED
      BY <3>1, <3>2 DEF WroteLast
  <2> QED
    BY <2>1, <2>3, <2>5, <2>6 DEF TrailInv
<1>6. CASE AuditArrives(c)
  <2> DEFINE e == Event(c)
  <2>1. /\ pc[c] = "audit" /\ pc'[c] = "entry" /\ trail' = Append(trail, e)
        /\ UNCHANGED <<registers, losses>>
    BY <1>6 DEF AuditArrives, TypeOK
  <2>2. e \in EventType /\ e.caller = c
    BY <2>1, EventTyped
  <2>3. trail \in Seq(EventType)
    BY DEF TypeOK, EventType
  <2>4. \A s \in Signals : ~Owed(c, s)' /\ (Owed(c, s) <=> e.ok /\ e.signal = s)
    BY <2>1 DEF Owed
  <2>5. OwedValue(c) = e.value
    BY <2>1 DEF OwedValue
  <2> HIDE DEF e
  <2>6. ASSUME NEW s \in Signals, NEW d \in Callers, WroteLast(d, s) PROVE WroteLast(d, s)'
    <3>1. CASE d = c /\ Owed(c, s)
      <4>1. registers[s] = e.value
        BY <2>5, <2>6, <3>1 DEF WroteLast
      <4>2. NewestOf(c, s)' = {Len(trail) + 1} /\ trail'[Len(trail) + 1] = e
        BY <2>1, <2>2, <2>3, <2>4, <3>1, NewestAppended
      <4> QED
        BY <2>1, <2>4, <3>1, <4>1, <4>2 DEF WroteLast
    <3>2. CASE ~(d = c /\ Owed(c, s))
      <4>1. NewestOf(d, s)' = NewestOf(d, s) /\ \A i \in NewestOf(d, s) : trail'[i] = trail[i]
        BY <2>1, <2>2, <2>3, <2>4, <3>2, NewestAppended
      <4>2. /\ Owed(d, s)' <=> Owed(d, s)
            /\ Owed(d, s) => OwedValue(d)' = OwedValue(d)
        BY <1>0, <2>4, <3>2
      <4> QED
        BY <2>1, <2>6, <4>1, <4>2 DEF WroteLast
    <3> QED
      BY <3>1, <3>2
  <2>7. ASSUME NEW s \in Signals, \A d \in Callers : ~Owed(d, s) /\ NewestOf(d, s) = {}
        PROVE  \A d \in Callers : ~Owed(d, s)' /\ NewestOf(d, s)' = {}
    BY <1>0, <2>1, <2>2, <2>3, <2>4, <2>7, NewestAppended
  <2> QED
    BY <2>1, <2>6, <2>7 DEF TrailInv
<1>7. ASSUME NEW body, NEW name, Begin(c, name, body) PROVE TrailInv'
  BY <1>1, <1>7 DEF Begin, TypeOK
<1>8. CASE Skip(c) \/ FinishWrite(c) \/ FinishRead(c) \/ Abort(c)
  BY <1>1, <1>8 DEF Skip, FinishWrite, FinishRead, Abort, TypeOK
<1>9. CASE ReadSkipped(c) \/ ReadArrives(c) \/ ReadFails(c)
  BY <1>1, <1>9 DEF ReadSkipped, ReadArrives, ReadFails, ReadOne, TypeOK
<1>10. "unencodable" \in Words \ {"ok"} /\ "rejected" \in Words \ {"ok"}
  BY DEF Words, Attempted, Failed
<1> QED
  BY <1>2, <1>3, <1>4, <1>5, <1>6, <1>7, <1>8, <1>9, <1>10 DEF Act, Write, EncodeFails, Rejected

-----------------------------------------------------------------------------
(* The theorems.                                                           *)

IInv == TypeOK /\ BatchInv /\ TrailInv

LEMMA Inductive == Init => IInv
BY TypedInit, WriteInit, ReadInit, TrailInit DEF IInv, BatchInv

LEMMA InductiveStep == IInv /\ [Next]_vars => IInv'
<1> SUFFICES ASSUME IInv, [Next]_vars PROVE IInv'
  OBVIOUS
<1>1. ASSUME NEW c \in Callers, Act(c) PROVE IInv'
  <2>1. TypeOK' /\ TrailInv'
    BY <1>1, TypedStep, TrailStep DEF IInv, BatchInv
  <2>2. WriteInv(c)' /\ ReadInv(c)'
    BY <1>1, WriteStep, ReadStep DEF IInv, BatchInv
  <2>3. ASSUME NEW d \in Callers \ {c} PROVE WriteInv(d)'
    BY <1>1, OthersKept, WriteKept DEF IInv, BatchInv
  <2>4. ASSUME NEW d \in Callers \ {c} PROVE ReadInv(d)'
    <3>1. held[d] \subseteq held'[d] /\ (pc[d] # "idle" /\ verb[d] = "sb/read" /\ Holds(d) => Holds(d)')
      <4>1. CASE Write(c)
        BY <4>1, HeldGrows DEF IInv
      <4>2. CASE ~Write(c)
        <5>1. registers' = registers /\ held'[d] = held[d]
          BY <1>1, <4>2 DEF Act, Begin, ReadSkipped, ReadArrives, ReadFails, ReadOne, FinishRead,
                            Abort, history, IInv, TypeOK
        <5> QED
          BY <5>1 DEF Holds
      <4> QED
        BY <4>1, <4>2
    <3> QED
      BY <1>1, <3>1, OthersKept, ReadKept DEF IInv, BatchInv
  <2> QED
    BY <2>1, <2>2, <2>3, <2>4 DEF IInv, BatchInv
<1>2. CASE UNCHANGED vars
  <2>1. TypeOK'
    BY <1>2 DEF IInv, TypeOK, vars, handling, history
  <2>2. TrailInv'
    BY <1>2, TrailKept, OwedKept DEF IInv, vars, handling
  <2>3. ASSUME NEW d \in Callers PROVE WriteInv(d)' /\ ReadInv(d)'
    BY <1>2, WriteKept, ReadKept DEF IInv, BatchInv, vars, handling, history, Holds
  <2> QED
    BY <2>1, <2>2, <2>3 DEF IInv, BatchInv
<1>3. (\E c \in Callers : Act(c)) \/ UNCHANGED vars
  BY DEF Next, Act
<1> QED
  BY <1>1, <1>2, <1>3

LEMMA Invariant == Spec => []IInv
BY Inductive, InductiveStep, PTL DEF Spec

\* Every variable keeps its type: no caller leaves the stages of a handler, a
\* reply is one that callers know, and what the trail holds is the event of a
\* write to a signal.
THEOREM Typing == Spec => []TypeOK
<1>1. IInv => TypeOK
  BY DEF IInv
<1> QED
  BY <1>1, Invariant, PTL

\* Nothing that the list does not allow was ever sent, and the reply of sb/write
\* says of every entry what the slave did with it, however batches of several
\* callers mix and whichever answers are lost.
THEOREM RepliesTellWrites == Spec => []ReplyTellsWrites
<1>1. IInv => ReplyTellsWrites
  <2> SUFFICES ASSUME IInv, NEW c \in Callers
               PROVE  /\ \A i \in applied[c] : batch[c][i].ref \in Permitted \ (ReadOnly \cup BitSignals)
                      /\ Replied(c, "sb/write") =>
                            /\ Len(results[c]) = Len(batch[c])
                            /\ reply[c] = "WRITE_NOT_ALLOWED" <=>
                                  /\ batch[c] # <<>>
                                  /\ \A i \in DOMAIN batch[c] : batch[c][i].ref \in Signals \ Permitted
                            /\ reply[c] = "WRITE_FAILED" => applied[c] \subseteq silent[c]
                            /\ reply[c] = "ok" =>
                                  {i \in DOMAIN results[c] : results[c][i] = "ok"} = applied[c] \ silent[c]
    BY DEF ReplyTellsWrites
  <2>1. WriteInv(c) /\ TypeOK
    BY DEF IInv, BatchInv
  <2>2. \A i \in applied[c] : batch[c][i].ref \in Permitted \ (ReadOnly \cup BitSignals)
    BY <2>1, EntryType, VerdictMeans DEF WriteInv, Carried
  <2>3. ASSUME Replied(c, "sb/write")
        PROVE  /\ Len(results[c]) = Len(batch[c])
               /\ reply[c] = "WRITE_NOT_ALLOWED" <=>
                     /\ batch[c] # <<>>
                     /\ \A i \in DOMAIN batch[c] : batch[c][i].ref \in Signals \ Permitted
               /\ reply[c] = "WRITE_FAILED" => applied[c] \subseteq silent[c]
               /\ reply[c] = "ok" =>
                     {i \in DOMAIN results[c] : results[c][i] = "ok"} = applied[c] \ silent[c]
    <3>1. Len(results[c]) = Len(batch[c]) /\ reply[c] = Answer(c)
      BY <2>1, <2>3 DEF WriteInv
    <3>2. /\ DOMAIN results[c] = 1..Len(batch[c]) /\ DOMAIN batch[c] = 1..Len(batch[c])
          /\ Len(batch[c]) \in Nat
      BY <2>1, <3>1, ResultsType, BatchType, LenProperties
    <3>3. \A i \in 1..Len(batch[c]) : Settled(c, i)
      BY <2>1, <2>3, <3>1 DEF WriteInv, Replied
    <3>4. \A i \in applied[c] : i \in 1..Len(batch[c])
      BY <2>1 DEF WriteInv, Carried
    <3>5. {i \in DOMAIN results[c] : results[c][i] = "ok"} = applied[c] \ silent[c]
      BY <3>2, <3>3, <3>4 DEF Settled
    <3>6. reply[c] = "WRITE_FAILED" => applied[c] \subseteq silent[c]
      <4>1. reply[c] = "WRITE_FAILED" => "ok" \notin WordsOf(c)
        BY <3>1 DEF Answer
      <4> QED
        BY <3>2, <3>5, <4>1 DEF WordsOf
    <3>7. \A i \in 1..Len(batch[c]) :
             results[c][i] = "refused" <=> batch[c][i].ref \in Signals \ Permitted
      <4>1. \A i \in 1..Len(batch[c]) :
               Verdict(batch[c][i]) = "refused" <=> batch[c][i].ref \in Signals \ Permitted
        BY <2>1, <3>3, EntryType, VerdictMeans DEF Settled
      <4>2. "refused" \notin Attempted
        BY DEF Attempted, Failed
      <4> QED
        BY <3>3, <4>1, <4>2 DEF Settled
    <3>8. batch[c] = <<>> <=> Len(batch[c]) = 0
      BY <2>1, BatchType, EmptySeq
    <3>9. reply[c] = "WRITE_NOT_ALLOWED" <=> WordsOf(c) = {"refused"}
      BY <3>1 DEF Answer
    <3>10. WordsOf(c) = {"refused"} <=>
              /\ batch[c] # <<>>
              /\ \A i \in 1..Len(batch[c]) : batch[c][i].ref \in Signals \ Permitted
      <4>1. WordsOf(c) = {"refused"} <=>
               /\ 1..Len(batch[c]) # {}
               /\ \A i \in 1..Len(batch[c]) : results[c][i] = "refused"
        BY <3>2 DEF WordsOf
      <4>2. 1..Len(batch[c]) # {} <=> batch[c] # <<>>
        <5>1. \A n \in Nat : 1..n # {} <=> n # 0
          <6>1. \A n \in Nat : n # 0 => 1 \in 1..n
            OBVIOUS
          <6>2. 1..0 = {}
            OBVIOUS
          <6> QED
            BY <6>1, <6>2
        <5>2. Len(batch[c]) \in Nat
          BY <3>2
        <5>3. 1..Len(batch[c]) # {} <=> Len(batch[c]) # 0
          BY <5>1, <5>2
        <5> QED
          BY <5>3, <3>8
      <4>3. (\A i \in 1..Len(batch[c]) : results[c][i] = "refused") <=>
               \A i \in 1..Len(batch[c]) : batch[c][i].ref \in Signals \ Permitted
        BY <3>7
      <4> QED
        BY <4>1, <4>2, <4>3
    <3> QED
      BY <3>1, <3>2, <3>5, <3>6, <3>9, <3>10
  <2> QED
    BY <2>2, <2>3
<1> QED
  BY <1>1, Invariant, PTL

\* When no batch is underway and nothing was lost, each signal of the slave holds
\* the newest audited write of one of the callers.
THEOREM TrailIsTrue == Spec => []TrailTellsSlave
<1>1. IInv => TrailTellsSlave
  <2> SUFFICES ASSUME IInv, losses = 0, \A c \in Callers : pc[c] = "idle", NEW s \in Signals
               PROVE  LET newest == UNION {NewestOf(c, s) : c \in Callers}
                      IN  \/ newest = {} /\ registers[s] = FirstValue
                          \/ \E i \in newest : registers[s] = trail[i].value
    BY DEF TrailTellsSlave
  <2>1. \A c \in Callers : ~Owed(c, s)
    BY NothingOwed
  <2>2. \/ registers[s] = FirstValue /\ \A c \in Callers : NewestOf(c, s) = {}
        \/ \E c \in Callers : WroteLast(c, s)
    BY DEF IInv, TrailInv
  <2> QED
    BY <2>1, <2>2 DEF WroteLast
<1> QED
  BY <1>1, Invariant, PTL

\* The reply of sb/read has an entry for each ref that can be resolved, in order,
\* and a GOOD one gives a value that the slave held while the command ran.
THEOREM RepliesTellReads == Spec => []ReadsTellSlave
<1>1. IInv => ReadsTellSlave
  <2> SUFFICES ASSUME IInv, NEW c \in Callers, Replied(c, "sb/read")
               PROVE  /\ Len(reads[c]) = Resolved(batch[c], Len(batch[c]))
                      /\ \A k \in DOMAIN batch[c] : batch[c][k].ref # Unknown =>
                            LET entry == reads[c][Resolved(batch[c], k)]
                            IN  /\ entry.signal = batch[c][k].ref
                                /\ entry.quality = "GOOD" => <<entry.signal, entry.value>> \in held[c]
    BY DEF ReadsTellSlave
  <2>1. ReadInv(c) /\ verb[c] = "sb/read"
    BY DEF IInv, BatchInv, Replied
  <2>2. DOMAIN batch[c] = 1..Len(batch[c])
    BY BatchType, LenProperties DEF IInv
  <2> QED
    BY <2>1, <2>2 DEF ReadInv
<1> QED
  BY <1>1, Invariant, PTL

-----------------------------------------------------------------------------
(* Types.                                                                  *)

Facts == {"paused", "link", "connected", "latch"}
ViewType == [found : BOOLEAN, paused : BOOLEAN, link : BOOLEAN, connected : BOOLEAN,
             latch : BOOLEAN]
Stages == {"nothing", "done"} \cup Facts
WitnessType == [link : SUBSET BOOLEAN, paused : SUBSET BOOLEAN]

\* StateTypeOK, with the keys of a view spelled out.
Typed ==
    /\ registered \in BOOLEAN /\ link \in BOOLEAN /\ paused \in BOOLEAN
    /\ reading \in [Readers -> Stages]
    /\ view \in [Readers -> ViewType]
    /\ witness \in [Readers -> WitnessType]
    /\ reports \in Nat /\ flips \in Nat /\ switches \in Nat

LEMMA ViewKeys == [DOMAIN NoView -> BOOLEAN] = ViewType
<1>1. DOMAIN NoView = {"found", "paused", "link", "connected", "latch"}
  BY DEF NoView
<1> QED
  BY <1>1 DEF ViewType

LEMMA StateTypedInit == StateInit => Typed
<1>1. NoView \in ViewType
  BY DEF NoView, ViewType
<1>2. [link |-> {}, paused |-> {}] \in WitnessType
  BY DEF WitnessType
<1> SUFFICES ASSUME StateInit PROVE Typed
  OBVIOUS
<1>3. /\ reading \in [Readers -> Stages] /\ view \in [Readers -> ViewType]
      /\ witness \in [Readers -> WitnessType]
  BY <1>1, <1>2 DEF StateInit, Stages
<1>4. registered \in BOOLEAN /\ link \in BOOLEAN /\ paused \in BOOLEAN
  BY DEF StateInit
<1>5. reports \in Nat /\ flips \in Nat /\ switches \in Nat
  BY DEF StateInit
<1> QED
  BY <1>3, <1>4, <1>5 DEF Typed

LEMMA TypedChange ==
    ASSUME Typed, NEW l \in BOOLEAN, NEW p \in BOOLEAN, Change(l, p)
    PROVE  link' \in BOOLEAN /\ paused' \in BOOLEAN /\ witness' \in [Readers -> WitnessType]
BY DEF Typed, Change, WitnessType

LEMMA TypedAfter ==
    ASSUME NEW r, NEW what \in Facts
    PROVE  After(r, what) \in Stages
BY DEF Facts, After, Stages

LEMMA StateTypedStep == Typed /\ [StateNext]_stateVars => Typed'
<1> SUFFICES ASSUME Typed, [StateNext]_stateVars PROVE Typed'
  OBVIOUS
<1>1. CASE RegisterDevice
  BY <1>1, TypedChange DEF Typed, RegisterDevice, stateBounds
<1>2. CASE FlipLink
  <2>1. (~link) \in BOOLEAN
    OBVIOUS
  <2>2. link' \in BOOLEAN /\ paused' \in BOOLEAN /\ witness' \in [Readers -> WitnessType]
    BY <1>2, <2>1, TypedChange DEF Typed, FlipLink
  <2> QED
    BY <1>2, <2>2 DEF Typed, FlipLink
<1>3. ASSUME NEW value \in BOOLEAN, Set(value) PROVE Typed'
  BY <1>3, TypedChange DEF Typed, Set
<1>4. ASSUME NEW r \in Readers, NEW first \in Stages, NEW start \in ViewType,
             StartReport(r, first, start)
      PROVE  Typed'
  BY <1>4 DEF Typed, StartReport, WitnessType
<1>5. NoView \in ViewType /\ \A b \in BOOLEAN : [NoView EXCEPT !.found = b] \in ViewType
  BY DEF NoView, ViewType
<1>6. ASSUME NEW c \in Consoles, AskStatus(c) PROVE Typed'
  BY <1>4, <1>5, <1>6 DEF AskStatus, Readers, Stages, Facts
<1>7. CASE BeginEntry
  BY <1>4, <1>5, <1>7 DEF BeginEntry, Readers, Stages, Facts, Typed
<1>8. ASSUME NEW r \in Readers, Observe(r) PROVE Typed'
  <2>1. ASSUME NEW what \in Facts, NEW fact \in BOOLEAN, Read(r, what, fact) PROVE Typed'
    <3>1. reading' \in [Readers -> Stages]
      BY <2>1, TypedAfter DEF Typed, Read
    <3>2. view' \in [Readers -> ViewType]
      BY <2>1 DEF Typed, Read, ViewType, Facts
    <3> QED
      BY <2>1, <3>1, <3>2 DEF Typed, Read, stateBounds
  <2> QED
    BY <1>8, <2>1 DEF Observe, Facts, Typed
<1>9. ASSUME NEW r \in Readers, Send(r) PROVE Typed'
  BY <1>5, <1>9 DEF Typed, Send, Stages, WitnessType, stateBounds
<1>10. CASE UNCHANGED stateVars
  BY <1>10 DEF Typed, stateVars, stateBounds
<1> QED
  BY <1>1, <1>2, <1>3, <1>6, <1>7, <1>8, <1>9, <1>10 DEF StateNext

\* Every variable keeps its type, for any number of consoles.
THEOREM StateTyping == StateSpec => []StateTypeOK
<1>1. Typed => StateTypeOK
  BY ViewKeys DEF Typed, StateTypeOK, Stages, Facts, WitnessType
<1> QED
  BY <1>1, StateTypedInit, StateTypedStep, PTL DEF StateSpec

-----------------------------------------------------------------------------
(* What a report has read is in its history, and so is what holds now.     *)

\* The readings that a report has made, in the order of its kind.
Made(r, what) ==
    \/ reading[r] = "done"
    \/ r \in Consoles /\
          \/ what = "paused" /\ reading[r] \in {"link", "connected", "latch"}
          \/ what = "link" /\ reading[r] \in {"connected", "latch"}
          \/ what = "connected" /\ reading[r] = "latch"
    \/ r = Keepalive /\
          \/ what = "connected" /\ reading[r] \in {"paused", "link"}
          \/ what = "paused" /\ reading[r] = "link"

ReaderInv(r) ==
    reading[r] # "nothing" =>
        /\ link \in witness[r].link /\ paused \in witness[r].paused
        /\ r = Keepalive => reading[r] # "latch"
        /\ view[r].found =>
              /\ Made(r, "paused") => view[r].paused \in witness[r].paused
              /\ Made(r, "link") => view[r].link \in witness[r].link
              /\ Made(r, "connected") => view[r].connected \in witness[r].link
              /\ Made(r, "latch") /\ r \in Consoles => view[r].latch \in witness[r].paused

WitnessInv == \A r \in Readers : ReaderInv(r)

LEMMA WitnessInit == StateInit => WitnessInv
BY DEF StateInit, WitnessInv, ReaderInv

\* What changes goes into the history of each report under way.
LEMMA WitnessChange ==
    ASSUME Typed, NEW r \in Readers, ReaderInv(r), NEW l \in BOOLEAN, NEW p \in BOOLEAN,
           Change(l, p), UNCHANGED <<reading, view>>
    PROVE  ReaderInv(r)'
<1>1. CASE reading[r] = "nothing"
  BY <1>1 DEF ReaderInv
<1>2. CASE reading[r] # "nothing"
  <2>1. /\ witness'[r].link = witness[r].link \cup {l}
        /\ witness'[r].paused = witness[r].paused \cup {p}
    BY <1>2 DEF Change
  <2>2. link' = l /\ paused' = p
    BY DEF Change
  <2> QED
    BY <1>2, <2>1, <2>2 DEF ReaderInv, Made
<1> QED
  BY <1>1, <1>2

LEMMA ReadersApart == \A r \in Readers : r \in Consoles <=> r # Keepalive
BY ReadersAssumption DEF Readers

\* A reading is what holds now.
LEMMA WitnessRead ==
    ASSUME Typed, NEW r \in Readers, ReaderInv(r), Observe(r)
    PROVE  ReaderInv(r)'
<1> DEFINE Sees(what, fact) ==
             /\ reading[r] = what
             /\ reading'[r] = After(r, what)
             /\ view'[r] = [view[r] EXCEPT ![what] = fact]
             /\ UNCHANGED <<link, paused, witness>>
<1>1. Sees("paused", paused) \/ Sees("link", link) \/ Sees("connected", link)
         \/ Sees("latch", paused)
  BY DEF Typed, Observe, Read, Stages, Facts
<1>2. r \in Consoles <=> r # Keepalive
  BY ReadersApart
<1>3. view[r] \in ViewType
  BY DEF Typed
<1>4. CASE Sees("paused", paused)
  BY <1>2, <1>3, <1>4 DEF ReaderInv, Made, After, ViewType
<1>5. CASE Sees("link", link)
  BY <1>2, <1>3, <1>5 DEF ReaderInv, Made, After, ViewType
<1>6. CASE Sees("connected", link)
  BY <1>2, <1>3, <1>6 DEF ReaderInv, Made, After, ViewType
<1>7. CASE Sees("latch", paused)
  BY <1>2, <1>3, <1>7 DEF ReaderInv, Made, After, ViewType
<1> QED
  BY <1>1, <1>4, <1>5, <1>6, <1>7

LEMMA WitnessStep == Typed /\ WitnessInv /\ [StateNext]_stateVars => WitnessInv'
<1> SUFFICES ASSUME Typed, WitnessInv, [StateNext]_stateVars, NEW r \in Readers
             PROVE  ReaderInv(r)'
  BY DEF WitnessInv
<1>1. ReaderInv(r)
  BY DEF WitnessInv
<1>2. CASE RegisterDevice
  BY <1>1, <1>2, WitnessChange DEF RegisterDevice, Typed
<1>3. CASE FlipLink
  <2>1. (~link) \in BOOLEAN
    OBVIOUS
  <2> QED
    BY <1>1, <1>3, <2>1, WitnessChange DEF FlipLink, Typed
<1>4. ASSUME NEW value \in BOOLEAN, Set(value) PROVE ReaderInv(r)'
  BY <1>1, <1>4, WitnessChange DEF Set, Typed
\* A step of one reader is none of another's.
<1>5. ASSUME NEW d \in Readers, d # r,
             \/ \E first, start : StartReport(d, first, start)
             \/ \E what, fact : Read(d, what, fact)
             \/ Send(d)
      PROVE  ReaderInv(r)'
  <2>1. /\ reading'[r] = reading[r] /\ view'[r] = view[r] /\ witness'[r] = witness[r]
        /\ UNCHANGED <<link, paused>>
    BY <1>5 DEF Typed, StartReport, Read, Send
  <2> QED
    BY <1>1, <2>1 DEF ReaderInv, Made
<1>6. ASSUME NEW first \in {"paused", "connected"}, NEW start, StartReport(r, first, start),
             first = "paused" <=> r \in Consoles
      PROVE  ReaderInv(r)'
  BY <1>6, ReadersApart DEF Typed, StartReport, ReaderInv, Made
<1>7. ASSUME NEW c \in Consoles, AskStatus(c) PROVE ReaderInv(r)'
  BY <1>5, <1>6, <1>7 DEF AskStatus, Readers
<1>8. CASE BeginEntry
  <2>1. CASE r # Keepalive
    BY <1>5, <1>8, <2>1 DEF BeginEntry, Readers
  <2>2. CASE r = Keepalive /\ registered
    BY <1>6, <1>8, <2>2, ReadersApart DEF BeginEntry
  <2>3. CASE r = Keepalive /\ ~registered
    <3>1. StartReport(r, "done", [NoView EXCEPT !.found = FALSE])
      BY <1>8, <2>3 DEF BeginEntry, Typed
    <3> QED
      BY <3>1 DEF StartReport, NoView, ReaderInv, Typed
  <2> QED
    BY <2>1, <2>2, <2>3
<1>9. ASSUME NEW d \in Readers, Observe(d) PROVE ReaderInv(r)'
  <2>1. CASE d = r
    BY <1>1, <1>9, <2>1, WitnessRead
  <2>2. CASE d # r
    BY <1>5, <1>9, <2>2 DEF Observe
  <2> QED
    BY <2>1, <2>2
<1>10. ASSUME NEW d \in Readers, Send(d) PROVE ReaderInv(r)'
  <2>1. CASE d = r
    BY <1>10, <2>1 DEF Typed, Send, ReaderInv
  <2>2. CASE d # r
    BY <1>5, <1>10, <2>2
  <2> QED
    BY <2>1, <2>2
<1>11. CASE UNCHANGED stateVars
  BY <1>1, <1>11 DEF stateVars, ReaderInv, Made
<1> QED
  BY <1>2, <1>3, <1>4, <1>7, <1>8, <1>9, <1>10, <1>11 DEF StateNext

\* What sb/status and the keepalive say was true while they read it, although
\* they read the link and the pause several times and without a lock
\* (command_service.py:260-272, instance_state.py:37-42,60-62): a link that is
\* down all along is never reported as ONLINE or PAUSED, whatever is set meanwhile.
THEOREM Witnessed == StateSpec => []ReportIsWitnessed
<1>1. Typed /\ WitnessInv => ReportIsWitnessed
  <2> SUFFICES ASSUME Typed, WitnessInv, NEW r \in Readers,
                      reading[r] = "done", view[r].found
               PROVE  /\ view[r].connected \in witness[r].link
                      /\ r \in Consoles => view[r].latch \in witness[r].paused
                      /\ Token(r) = "BACKOFF" => FALSE \in witness[r].link
                      /\ Token(r) = "PAUSED" =>
                            TRUE \in witness[r].link /\ TRUE \in witness[r].paused
                      /\ Token(r) = "ONLINE" =>
                            TRUE \in witness[r].link /\ FALSE \in witness[r].paused
    BY DEF ReportIsWitnessed
  <2>1. /\ view[r].connected \in witness[r].link
        /\ r \in Consoles => view[r].latch \in witness[r].paused
        /\ view[r].link \in witness[r].link /\ view[r].paused \in witness[r].paused
    BY DEF WitnessInv, ReaderInv, Made
  <2>2. view[r].link \in BOOLEAN /\ view[r].paused \in BOOLEAN
    BY DEF Typed, ViewType
  <2>3. Token(r) = DeviceState(view[r].paused, view[r].link)
    BY DEF Token
  <2>4. CASE view[r].link = FALSE
    BY <2>1, <2>3, <2>4 DEF DeviceState
  <2>5. CASE view[r].link = TRUE /\ view[r].paused = TRUE
    BY <2>1, <2>3, <2>5 DEF DeviceState
  <2>6. CASE view[r].link = TRUE /\ view[r].paused = FALSE
    BY <2>1, <2>3, <2>6 DEF DeviceState
  <2> QED
    BY <2>2, <2>4, <2>5, <2>6
<1> QED
  BY <1>1, StateTypedInit, StateTypedStep, WitnessInit, WitnessStep, PTL DEF StateSpec
-----------------------------------------------------------------------------
(* The inventory: the list of signals.                                     *)

\* The concatenation of sequences is a sequence.
LEMMA FlattenType ==
    ASSUME NEW S, NEW parts \in Seq(Seq(S))
    PROVE  FlattenSeq(parts) \in Seq(S)
<1>1. PICK h \in Runs(Seq(S), Len(parts)) : FlattenSeq(parts) = h[Len(parts)]
  BY FlattenSteps
<1>2. Len(parts) \in 0..Len(parts)
  BY LenProperties
<1> QED
  BY <1>1, <1>2 DEF Runs

LEMMA ListIsASeq == resolved_signals \in Seq(Listings)
<1> DEFINE Listed(g) == [i \in DOMAIN g.signals |->
                [id |-> signal_id(g.unit, g.signals[i]), name |-> g.signals[i].name]]
           parts == [k \in DOMAIN Groups |-> Listed(Groups[k])]
           S == UNION {Range(parts[k]) : k \in DOMAIN Groups}
<1>1. ASSUME NEW k \in DOMAIN Groups
      PROVE  parts[k] \in Seq(S)
  <2> DEFINE sigs == Groups[k].signals
  <2>1. Groups[k] \in Range(Groups)
    BY DEF Range
  <2>2. sigs \in Seq(Range(sigs))
    BY <2>1, GroupsAssumption
  <2>3. DOMAIN sigs = 1..Len(sigs) /\ Len(sigs) \in Nat
    BY <2>2, LenProperties
  <2>4. parts[k] \in [1..Len(sigs) -> Range(parts[k])]
    BY <2>3 DEF Range
  <2>5. Range(parts[k]) \subseteq S
    OBVIOUS
  <2> HIDE DEF parts, sigs, S
  <2>6. parts[k] \in [1..Len(sigs) -> S]
    BY <2>4, <2>5
  <2> QED
    BY <2>3, <2>6
<1>2. parts \in Seq(Seq(S))
  <2>1. DOMAIN Groups = 1..Len(Groups) /\ Len(Groups) \in Nat
    BY GroupsAssumption, LenProperties
  <2>2. parts \in [1..Len(Groups) -> Seq(S)]
    <3>1. DOMAIN parts = 1..Len(Groups) /\ parts = [k \in 1..Len(Groups) |-> parts[k]]
      BY <2>1
    <3> HIDE DEF parts, S
    <3> QED
      BY <1>1, <2>1, <3>1
  <2> HIDE DEF parts, S
  <2> QED
    BY <2>1, <2>2
<1>3. resolved_signals = FlattenSeq(parts)
  BY DEF resolved_signals
<1>4. resolved_signals \in Seq(S)
  <2> HIDE DEF parts, S
  <2> QED
    BY <1>2, <1>3, FlattenType
<1> QED
  BY <1>4, SeqOfRange DEF Listings

-----------------------------------------------------------------------------
(* Pages of the list.                                                      *)

\* What FirstOf and a page cut from the list, whatever the numbers.
LEMMA Cuts ==
    ASSUME NEW n \in Nat, NEW start \in 0..n
    PROVE  LET page == SubSeq(FirstOf(n), start + 1, Len(FirstOf(n)))
           IN  /\ FirstOf(n) \in Seq(Listings)
               /\ Len(FirstOf(n)) = IF n < Len(resolved_signals)
                                    THEN n ELSE Len(resolved_signals)
               /\ n >= Len(resolved_signals) => FirstOf(n) = resolved_signals
               /\ page \in Seq(Listings)
               /\ start <= Len(resolved_signals) => FirstOf(start) \o page = FirstOf(n)
<1> DEFINE l == resolved_signals
           N == Len(l)
           m == IF n < N THEN n ELSE N
<1>1. l \in Seq(Listings) /\ N \in Nat /\ m \in 0..N
  BY ListIsASeq
<1> HIDE DEF l
<1>2. FirstOf(n) = SubSeq(l, 1, m)
  BY DEF FirstOf, l
<1>3. /\ SubSeq(l, 1, m) \in Seq(Listings) /\ Len(SubSeq(l, 1, m)) = m
      /\ \A i \in 1..m : SubSeq(l, 1, m)[i] = l[i]
  <2>1. \A i \in 1..m : l[i] \in Listings
    BY <1>1, ElementOfSeq
  <2>2. 1 \in Int /\ m \in Int
    BY <1>1
  <2> HIDE DEF m
  <2>3. /\ SubSeq(l, 1, m) \in Seq(Listings)
        /\ Len(SubSeq(l, 1, m)) = IF 1 <= m THEN m - 1 + 1 ELSE 0
        /\ \A i \in 1..(m - 1 + 1) : SubSeq(l, 1, m)[i] = l[1 + i - 1]
    BY <2>1, <2>2, SubSeqProperties
  <2> QED
    BY <1>1, <2>2, <2>3
<1>4. n >= N => FirstOf(n) = l
  BY <1>1, <1>2, SubSeqFull
<1> DEFINE page == SubSeq(FirstOf(n), start + 1, Len(FirstOf(n)))
<1>5. /\ page \in Seq(Listings)
      /\ Len(page) = IF start + 1 <= m THEN m - start ELSE 0
      /\ \A i \in 1..(m - start) : page[i] = l[start + i]
  <2> DEFINE s == FirstOf(n)
             a == start + 1
  <2>1. s \in Seq(Listings) /\ Len(s) = m /\ \A i \in 1..m : s[i] = l[i]
    BY <1>2, <1>3
  <2>2. a \in Int /\ m \in Int /\ a >= 1
    BY <1>1
  <2> HIDE DEF s, m
  <2>3. \A i \in a..m : s[i] \in Listings
    <3> SUFFICES ASSUME NEW i \in a..m PROVE i \in 1..Len(s)
      BY <2>1, ElementOfSeq
    <3> QED
      BY <2>1, <2>2
  <2> HIDE DEF a
  <2>4. /\ SubSeq(s, a, m) \in Seq(Listings)
        /\ Len(SubSeq(s, a, m)) = IF a <= m THEN m - a + 1 ELSE 0
        /\ \A i \in 1..(m - a + 1) : SubSeq(s, a, m)[i] = s[a + i - 1]
    BY <2>2, <2>3, SubSeqProperties
  <2> USE DEF a
  <2>5. page = SubSeq(s, a, m)
    BY <2>1 DEF s
  <2> HIDE DEF page
  <2> QED
    BY <2>1, <2>2, <2>4, <2>5
<1>6. ASSUME start <= N
      PROVE  FirstOf(start) \o page = FirstOf(n)
  <2> DEFINE s == FirstOf(start)
             t == FirstOf(n)
  <2>1. start \in Nat /\ start <= m
    BY <1>1, <1>6
  <2>2. s = SubSeq(l, 1, start)
    BY <1>1, <1>6, <2>1 DEF FirstOf, l
  <2>3. s \in Seq(Listings) /\ Len(s) = start /\ \A i \in 1..start : s[i] = l[i]
    <3>1. \A i \in 1..start : l[i] \in Listings
      BY <1>1, <1>6, ElementOfSeq
    <3>2. /\ SubSeq(l, 1, start) \in Seq(Listings)
          /\ Len(SubSeq(l, 1, start)) = IF 1 <= start THEN start - 1 + 1 ELSE 0
          /\ \A i \in 1..(start - 1 + 1) : SubSeq(l, 1, start)[i] = l[1 + i - 1]
      BY <2>1, <3>1, SubSeqProperties
    <3> QED
      BY <2>1, <2>2, <3>2
  <2>4. t \in Seq(Listings) /\ Len(t) = m /\ \A i \in 1..m : t[i] = l[i]
    BY <1>2, <1>3
  <2> HIDE DEF s, t, page, m
  <2>5. Len(page) = m - start
    BY <1>1, <1>5, <2>1, <2>3, <2>4
  <2>6. /\ s \o page \in Seq(Listings) /\ Len(s \o page) = m
        /\ \A i \in 1..m : (s \o page)[i] = IF i <= start THEN s[i] ELSE page[i - start]
    <3>1. /\ s \o page \in Seq(Listings)
          /\ Len(s \o page) = Len(s) + Len(page)
          /\ \A i \in 1..(Len(s) + Len(page)) :
                (s \o page)[i] = IF i <= Len(s) THEN s[i] ELSE page[i - Len(s)]
      BY <1>5, <2>3, ConcatProperties
    <3>2. Len(s) + Len(page) = m
      BY <2>1, <2>3, <2>4, <2>5
    <3> QED
      BY <2>3, <3>1, <3>2
  <2>7. \A i \in 1..m : (s \o page)[i] = t[i]
    <3> SUFFICES ASSUME NEW i \in 1..m PROVE (s \o page)[i] = t[i]
      OBVIOUS
    <3>1. CASE i <= start
      BY <2>1, <2>3, <2>4, <2>6, <3>1
    <3>2. CASE ~(i <= start)
      <4>1. m \in Nat /\ i - start \in 1..(m - start) /\ start + (i - start) = i
        BY <2>1, <2>4, <3>2
      <4> QED
        BY <1>5, <2>4, <2>6, <3>2, <4>1
    <3> QED
      BY <3>1, <3>2
  <2>8. s \o page = t
    BY <2>4, <2>6, <2>7, SeqEqual
  <2> QED
    BY <2>8 DEF s, t
<1>7. FirstOf(n) \in Seq(Listings) /\ Len(FirstOf(n)) = m
  BY <1>2, <1>3
<1>8. /\ FirstOf(n) \in Seq(Listings)
      /\ Len(FirstOf(n)) = IF n < Len(resolved_signals) THEN n ELSE Len(resolved_signals)
      /\ n >= Len(resolved_signals) => FirstOf(n) = resolved_signals
      /\ page \in Seq(Listings)
      /\ start <= Len(resolved_signals) => FirstOf(start) \o page = FirstOf(n)
  <2>1. (start <= N => FirstOf(start) \o page = FirstOf(n)) /\ page \in Seq(Listings)
    BY <1>5, <1>6
  <2> HIDE DEF page
  <2> QED
    BY <1>4, <1>7, <2>1 DEF l
<1> QED
  BY <1>8

LEMMA ClampedIsPositive ==
    ASSUME NEW n \in Int \cup NoValue, NEW default \in Nat \ {0}, NEW top \in Nat \ {0}
    PROVE  Clamped(n, default, top) \in Nat \ {0}
BY DEF Clamped

\* The first signal with an id, if there is one.
LEMMA FirstMatch ==
    ASSUME NEW ref
    PROVE  LET matches(s) == s.id = ref
               found == SelectInSeq(resolved_signals, matches)
           IN  \/ found = 0 /\ ref \notin {s.id : s \in Listings}
               \/ /\ found \in 1..Len(resolved_signals)
                  /\ resolved_signals[found] \in Listings
                  /\ resolved_signals[found].id = ref
<1> DEFINE l == resolved_signals
           matches(s) == s.id = ref
           found == SelectInSeq(l, matches)
           I == {i \in 1..Len(l) : l[i].id = ref}
<1>1. l \in Seq(Listings) /\ Len(l) \in Nat
  BY ListIsASeq
<1>2. found = IF I # {} THEN Min(I) ELSE 0
  BY DEF SelectInSeq
<1>3. Listings = {l[i] : i \in 1..Len(l)}
  BY <1>1, RangeEquality DEF Listings
<1> HIDE DEF l, found
<1>4. CASE I = {}
  <2>1. \A i \in 1..Len(l) : l[i].id # ref
    BY <1>4
  <2>2. ref \notin {s.id : s \in Listings}
    BY <1>3, <2>1
  <2> QED
    BY <1>2, <1>4, <2>2 DEF l, found
<1>5. CASE I # {}
  <2>1. I \subseteq Nat
    BY <1>1
  <2>2. \E x \in I : \A y \in I : x <= y
    <3> HIDE DEF I
    <3> QED
      BY <1>5, <2>1, Least
  <2>3. Min(I) \in I
    <3> HIDE DEF I
    <3> QED
      BY <2>2 DEF Min
  <2>4. found \in 1..Len(l) /\ l[found].id = ref
    BY <1>2, <1>5, <2>3
  <2>5. l[found] \in Listings
    BY <1>3, <2>4
  <2> QED
    BY <2>4, <2>5 DEF l, found
<1> QED
  BY <1>4, <1>5

-----------------------------------------------------------------------------
(* What Browse replies.                                                    *)

ReplyTo(r) == IF Mixed(r) THEN BadArgs ELSE IF Paged(r) THEN Page(r) ELSE Tree(r)

ReplyType ==
    [code : {"ok", "BAD_ARGS"}, node : Listings \cup {Missing, Root},
     entries : Seq(Listings), cursor : Nat \cup {Missing}, truncated : BOOLEAN]

LEMMA BadArgsType == BadArgs \in ReplyType /\ BadArgs.code = "BAD_ARGS"
BY EmptySeq DEF BadArgs, Reply, ReplyType

\* Where a page starts and where it goes on.
StartOf(r) == IF r.cursor \in {Missing, Null} THEN 0 ELSE r.cursor
NextOf(r) == StartOf(r) + Clamped(r.max, PageDefault, PageMax)

LEMMA PageReply ==
    ASSUME NEW r \in Requests
    PROVE  \/ Page(r) = BadArgs
           \/ /\ StartOf(r) \in Nat /\ NextOf(r) \in Nat /\ StartOf(r) < NextOf(r)
              /\ Page(r) = Reply(Missing,
                                 SubSeq(FirstOf(NextOf(r)), StartOf(r) + 1, Len(FirstOf(NextOf(r)))),
                                 IF NextOf(r) < Len(resolved_signals) THEN NextOf(r) ELSE Missing,
                                 FALSE)
<1>1. r.cursor \in Int \cup NoValue /\ r.max \in Int \cup NoValue
  BY RequestsAssumption
<1>2. Clamped(r.max, PageDefault, PageMax) \in Nat \ {0}
  BY <1>1, RequestsAssumption, ClampedIsPositive
<1>3. Page(r) = IF r.cursor = Other \/ StartOf(r) < 0 THEN BadArgs
                ELSE Reply(Missing,
                           SubSeq(FirstOf(NextOf(r)), StartOf(r) + 1, Len(FirstOf(NextOf(r)))),
                           IF NextOf(r) < Len(resolved_signals) THEN NextOf(r) ELSE Missing,
                           FALSE)
  BY DEF Page, StartOf, NextOf
<1>4. r.cursor # Other => StartOf(r) \in Int
  BY <1>1 DEF StartOf, NoValue
<1>5. CASE r.cursor = Other \/ StartOf(r) < 0
  BY <1>3, <1>5
<1>6. CASE ~(r.cursor = Other \/ StartOf(r) < 0)
  <2>1. StartOf(r) \in Nat
    BY <1>4, <1>6
  <2>2. NextOf(r) \in Nat /\ StartOf(r) < NextOf(r)
    BY <1>2, <2>1 DEF NextOf
  <2> QED
    BY <1>3, <1>6, <2>1, <2>2
<1> QED
  BY <1>5, <1>6

LEMMA TreeReply ==
    ASSUME NEW r \in Requests
    PROVE  \/ r.ref \in NoValue /\ Tree(r) = BadArgs
           \/ /\ r.ref = Root
              /\ \E limit \in Nat \ {0} :
                    Tree(r) = Reply(Root, FirstOf(limit), Missing, Len(resolved_signals) > limit)
           \/ /\ r.ref \notin NoValue /\ r.ref # Root
              /\ r.ref \notin {s.id : s \in Listings}
              /\ Tree(r) = BadArgs
           \/ /\ r.ref \notin NoValue /\ r.ref # Root
              /\ \E s \in Listings : s.id = r.ref /\ Tree(r) = Reply(s, <<>>, Missing, FALSE)
<1> DEFINE limit == Clamped(r.maxRefs, RefsDefault, RefsMax)
           matches(s) == s.id = r.ref
           found == SelectInSeq(resolved_signals, matches)
<1>1. limit \in Nat \ {0}
  BY RequestsAssumption, ClampedIsPositive
<1>2. \/ found = 0 /\ r.ref \notin {s.id : s \in Listings}
      \/ /\ found \in 1..Len(resolved_signals)
         /\ resolved_signals[found] \in Listings
         /\ resolved_signals[found].id = r.ref
  BY FirstMatch
<1>3. Tree(r) = IF r.ref \in NoValue THEN BadArgs
                ELSE IF r.ref = Root
                THEN Reply(Root, FirstOf(limit), Missing, Len(resolved_signals) > limit)
                ELSE IF found = 0 THEN BadArgs
                ELSE Reply(resolved_signals[found], <<>>, Missing, FALSE)
  BY DEF Tree
<1>4. Len(resolved_signals) \in Nat
  BY ListIsASeq
<1> HIDE DEF limit, found
<1>5. CASE r.ref \in NoValue
  BY <1>3, <1>5
<1>6. CASE r.ref \notin NoValue /\ r.ref = Root
  BY <1>1, <1>3, <1>6
<1>7. CASE r.ref \notin NoValue /\ r.ref # Root /\ found = 0
  <2>1. r.ref \notin {s.id : s \in Listings}
    BY <1>2, <1>4, <1>7
  <2>2. Tree(r) = BadArgs
    BY <1>3, <1>7
  <2> QED
    BY <1>7, <2>1, <2>2
<1>8. CASE r.ref \notin NoValue /\ r.ref # Root /\ found # 0
  BY <1>2, <1>3, <1>8
<1> QED
  BY <1>5, <1>6, <1>7, <1>8

LEMMA ReplyHasType ==
    ASSUME NEW r \in Requests
    PROVE  ReplyTo(r) \in ReplyType
<1>1. Page(r) \in ReplyType
  <2> DEFINE page == SubSeq(FirstOf(NextOf(r)), StartOf(r) + 1, Len(FirstOf(NextOf(r))))
             next == IF NextOf(r) < Len(resolved_signals) THEN NextOf(r) ELSE Missing
  <2>1. CASE /\ StartOf(r) \in Nat /\ NextOf(r) \in Nat /\ StartOf(r) < NextOf(r)
             /\ Page(r) = Reply(Missing, page, next, FALSE)
    <3>1. StartOf(r) \in 0..NextOf(r)
      BY <2>1
    <3>2. page \in Seq(Listings)
      BY <2>1, <3>1, Cuts
    <3>3. next \in Nat \cup {Missing}
      BY <2>1
    <3> HIDE DEF page, next
    <3> QED
      BY <2>1, <3>2, <3>3 DEF Reply, ReplyType
  <2> QED
    BY <2>1, PageReply, BadArgsType
<1>2. Tree(r) \in ReplyType
  <2>1. ASSUME NEW limit \in Nat \ {0},
               Tree(r) = Reply(Root, FirstOf(limit), Missing, Len(resolved_signals) > limit)
        PROVE  Tree(r) \in ReplyType
    <3>1. FirstOf(limit) \in Seq(Listings)
      BY Cuts
    <3> QED
      BY <2>1, <3>1 DEF Reply, ReplyType
  <2>2. ASSUME NEW s \in Listings, Tree(r) = Reply(s, <<>>, Missing, FALSE)
        PROVE  Tree(r) \in ReplyType
    BY <2>2, EmptySeq DEF Reply, ReplyType
  <2> QED
    BY <2>1, <2>2, TreeReply, BadArgsType
<1> QED
  BY <1>1, <1>2, BadArgsType DEF ReplyTo

-----------------------------------------------------------------------------
(* The walk.                                                               *)

InventoryInv ==
    /\ WalkTypeOK
    /\ WalkIsComplete
    /\ asked # Missing => asked \in Requests /\ answer = ReplyTo(asked)

LEMMA InventoryInit == WalkInit => InventoryInv
<1> SUFFICES ASSUME WalkInit PROVE InventoryInv
  OBVIOUS
<1>1. WalkTypeOK
  BY BadArgsType, EmptySeq DEF WalkInit, WalkTypeOK, ReplyType
<1> QED
  BY <1>1 DEF WalkInit, InventoryInv, WalkIsComplete

\* A page that is asked for where the client is leaves it at the end of a longer
\* part of the list, or at its end.
LEMMA WalkGoesOn ==
    ASSUME NEW r \in Requests, Page(r).code = "ok", r.cursor \in {cursor, Missing, Null},
           WalkIsComplete, cursor \in Nat \cup {Missing}
    PROVE  LET w == (IF r.cursor = cursor /\ cursor # Missing THEN walked ELSE <<>>)
                        \o Page(r).entries
           IN  IF Page(r).cursor = Missing THEN w = resolved_signals
               ELSE /\ Page(r).cursor \in 1..(Len(resolved_signals) - 1)
                    /\ w = FirstOf(Page(r).cursor)
<1> DEFINE N == Len(resolved_signals)
           start == StartOf(r)
           next == NextOf(r)
           page == SubSeq(FirstOf(next), start + 1, Len(FirstOf(next)))
           before == IF r.cursor = cursor /\ cursor # Missing THEN walked ELSE <<>>
<1>1. N \in Nat /\ resolved_signals \in Seq(Listings)
  BY ListIsASeq
<1>2. /\ start \in Nat /\ next \in Nat /\ start < next
      /\ Page(r) = Reply(Missing, page, IF next < N THEN next ELSE Missing, FALSE)
  BY PageReply, BadArgsType
<1>3. Page(r).entries = page /\ Page(r).cursor = IF next < N THEN next ELSE Missing
  BY <1>2 DEF Reply
<1>4. before = FirstOf(start) /\ start <= N
  <2>1. CASE r.cursor = cursor /\ cursor # Missing
    <3>1. cursor \in 1..(N - 1) /\ walked = FirstOf(cursor)
      BY <2>1 DEF WalkIsComplete
    <3>2. r.cursor \notin {Missing, Null}
      BY <1>1, <2>1, <3>1, NoValueAssumption DEF NoValue
    <3> QED
      BY <1>1, <2>1, <3>1, <3>2 DEF StartOf
  <2>2. CASE ~(r.cursor = cursor /\ cursor # Missing)
    <3>1. r.cursor \in {Missing, Null}
      BY <2>2
    <3>2. start = 0
      BY <3>1 DEF StartOf
    <3>3. FirstOf(0) = <<>>
      <4>1. FirstOf(0) = SubSeq(resolved_signals, 1, 0)
        BY <1>1 DEF FirstOf
      <4> QED
        BY <4>1, SubSeqEmpty
    <3> QED
      BY <1>1, <2>2, <3>2, <3>3
  <2> QED
    BY <2>1, <2>2
<1>5. before \o page = FirstOf(next)
  <2>1. start \in 0..next
    BY <1>2
  <2>2. start <= N => FirstOf(start) \o page = FirstOf(next)
    BY <1>2, <2>1, Cuts
  <2> QED
    BY <1>4, <2>2
<1>6. next >= N => FirstOf(next) = resolved_signals
  <2>1. next \in 0..next
    BY <1>2
  <2> QED
    BY <1>2, <2>1, Cuts
<1>7. Missing \notin Nat
  BY NoValueAssumption DEF NoValue
<1> HIDE DEF N, start, next, page, before
<1>8. CASE next < N
  <2>1. Page(r).cursor = next /\ Page(r).cursor # Missing
    BY <1>2, <1>3, <1>7, <1>8
  <2>2. next \in 1..(N - 1)
    BY <1>1, <1>2, <1>8 DEF N
  <2> QED
    BY <1>3, <1>5, <2>1, <2>2 DEF N, before
<1>9. CASE ~(next < N)
  <2>1. Page(r).cursor = Missing
    BY <1>3, <1>9
  <2>2. before \o page = resolved_signals
    BY <1>1, <1>2, <1>5, <1>6, <1>9 DEF N
  <2> QED
    BY <1>3, <2>1, <2>2 DEF before
<1> QED
  BY <1>8, <1>9

LEMMA InventoryStep == InventoryInv /\ [WalkNext]_walkVars => InventoryInv'
<1> SUFFICES ASSUME InventoryInv, [WalkNext]_walkVars PROVE InventoryInv'
  OBVIOUS
<1>1. CASE AskSignals
  <2>1. answer' \in ReplyType
    BY <1>1, ListIsASeq DEF AskSignals, Reply, ReplyType
  <2>2. UNCHANGED <<cursor, walked>> /\ asked' = Missing
    BY <1>1 DEF AskSignals
  <2> QED
    BY <2>1, <2>2 DEF InventoryInv, WalkTypeOK, ReplyType, WalkIsComplete
<1>2. ASSUME NEW r \in Requests, Browse(r)
      PROVE  InventoryInv'
  <2>1. asked' = r /\ answer' = ReplyTo(r) /\ answer' \in ReplyType
    BY <1>2, ReplyHasType DEF Browse, ReplyTo
  <2>2. CASE answer'.code = "ok" /\ Paged(r) /\ r.cursor \in {cursor, Missing, Null}
    <3>1. ReplyTo(r) = Page(r)
      BY <2>1, <2>2, BadArgsType DEF ReplyTo
    <3>2. /\ walked' = (IF r.cursor = cursor /\ cursor # Missing THEN walked ELSE <<>>)
                            \o Page(r).entries
          /\ cursor' = Page(r).cursor
      BY <1>2, <2>1, <2>2, <3>1 DEF Browse
    <3>3. IF cursor' = Missing THEN walked' = resolved_signals
          ELSE cursor' \in 1..(Len(resolved_signals) - 1) /\ walked' = FirstOf(cursor')
      BY <2>1, <2>2, <3>1, <3>2, WalkGoesOn DEF InventoryInv, WalkTypeOK
    <3>4. cursor' \in Nat \cup {Missing}
      BY <2>1, <3>1, <3>2 DEF ReplyType
    <3>5. walked' \in Seq(Listings)
      BY <3>3, <3>4, ListIsASeq, Cuts, SMTT(30)
    <3>6. WalkIsComplete'
      BY <3>3 DEF WalkIsComplete
    <3>7. WalkTypeOK'
      BY <2>1, <3>4, <3>5 DEF WalkTypeOK, ReplyType
    <3> QED
      BY <2>1, <3>6, <3>7 DEF InventoryInv
  <2>3. CASE ~(answer'.code = "ok" /\ Paged(r) /\ r.cursor \in {cursor, Missing, Null})
    <3>1. UNCHANGED <<walked, cursor>>
      BY <1>2, <2>3 DEF Browse
    <3>2. WalkIsComplete' /\ WalkTypeOK'
      BY <2>1, <3>1 DEF InventoryInv, WalkTypeOK, ReplyType, WalkIsComplete
    <3> QED
      BY <2>1, <3>2 DEF InventoryInv
  <2> QED
    BY <2>2, <2>3
<1>3. CASE UNCHANGED walkVars
  <2>1. UNCHANGED <<asked, answer, cursor, walked>>
    BY <1>3 DEF walkVars
  <2> QED
    BY <2>1 DEF InventoryInv, WalkTypeOK, WalkIsComplete
<1> QED
  BY <1>1, <1>2, <1>3 DEF WalkNext

\* Every reply of sb/signals and sb/browse has its form, for any poll groups and
\* requests.
THEOREM WalkTyping == WalkSpec => []WalkTypeOK
<1>1. InventoryInv => WalkTypeOK
  BY DEF InventoryInv
<1> QED
  BY <1>1, InventoryInit, InventoryStep, PTL DEF WalkSpec

\* The pages that a client walks through are the list of sb/signals from its
\* start, without a gap or a repetition, and all of it when no cursor is left,
\* for any page sizes, requests in between and poll groups
\* (command_service.py browse, lines 301-355).
THEOREM WalkShowsAll == WalkSpec => []WalkIsComplete
<1>1. InventoryInv => WalkIsComplete
  BY DEF InventoryInv
<1> QED
  BY <1>1, InventoryInit, InventoryStep, PTL DEF WalkSpec

LEMMA TreeTells ==
    ASSUME NEW r \in Requests, ~Mixed(r), ~Paged(r)
    PROVE  IF r.ref = Root
           THEN /\ Tree(r).code = "ok"
                /\ IsPrefix(Tree(r).entries, resolved_signals)
                /\ Tree(r).truncated <=> Tree(r).entries # resolved_signals
           ELSE /\ Tree(r).code = "ok" <=> r.ref \in {s.id : s \in Listings}
                /\ Tree(r).code = "ok" => Tree(r).node \in Listings /\ Tree(r).node.id = r.ref
<1>1. CASE r.ref \in NoValue
  <2>1. r.ref # Root /\ r.ref \notin {s.id : s \in Listings}
    BY <1>1, NoValueAssumption
  <2>2. Tree(r) = BadArgs
    BY <1>1, <2>1, TreeReply
  <2> QED
    BY <2>1, <2>2, BadArgsType
<1>2. CASE r.ref = Root
  <2>1. r.ref \notin NoValue
    BY <1>2, NoValueAssumption
  <2>2. PICK limit \in Nat \ {0} :
           Tree(r) = Reply(Root, FirstOf(limit), Missing, Len(resolved_signals) > limit)
    BY <1>2, <2>1, TreeReply
  <2>3. /\ Tree(r).code = "ok" /\ Tree(r).entries = FirstOf(limit)
        /\ Tree(r).truncated = (Len(resolved_signals) > limit)
    BY <2>2 DEF Reply
  <2> DEFINE l == resolved_signals
             s == FirstOf(limit)
             m == IF limit < Len(l) THEN limit ELSE Len(l)
  <2>4. l \in Seq(Listings) /\ Len(l) \in Nat
    BY ListIsASeq
  <2>5. limit \in 0..limit
    OBVIOUS
  <2>6. s \in Seq(Listings) /\ Len(s) = m /\ (limit >= Len(l) => s = l)
    BY <2>5, Cuts
  <2>7. s = SubSeq(l, 1, m)
    BY DEF FirstOf
  <2> HIDE DEF l, s
  <2>8. IsPrefix(s, l)
    <3>1. SubSeq(s, 1, Len(s)) = s
      BY <2>6, SubSeqFull
    <3> QED
      BY <2>4, <2>6, <2>7, <3>1 DEF IsPrefix
  <2>9. Len(l) > limit <=> s # l
    BY <2>4, <2>6
  <2> QED
    BY <1>2, <2>3, <2>8, <2>9 DEF l, s
<1>3. CASE r.ref \notin NoValue /\ r.ref # Root
  <2>1. CASE r.ref \notin {s.id : s \in Listings} /\ Tree(r) = BadArgs
    BY <1>3, <2>1, BadArgsType
  <2>2. ASSUME NEW s \in Listings, s.id = r.ref, Tree(r) = Reply(s, <<>>, Missing, FALSE)
        PROVE  /\ r.ref \in {x.id : x \in Listings}
               /\ Tree(r).code = "ok" /\ Tree(r).node = s
    BY <2>2 DEF Reply
  <2> QED
    BY <1>3, <2>1, <2>2, TreeReply
<1> QED
  BY <1>1, <1>2, <1>3

\* The tree and the walk show one inventory: the children of the root are the
\* list up to the limit, "truncated" when it has more, and a ref can be opened
\* exactly when a listed signal has it as its id, for any poll groups and
\* requests (command_service.py _browse_hierarchical, lines 357-399).
THEOREM TreeShowsTheList == WalkSpec => []TreeAgreesWithWalk
<1>1. InventoryInv => TreeAgreesWithWalk
  <2> SUFFICES ASSUME InventoryInv, asked # Missing, ~Mixed(asked), ~Paged(asked)
               PROVE  IF asked.ref = Root
                      THEN /\ answer.code = "ok"
                           /\ IsPrefix(answer.entries, resolved_signals)
                           /\ answer.truncated <=> answer.entries # resolved_signals
                      ELSE /\ answer.code = "ok" <=> asked.ref \in {s.id : s \in Listings}
                           /\ answer.code = "ok" =>
                                 answer.node \in Listings /\ answer.node.id = asked.ref
    BY DEF TreeAgreesWithWalk
  <2>1. asked \in Requests /\ answer = Tree(asked)
    BY DEF InventoryInv, ReplyTo
  <2> QED
    BY <2>1, TreeTells
<1> QED
  BY <1>1, InventoryInit, InventoryStep, PTL DEF WalkSpec

-----------------------------------------------------------------------------
(* The three parts side by side.                                           *)

\* The command surface as a whole implements each of its parts: a step of one
\* leaves the variables of the others alone, so that what is proved of a part
\* above holds of the whole.
THEOREM SurfaceKeepsParts == MCSpec => Spec /\ StateSpec /\ WalkSpec
<1>1. MCInit => Init /\ StateInit /\ WalkInit
  BY DEF MCInit
<1>2. [MCNext]_<<scenario, vars, stateVars, walkVars>> =>
        [Next]_vars /\ [StateNext]_stateVars /\ [WalkNext]_walkVars
  BY DEF MCNext
<1> QED
  BY <1>1, <1>2, PTL DEF MCSpec, Spec, StateSpec, WalkSpec

\* Every variable of the command surface keeps its type.
THEOREM SurfaceTyping == MCSpec => []MCTypeOK
<1>1. TypeOK /\ StateTypeOK /\ WalkTypeOK => MCTypeOK
  BY DEF MCTypeOK
<1> QED
  BY <1>1, SurfaceKeepsParts, Typing, StateTyping, WalkTyping, PTL

=============================================================================
