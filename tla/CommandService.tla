--------------------------- MODULE CommandService -------------------------
(***************************************************************************)
(* The batches that commands send to the slave: sb/write and sb/read of    *)
(* command_service.py, class CommandService, with the audit of events.py   *)
(* and the allow-list of config/server_configuration.py.                   *)
(*                                                                         *)
(* An entry of a batch is a record with a ref and a value (sb/read has no  *)
(* use for it).  A handler holds no lock, so batches of several callers    *)
(* mix at the slave; the request of a write and its answer are two steps,  *)
(* and the answer may be lost.                                             *)
(***************************************************************************)
EXTENDS Integers, Sequences, FiniteSets

CONSTANTS
    Callers,        \* threads in which the command inbox runs a handler
    Signals,        \* what _resolve finds
    Permitted,      \* signals on writes.allow
    ReadOnly,       \* signals on a table that cannot be written
    BitSignals,     \* signals that are one bit of a register
    Unknown,        \* a ref that _resolve refuses with ValueError
    Malformed,      \* a ref on which _resolve raises anything else
    Values,         \* values of entries
    Unencodable,    \* values on which encode raises
    Absent,         \* no value
    Writes,         \* the batches that callers may send with sb/write
    Reads,          \* the batches that callers may send with sb/read
    FirstValue,     \* what every signal holds at the start
    MaxBatches,     \* bound on batches
    MaxLosses       \* bound on lost answers and lost audit events

Refs == Signals \cup {Unknown, Malformed}
Entries == [ref : Refs, value : Values \cup {Absent}]

ASSUME SignalsAssumption ==
    /\ Permitted \subseteq Signals /\ ReadOnly \subseteq Signals
    /\ BitSignals \subseteq Signals
    /\ Unknown \notin Signals /\ Malformed \notin Signals /\ Unknown # Malformed
ASSUME ValuesAssumption ==
    FirstValue \in Values /\ Unencodable \subseteq Values /\ Absent \notin Values
ASSUME BatchesAssumption == Writes \cup Reads \subseteq Seq(Entries)
ASSUME BoundsAssumption == MaxBatches \in Nat /\ MaxLosses \in Nat

VARIABLES
    registers,    \* the slave: what each signal's registers hold
    pc,           \* where each caller's handler is
    verb,         \* the verb of each caller's batch
    batch,        \* the batch itself
    results,      \* its results so far: one word for each entry handled
    reads,        \* sb/read: the entries of the reply so far
    applied,      \* history: the entries whose write the slave carried out
    silent,       \* history: those whose answer was lost
    held,         \* history: what the signals held since each sb/read began
    reply,        \* the reply to each caller's latest batch
    trail,        \* the audit events that arrived, in this order
    batches,      \* environment: batches begun so far
    losses        \* environment: losses so far

handling == <<pc, verb, batch, results, reads, reply>>
history == <<applied, silent, held>>
vars == <<registers, handling, history, trail, batches, losses>>

Skipped == {"unresolvable", "refused", "missing", "readOnly", "bit"}
Failed == {"unencodable", "rejected", "unanswered"}
Attempted == Failed \cup {"ok"}
Words == Skipped \cup Attempted \cup {"good", "bad"}
Sample == [signal : Signals, quality : {"GOOD", "BAD"}, value : Values \cup {Absent}]

TypeOK ==
    /\ registers \in [Signals -> Values]
    /\ pc \in [Callers -> {"idle", "entry", "sent", "audit"}]
    /\ verb \in [Callers -> {"sb/write", "sb/read"}]
    /\ batch \in [Callers -> Writes \cup Reads \cup {<<>>}]
    /\ results \in [Callers -> Seq(Words)]
    /\ reads \in [Callers -> Seq(Sample)]
    /\ held \in [Callers -> SUBSET (Signals \X Values)]
    /\ applied \in [Callers -> SUBSET Nat]
    /\ silent \in [Callers -> SUBSET Nat]
    /\ reply \in [Callers -> {"none", "ok", "error", "WRITE_NOT_ALLOWED", "WRITE_FAILED"}]
    /\ trail \in Seq([caller : Callers, signal : Signals, value : Values, ok : BOOLEAN])
    /\ batches \in Nat
    /\ losses \in Nat

Init ==
    /\ registers = [s \in Signals |-> FirstValue]
    /\ pc = [c \in Callers |-> "idle"]
    /\ verb = [c \in Callers |-> "sb/write"]
    /\ batch = [c \in Callers |-> <<>>]
    /\ results = [c \in Callers |-> <<>>]
    /\ applied = [c \in Callers |-> {}]
    /\ reads = [c \in Callers |-> <<>>]
    /\ silent = [c \in Callers |-> {}]
    /\ held = [c \in Callers |-> {}]
    /\ reply = [c \in Callers |-> "none"]
    /\ trail = <<>>
    /\ batches = 0
    /\ losses = 0

Goto(c, from, to) ==
    /\ pc[c] = from
    /\ pc' = [pc EXCEPT ![c] = to]

-----------------------------------------------------------------------------
(* What the two verbs share: the loop over the entries of the batch.       *)

Begin(c, name, body) ==
    /\ batches < MaxBatches
    /\ batches' = batches + 1
    /\ Goto(c, "idle", "entry")
    /\ verb' = [verb EXCEPT ![c] = name]
    /\ batch' = [batch EXCEPT ![c] = body]
    /\ results' = [results EXCEPT ![c] = <<>>]
    /\ reads' = [reads EXCEPT ![c] = <<>>]
    /\ applied' = [applied EXCEPT ![c] = {}]
    /\ silent' = [silent EXCEPT ![c] = {}]
    /\ held' = [held EXCEPT ![c] =
          IF name = "sb/read" THEN {<<s, registers[s]>> : s \in Signals} ELSE {}]
    /\ UNCHANGED <<registers, reply, trail, losses>>

\* The entry at hand is the one after those that have a result.
AtHand(c) == Len(results[c]) + 1
HasEntry(c) == AtHand(c) <= Len(batch[c])
Entry(c) == batch[c][AtHand(c)]
Result(c, word) == results' = [results EXCEPT ![c] = Append(results[c], word)]

\* An entry of the batch of this verb is at hand and _resolve does not raise
\* what the loop leaves uncaught.
At(c, name) == verb[c] = name /\ HasEntry(c) /\ Entry(c).ref # Malformed

\* An exception that the loop does not catch ends the handler.
Abort(c) ==
    /\ HasEntry(c)
    /\ Entry(c).ref = Malformed
    /\ Goto(c, "entry", "idle")
    /\ reply' = [reply EXCEPT ![c] = "error"]
    /\ UNCHANGED <<registers, verb, batch, results, reads, history, trail, batches, losses>>

-----------------------------------------------------------------------------
(* sb/write.                                                               *)

\* Mutant: the allow-list is asked last.
VerdictAllowsLate(e) ==
    IF e.ref = Unknown THEN "unresolvable"
    ELSE IF e.value = Absent THEN "missing"
    ELSE IF e.ref \in ReadOnly THEN "readOnly"
    ELSE IF e.ref \in BitSignals THEN "bit"
    ELSE IF e.ref \notin Permitted THEN "refused"
    ELSE "attempt"

\* The checks before any request, in their order.
Verdict(e) ==
    IF e.ref = Unknown THEN "unresolvable"
    ELSE IF e.ref \notin Permitted THEN "refused"
    ELSE IF e.value = Absent THEN "missing"
    ELSE IF e.ref \in ReadOnly THEN "readOnly"
    ELSE IF e.ref \in BitSignals THEN "bit"
    ELSE "attempt"

Skip(c) ==
    /\ pc[c] = "entry"
    /\ At(c, "sb/write")
    /\ Verdict(Entry(c)) \in Skipped
    /\ Result(c, Verdict(Entry(c)))
    /\ UNCHANGED <<registers, pc, verb, batch, reads, reply, history, trail, batches, losses>>

\* The entry is tried and it is known at once what came of it.
Settle(c, word) ==
    /\ At(c, "sb/write")
    /\ Verdict(Entry(c)) = "attempt"
    /\ Goto(c, "entry", "audit")
    /\ Result(c, word)
    /\ UNCHANGED <<registers, verb, batch, reads, reply, history, trail, batches, losses>>

EncodeFails(c) == Settle(c, "unencodable") /\ Entry(c).value \in Unencodable

\* No link, no client, or an exception response.
Rejected(c) == Settle(c, "rejected") /\ Entry(c).value \notin Unencodable

\* The slave carries the write out.  The reads under way see it.
Apply(c) ==
    /\ At(c, "sb/write")
    /\ Verdict(Entry(c)) = "attempt"
    /\ Entry(c).value \notin Unencodable
    /\ Goto(c, "entry", "sent")
    /\ registers' = [registers EXCEPT ![Entry(c).ref] = Entry(c).value]
    /\ applied' = [applied EXCEPT ![c] = applied[c] \cup {AtHand(c)}]
    /\ held' = [d \in Callers |->
          IF pc[d] # "idle" /\ verb[d] = "sb/read"
          THEN held[d] \cup {<<Entry(c).ref, Entry(c).value>>} ELSE held[d]]
    /\ UNCHANGED <<verb, batch, results, reads, reply, silent, trail, batches, losses>>

Answered(c) ==
    /\ Goto(c, "sent", "audit")
    /\ Result(c, "ok")
    /\ UNCHANGED <<registers, verb, batch, reads, reply, history, trail, batches, losses>>

\* A timeout: for the handler the write has failed.
Unanswered(c) ==
    /\ losses < MaxLosses
    /\ Goto(c, "sent", "audit")
    /\ Result(c, "unanswered")
    /\ silent' = [silent EXCEPT ![c] = silent[c] \cup {AtHand(c)}]
    /\ losses' = losses + 1
    /\ UNCHANGED <<registers, verb, batch, reads, reply, applied, held, trail, batches>>

\* The entry that the audit is about.
Event(c) ==
    LET i == Len(results[c])
    IN  [caller |-> c, signal |-> batch[c][i].ref, value |-> batch[c][i].value,
         ok |-> results[c][i] = "ok"]

\* Mutant: only failures are audited.
AuditArrivesFailures(c) ==
    /\ Goto(c, "audit", "entry")
    /\ trail' = IF Event(c).ok THEN trail ELSE Append(trail, Event(c))
    /\ UNCHANGED <<registers, verb, batch, results, reads, reply, history, batches, losses>>

AuditArrives(c) ==
    /\ Goto(c, "audit", "entry")
    /\ trail' = Append(trail, Event(c))
    /\ UNCHANGED <<registers, verb, batch, results, reads, reply, history, batches, losses>>

\* An event that cannot be sent is only logged.
AuditLost(c) ==
    /\ losses < MaxLosses
    /\ Goto(c, "audit", "entry")
    /\ losses' = losses + 1
    /\ UNCHANGED <<registers, verb, batch, results, reads, reply, history, trail, batches>>

WordsOf(c) == {results[c][i] : i \in DOMAIN results[c]}

\* Mutant: a reply that no caller knows.
FinishWritePartly(c) ==
    /\ verb[c] = "sb/write" /\ ~HasEntry(c)
    /\ Goto(c, "entry", "idle")
    /\ reply' = [reply EXCEPT ![c] = IF WordsOf(c) \subseteq {"ok"} THEN "ok" ELSE "partly"]
    /\ UNCHANGED <<registers, verb, batch, results, reads, history, trail, batches, losses>>

\* The reply: two errors for batches of which nothing was written, and the
\* results of all entries otherwise.
FinishWrite(c) ==
    /\ verb[c] = "sb/write" /\ ~HasEntry(c)
    /\ Goto(c, "entry", "idle")
    /\ reply' = [reply EXCEPT ![c] =
          IF WordsOf(c) = {"refused"} THEN "WRITE_NOT_ALLOWED"
          ELSE IF WordsOf(c) \cap Failed # {} /\ "ok" \notin WordsOf(c) THEN "WRITE_FAILED"
          ELSE "ok"]
    /\ UNCHANGED <<registers, verb, batch, results, reads, history, trail, batches, losses>>

Write(c) ==
    \/ Skip(c)
    \/ EncodeFails(c)
    \/ Apply(c)
    \/ Rejected(c)
    \/ Answered(c)
    \/ Unanswered(c)
    \/ AuditArrives(c)
    \/ AuditLost(c)
    \/ FinishWrite(c)

-----------------------------------------------------------------------------
(* sb/read: no allow-list, no audit, and a failure is an entry of its own. *)

\* Mutant: a ref that is not found takes the entry after it along.
ReadSkippedTwice(c) ==
    /\ pc[c] = "entry"
    /\ At(c, "sb/read")
    /\ Entry(c).ref = Unknown
    /\ results' = [results EXCEPT ![c] = results[c] \o
          IF AtHand(c) < Len(batch[c]) THEN <<"unresolvable", "unresolvable">>
          ELSE <<"unresolvable">>]
    /\ UNCHANGED <<registers, pc, verb, batch, reads, reply, history, trail, batches, losses>>

ReadSkipped(c) ==
    /\ pc[c] = "entry"
    /\ At(c, "sb/read")
    /\ Entry(c).ref = Unknown
    /\ Result(c, "unresolvable")
    /\ UNCHANGED <<registers, pc, verb, batch, reads, reply, history, trail, batches, losses>>

ReadOne(c, word, quality, value) ==
    /\ pc[c] = "entry"
    /\ At(c, "sb/read")
    /\ Entry(c).ref # Unknown
    /\ Result(c, word)
    /\ reads' = [reads EXCEPT ![c] = Append(reads[c],
          [signal |-> Entry(c).ref, quality |-> quality, value |-> value])]
    /\ UNCHANGED <<registers, pc, verb, batch, reply, history, trail, batches, losses>>

\* The value is what the slave holds when it answers.
ReadArrives(c) == ReadOne(c, "good", "GOOD", registers[Entry(c).ref])

\* No link, an exception response, no answer, or data that decode refuses.
ReadFails(c) == ReadOne(c, "bad", "BAD", Absent)

FinishRead(c) ==
    /\ verb[c] = "sb/read" /\ ~HasEntry(c)
    /\ Goto(c, "entry", "idle")
    /\ reply' = [reply EXCEPT ![c] = "ok"]
    /\ UNCHANGED <<registers, verb, batch, results, reads, history, trail, batches, losses>>

-----------------------------------------------------------------------------

Next ==
    \E c \in Callers :
        \/ \E body \in Writes : Begin(c, "sb/write", body)
        \/ \E body \in Reads : Begin(c, "sb/read", body)
        \/ Write(c)
        \/ ReadSkipped(c)
        \/ ReadArrives(c)
        \/ ReadFails(c)
        \/ FinishRead(c)
        \/ Abort(c)

Spec == Init /\ [][Next]_vars

-----------------------------------------------------------------------------
(* Safety.                                                                 *)

Replied(c, name) == verb[c] = name /\ pc[c] = "idle" /\ reply[c] \notin {"none", "error"}

\* What the reply says of a batch is what the slave did: nothing that the list
\* does not allow was ever sent, WRITE_NOT_ALLOWED means that the list allows no
\* entry, WRITE_FAILED that no write was confirmed, and otherwise the entries
\* reported as written are those that were carried out and answered.  (After an
\* abort the caller learns nothing.)
ReplyTellsWrites ==
    \A c \in Callers :
        /\ \A i \in applied[c] : batch[c][i].ref \in Permitted \ (ReadOnly \cup BitSignals)
        /\ Replied(c, "sb/write") =>
              /\ Len(results[c]) = Len(batch[c])
              /\ reply[c] = "WRITE_NOT_ALLOWED" <=>
                    /\ batch[c] # <<>>
                    /\ \A i \in DOMAIN batch[c] : batch[c][i].ref \in Signals \ Permitted
              /\ reply[c] = "WRITE_FAILED" => applied[c] \subseteq silent[c]
              /\ reply[c] = "ok" =>
                    {i \in DOMAIN results[c] : results[c][i] = "ok"} = applied[c] \ silent[c]

\* The newest successful write of a caller to a signal in the audit trail.
NewestOf(c, s) ==
    LET writes == {i \in DOMAIN trail :
                      trail[i].caller = c /\ trail[i].signal = s /\ trail[i].ok}
    IN  {i \in writes : \A j \in writes : j <= i}

\* When no batch is underway and nothing was lost, each signal holds what the
\* trail gives as the newest write of one of the callers, aborted batches
\* included.  Of which caller the trail does not tell: a write and its audit
\* are two steps.
TrailTellsSlave ==
    losses = 0 /\ (\A c \in Callers : pc[c] = "idle") =>
        \A s \in Signals :
            LET newest == UNION {NewestOf(c, s) : c \in Callers}
            IN  \/ newest = {} /\ registers[s] = FirstValue
                \/ \E i \in newest : registers[s] = trail[i].value

\* How many of the first k refs of a batch can be resolved.
Resolved(body, k) == Cardinality({i \in 1..k : body[i].ref # Unknown})

\* The reply of sb/read has one entry for each ref that can be resolved, in the
\* order of the refs, and a GOOD one gives a value that the slave held while the
\* command ran, whatever other callers wrote meanwhile.
ReadsTellSlave ==
    \A c \in Callers : Replied(c, "sb/read") =>
        /\ Len(reads[c]) = Resolved(batch[c], Len(batch[c]))
        /\ \A k \in DOMAIN batch[c] : batch[c][k].ref # Unknown =>
              LET entry == reads[c][Resolved(batch[c], k)]
              IN  /\ entry.signal = batch[c][k].ref
                  /\ entry.quality = "GOOD" => <<entry.signal, entry.value>> \in held[c]

=============================================================================
