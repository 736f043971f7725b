----------------------- MODULE SignalUpdatePublisher ----------------------
(***************************************************************************)
(* Batched publishing of one instance (batchMs > 0) and its shutdown:      *)
(* publisher.py, class SignalUpdatePublisher, with the tick loop and the   *)
(* stop of device.py and the stop of poll_manager.py.                      *)
(*                                                                         *)
(* Threads: the pollers offer; the tick and, at the end, the thread that   *)
(* runs ModbusDevice.stop flush.  The samples of a signal are numbered in  *)
(* the order in which they are offered, and have a kind: with or without a *)
(* value.  An entry of _pending keeps the samples of a kind in order, and  *)
(* _publish sends each kind as one message, so an entry is a sequence for  *)
(* each kind.  The order in which a flush takes its signals is left open:  *)
(* samples of different signals are not compared.                          *)
(***************************************************************************)
EXTENDS Naturals, Sequences

CONSTANTS
    Keys,         \* (unit_id, name) of each signal
    Pollers,      \* poll-group threads, joined by stop
    Callers,      \* command threads that run sb/repoll, joined by nobody
    MaxSamples,   \* bound on the samples of a signal
    MaxPauses     \* bound on sb/pause commands

ASSUME BoundsAssumption == MaxSamples \in Nat /\ MaxPauses \in Nat

Kinds == {"valued", "valueless"}
Flushers == {"tick", "stop"}

VARIABLES
    accepted,    \* how many samples of each signal were offered
    pending,     \* _pending
    hand,        \* hand[f]: what flusher f took and has still to publish
    delivered,   \* what the consumer received, in this order
    lost,        \* samples of failed publishes
    paused,      \* PauseState._paused
    polling,     \* the poll threads that have not ended
    tick,        \* the tick thread: "waiting", "due", "flushing" or "ended"
    stage,       \* the shutdown: how far stop() has come
    cutoff,      \* history: accepted when the joins were over
    pauses       \* environment: sb/pause commands so far

flow == <<accepted, pending, hand, delivered, lost>>
control == <<paused, polling, tick, stage, cutoff, pauses>>
vars == <<flow, control>>

Nothing == [m \in Kinds |-> <<>>]
Entry == [Kinds -> Seq(Nat)]

TypeOK ==
    /\ accepted \in [Keys -> Nat]
    /\ pending \in [Keys -> Entry]
    /\ hand \in [Flushers -> [Keys -> Entry]]
    /\ delivered \in [Keys -> Entry]
    /\ lost \in [Keys -> [Kinds -> SUBSET Nat]]
    /\ paused \in BOOLEAN
    /\ polling \subseteq Pollers
    /\ tick \in {"waiting", "due", "flushing", "ended"}
    /\ stage \in {"running", "stopping", "joined", "flushing", "closed"}
    /\ cutoff \in [Keys -> Nat]
    /\ pauses \in Nat

Init ==
    /\ accepted = [k \in Keys |-> 0]
    /\ pending = [k \in Keys |-> Nothing]
    /\ hand = [f \in Flushers |-> [k \in Keys |-> Nothing]]
    /\ delivered = [k \in Keys |-> Nothing]
    /\ lost = [k \in Keys |-> [m \in Kinds |-> {}]]
    /\ paused = FALSE
    /\ polling = Pollers
    /\ tick = "waiting"
    /\ stage = "running"
    /\ cutoff = [k \in Keys |-> 0]
    /\ pauses = 0

-----------------------------------------------------------------------------
(* The publisher.                                                          *)

\* Mutant: a sample is put before those that wait.
OfferInFront(p, k, m) ==
    /\ p \in polling \cup Callers
    /\ accepted[k] < MaxSamples
    /\ accepted' = [accepted EXCEPT ![k] = accepted[k] + 1]
    /\ pending' = [pending EXCEPT ![k][m] = <<accepted[k] + 1>> \o pending[k][m]]
    /\ UNCHANGED <<hand, delivered, lost, control>>

\* offer, under the lock.  A cycle that runs when stop is called goes on, and a
\* pause does not end it; a repoll is not stopped at all.
Offer(p, k, m) ==
    /\ p \in polling \cup Callers
    /\ accepted[k] < MaxSamples
    /\ accepted' = [accepted EXCEPT ![k] = accepted[k] + 1]
    /\ pending' = [pending EXCEPT ![k][m] = Append(pending[k][m], accepted[k] + 1)]
    /\ UNCHANGED <<hand, delivered, lost, control>>

\* Mutant: what is taken stays in the batch.
TakeCopy(f) ==
    /\ hand' = [hand EXCEPT ![f] = pending]
    /\ UNCHANGED <<accepted, pending, delivered, lost>>

\* flush, under the lock: take everything.
Take(f) ==
    /\ hand' = [hand EXCEPT ![f] = pending]
    /\ pending' = [k \in Keys |-> Nothing]
    /\ UNCHANGED <<accepted, delivered, lost>>

\* flush, out of the lock: _publish sends the samples with a value first.
NextMessage(f, k, m) ==
    /\ hand[f][k][m] # <<>>
    /\ m = "valueless" => hand[f][k]["valued"] = <<>>

PublishOk(f, k, m) ==
    /\ NextMessage(f, k, m)
    /\ delivered' = [delivered EXCEPT ![k][m] = delivered[k][m] \o hand[f][k][m]]
    /\ hand' = [hand EXCEPT ![f][k][m] = <<>>]
    /\ UNCHANGED <<accepted, pending, lost, control>>

Numbers(s) == {s[i] : i \in DOMAIN s}

\* The exception skips the rest of the entry and is only counted.
PublishFails(f, k, m) ==
    /\ NextMessage(f, k, m)
    /\ lost' = [lost EXCEPT ![k] = [n \in Kinds |-> lost[k][n] \cup Numbers(hand[f][k][n])]]
    /\ hand' = [hand EXCEPT ![f][k] = Nothing]
    /\ UNCHANGED <<accepted, pending, delivered, control>>

Flushed(f) == hand[f] = [k \in Keys |-> Nothing]

-----------------------------------------------------------------------------
(* The tick loop.                                                          *)

\* The wait is over, stop was not called, the instance is not paused.
TickDue ==
    /\ tick = "waiting"
    /\ stage = "running"
    /\ ~paused
    /\ tick' = "due"
    /\ UNCHANGED <<flow, paused, polling, stage, cutoff, pauses>>

TickFlush ==
    /\ tick = "due"
    /\ Take("tick")
    /\ tick' = "flushing"
    /\ UNCHANGED <<paused, polling, stage, cutoff, pauses>>

\* Mutant: the loop goes on before its flush is over.
TickDoneEarly ==
    /\ tick = "flushing"
    /\ tick' = "waiting"
    /\ UNCHANGED <<flow, paused, polling, stage, cutoff, pauses>>

\* Mutant: the loop ends with its first flush.
TickDoneForGood ==
    /\ tick = "flushing"
    /\ Flushed("tick")
    /\ tick' = "ended"
    /\ UNCHANGED <<flow, paused, polling, stage, cutoff, pauses>>

TickDone ==
    /\ tick = "flushing"
    /\ Flushed("tick")
    /\ tick' = "waiting"
    /\ UNCHANGED <<flow, paused, polling, stage, cutoff, pauses>>

\* Mutant: a state of its own for a loop that was stopped.
TickEndsStopped ==
    /\ tick = "waiting"
    /\ stage # "running"
    /\ tick' = "stopped"
    /\ UNCHANGED <<flow, paused, polling, stage, cutoff, pauses>>

TickEnds ==
    /\ tick = "waiting"
    /\ stage # "running"
    /\ tick' = "ended"
    /\ UNCHANGED <<flow, paused, polling, stage, cutoff, pauses>>

-----------------------------------------------------------------------------
(* stop(): set the event, join the pollers, flush, close.  The tick thread *)
(* is not joined.                                                          *)

Stop ==
    /\ stage = "running"
    /\ stage' = "stopping"
    /\ UNCHANGED <<flow, paused, polling, tick, cutoff, pauses>>

\* A poll thread sees the event at the end of its cycle.
PollerEnds(p) ==
    /\ stage # "running"
    /\ p \in polling
    /\ polling' = polling \ {p}
    /\ UNCHANGED <<flow, paused, tick, stage, cutoff, pauses>>

\* Each join returns when its thread has ended or after two seconds.
Joined ==
    /\ stage = "stopping"
    /\ stage' = "joined"
    /\ cutoff' = accepted
    /\ UNCHANGED <<flow, paused, polling, tick, pauses>>

\* Mutant: the last flush is skipped while the instance is paused.
StopFlushUnlessPaused ==
    /\ stage = "joined"
    /\ IF paused THEN UNCHANGED flow ELSE Take("stop")
    /\ stage' = "flushing"
    /\ UNCHANGED <<paused, polling, tick, cutoff, pauses>>

StopFlush ==
    /\ stage = "joined"
    /\ Take("stop")
    /\ stage' = "flushing"
    /\ UNCHANGED <<paused, polling, tick, cutoff, pauses>>

StopDone ==
    /\ stage = "flushing"
    /\ Flushed("stop")
    /\ stage' = "closed"
    /\ UNCHANGED <<flow, paused, polling, tick, cutoff, pauses>>

-----------------------------------------------------------------------------

Pause ==
    /\ ~paused
    /\ pauses < MaxPauses
    /\ paused' = TRUE
    /\ pauses' = pauses + 1
    /\ UNCHANGED <<flow, polling, tick, stage, cutoff>>

Resume ==
    /\ paused
    /\ paused' = FALSE
    /\ UNCHANGED <<flow, polling, tick, stage, cutoff, pauses>>

Publish(f) == \E k \in Keys, m \in Kinds : PublishOk(f, k, m) \/ PublishFails(f, k, m)

Tick == TickDue \/ TickFlush \/ TickDone \/ TickEnds \/ Publish("tick")

Shutdown == Joined \/ StopFlush \/ StopDone \/ Publish("stop")

Next ==
    \/ \E p \in Pollers \cup Callers, k \in Keys, m \in Kinds : Offer(p, k, m)
    \/ \E p \in Pollers : PollerEnds(p)
    \/ Tick
    \/ Stop
    \/ Shutdown
    \/ Pause
    \/ Resume

\* The tick thread and stop() go on: a publish succeeds or fails, a join times
\* out.  No poller has to offer or to end, and nobody has to stop or to pause.
Fairness == WF_vars(Tick) /\ WF_vars(Shutdown)

Spec == Init /\ [][Next]_vars

FairSpec == Spec /\ Fairness

-----------------------------------------------------------------------------
(* Safety.                                                                 *)

\* Where the samples of signal k with kind m can be.
Held(k, m) ==
    Numbers(pending[k][m]) \cup Numbers(hand["tick"][k][m])
        \cup Numbers(hand["stop"][k][m])

Everywhere(k) ==
    UNION {Held(k, m) \cup Numbers(delivered[k][m]) \cup lost[k][m] : m \in Kinds}

\* No sample disappears: each is pending, in a flusher's hand, delivered or
\* counted with a failed publish, also when tick and stop flush at once.
NoneVanishes == \A k \in Keys : Everywhere(k) = 1..accepted[k]

\* None is published twice, or both published and given up.
AtMostOnce ==
    \A k \in Keys, m \in Kinds :
        /\ \A i, j \in DOMAIN delivered[k][m] :
              delivered[k][m][i] = delivered[k][m][j] => i = j
        /\ Numbers(delivered[k][m]) \cap (Held(k, m) \cup lost[k][m]) = {}

\* Each sample that was offered is in one place, and delivered once or given up
\* with a failed publish, also when tick and stop flush at once.
EachSampleOnce == NoneVanishes /\ AtMostOnce

\* Samples of a kind arrive in the order in which they were offered, until stop
\* flushes beside the tick.
Increasing(s) == \A i, j \in DOMAIN s : i < j => s[i] < s[j]

InOrderUntilStop ==
    stage \in {"running", "stopping", "joined"} =>
        \A k \in Keys, m \in Kinds : Increasing(delivered[k][m])

\* stop leaves behind nothing that was offered before its joins were over, but
\* what a tick that it does not wait for still has in hand.  A sample that a
\* repoll, or a poll thread that outlived its join, offers later may stay.
StopDrains ==
    stage = "closed" =>
        \A k \in Keys, m \in Kinds : \A n \in Held(k, m) :
            n <= cutoff[k] => n \in Numbers(hand["tick"][k][m])

-----------------------------------------------------------------------------
(* Liveness.                                                               *)

\* While the instance runs unpaused, no sample stays in the batch.
BatchLeaves ==
    <>[](stage = "running" /\ ~paused) =>
        <>[](\A k \in Keys, m \in Kinds : Held(k, m) = {})

-----------------------------------------------------------------------------
(* Refinement.                                                             *)

Delivery == INSTANCE SampleDelivery WITH
    held <- [k \in Keys |-> [m \in Kinds |-> Held(k, m)]],
    delivered <- [k \in Keys |-> [m \in Kinds |-> Numbers(delivered[k][m])]],
    ordered <- stage \in {"running", "stopping", "joined"}

ImplementsDelivery == Delivery!Spec

=============================================================================
