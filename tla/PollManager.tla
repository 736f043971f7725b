---------------------------- MODULE PollManager ---------------------------
(***************************************************************************)
(* Polling and change detection of one instance: poll_manager.py, class    *)
(* PollManager, with the immediate publishing of publisher.py (batchMs 0), *)
(* the pause flag of pause.py and sb/pause, sb/resume and sb/repoll of     *)
(* command_service.py.                                                     *)
(*                                                                         *)
(* Each poll group has a thread.  Callers are command threads in which     *)
(* sb/repoll polls every group on the same path and the same last[], with  *)
(* no lock.  A block read is one step here: its inside is in               *)
(* ModbusConnection.  Counters and timestamps are left out.                *)
(***************************************************************************)
EXTENDS Deadband, Sequences

CONSTANTS
    Groups,             \* poll groups, each with its thread
    Callers,            \* threads that run sb/repoll
    Signals,
    Owner,              \* Owner[s]: the group that polls signal s
    Blocks,             \* Blocks[g]: the read blocks of g, sequences of signals
    GroupOrder,         \* the groups in the order of the configuration
    Always,             \* the groups with publishMode always
    Band,               \* Band[s]: the deadband of s
    Undecodable,        \* signals whose decode raises
    Readings,           \* the values the slave can hold
    FirstReading,       \* FirstReading[s]: the value at the start
    MaxChanges,         \* bound on changes of the slave's values
    MaxOutages,         \* bound on failures of the slave
    MaxBrokerOutages,   \* bound on failures of the broker
    MaxPauses,          \* bound on sb/pause commands
    MaxRepolls          \* bound on sb/repoll commands

ASSUME ThreadsAssumption == Groups \cap Callers = {}
ASSUME GroupsAssumption == Always \subseteq Groups /\ GroupOrder \in Seq(Groups)
ASSUME SignalsAssumption ==
    /\ Owner \in [Signals -> Groups]
    /\ Band \in [Signals -> Bands]
    /\ FirstReading \in [Signals -> Readings]
    /\ Undecodable \subseteq Signals
    /\ NoValue \notin Readings
ASSUME BlocksAssumption ==
    /\ DOMAIN Blocks = Groups
    /\ \A g \in Groups : Blocks[g] \in Seq(Seq({s \in Signals : Owner[s] = g}))
ASSUME BoundsAssumption ==
    {MaxChanges, MaxOutages, MaxBrokerOutages, MaxPauses, MaxRepolls} \subseteq Nat

Threads == Groups \cup Callers

VARIABLES
    reg,        \* the slave: what each signal's registers hold
    changes,    \* the slave: number of changes so far
    link,       \* "up" or "down": whether block reads succeed
    broker,     \* "up" or "down": whether a publish succeeds
    paused,     \* PauseState._paused
    pc,         \* where each thread is
    queue,      \* groups that a repoll has still to poll
    todo,       \* blocks of the current group that are still to be read
    rest,       \* signals of the current block that are still to be handled
    image,      \* the register image of the current block
    last,       \* _last: the value each signal is compared with
    feed,       \* the newest sample of each signal at the consumer
    good,       \* the newest GOOD value of each signal at the consumer
    outages, brokerOutages, pauses, repolls   \* environment: how often, so far

slaveVars == <<reg, changes>>
jobVars == <<queue, todo, rest, image>>
outVars == <<feed, good>>
env == <<outages, brokerOutages, pauses, repolls>>
vars == <<slaveVars, link, broker, paused, pc, jobVars, last, outVars, env>>

States == {"idle", "polling", "failing", "gating", "committing", "offering"}
Samples == [quality : {"none", "GOOD", "BAD"}, value : Readings \cup {NoValue},
            turn : {0, 1}]

TypeOK ==
    /\ reg \in [Signals -> Readings]
    /\ changes \in Nat
    /\ link \in {"up", "down"}
    /\ broker \in {"up", "down"}
    /\ paused \in BOOLEAN
    /\ pc \in [Threads -> States]
    /\ queue \in [Threads -> Seq(Groups)]
    /\ todo \in [Threads -> Seq(Seq(Signals))]
    /\ rest \in [Threads -> Seq(Signals)]
    /\ image \in [Threads -> [Signals -> Readings]]
    /\ last \in [Signals -> Readings \cup {NoValue}]
    /\ feed \in [Signals -> Samples]
    /\ good \in [Signals -> Readings \cup {NoValue}]
    /\ outages \in Nat /\ brokerOutages \in Nat /\ pauses \in Nat /\ repolls \in Nat

Init ==
    /\ reg = FirstReading
    /\ changes = 0
    /\ link = "up"
    /\ broker = "up"
    /\ paused = FALSE
    /\ pc = [t \in Threads |-> "idle"]
    /\ queue = [t \in Threads |-> <<>>]
    /\ todo = [t \in Threads |-> <<>>]
    /\ rest = [t \in Threads |-> <<>>]
    /\ image = [t \in Threads |-> FirstReading]
    /\ last = [s \in Signals |-> NoValue]
    /\ feed = [s \in Signals |-> [quality |-> "none", value |-> NoValue, turn |-> 0]]
    /\ good = [s \in Signals |-> NoValue]
    /\ outages = 0 /\ brokerOutages = 0 /\ pauses = 0 /\ repolls = 0

Goto(t, from, to) ==
    /\ pc[t] = from
    /\ pc' = [pc EXCEPT ![t] = to]

\* The signal at hand and what its registers held.
Current(t) == Head(rest[t])
Reading(t) == image[t][Current(t)]

\* offer with batchMs 0 publishes at once; a failed publish is logged and the
\* sample is gone.  turn tells two equal samples apart.
Publish(t, quality, value) ==
    LET s == Current(t) IN
    IF broker = "up"
    THEN /\ feed' = [feed EXCEPT ![s] = [quality |-> quality, value |-> value,
                                         turn |-> 1 - feed[s].turn]]
         /\ good' = IF quality = "GOOD" THEN [good EXCEPT ![s] = value] ELSE good
    ELSE UNCHANGED outVars

-----------------------------------------------------------------------------
(* The poll cycle of a thread t.                                           *)

\* Mutant: the loop ignores the pause.
BeginCycleAnyway(g) ==
    /\ Goto(g, "idle", "polling")
    /\ todo' = [todo EXCEPT ![g] = Blocks[g]]
    /\ UNCHANGED <<slaveVars, link, broker, paused, queue, rest, image, last,
                   outVars, env>>

\* _run_group: the interval is over and the instance is not paused.
BeginCycle(g) ==
    /\ ~paused
    /\ Goto(g, "idle", "polling")
    /\ todo' = [todo EXCEPT ![g] = Blocks[g]]
    /\ UNCHANGED <<slaveVars, link, broker, paused, queue, rest, image, last,
                   outVars, env>>

\* repoll of an instance that is not paused: poll_once.  While paused it is
\* refused with PAUSED and changes nothing.
Repoll(c) ==
    /\ repolls < MaxRepolls
    /\ ~paused
    /\ repolls' = repolls + 1
    /\ Goto(c, "idle", "polling")
    /\ queue' = [queue EXCEPT ![c] = GroupOrder]
    /\ UNCHANGED <<slaveVars, link, broker, paused, todo, rest, image,
                   last, outVars, outages, brokerOutages, pauses>>

\* poll_once goes to its next group; a poll thread has an empty queue.
NextGroup(t) ==
    /\ pc[t] = "polling"
    /\ todo[t] = <<>>
    /\ queue[t] # <<>>
    /\ todo' = [todo EXCEPT ![t] = Blocks[Head(queue[t])]]
    /\ queue' = [queue EXCEPT ![t] = Tail(queue[t])]
    /\ UNCHANGED <<slaveVars, link, broker, paused, pc, rest, image,
                   last, outVars, env>>

EndCycle(t) ==
    /\ todo[t] = <<>>
    /\ queue[t] = <<>>
    /\ Goto(t, "polling", "idle")
    /\ UNCHANGED <<slaveVars, link, broker, paused, jobVars, last, outVars, env>>

\* Mutant: a failed block ends the cycle.
ReadBlockGivesUp(t) ==
    /\ todo[t] # <<>>
    /\ Goto(t, "polling", IF link = "up" THEN "gating" ELSE "failing")
    /\ rest' = [rest EXCEPT ![t] = Head(todo[t])]
    /\ todo' = [todo EXCEPT ![t] = IF link = "up" THEN Tail(todo[t]) ELSE <<>>]
    /\ image' = IF link = "up" THEN [image EXCEPT ![t] = reg] ELSE image
    /\ UNCHANGED <<slaveVars, link, broker, paused, queue, last, outVars, env>>

\* read returns the registers, or raises: every signal of the block is then BAD.
ReadBlock(t) ==
    /\ todo[t] # <<>>
    /\ Goto(t, "polling", IF link = "up" THEN "gating" ELSE "failing")
    /\ rest' = [rest EXCEPT ![t] = Head(todo[t])]
    /\ todo' = [todo EXCEPT ![t] = Tail(todo[t])]
    /\ image' = IF link = "up" THEN [image EXCEPT ![t] = reg] ELSE image
    /\ UNCHANGED <<slaveVars, link, broker, paused, queue, last, outVars, env>>

\* Mutant: a quality that no poll publishes.
OfferFailedUncertain(t) ==
    /\ pc[t] = "failing"
    /\ rest[t] # <<>>
    /\ Publish(t, "UNCERTAIN", NoValue)
    /\ rest' = [rest EXCEPT ![t] = Tail(rest[t])]
    /\ UNCHANGED <<slaveVars, link, broker, paused, pc, queue, todo, image, last, env>>

OfferFailed(t) ==
    /\ pc[t] = "failing"
    /\ rest[t] # <<>>
    /\ Publish(t, "BAD", NoValue)
    /\ rest' = [rest EXCEPT ![t] = Tail(rest[t])]
    /\ UNCHANGED <<slaveVars, link, broker, paused, pc, queue, todo, image, last, env>>

OfferUndecodable(t) ==
    /\ pc[t] = "gating"
    /\ rest[t] # <<>>
    /\ Current(t) \in Undecodable
    /\ Publish(t, "BAD", NoValue)
    /\ rest' = [rest EXCEPT ![t] = Tail(rest[t])]
    /\ UNCHANGED <<slaveVars, link, broker, paused, pc, queue, todo, image, last, env>>

\* Mutant: publishMode is not looked at.
PassesOnChange(t) == Exceeds(Band[Current(t)], last[Current(t)], Reading(t))

Passes(t) ==
    LET s == Current(t)
    IN  Owner[s] \in Always \/ Exceeds(Band[s], last[s], Reading(t))

\* The test against last, its update and the publish are three steps: nothing
\* keeps another thread from its own in between.
GatePasses(t) ==
    /\ rest[t] # <<>>
    /\ Current(t) \notin Undecodable
    /\ Passes(t)
    /\ Goto(t, "gating", "committing")
    /\ UNCHANGED <<slaveVars, link, broker, paused, jobVars, last, outVars, env>>

\* Mutant: a suppressed reading becomes the next one's reference.
GateSuppressesCreeping(t) ==
    /\ pc[t] = "gating"
    /\ rest[t] # <<>>
    /\ Current(t) \notin Undecodable
    /\ ~Passes(t)
    /\ rest' = [rest EXCEPT ![t] = Tail(rest[t])]
    /\ last' = [last EXCEPT ![Current(t)] = Reading(t)]
    /\ UNCHANGED <<slaveVars, link, broker, paused, pc, queue, todo, image, outVars, env>>

GateSuppresses(t) ==
    /\ pc[t] = "gating"
    /\ rest[t] # <<>>
    /\ Current(t) \notin Undecodable
    /\ ~Passes(t)
    /\ rest' = [rest EXCEPT ![t] = Tail(rest[t])]
    /\ UNCHANGED <<slaveVars, link, broker, paused, pc, queue, todo, image, last, outVars, env>>

\* Mutant: the published value is not remembered.
CommitNot(t) ==
    /\ Goto(t, "committing", "offering")
    /\ UNCHANGED <<slaveVars, link, broker, paused, jobVars, last, outVars, env>>

Commit(t) ==
    /\ Goto(t, "committing", "offering")
    /\ last' = [last EXCEPT ![Current(t)] = Reading(t)]
    /\ UNCHANGED <<slaveVars, link, broker, paused, jobVars, outVars, env>>

Offer(t) ==
    /\ Goto(t, "offering", "gating")
    /\ Publish(t, "GOOD", Reading(t))
    /\ rest' = [rest EXCEPT ![t] = Tail(rest[t])]
    /\ UNCHANGED <<slaveVars, link, broker, paused, queue, todo, image, last, env>>

EndBlock(t) ==
    /\ pc[t] \in {"gating", "failing"}
    /\ rest[t] = <<>>
    /\ pc' = [pc EXCEPT ![t] = "polling"]
    /\ UNCHANGED <<slaveVars, link, broker, paused, jobVars, last, outVars, env>>

-----------------------------------------------------------------------------
(* sb/pause and sb/resume, and the environment.                            *)

Pause ==
    /\ ~paused
    /\ pauses < MaxPauses
    /\ paused' = TRUE
    /\ pauses' = pauses + 1
    /\ UNCHANGED <<slaveVars, link, broker, pc, jobVars, last, outVars, outages,
                   brokerOutages, repolls>>

Resume ==
    /\ paused
    /\ paused' = FALSE
    /\ UNCHANGED <<slaveVars, link, broker, pc, jobVars, last, outVars, env>>

Change(s) ==
    /\ changes < MaxChanges
    /\ changes' = changes + 1
    /\ \E v \in Readings \ {reg[s]} : reg' = [reg EXCEPT ![s] = v]
    /\ UNCHANGED <<link, broker, paused, pc, jobVars, last, outVars, env>>

LinkDown ==
    /\ link = "up"
    /\ outages < MaxOutages
    /\ link' = "down"
    /\ outages' = outages + 1
    /\ UNCHANGED <<slaveVars, broker, paused, pc, jobVars, last, outVars,
                   brokerOutages, pauses, repolls>>

LinkUp ==
    /\ link = "down"
    /\ link' = "up"
    /\ UNCHANGED <<slaveVars, broker, paused, pc, jobVars, last, outVars, env>>

BrokerDown ==
    /\ broker = "up"
    /\ brokerOutages < MaxBrokerOutages
    /\ broker' = "down"
    /\ brokerOutages' = brokerOutages + 1
    /\ UNCHANGED <<slaveVars, link, paused, pc, jobVars, last, outVars, outages,
                   pauses, repolls>>

BrokerUp ==
    /\ broker = "down"
    /\ broker' = "up"
    /\ UNCHANGED <<slaveVars, link, paused, pc, jobVars, last, outVars, env>>

-----------------------------------------------------------------------------

PollStep(t) ==
    \/ NextGroup(t)
    \/ EndCycle(t)
    \/ ReadBlock(t)
    \/ OfferFailed(t)
    \/ OfferUndecodable(t)
    \/ GatePasses(t)
    \/ GateSuppresses(t)
    \/ Commit(t)
    \/ Offer(t)
    \/ EndBlock(t)

Next ==
    \/ \E g \in Groups : BeginCycle(g)
    \/ \E c \in Callers : Repoll(c)
    \/ \E t \in Threads : PollStep(t)
    \/ Pause
    \/ Resume
    \/ \E s \in Signals : Change(s)
    \/ LinkDown
    \/ LinkUp
    \/ BrokerDown
    \/ BrokerUp

\* A poll thread begins a cycle whenever its interval is over, and a cycle that
\* has begun ends: reads have a timeout.  Commands, changes and failures may or
\* may not come.
Fairness ==
    /\ \A g \in Groups : WF_vars(BeginCycle(g))
    /\ \A t \in Threads : WF_vars(PollStep(t))

Spec == Init /\ [][Next]_vars

FairSpec == Spec /\ Fairness

-----------------------------------------------------------------------------
(* Safety.                                                                 *)

OnChange == {s \in Signals : Owner[s] \notin Always}

\* Thread t has put the reading of s into last and has not published it yet.
Unpublished(t, s) == pc[t] = "offering" /\ Current(t) = s

\* "_last: (unit_id, name) -> last published value" (poll_manager.py:68), but
\* for a thread that is between the two.
LastIsPublished ==
    \A s \in Signals :
        (\A t \in Threads : ~Unpublished(t, s)) => last[s] = good[s]

\* Under onChange the consumer receives a GOOD sample only when it differs from
\* the GOOD value it holds by the deadband: no echo, none within the band
\* (line 165), however failures and pauses fall between the two.
BandRespected ==
    [][\A s \in OnChange :
          feed'[s].turn # feed[s].turn /\ feed'[s].quality = "GOOD" =>
              Exceeds(Band[s], good[s], feed'[s].value)]_vars

-----------------------------------------------------------------------------
(* Liveness.                                                               *)

Decodable == Signals \ Undecodable
Healthy == ~paused /\ link = "up" /\ broker = "up"

\* Once failures and pauses stop, what the consumer holds stands for what the
\* slave holds: no change of more than the band is lost.
ConsumerFollows ==
    <>[]Healthy => <>[](\A s \in Decodable : StandsFor(Band[s], good[s], reg[s]))

\* Once failures and pauses stop, what a consumer of publishMode always holds is
\* the truth: the value that the slave holds, GOOD, or BAD for a signal that
\* cannot be decoded, whatever was lost with the broker before.
ConsumerSeesTruth ==
    <>[]Healthy => <>[](\A s \in Signals :
        IF s \in Decodable THEN feed[s].quality = "GOOD" /\ feed[s].value = reg[s]
        ELSE feed[s].quality = "BAD")

\* While the slave fails and the instance runs, every signal becomes BAD, and a
\* signal that cannot be decoded is BAD for good.
FailureIsSeen ==
    /\ <>[](link = "down" /\ broker = "up" /\ ~paused) =>
          <>[](\A s \in Signals : feed[s].quality = "BAD")
    /\ <>[](broker = "up" /\ ~paused) =>
          <>[](\A s \in Undecodable : feed[s].quality = "BAD")

\* A pause does not stop a cycle that has begun, but it is silent in the end.
PauseSettles == <>[]paused => <>[][feed' = feed]_vars

=============================================================================
