--------------------------- MODULE ModbusDevice ---------------------------
(***************************************************************************)
(* What operators learn of the link: the tick thread of device.py, class   *)
(* ModbusDevice, the alarm of events.py, and the health metric of          *)
(* health.py with its counters in metrics.py, on top of ModbusConnection.  *)
(*                                                                         *)
(* Each poller stands for one signal, in a read block of its own.  Of the  *)
(* counters, those that tell something about the link are here: recoveries *)
(* and stale signals.  The flush that the tick does first is in            *)
(* SignalUpdatePublisher.                                                  *)
(***************************************************************************)
EXTENDS ModbusConnection, FiniteSets

CONSTANTS
    StaleAfter,    \* staleSignalSecs
    MaxLosses      \* bound on metrics and events that are lost

ASSUME PollersAssumption == IsFiniteSet(Pollers)
ASSUME DeviceBoundsAssumption == StaleAfter \in Nat /\ MaxLosses \in Nat

VARIABLES
    tick,          \* the tick thread: "waiting", "sampled" or "reported"
    seen,          \* what is_connected returned in this tick
    announced,     \* ModbusDevice._connected
    recoveries,    \* ClientMetrics._reconnects_interval
    known,         \* the keys of _last_update
    age,           \* time since the last update of each of them
    alarm,         \* the console: the connection alarm is raised
    health,        \* the console: the newest health metric
    counted,       \* the console: recoveries that metrics have reported so far
    cleared,       \* history: alarms cleared by the tick
    losses         \* environment: metrics and events lost so far

tracker == <<known, age>>
console == <<alarm, health, counted>>
device == <<tick, seen, announced, recoveries, tracker, console, cleared, losses>>
deviceVars == <<vars, device>>

DeviceTypeOK ==
    /\ tick \in {"waiting", "sampled", "reported"}
    /\ seen \in BOOLEAN
    /\ announced \in BOOLEAN
    /\ recoveries \in Nat
    /\ known \subseteq Pollers
    /\ age \in [Pollers -> Nat]
    /\ alarm \in BOOLEAN
    /\ health \in [connected : BOOLEAN, stale : Nat]
    /\ counted \in Nat
    /\ cleared \in Nat
    /\ losses \in Nat

\* An earlier life of the process may have left the alarm raised.
DeviceInit ==
    /\ Init
    /\ tick = "waiting"
    /\ seen = FALSE
    /\ announced = FALSE
    /\ recoveries = 0
    /\ known = {}
    /\ age = [p \in Pollers |-> 0]
    /\ alarm \in BOOLEAN
    /\ health = [connected |-> FALSE, stale |-> 0]
    /\ counted = 0
    /\ cleared = 0
    /\ losses = 0

\* An emission arrives or is lost; a lost one is only logged.
Emission == {"arrives"} \cup (IF losses < MaxLosses THEN {"lost"} ELSE {})

Count(outcome) == losses' = IF outcome = "lost" THEN losses + 1 ELSE losses

\* events.connection
Announce(link, outcome) == alarm' = IF outcome = "lost" THEN alarm ELSE ~link

\* stale_count: only signals that were read at least once can be stale.
Stale == {p \in known : age[p] > StaleAfter}

-----------------------------------------------------------------------------
(* The constructor, after connect() has returned: health, then the alarm,  *)
(* before any poll thread or the tick exists.  Either may be lost.         *)

StartDevice ==
    /\ ConnectOk
    /\ announced' = TRUE
    /\ \E lost \in SUBSET {"health", "alarm"} :
          /\ losses' = losses + Cardinality(lost)
          /\ losses' <= MaxLosses
          /\ health' = IF "health" \in lost THEN health
                       ELSE [connected |-> TRUE, stale |-> 0]
          /\ alarm' = IF "alarm" \in lost THEN alarm ELSE FALSE
    /\ UNCHANGED <<tick, seen, recoveries, tracker, counted, cleared>>

\* A poll that returns data refreshes its signal; one that is answered with an
\* exception reaches the slave and refreshes nothing.
Refresh(p) ==
    /\ MarkReached(p)
    /\ \/ known' = known \cup {p} /\ age' = [age EXCEPT ![p] = 0]
       \/ UNCHANGED tracker
    /\ UNCHANGED <<tick, seen, announced, recoveries, console, cleared, losses>>

\* Time passes.  An age beyond StaleAfter tells no more.
Advance ==
    /\ known \ Stale # {}
    /\ age' = [p \in Pollers |-> IF p \in known \ Stale THEN age[p] + 1 ELSE age[p]]
    /\ UNCHANGED <<vars, tick, seen, announced, recoveries, known, console, cleared, losses>>

-----------------------------------------------------------------------------
(* _tick_loop.                                                             *)

\* Mutant: a state that the rest of the loop does not know.
TickSampleUnknown ==
    /\ started
    /\ tick = "waiting"
    /\ tick' = "polled"
    /\ seen' = connected
    /\ UNCHANGED <<vars, announced, recoveries, tracker, console, cleared, losses>>

TickSample ==
    /\ started
    /\ tick = "waiting"
    /\ tick' = "sampled"
    /\ seen' = connected
    /\ UNCHANGED <<vars, announced, recoveries, tracker, console, cleared, losses>>

\* Mutant: the metric is sent only with a transition.
TickReportChanges ==
    /\ tick = "sampled"
    /\ tick' = "reported"
    /\ IF seen = announced THEN UNCHANGED <<recoveries, health, counted, losses>>
       ELSE /\ recoveries' = 0
            /\ \E outcome \in Emission :
                  /\ Count(outcome)
                  /\ IF outcome = "lost" THEN UNCHANGED <<health, counted>>
                     ELSE /\ health' = [connected |-> seen, stale |-> Cardinality(Stale)]
                          /\ counted' = counted + recoveries
    /\ UNCHANGED <<vars, seen, announced, tracker, alarm, cleared>>

\* Mutant: like signalsSubscribed, stale signals are reported as 0 without a link.
TickReportConnected ==
    /\ tick = "sampled"
    /\ tick' = "reported"
    /\ recoveries' = 0
    /\ \E outcome \in Emission :
          /\ Count(outcome)
          /\ IF outcome = "lost" THEN UNCHANGED <<health, counted>>
             ELSE /\ health' = [connected |-> seen,
                                stale |-> IF seen THEN Cardinality(Stale) ELSE 0]
                  /\ counted' = counted + recoveries
    /\ UNCHANGED <<vars, seen, announced, tracker, alarm, cleared>>

\* health.emit: the counter is drained before the metric is sent.
TickReport ==
    /\ tick = "sampled"
    /\ tick' = "reported"
    /\ recoveries' = 0
    /\ \E outcome \in Emission :
          /\ Count(outcome)
          /\ IF outcome = "lost" THEN UNCHANGED <<health, counted>>
             ELSE /\ health' = [connected |-> seen, stale |-> Cardinality(Stale)]
                  /\ counted' = counted + recoveries
    /\ UNCHANGED <<vars, seen, announced, tracker, alarm, cleared>>

\* No transition: the tick is over.
TickQuiet ==
    /\ tick = "reported"
    /\ seen = announced
    /\ tick' = "waiting"
    /\ UNCHANGED <<vars, seen, announced, recoveries, tracker, console, cleared, losses>>

\* Mutant: losses are counted as well.
TickTransitionCountsAll ==
    /\ tick = "reported"
    /\ seen # announced
    /\ tick' = "waiting"
    /\ announced' = seen
    /\ recoveries' = recoveries + 1
    /\ cleared' = IF seen THEN cleared + 1 ELSE cleared
    /\ \E outcome \in Emission : Announce(seen, outcome) /\ Count(outcome)
    /\ UNCHANGED <<vars, seen, tracker, health, counted>>

\* Mutant: is_connected is asked again for the state to remember.
TickTransitionReadsAgain ==
    /\ tick = "reported"
    /\ seen # announced
    /\ tick' = "waiting"
    /\ announced' = connected
    /\ recoveries' = IF seen THEN recoveries + 1 ELSE recoveries
    /\ cleared' = IF seen THEN cleared + 1 ELSE cleared
    /\ \E outcome \in Emission : Announce(seen, outcome) /\ Count(outcome)
    /\ UNCHANGED <<vars, seen, tracker, health, counted>>

\* A recovery is counted, and reported by the next tick.
TickTransition ==
    /\ tick = "reported"
    /\ seen # announced
    /\ tick' = "waiting"
    /\ announced' = seen
    /\ recoveries' = IF seen THEN recoveries + 1 ELSE recoveries
    /\ cleared' = IF seen THEN cleared + 1 ELSE cleared
    /\ \E outcome \in Emission : Announce(seen, outcome) /\ Count(outcome)
    /\ UNCHANGED <<vars, seen, tracker, health, counted>>

-----------------------------------------------------------------------------

\* The other steps of the connection.
LinkStep ==
    \/ ConnectFail
    \/ \E t \in Threads : StartRead(t) \/ AnswerArrives(t) \/ AnswerFails(t) \/ MarkLost(t)
    \/ \E c \in Callers : MarkReached(c) \/ RcClose(c) \/ FinishReconnect(c)
    \/ Pause
    \/ Resume
    \/ SlaveDown
    \/ SlaveUp

Tick == TickSample \/ TickReport \/ TickQuiet \/ TickTransition

DeviceNext ==
    \/ StartDevice
    \/ \E p \in Pollers : Refresh(p)
    \/ LinkStep /\ UNCHANGED device
    \/ Advance
    \/ Tick

DeviceSpec == DeviceInit /\ [][DeviceNext]_deviceVars

\* The threads of the connection as before; the tick loop goes on and time passes.
DeviceFairSpec ==
    DeviceSpec /\ Fairness /\ WF_deviceVars(Tick) /\ WF_deviceVars(Advance)

-----------------------------------------------------------------------------
(* Safety.                                                                 *)

\* The metric and the alarm tell the same story: as long as nothing was lost,
\* the recoveries reported or about to be are the alarms that were cleared
\* (device.py, lines 80-86: the counter is drained before it is incremented).
RecoveriesMatchAlarms == losses = 0 => counted + recoveries = cleared

-----------------------------------------------------------------------------
(* Liveness.                                                               *)

\* The alarm follows the link, in spite of the time between the sample and the
\* announcement, as long as no event is lost: a lost one is not sent again.
AlarmFollows ==
    [](losses = 0) =>
        /\ <>[](slave = "up" /\ Polled) => <>[]~alarm
        /\ <>[](slave = "down" /\ Polled) => <>[]alarm

\* The metric follows the link, even when some were lost.
HealthFollows ==
    /\ <>[](slave = "up" /\ Polled) => <>[]health.connected
    /\ <>[](slave = "down" /\ Polled) => <>[]~health.connected

\* A lasting outage is reported: in the end the metric tells of as many stale
\* signals at least as were read before it, in spite of reads that are still
\* under way when it begins and of metrics that are lost (stale_count).  Whether
\* those that were never read count as well is left open: by metrics.md:35 and
\* health.py:6 they do, in the code they do not.
OutageIsStale == <>[](slave = "down") => <>[](health.stale >= Cardinality(known))

=============================================================================
