------------------------------ MODULE Adapter -----------------------------
(***************************************************************************)
(* The process that holds the instances: main.py (the workers, set_ready   *)
(* and the shutdown) and routing.py (resolve_instance).                    *)
(*                                                                         *)
(* Each configured instance has a worker thread, which fills devices, a    *)
(* dict that no lock protects, while the threads of the command inbox look *)
(* it up.  The inside of a device, and what a verb does there, is in the   *)
(* other modules: here a handler has the device that it acts on.  The      *)
(* library has resolved the address of a command before.                   *)
(***************************************************************************)
EXTENDS Naturals, SequencesExt

CONSTANTS
    Order,            \* get_instance_ids(): the configured instances, in order
    Misconfigured,    \* those whose ServerConfiguration raises
    Callers,          \* threads in which the command inbox runs a handler
    Unknown,          \* an addressed instance that is not configured
    Nobody,           \* no instance is addressed; no device is at hand
    MaxFlips,         \* bound on how often a slave fails or comes back
    MaxCommands       \* bound on commands

Instances == ToSet(Order)
Addresses == Instances \cup {Unknown, Nobody}

ASSUME InstancesAssumption ==
    /\ IsInjective(Order)
    /\ Misconfigured \subseteq Instances
    /\ Unknown \notin Instances /\ Nobody \notin Instances /\ Unknown # Nobody
ASSUME BoundsAssumption == MaxFlips \in Nat /\ MaxCommands \in Nat

VARIABLES
    phase,        \* main: "running", "stopping" or "down"
    worker,       \* where the worker of each instance is
    devices,      \* the keys of the dict devices, in the order of insertion
    ready,        \* set_ready
    reachable,    \* the slaves that answer
    toStop,       \* main: devices that the shutdown has still to stop
    stopped,      \* devices that stop() was called on
    pc,           \* where each caller is in resolve_instance
    address,      \* the instance that its command names
    target,       \* the device that its handler acts on
    reply,        \* outcome of its latest command
    issuedTo,     \* history: the devices that were ready when the command came
    atSignal,     \* history: the devices that were ready when the signal came
    flips, commands    \* environment: how many so far

startUp == <<worker, devices, ready>>
shutdown == <<phase, toStop, stopped, atSignal>>
routing == <<pc, address, target, reply, issuedTo>>
env == <<flips, commands>>
vars == <<startUp, reachable, shutdown, routing, env>>

Ready == ToSet(devices)

TypeOK ==
    /\ phase \in {"running", "stopping", "down"}
    /\ worker \in [Instances -> {"configuring", "connecting", "registering",
                                 "announcing", "serving", "failed"}]
    /\ devices \in Seq(Instances)
    /\ ready \in BOOLEAN
    /\ reachable \subseteq Instances
    /\ toStop \in Seq(Instances)
    /\ stopped \subseteq Instances
    /\ pc \in [Callers -> {"idle", "counting", "picking", "finding", "handling"}]
    /\ address \in [Callers -> Addresses]
    /\ target \in [Callers -> Instances \cup {Nobody}]
    /\ reply \in [Callers -> {"none", "ok", "BAD_ARGS", "NO_SUCH_INSTANCE", "error"}]
    /\ issuedTo \in [Callers -> SUBSET Instances]
    /\ atSignal \subseteq Instances
    /\ flips \in Nat /\ commands \in Nat

Init ==
    /\ phase = "running"
    /\ worker = [i \in Instances |-> "configuring"]
    /\ devices = <<>>
    /\ ready = FALSE
    /\ reachable \in SUBSET Instances
    /\ toStop = <<>>
    /\ stopped = {}
    /\ pc = [c \in Callers |-> "idle"]
    /\ address = [c \in Callers |-> Nobody]
    /\ target = [c \in Callers |-> Nobody]
    /\ reply = [c \in Callers |-> "none"]
    /\ issuedTo = [c \in Callers |-> {}]
    /\ atSignal = {}
    /\ flips = 0
    /\ commands = 0

-----------------------------------------------------------------------------
(* The workers.  They are daemon threads: only the end of the process      *)
(* stops them.                                                             *)

Step(i, from, to) ==
    /\ phase # "down"
    /\ worker[i] = from
    /\ worker' = [worker EXCEPT ![i] = to]

\* ServerConfiguration.  What it raises is logged and ends the worker.
Configure(i) ==
    /\ Step(i, "configuring", IF i \in Misconfigured THEN "failed" ELSE "connecting")
    /\ UNCHANGED <<devices, ready, reachable, shutdown, routing, env>>

\* Mutant: the instances connect one after the other.
ConnectInOrder(i) ==
    /\ i \in reachable
    /\ \A j, k \in DOMAIN Order :
          j < k /\ Order[k] = i => worker[Order[j]] \in {"serving", "failed"}
    /\ Step(i, "connecting", "registering")
    /\ UNCHANGED <<devices, ready, reachable, shutdown, routing, env>>

\* ModbusDevice: connect() returns as soon as the slave can be reached, and
\* the device runs before it is registered.
Connect(i) ==
    /\ i \in reachable
    /\ Step(i, "connecting", "registering")
    /\ UNCHANGED <<devices, ready, reachable, shutdown, routing, env>>

\* Mutant: the worker of a device that is up goes on as if it were not.
RegisterUnknown(i) ==
    /\ Step(i, "registering", "registered")
    /\ devices' = Append(devices, i)
    /\ UNCHANGED <<ready, reachable, shutdown, routing, env>>

Register(i) ==
    /\ Step(i, "registering", "announcing")
    /\ devices' = Append(devices, i)
    /\ UNCHANGED <<ready, reachable, shutdown, routing, env>>

Announce(i) ==
    /\ Step(i, "announcing", "serving")
    /\ ready' = TRUE
    /\ UNCHANGED <<devices, reachable, shutdown, routing, env>>

Work(i) == Configure(i) \/ Connect(i) \/ Register(i) \/ Announce(i)

Flip(i) ==
    /\ flips < MaxFlips
    /\ flips' = flips + 1
    /\ reachable' = IF i \in reachable THEN reachable \ {i} ELSE reachable \cup {i}
    /\ UNCHANGED <<startUp, shutdown, routing, commands>>

-----------------------------------------------------------------------------
(* resolve_instance.  devices may grow between any two of its steps.       *)

Goto(c, from, to) ==
    /\ phase # "down"
    /\ pc[c] = from
    /\ pc' = [pc EXCEPT ![c] = to]

Issue(c) ==
    /\ phase = "running"
    /\ commands < MaxCommands
    /\ commands' = commands + 1
    /\ \E to \in Addresses :
          /\ address' = [address EXCEPT ![c] = to]
          /\ Goto(c, "idle", IF to = Nobody THEN "counting" ELSE "finding")
    /\ target' = [target EXCEPT ![c] = Nobody]
    /\ reply' = [reply EXCEPT ![c] = "none"]
    /\ issuedTo' = [issuedTo EXCEPT ![c] = Ready]
    /\ UNCHANGED <<startUp, reachable, shutdown, flips>>

Answer(c, from, code) ==
    /\ Goto(c, from, "idle")
    /\ reply' = [reply EXCEPT ![c] = code]
    /\ UNCHANGED <<startUp, reachable, shutdown, address, target, issuedTo, env>>

Dispatch(c, from, i) ==
    /\ Goto(c, from, "handling")
    /\ target' = [target EXCEPT ![c] = i]
    /\ UNCHANGED <<startUp, reachable, shutdown, address, reply, issuedTo, env>>

\* len(devices) == 1
CountOne(c) ==
    /\ Len(devices) = 1
    /\ Goto(c, "counting", "picking")
    /\ UNCHANGED <<startUp, reachable, shutdown, address, target, reply, issuedTo, env>>

CountOther(c) == Len(devices) # 1 /\ Answer(c, "counting", "BAD_ARGS")

\* Mutant: the device that was registered last.
PickLast(c) == Dispatch(c, "picking", Last(devices))

\* next(iter(devices.values())): the device that was registered first.
Pick(c) == Dispatch(c, "picking", Head(devices))

\* A dict that grows between iter and next makes next raise.
PickRaises(c) == Len(devices) > 1 /\ Answer(c, "picking", "error")

Find(c) == address[c] \in Ready /\ Dispatch(c, "finding", address[c])

FindNone(c) == address[c] \notin Ready /\ Answer(c, "finding", "NO_SUCH_INSTANCE")

\* The verb's handler returns.
Handled(c) == Answer(c, "handling", "ok")

Route(c) ==
    \/ Issue(c)
    \/ CountOne(c)
    \/ CountOther(c)
    \/ Pick(c)
    \/ PickRaises(c)
    \/ Find(c)
    \/ FindNone(c)
    \/ Handled(c)

-----------------------------------------------------------------------------
(* The shutdown: the signal ends the wait of main.                         *)

Signal ==
    /\ phase = "running"
    /\ phase' = "stopping"
    /\ toStop' = devices
    /\ atSignal' = Ready
    /\ UNCHANGED <<startUp, reachable, stopped, routing, env>>

\* Mutant: an exception of stop() ends the loop.
StopNextRaisesOut ==
    /\ phase = "stopping"
    /\ toStop # <<>>
    /\ stopped' = stopped \cup {Head(toStop)}
    /\ toStop' \in {Tail(toStop), <<>>}
    /\ UNCHANGED <<startUp, reachable, phase, atSignal, routing, env>>

\* stop() returns or raises: an exception is swallowed.
StopNext ==
    /\ phase = "stopping"
    /\ toStop # <<>>
    /\ stopped' = stopped \cup {Head(toStop)}
    /\ toStop' = Tail(toStop)
    /\ UNCHANGED <<startUp, reachable, phase, atSignal, routing, env>>

\* runtime.shutdown
Exit ==
    /\ phase = "stopping"
    /\ toStop = <<>>
    /\ phase' = "down"
    /\ UNCHANGED <<startUp, reachable, toStop, stopped, atSignal, routing, env>>

-----------------------------------------------------------------------------

Next ==
    \/ \E i \in Instances : Work(i) \/ Flip(i)
    \/ \E c \in Callers : Route(c)
    \/ Signal
    \/ StopNext
    \/ Exit

Spec == Init /\ [][Next]_vars

\* Each worker is a thread of its own, and connect retries for ever.  The
\* signal may or may not come; after it main goes on by itself.
Fairness ==
    /\ \A i \in Instances : WF_vars(Work(i))
    /\ WF_vars(StopNext)
    /\ WF_vars(Exit)

FairSpec == Spec /\ Fairness

-----------------------------------------------------------------------------
(* Safety.                                                                 *)

\* A command that names an instance never acts on another one, and one that
\* names none acts on a device only if no other was ready when it came, though
\* others register while resolve_instance runs (routing.py, lines 28-39).
RoutedAsAddressed ==
    \A c \in Callers : target[c] # Nobody =>
        /\ target[c] \in Ready
        /\ \/ address[c] = target[c]
           \/ address[c] = Nobody /\ issuedTo[c] \subseteq {target[c]}

\* When the runtime shuts down, stop was called on every device that was ready
\* when the signal came, though some of them raised (main.py, lines 109-115).
\* A device that registers after the signal is not stopped.
ShutdownStopsAll == phase = "down" => atSignal \subseteq stopped

-----------------------------------------------------------------------------
(* Liveness.                                                               *)

\* An instance is ready, and so is the process, once its slave stays reachable,
\* whatever becomes of the other instances and of their slaves (main.py, lines
\* 94-105), unless the process ends before.
SoundInstancesStart ==
    \A i \in Instances \ Misconfigured :
        <>[](i \in reachable) /\ [](phase # "down") => <>(i \in Ready /\ ready)

\* As documented: "BAD_ARGS when no instance is addressed and several are
\* configured" (routing.py:26).
UnaddressedIsRefused ==
    Len(Order) > 1 => \A c \in Callers : address[c] = Nobody => target[c] = Nobody

=============================================================================
