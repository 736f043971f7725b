------------------------- MODULE ModbusConnection -------------------------
(***************************************************************************)
(* The link of one instance to its Modbus slave: connection.py, class      *)
(* ModbusConnection, as the threads of one ModbusDevice use it.            *)
(*                                                                         *)
(* Pollers are the poll-group threads: they read again and again.  Callers *)
(* are the threads in which the command inbox runs a handler: a caller     *)
(* reads (sb/read, sb/repoll) or runs sb/reconnect.  No lock protects      *)
(* client and connected, so every assignment to them is a step of its own. *)
(* While the instance is paused no poller begins to read.                  *)
(*                                                                         *)
(* _set_connected is the assignment alone: the drops that it counts are in *)
(* OperationalMetrics.                                                     *)
(*                                                                         *)
(* A write (write_coil, write_registers) uses the client and changes       *)
(* neither variable, so it has no action here.  The socket belongs to      *)
(* pymodbus: its synchronous client opens the socket again on the next     *)
(* request, so a client that survives an outage needs no action either.    *)
(***************************************************************************)
EXTENDS Naturals

CONSTANTS
    Pollers,         \* poll-group threads
    Callers,         \* threads that run commands
    MaxOutages,      \* bound on how often the slave goes down
    MaxReconnects,   \* bound on how many sb/reconnect commands are sent
    MaxPauses        \* bound on how many sb/pause commands are sent

ASSUME ThreadsAssumption == Pollers \cap Callers = {}
ASSUME BoundsAssumption == {MaxOutages, MaxReconnects, MaxPauses} \subseteq Nat

Threads == Pollers \cup Callers

VARIABLES
    slave,        \* "up" or "down": whether the slave answers
    started,      \* connect() has returned, the threads exist
    client,       \* self.client is not None
    connected,    \* self._connected
    pc,           \* where each thread is
    torn,         \* threads whose socket was closed under a waiting request
    reply,        \* outcome of a caller's latest sb/reconnect
    paused,       \* PauseState._paused
    outages,      \* environment: outages so far
    reconnects,   \* environment: sb/reconnect commands so far
    pauses        \* environment: sb/pause commands so far

\* What the connection itself does not change.
env == <<paused, outages, reconnects, pauses>>
vars == <<slave, started, client, connected, pc, torn, reply, env>>

ReadStates == {"idle", "waiting", "reached", "failed"}
ReconnectStates == {"closing", "forgetting", "connecting", "opened", "marking"}

TypeOK ==
    /\ slave \in {"up", "down"}
    /\ started \in BOOLEAN
    /\ client \in BOOLEAN
    /\ connected \in BOOLEAN
    /\ pc \in [Threads -> ReadStates \cup ReconnectStates]
    /\ torn \subseteq Threads
    /\ reply \in [Callers -> {"none", "ok", "failed"}]
    /\ paused \in BOOLEAN
    /\ outages \in Nat /\ reconnects \in Nat /\ pauses \in Nat

Init ==
    /\ slave \in {"up", "down"}
    /\ started = FALSE
    /\ client = FALSE
    /\ connected = FALSE
    /\ pc = [t \in Threads |-> "idle"]
    /\ torn = {}
    /\ reply = [c \in Callers |-> "none"]
    /\ paused = FALSE
    /\ outages = 0 /\ reconnects = 0 /\ pauses = 0

Goto(t, from, to) ==
    /\ pc[t] = from
    /\ pc' = [pc EXCEPT ![t] = to]

-----------------------------------------------------------------------------
(* connect(): the start-up loop.  The poll threads are started after it    *)
(* returns, so an attempt and its assignments are one step.                *)

ConnectOk ==
    /\ ~started
    /\ ~client
    /\ slave = "up"
    /\ started' = TRUE
    /\ client' = TRUE
    /\ connected' = TRUE
    /\ UNCHANGED <<slave, pc, torn, reply, env>>

ConnectFail ==
    /\ ~started
    /\ ~client
    /\ slave = "down"
    /\ client' = FALSE
    /\ connected' = FALSE
    /\ UNCHANGED <<slave, started, pc, torn, reply, env>>

-----------------------------------------------------------------------------
(* read().  Without a client the look-up of client.read_coils raises       *)
(* before the try block: no request, no change of connected, so a read     *)
(* without a client is no step at all.                                     *)

StartRead(t) ==
    /\ started
    /\ client
    /\ t \in Pollers => ~paused
    /\ Goto(t, "idle", "waiting")
    /\ torn' = torn \ {t}
    /\ UNCHANGED <<slave, started, client, connected, reply, env>>

\* Any response that arrives, an exception response too.
AnswerArrives(t) ==
    /\ slave = "up"
    /\ Goto(t, "waiting", "reached")
    /\ UNCHANGED <<slave, started, client, connected, torn, reply, env>>

\* A transport error, raised or returned, or no response.
AnswerFails(t) ==
    /\ slave = "down" \/ t \in torn
    /\ Goto(t, "waiting", "failed")
    /\ UNCHANGED <<slave, started, client, connected, torn, reply, env>>

\* Mutant: an answer does not set the flag.
MarkReachedNot(t) ==
    /\ Goto(t, "reached", "idle")
    /\ UNCHANGED <<slave, started, client, connected, torn, reply, env>>

MarkReached(t) ==
    /\ Goto(t, "reached", "idle")
    /\ connected' = TRUE
    /\ UNCHANGED <<slave, started, client, torn, reply, env>>

\* Mutant: a failed read drops the client.
MarkLostForgets(t) ==
    /\ Goto(t, "failed", "idle")
    /\ connected' = FALSE
    /\ client' = FALSE
    /\ UNCHANGED <<slave, started, torn, reply, env>>

MarkLost(t) ==
    /\ Goto(t, "failed", "idle")
    /\ connected' = FALSE
    /\ UNCHANGED <<slave, started, client, torn, reply, env>>

-----------------------------------------------------------------------------
(* reconnect(): close(), forget the client, one attempt, no retry.         *)

RcClose(c) ==
    /\ started
    /\ reconnects < MaxReconnects
    /\ reconnects' = reconnects + 1
    /\ Goto(c, "idle", IF client THEN "closing" ELSE "forgetting")
    /\ torn' = IF client THEN torn \cup {t \in Threads : pc[t] = "waiting"} ELSE torn
    /\ UNCHANGED <<slave, started, client, connected, reply, paused, outages, pauses>>

RcMarkClosed(c) ==
    /\ Goto(c, "closing", "forgetting")
    /\ connected' = FALSE
    /\ UNCHANGED <<slave, started, client, torn, reply, env>>

RcForget(c) ==
    /\ Goto(c, "forgetting", "connecting")
    /\ client' = FALSE
    /\ UNCHANGED <<slave, started, connected, torn, reply, env>>

RcOpen(c) ==
    /\ slave = "up"
    /\ Goto(c, "connecting", "opened")
    /\ UNCHANGED <<slave, started, client, connected, torn, reply, env>>

\* Mutant: the reply is an error code that callers do not know.
RcFailUnknown(c) ==
    /\ slave = "down"
    /\ Goto(c, "connecting", "idle")
    /\ reply' = [reply EXCEPT ![c] = "refused"]
    /\ UNCHANGED <<slave, started, client, connected, torn, env>>

\* The exception leaves client as it is: None, unless another caller set it.
RcFail(c) ==
    /\ slave = "down"
    /\ Goto(c, "connecting", "idle")
    /\ reply' = [reply EXCEPT ![c] = "failed"]
    /\ UNCHANGED <<slave, started, client, connected, torn, env>>

RcAssign(c) ==
    /\ Goto(c, "opened", "marking")
    /\ client' = TRUE
    /\ UNCHANGED <<slave, started, connected, torn, reply, env>>

RcMark(c) ==
    /\ Goto(c, "marking", "idle")
    /\ connected' = TRUE
    /\ reply' = [reply EXCEPT ![c] = "ok"]
    /\ UNCHANGED <<slave, started, client, torn, env>>

-----------------------------------------------------------------------------
(* sb/pause and sb/resume, and the environment.                            *)

Pause ==
    /\ started
    /\ ~paused
    /\ pauses < MaxPauses
    /\ paused' = TRUE
    /\ pauses' = pauses + 1
    /\ UNCHANGED <<slave, started, client, connected, pc, torn, reply, outages, reconnects>>

Resume ==
    /\ paused
    /\ paused' = FALSE
    /\ UNCHANGED <<slave, started, client, connected, pc, torn, reply, outages,
                   reconnects, pauses>>

SlaveDown ==
    /\ slave = "up"
    /\ outages < MaxOutages
    /\ slave' = "down"
    /\ outages' = outages + 1
    /\ UNCHANGED <<started, client, connected, pc, torn, reply, paused, reconnects, pauses>>

SlaveUp ==
    /\ slave = "down"
    /\ slave' = "up"
    /\ UNCHANGED <<started, client, connected, pc, torn, reply, env>>

-----------------------------------------------------------------------------

FinishRead(t) ==
    \/ AnswerArrives(t)
    \/ AnswerFails(t)
    \/ MarkReached(t)
    \/ MarkLost(t)

FinishReconnect(c) ==
    \/ RcMarkClosed(c)
    \/ RcForget(c)
    \/ RcOpen(c)
    \/ RcFail(c)
    \/ RcAssign(c)
    \/ RcMark(c)

Next ==
    \/ ConnectOk
    \/ ConnectFail
    \/ \E t \in Threads : StartRead(t) \/ FinishRead(t)
    \/ \E c \in Callers : RcClose(c) \/ FinishReconnect(c)
    \/ Pause
    \/ Resume
    \/ SlaveDown
    \/ SlaveUp

\* The start-up loop retries for ever, a poll thread reads as long as it is not
\* paused, and what was begun ends: each request has a timeout.  Nobody has to
\* send a command and the slave does not have to fail or to come back.
Fairness ==
    /\ WF_vars(ConnectOk)
    /\ \A p \in Pollers : WF_vars(StartRead(p))
    /\ \A t \in Threads : WF_vars(FinishRead(t))
    /\ \A c \in Callers : WF_vars(FinishReconnect(c))

Spec == Init /\ [][Next]_vars

FairSpec == Spec /\ Fairness

-----------------------------------------------------------------------------
(* Safety.                                                                 *)

\* Once start-up has connected, the client is missing only while a reconnect
\* is between forgetting the old one and storing the new one, or after a
\* reconnect whose caller was told that it failed (reconnect, lines 65-86).
\* No read, no outage and no race of two reconnects loses it.
ClientLostOnlyByReconnect ==
    started /\ ~client =>
        \E c \in Callers : pc[c] \in {"connecting", "opened"} \/ reply[c] = "failed"

\* The callers that account for a missing client: the property above in the
\* form that every step preserves.  A caller that has stored its new client
\* accounts for nothing, although its old reply may still read "failed".
Accountable ==
    {c \in Callers : \/ pc[c] \in {"connecting", "opened"}
                     \/ reply[c] = "failed" /\ pc[c] # "marking"}

ClientAccounted == started /\ ~client => Accountable # {}

-----------------------------------------------------------------------------
(* Liveness.                                                               *)

Polled == client /\ ~paused

\* connect() returns once the slave stays reachable, and while there is a client
\* and no pause, is_connected() follows the slave: the polls keep probing it
\* (read, lines 106-110), whatever races came before.
LinkFollows ==
    /\ <>[](slave = "up") => <>started
    /\ <>[](slave = "up" /\ Polled) => <>[]connected
    /\ <>[](slave = "down" /\ Polled) => <>[]~connected

\* As documented: "the device is running but its link is down; the poll loop
\* keeps retrying" (instance_state.py:16), with no exception for a reconnect
\* that failed.
BackoffEnds == <>[](slave = "up" /\ ~paused) => []<>connected

=============================================================================
