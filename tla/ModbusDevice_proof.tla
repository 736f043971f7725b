------------------------- MODULE ModbusDevice_proof ------------------------
(* Proofs about ModbusConnection and, on top of it, about ModbusDevice, for *)
(* any threads and signals, and any number of outages, reconnects, pauses   *)
(* and lost emissions.                                                      *)
EXTENDS ModbusDevice, FiniteSetTheorems, TLAPS

-----------------------------------------------------------------------------
(* The connection.                                                          *)

USE ThreadsAssumption, BoundsAssumption

\* Every variable keeps its type: no thread leaves the states of a read or a
\* reconnect, and the counters stay natural numbers.
THEOREM Typing == Spec => []TypeOK
<1>1. Init => TypeOK
  <2> SUFFICES ASSUME Init PROVE TypeOK
    OBVIOUS
  <2>1. started \in BOOLEAN /\ client \in BOOLEAN /\ connected \in BOOLEAN
    BY Zenon DEF Init
  <2> QED
    BY <2>1 DEF Init, TypeOK, ReadStates
<1>2. TypeOK /\ [Next]_vars => TypeOK'
  <2> SUFFICES ASSUME TypeOK, [Next]_vars PROVE TypeOK'
    OBVIOUS
  <2> USE DEF TypeOK, Threads, ReadStates, ReconnectStates, Goto, env
  <2>1. CASE ConnectOk
    BY <2>1 DEF ConnectOk
  <2>2. CASE ConnectFail
    BY <2>2 DEF ConnectFail
  <2>3. ASSUME NEW t \in Threads, StartRead(t) PROVE TypeOK'
    BY <2>3 DEF StartRead
  <2>4. ASSUME NEW t \in Threads, FinishRead(t) PROVE TypeOK'
    <3>1. CASE AnswerArrives(t) \/ AnswerFails(t)
      BY <3>1 DEF AnswerArrives, AnswerFails
    <3>2. CASE MarkReached(t)
      BY <3>2 DEF MarkReached
    <3>3. CASE MarkLost(t)
      BY <3>3 DEF MarkLost
    <3> QED
      BY <2>4, <3>1, <3>2, <3>3 DEF FinishRead
  <2>5. ASSUME NEW c \in Callers, RcClose(c) PROVE TypeOK'
    BY <2>5 DEF RcClose
  <2>6. ASSUME NEW c \in Callers, FinishReconnect(c) PROVE TypeOK'
    BY <2>6 DEF FinishReconnect, RcMarkClosed, RcForget, RcOpen, RcFail,
                RcAssign, RcMark
  <2>7. CASE SlaveDown
    BY <2>7 DEF SlaveDown
  <2>8. CASE SlaveUp
    BY <2>8 DEF SlaveUp
  <2>9. CASE Pause \/ Resume
    <3>1. paused' \in BOOLEAN
      BY <2>9, Zenon DEF Pause, Resume
    <3>2. pauses' \in Nat
      BY <2>9 DEF Pause, Resume
    <3> QED
      BY <2>9, <3>1, <3>2 DEF Pause, Resume
  <2>10. CASE UNCHANGED vars
    BY <2>10 DEF vars
  <2> QED
    BY <2>1, <2>2, <2>3, <2>4, <2>5, <2>6, <2>7, <2>8, <2>9, <2>10 DEF Next
<1> QED
  BY <1>1, <1>2, PTL DEF Spec

-----------------------------------------------------------------------------

\* Only two steps make a client disappear or start the threads; every other
\* step keeps the callers that account for a missing client.  This is the heart
\* of the argument: a caller leaves Accountable only by storing a client.
LEMMA AccountingStep == TypeOK /\ ClientAccounted /\ [Next]_vars => ClientAccounted'
<1> SUFFICES ASSUME TypeOK, ClientAccounted, [Next]_vars, started', ~client'
             PROVE  Accountable' # {}
  BY DEF ClientAccounted
<1> USE DEF TypeOK, Threads, Goto, env, Accountable
<1>1. CASE ConnectOk
  BY <1>1 DEF ConnectOk
<1>2. CASE ConnectFail
  BY <1>2 DEF ConnectFail
<1>3. ASSUME NEW t \in Threads, StartRead(t) \/ FinishRead(t)
      PROVE  Accountable' # {}
  <2>1. started /\ ~client /\ reply' = reply
    BY <1>3 DEF StartRead, FinishRead, AnswerArrives, AnswerFails, MarkReached,
                MarkLost
  <2>2. PICK w \in Callers : w \in Accountable
    BY <2>1 DEF ClientAccounted
  <2>3. w \in Accountable'
    BY <1>3, <2>1, <2>2 DEF StartRead, FinishRead, AnswerArrives, AnswerFails,
                            MarkReached, MarkLost
  <2> QED
    BY <2>3
<1>4. ASSUME NEW c \in Callers, RcForget(c) PROVE Accountable' # {}
  <2>1. c \in Accountable'
    BY <1>4 DEF RcForget
  <2> QED
    BY <2>1
<1>5. ASSUME NEW c \in Callers,
             RcClose(c) \/ RcMarkClosed(c) \/ RcOpen(c) \/ RcFail(c)
      PROVE  Accountable' # {}
  <2>1. started /\ ~client
    BY <1>5 DEF RcClose, RcMarkClosed, RcOpen, RcFail
  <2>2. PICK w \in Callers : w \in Accountable
    BY <2>1 DEF ClientAccounted
  <2>3. w \in Accountable'
    BY <1>5, <2>1, <2>2 DEF RcClose, RcMarkClosed, RcOpen, RcFail
  <2> QED
    BY <2>3
<1>6. ASSUME NEW c \in Callers, RcAssign(c) PROVE Accountable' # {}
  BY <1>6 DEF RcAssign
<1>7. ASSUME NEW c \in Callers, RcMark(c) PROVE Accountable' # {}
  <2>1. started /\ ~client /\ c \notin Accountable
    BY <1>7 DEF RcMark
  <2>2. PICK w \in Callers : w \in Accountable /\ w # c
    BY <2>1 DEF ClientAccounted
  <2>3. w \in Accountable'
    BY <1>7, <2>2 DEF RcMark
  <2> QED
    BY <2>3
<1>8. CASE Pause \/ Resume \/ SlaveDown \/ SlaveUp \/ UNCHANGED vars
  <2>1. started /\ ~client /\ Accountable' = Accountable
    BY <1>8 DEF Pause, Resume, SlaveDown, SlaveUp, vars
  <2> QED
    BY <2>1 DEF ClientAccounted
<1> QED
  BY <1>1, <1>2, <1>3, <1>4, <1>5, <1>6, <1>7, <1>8 DEF Next, FinishReconnect

\* A missing client is always some caller's doing: it is between forgetting the
\* old client and storing the new one, or it was told that its reconnect failed
\* and has stored no client since (connection.py reconnect, lines 65-86).
THEOREM Accounting == Spec => []ClientAccounted
<1>1. Init => ClientAccounted
  BY DEF Init, ClientAccounted
<1> QED
  BY <1>1, AccountingStep, Typing, PTL DEF Spec

\* No read, no outage of the slave and no race of reconnects with reads or with
\* each other loses the client: only a reconnect that is under way or that has
\* reported its failure does.
THEOREM ClientIsNotLost == Spec => []ClientLostOnlyByReconnect
<1>1. ClientAccounted => ClientLostOnlyByReconnect
  BY DEF ClientAccounted, ClientLostOnlyByReconnect, Accountable
<1> QED
  BY <1>1, Accounting, PTL

-----------------------------------------------------------------------------
(* The device.                                                              *)

\* A health metric accounts for what it drains, a transition for what it clears.
\* While an emission can still be lost, only the absence of losses so far says
\* that the two agree, so losses has to be a number that never falls.
CountsInv ==
    /\ recoveries \in Nat /\ counted \in Nat /\ cleared \in Nat /\ losses \in Nat
    /\ RecoveriesMatchAlarms

\* Count raises losses with each loss and leaves it alone otherwise.
LEMMA CountAddsLosses ==
    ASSUME losses \in Nat, NEW outcome, Count(outcome)
    PROVE  /\ losses' \in Nat
           /\ losses' = 0 => losses = 0 /\ outcome # "lost"
BY DEF Count

\* So does the constructor, which may lose two.
LEMMA StartLosses ==
    ASSUME losses \in Nat, StartDevice
    PROVE  losses' \in Nat /\ losses' >= losses
<1>1. PICK lost \in SUBSET {"health", "alarm"} : losses' = losses + Cardinality(lost)
  BY DEF StartDevice
<1>2. IsFiniteSet({"health", "alarm"})
  <2>1. IsFiniteSet({"health"})
    BY FS_Singleton
  <2>2. {"health", "alarm"} = {"health"} \cup {"alarm"}
    OBVIOUS
  <2> QED
    BY <2>1, <2>2, FS_AddElement
<1>3. Cardinality(lost) \in Nat
  BY <1>2, FS_Subset, FS_CardinalityType
<1> QED
  BY <1>1, <1>3

LEMMA CountsInit == DeviceInit => CountsInv
BY DEF DeviceInit, CountsInv, RecoveriesMatchAlarms

LEMMA CountsStep == CountsInv /\ [DeviceNext]_deviceVars => CountsInv'
<1> SUFFICES ASSUME CountsInv, [DeviceNext]_deviceVars PROVE CountsInv'
  OBVIOUS
<1>1. CASE StartDevice
  <2>1. UNCHANGED <<recoveries, counted, cleared>>
    BY <1>1 DEF StartDevice
  <2>2. losses' \in Nat /\ (losses' = 0 => losses = 0)
    BY <1>1, StartLosses DEF CountsInv
  <2> QED
    BY <2>1, <2>2 DEF CountsInv, RecoveriesMatchAlarms
<1>2. CASE TickReport
  <2>1. PICK outcome \in Emission :
           /\ Count(outcome)
           /\ outcome # "lost" => counted' = counted + recoveries
           /\ outcome = "lost" => counted' = counted
    BY <1>2 DEF TickReport
  <2>2. recoveries' = 0 /\ cleared' = cleared
    BY <1>2 DEF TickReport
  <2>3. losses' \in Nat /\ (losses' = 0 => losses = 0 /\ outcome # "lost")
    BY <2>1, CountAddsLosses DEF CountsInv
  <2> QED
    BY <2>1, <2>2, <2>3 DEF CountsInv, RecoveriesMatchAlarms
<1>3. CASE TickTransition
  <2>1. PICK outcome \in Emission : Count(outcome)
    BY <1>3 DEF TickTransition
  <2>2. /\ recoveries' = IF seen THEN recoveries + 1 ELSE recoveries
        /\ cleared' = IF seen THEN cleared + 1 ELSE cleared
        /\ counted' = counted
    BY <1>3 DEF TickTransition
  <2>3. losses' \in Nat /\ (losses' = 0 => losses = 0 /\ outcome # "lost")
    BY <2>1, CountAddsLosses DEF CountsInv
  <2> QED
    BY <2>1, <2>2, <2>3 DEF CountsInv, RecoveriesMatchAlarms
<1>4. CASE \/ \E p \in Pollers : Refresh(p)
           \/ LinkStep /\ UNCHANGED device
           \/ Advance \/ TickSample \/ TickQuiet
           \/ UNCHANGED deviceVars
  <2>1. UNCHANGED <<recoveries, counted, cleared, losses>>
    BY <1>4 DEF Refresh, Advance, TickSample, TickQuiet, device, deviceVars, console
  <2> QED
    BY <2>1 DEF CountsInv, RecoveriesMatchAlarms
<1> QED
  BY <1>1, <1>2, <1>3, <1>4 DEF DeviceNext, Tick

\* As long as no metric and no event was lost, the recoveries that the health
\* metric has reported or is about to report are the alarms that were cleared.
THEOREM RecoveriesReported == DeviceSpec => []RecoveriesMatchAlarms
<1>1. CountsInv => RecoveriesMatchAlarms
  BY DEF CountsInv
<1> QED
  BY <1>1, CountsInit, CountsStep, PTL DEF DeviceSpec

-----------------------------------------------------------------------------
(* The device against the connection.                                      *)

\* Each step of the device is one of the connection or leaves it alone.
LEMMA DeviceStepLinks == [DeviceNext]_deviceVars => [Next]_vars
<1> SUFFICES ASSUME [DeviceNext]_deviceVars PROVE [Next]_vars
  OBVIOUS
<1>1. CASE StartDevice
  BY <1>1 DEF StartDevice, Next
<1>2. ASSUME NEW p \in Pollers, Refresh(p) PROVE Next
  BY <1>2 DEF Refresh, Next, FinishRead, Threads
<1>3. CASE LinkStep
  BY <1>3 DEF LinkStep, Next, FinishRead, Threads
<1>4. CASE Advance \/ Tick
  BY <1>4 DEF Advance, Tick, TickSample, TickReport, TickQuiet, TickTransition
<1>5. CASE UNCHANGED deviceVars
  BY <1>5 DEF deviceVars
<1> QED
  BY <1>1, <1>2, <1>3, <1>4, <1>5 DEF DeviceNext

\* Ticks, metrics and alarms only watch: under the device the connection behaves
\* as it does alone, so that what is proved of it holds of the composition.
THEOREM DeviceKeepsConnection == DeviceSpec => Spec
<1>1. DeviceInit => Init
  BY DEF DeviceInit
<1> QED
  BY <1>1, DeviceStepLinks, PTL DEF DeviceSpec, Spec

\* With the tick thread and the health metric around it, no step but those of a
\* reconnect makes the client disappear.
THEOREM DeviceKeepsClient == DeviceSpec => []ClientLostOnlyByReconnect
BY DeviceKeepsConnection, ClientIsNotLost, PTL

-----------------------------------------------------------------------------
(* Types.                                                                  *)

LEMMA StaleCounted ==
    ASSUME known \subseteq Pollers
    PROVE  Cardinality(Stale) \in Nat
<1>1. Stale \subseteq Pollers
  BY DEF Stale
<1> QED
  BY <1>1, PollersAssumption, FS_Subset, FS_CardinalityType

LEMMA DeviceTypedInit == DeviceInit => DeviceTypeOK
<1> SUFFICES ASSUME DeviceInit PROVE DeviceTypeOK
  OBVIOUS
<1>1. alarm \in BOOLEAN /\ seen \in BOOLEAN /\ announced \in BOOLEAN
  BY Zenon DEF DeviceInit
<1>2. health \in [connected : BOOLEAN, stale : Nat] /\ age \in [Pollers -> Nat]
  BY DEF DeviceInit
<1> QED
  BY <1>1, <1>2 DEF DeviceInit, DeviceTypeOK

LEMMA DeviceTypedStep ==
    TypeOK /\ DeviceTypeOK /\ [DeviceNext]_deviceVars => DeviceTypeOK'
<1> SUFFICES ASSUME TypeOK, DeviceTypeOK, [DeviceNext]_deviceVars PROVE DeviceTypeOK'
  OBVIOUS
<1> USE DEF tracker, console
<1>1. ASSUME NEW outcome, NEW up \in BOOLEAN, Announce(up, outcome), Count(outcome)
      PROVE  alarm' \in BOOLEAN /\ losses' \in Nat
  <2>1. alarm \in BOOLEAN /\ losses \in Nat
    BY DEF DeviceTypeOK
  <2>2. alarm' = alarm \/ alarm' = ~up
    BY <1>1, Zenon DEF Announce
  <2>3. alarm' \in BOOLEAN
    BY <2>1, <2>2, Zenon
  <2>4. losses' \in Nat
    BY <1>1, <2>1, CountAddsLosses
  <2> QED
    BY <2>3, <2>4
<1>2. CASE StartDevice
  <2>1. PICK lost \in SUBSET {"health", "alarm"} :
           /\ health' = IF "health" \in lost THEN health
                        ELSE [connected |-> TRUE, stale |-> 0]
           /\ alarm' = IF "alarm" \in lost THEN alarm ELSE FALSE
    BY <1>2 DEF StartDevice
  <2>2. alarm' \in BOOLEAN
    BY <2>1, Zenon DEF DeviceTypeOK
  <2>3. health' \in [connected : BOOLEAN, stale : Nat]
    BY <2>1 DEF DeviceTypeOK
  <2>4. losses' \in Nat
    BY <1>2, StartLosses DEF DeviceTypeOK
  <2> QED
    BY <1>2, <2>2, <2>3, <2>4 DEF StartDevice, DeviceTypeOK
<1>3. ASSUME NEW p \in Pollers, Refresh(p) PROVE DeviceTypeOK'
  <2>1. known' \subseteq Pollers /\ age' \in [Pollers -> Nat]
    BY <1>3 DEF Refresh, DeviceTypeOK
  <2> QED
    BY <1>3, <2>1 DEF Refresh, DeviceTypeOK
<1>4. CASE Advance
  <2>1. age' \in [Pollers -> Nat]
    BY <1>4 DEF Advance, DeviceTypeOK
  <2> QED
    BY <1>4, <2>1 DEF Advance, DeviceTypeOK
<1>5. CASE TickSample
  <2>1. seen' \in BOOLEAN
    BY <1>5 DEF TickSample, TypeOK
  <2> QED
    BY <1>5, <2>1 DEF TickSample, DeviceTypeOK
<1>6. CASE TickReport
  <2>1. losses' \in Nat
    BY <1>6 DEF TickReport, Count, DeviceTypeOK
  <2>2. health' \in [connected : BOOLEAN, stale : Nat] /\ counted' \in Nat
    BY <1>6, StaleCounted DEF TickReport, DeviceTypeOK
  <2> QED
    BY <1>6, <2>1, <2>2 DEF TickReport, DeviceTypeOK
<1>7. CASE TickQuiet
  BY <1>7 DEF TickQuiet, DeviceTypeOK
<1>8. CASE TickTransition
  <2>1. alarm' \in BOOLEAN /\ losses' \in Nat
    BY <1>1, <1>8 DEF TickTransition, DeviceTypeOK
  <2>2. recoveries' \in Nat /\ cleared' \in Nat
    BY <1>8 DEF TickTransition, DeviceTypeOK
  <2> QED
    BY <1>8, <2>1, <2>2 DEF TickTransition, DeviceTypeOK
<1>9. CASE UNCHANGED device
  BY <1>9 DEF device, DeviceTypeOK
<1> QED
  BY <1>2, <1>3, <1>4, <1>5, <1>6, <1>7, <1>8, <1>9 DEF DeviceNext, Tick, deviceVars

\* Every variable of the device keeps its type, for any finite set of signals: in
\* particular the stale signals that are reported are a number.
THEOREM DeviceTyping == DeviceSpec => []DeviceTypeOK
<1>1. DeviceSpec => []TypeOK
  BY DeviceKeepsConnection, Typing, PTL
<1> QED
  BY <1>1, DeviceTypedInit, DeviceTypedStep, PTL DEF DeviceSpec

=============================================================================
