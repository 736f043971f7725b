--------------------------- MODULE Adapter_proof --------------------------
(* Proofs about Adapter, for any instances, callers, commands and flips of *)
(* the links.                                                              *)
EXTENDS Adapter, SequenceTheorems, TLAPS

-----------------------------------------------------------------------------
(* The elements of a sequence.                                             *)

LEMMA ElementsEmpty == ToSet(<<>>) = {}
BY DEF ToSet

LEMMA ElementsAppend ==
    ASSUME NEW S, NEW s \in Seq(S), NEW x \in S
    PROVE  /\ Append(s, x) \in Seq(S)
           /\ ToSet(Append(s, x)) = ToSet(s) \cup {x}
           /\ s # <<>> => Head(Append(s, x)) = Head(s)
<1>1. /\ Append(s, x) \in Seq(S)
      /\ Len(Append(s, x)) = Len(s) + 1
      /\ \A i \in 1..Len(s) : Append(s, x)[i] = s[i]
      /\ Append(s, x)[Len(s) + 1] = x
  BY AppendProperties
<1>2. DOMAIN s = 1..Len(s) /\ DOMAIN Append(s, x) = 1..(Len(s) + 1) /\ Len(s) \in Nat
  BY <1>1, LenProperties
<1>3. ToSet(Append(s, x)) \subseteq ToSet(s) \cup {x}
  BY <1>1, <1>2 DEF ToSet
<1>4. ToSet(s) \cup {x} \subseteq ToSet(Append(s, x))
  BY <1>1, <1>2 DEF ToSet
<1>5. s # <<>> => Head(Append(s, x)) = Head(s)
  <2> SUFFICES ASSUME s # <<>> PROVE Head(Append(s, x)) = Head(s)
    OBVIOUS
  <2>1. 1 \in 1..Len(s)
    BY <1>2, EmptySeq
  <2>2. Head(s) = s[1] /\ Head(Append(s, x)) = Append(s, x)[1]
    BY <1>1
  <2> QED
    BY <1>1, <2>1, <2>2
<1> QED
  BY <1>1, <1>3, <1>4, <1>5

LEMMA ElementsHeadTail ==
    ASSUME NEW S, NEW s \in Seq(S), s # <<>>
    PROVE  /\ Head(s) \in S
           /\ Tail(s) \in Seq(S)
           /\ ToSet(s) = {Head(s)} \cup ToSet(Tail(s))
<1>1. /\ Head(s) \in S /\ Tail(s) \in Seq(S) /\ Len(Tail(s)) = Len(s) - 1
      /\ \A i \in 1..Len(Tail(s)) : Tail(s)[i] = s[i + 1]
      /\ Head(s) = s[1]
  BY HeadTailProperties
<1>2. /\ DOMAIN s = 1..Len(s) /\ Len(s) \in Nat /\ Len(s) # 0
      /\ DOMAIN Tail(s) = 1..(Len(s) - 1)
  BY <1>1, LenProperties, EmptySeq
<1>3. {Head(s)} \cup ToSet(Tail(s)) \subseteq ToSet(s)
  BY <1>1, <1>2 DEF ToSet
<1>4. ToSet(s) \subseteq {Head(s)} \cup ToSet(Tail(s))
  <2> SUFFICES ASSUME NEW i \in 1..Len(s) PROVE s[i] \in {Head(s)} \cup ToSet(Tail(s))
    BY <1>2 DEF ToSet
  <2>1. CASE i = 1
    BY <1>1, <2>1
  <2>2. CASE i # 1
    <3>1. i - 1 \in 1..(Len(s) - 1) /\ (i - 1) + 1 = i
      BY <1>2, <2>2
    <3>2. Tail(s)[i - 1] = s[i]
      BY <1>1, <1>2, <3>1
    <3> QED
      BY <1>2, <3>1, <3>2 DEF ToSet
  <2> QED
    BY <2>1, <2>2
<1> QED
  BY <1>1, <1>3, <1>4

LEMMA ReadyTyped ==
    ASSUME NEW s \in Seq(Instances)
    PROVE  ToSet(s) \subseteq Instances
BY LenProperties, ElementOfSeq DEF ToSet

-----------------------------------------------------------------------------
(* Types.                                                                  *)

LEMMA TypeInit == Init => TypeOK
<1>1. <<>> \in Seq(Instances)
  BY EmptySeq
<1> SUFFICES ASSUME Init PROVE TypeOK
  OBVIOUS
<1>2. /\ devices \in Seq(Instances) /\ toStop \in Seq(Instances)
      /\ worker \in [Instances -> {"configuring"}]
  BY <1>1 DEF Init
<1>3. /\ pc \in [Callers -> {"idle"}] /\ address \in [Callers -> {Nobody}]
      /\ target \in [Callers -> {Nobody}] /\ reply \in [Callers -> {"none"}]
      /\ issuedTo \in [Callers -> {{}}]
  BY DEF Init
<1>4. /\ phase = "running" /\ ready = FALSE /\ reachable \subseteq Instances
      /\ stopped = {} /\ atSignal = {} /\ flips = 0 /\ commands = 0
  BY DEF Init
<1> QED
  BY <1>2, <1>3, <1>4 DEF TypeOK, Addresses

\* The two ways in which a step of resolve_instance can end it.
LEMMA AnswerTypes ==
    ASSUME TypeOK, NEW c \in Callers, NEW from,
           NEW code \in {"ok", "BAD_ARGS", "NO_SUCH_INSTANCE", "error"}, Answer(c, from, code)
    PROVE  TypeOK'
BY DEF TypeOK, Answer, Goto, startUp, shutdown, env

LEMMA DispatchTypes ==
    ASSUME TypeOK, NEW c \in Callers, NEW from, NEW i \in Instances, Dispatch(c, from, i)
    PROVE  TypeOK'
BY DEF TypeOK, Dispatch, Goto, startUp, shutdown, env

LEMMA TypeWork ==
    ASSUME TypeOK, NEW i \in Instances, Work(i)
    PROVE  TypeOK'
<1>1. CASE Configure(i)
  BY <1>1 DEF TypeOK, Configure, Step, shutdown, routing, env
<1>2. CASE Connect(i)
  BY <1>2 DEF TypeOK, Connect, Step, shutdown, routing, env
<1>3. CASE Register(i)
  <2>1. devices' \in Seq(Instances)
    BY <1>3, ElementsAppend DEF TypeOK, Register
  <2> QED
    BY <1>3, <2>1 DEF TypeOK, Register, Step, shutdown, routing, env
<1>4. CASE Announce(i)
  BY <1>4 DEF TypeOK, Announce, Step, shutdown, routing, env
<1> QED
  BY <1>1, <1>2, <1>3, <1>4 DEF Work

\* Picking has a device to pick: the rest of what TypeOK needs to be kept.
Pickable == \A c \in Callers : pc[c] = "picking" => devices # <<>>

LEMMA TypeRoute ==
    ASSUME TypeOK, Pickable, NEW c \in Callers, Route(c)
    PROVE  TypeOK'
<1>1. CASE Issue(c)
  <2>1. Ready \subseteq Instances
    BY ReadyTyped DEF Ready, TypeOK
  <2> QED
    BY <1>1, <2>1 DEF TypeOK, Issue, Goto, startUp, shutdown
<1>2. CASE CountOne(c)
  BY <1>2 DEF TypeOK, CountOne, Goto, startUp, shutdown, env
<1>3. CASE CountOther(c) \/ PickRaises(c) \/ FindNone(c) \/ Handled(c)
  BY <1>3, AnswerTypes DEF CountOther, PickRaises, FindNone, Handled
<1>4. CASE Pick(c)
  <2>1. Head(devices) \in Instances
    BY <1>4, ElementsHeadTail DEF TypeOK, Pick, Dispatch, Goto, Pickable
  <2> QED
    BY <1>4, <2>1, DispatchTypes DEF Pick
<1>5. CASE Find(c)
  <2>1. address[c] \in Instances
    BY <1>5, ReadyTyped DEF TypeOK, Find, Ready
  <2> QED
    BY <1>5, <2>1, DispatchTypes DEF Find
<1> QED
  BY <1>1, <1>2, <1>3, <1>4, <1>5 DEF Route

LEMMA TypeStep == TypeOK /\ Pickable /\ [Next]_vars => TypeOK'
<1> SUFFICES ASSUME TypeOK, Pickable, [Next]_vars PROVE TypeOK'
  OBVIOUS
<1>1. ASSUME NEW i \in Instances, Flip(i) PROVE TypeOK'
  BY <1>1 DEF TypeOK, Flip, startUp, shutdown, routing
<1>2. CASE Signal
  <2>1. Ready \subseteq Instances
    BY ReadyTyped DEF Ready, TypeOK
  <2> QED
    BY <1>2, <2>1 DEF TypeOK, Signal, startUp, routing, env
<1>3. CASE StopNext
  <2>1. Head(toStop) \in Instances /\ Tail(toStop) \in Seq(Instances)
    BY <1>3, ElementsHeadTail DEF TypeOK, StopNext
  <2> QED
    BY <1>3, <2>1 DEF TypeOK, StopNext, startUp, routing, env
<1>4. CASE Exit
  BY <1>4 DEF TypeOK, Exit, startUp, routing, env
<1>5. CASE UNCHANGED vars
  BY <1>5 DEF TypeOK, vars, startUp, shutdown, routing, env
<1> QED
  BY <1>1, <1>2, <1>3, <1>4, <1>5, TypeWork, TypeRoute DEF Next

-----------------------------------------------------------------------------
(* Routing.  A caller that counted one device has a device to pick, and it *)
(* is the first: devices grows at its end and never shrinks.               *)

RoutedTo(c) ==
    target[c] # Nobody =>
        /\ target[c] \in Ready
        /\ \/ address[c] = target[c]
           \/ address[c] = Nobody /\ issuedTo[c] \subseteq {target[c]}

CallerInv(c) ==
    /\ issuedTo[c] \subseteq Ready
    /\ pc[c] \in {"counting", "picking"} => address[c] = Nobody
    /\ pc[c] = "picking" => devices # <<>> /\ issuedTo[c] \subseteq {Head(devices)}
    /\ RoutedTo(c)

RoutingInv == \A c \in Callers : CallerInv(c)

LEMMA RoutingInit == Init => RoutingInv
BY DEF Init, RoutingInv, CallerInv, RoutedTo, Ready

\* What a caller knows of the devices stays true while they grow.
LEMMA RoutingFrame ==
    ASSUME NEW c \in Callers, CallerInv(c), Ready \subseteq Ready',
           devices # <<>> => devices' # <<>> /\ Head(devices') = Head(devices),
           pc'[c] = pc[c], address'[c] = address[c], target'[c] = target[c],
           issuedTo'[c] = issuedTo[c]
    PROVE  CallerInv(c)'
BY DEF CallerInv, RoutedTo

LEMMA RoutingOthers ==
    ASSUME TypeOK, RoutingInv, NEW c \in Callers, Route(c),
           NEW d \in Callers, d # c
    PROVE  CallerInv(d)'
<1>1. /\ devices' = devices
      /\ pc'[d] = pc[d] /\ address'[d] = address[d] /\ target'[d] = target[d]
      /\ issuedTo'[d] = issuedTo[d]
  BY DEF TypeOK, Route, Issue, CountOne, CountOther, Pick, PickRaises, Find, FindNone, Handled,
         Answer, Dispatch, Goto, startUp
<1> QED
  BY <1>1, RoutingFrame DEF RoutingInv, Ready

LEMMA RoutingOwn ==
    ASSUME TypeOK, RoutingInv, NEW c \in Callers, Route(c)
    PROVE  CallerInv(c)'
<1> USE DEF TypeOK, RoutingInv, CallerInv, RoutedTo, Ready
<1>1. CASE Issue(c)
  BY <1>1 DEF Issue, Goto, startUp
<1>2. CASE CountOne(c)
  <2>1. devices # <<>> /\ Len(Tail(devices)) = 0 /\ Tail(devices) \in Seq(Instances)
    <3>1. Len(devices) = 1 /\ Len(<<>>) = 0
      BY <1>2 DEF CountOne
    <3> QED
      BY <3>1, HeadTailProperties
  <2>2. ToSet(devices) = {Head(devices)}
    BY <2>1, ElementsHeadTail, ElementsEmpty, EmptySeq
  <2> QED
    BY <1>2, <2>1, <2>2 DEF CountOne, Goto, startUp
<1>3. CASE CountOther(c) \/ PickRaises(c) \/ FindNone(c) \/ Handled(c)
  BY <1>3 DEF CountOther, PickRaises, FindNone, Handled, Answer, Goto, startUp
<1>4. CASE Pick(c)
  <2>1. /\ pc[c] = "picking" /\ pc'[c] = "handling" /\ target'[c] = Head(devices)
        /\ UNCHANGED <<devices, address, issuedTo>>
    BY <1>4 DEF Pick, Dispatch, Goto, startUp
  <2>2. Head(devices) \in ToSet(devices)
    BY <2>1, ElementsHeadTail
  <2> QED
    BY <2>1, <2>2
<1>5. CASE Find(c)
  BY <1>5 DEF Find, Dispatch, Goto, startUp
<1> QED
  BY <1>1, <1>2, <1>3, <1>4, <1>5 DEF Route

LEMMA RoutingStep == TypeOK /\ RoutingInv /\ [Next]_vars => RoutingInv'
<1> SUFFICES ASSUME TypeOK, RoutingInv, [Next]_vars, NEW c \in Callers
             PROVE  CallerInv(c)'
  BY DEF RoutingInv
<1>1. ASSUME NEW i \in Instances, Work(i) PROVE CallerInv(c)'
  <2>1. UNCHANGED routing /\ (devices' = devices \/ devices' = Append(devices, i))
    BY <1>1 DEF Work, Configure, Connect, Register, Announce
  <2>2. devices' = Append(devices, i) =>
           /\ Ready' = Ready \cup {i}
           /\ devices # <<>> => devices' # <<>> /\ Head(devices') = Head(devices)
    BY ElementsAppend, AppendProperties, EmptySeq, LenProperties DEF TypeOK, Ready
  <2> QED
    BY <2>1, <2>2, RoutingFrame DEF RoutingInv, routing, Ready
<1>2. ASSUME NEW d \in Callers, Route(d) PROVE CallerInv(c)'
  BY <1>2, RoutingOwn, RoutingOthers
<1>3. CASE Signal \/ StopNext \/ Exit \/ UNCHANGED vars \/ \E i \in Instances : Flip(i)
  <2>1. UNCHANGED <<devices, routing>>
    BY <1>3 DEF Signal, StopNext, Exit, Flip, vars, startUp
  <2> QED
    BY <2>1, RoutingFrame DEF RoutingInv, routing, Ready
<1> QED
  BY <1>1, <1>2, <1>3 DEF Next

LEMMA RoutingPicks == RoutingInv => Pickable
BY DEF RoutingInv, CallerInv, Pickable

\* Every variable keeps its type: in particular the device that an unaddressed
\* command gets exists when it is picked.
THEOREM Typing == Spec => []TypeOK
BY TypeInit, TypeStep, RoutingInit, RoutingStep, RoutingPicks, PTL DEF Spec

\* However the workers register their devices while resolve_instance runs, a
\* command that names an instance acts on it or on none, and one that names none
\* acts on the only device that was ready when it came, or on the first to get
\* ready if there was none (routing.py:28-39, main.py:98).
THEOREM Routed == Spec => []RoutedAsAddressed
<1>1. RoutingInv => RoutedAsAddressed
  BY DEF RoutingInv, CallerInv, RoutedTo, RoutedAsAddressed
<1> QED
  BY <1>1, TypeInit, TypeStep, RoutingInit, RoutingStep, RoutingPicks, PTL DEF Spec

-----------------------------------------------------------------------------
(* Shutdown.                                                               *)

ShutdownInv ==
    /\ phase = "stopping" => atSignal \subseteq stopped \cup ToSet(toStop)
    /\ ShutdownStopsAll

LEMMA ShutdownInit == Init => ShutdownInv
BY DEF Init, ShutdownInv, ShutdownStopsAll

LEMMA ShutdownStep == TypeOK /\ ShutdownInv /\ [Next]_vars => ShutdownInv'
<1> SUFFICES ASSUME TypeOK, ShutdownInv, [Next]_vars PROVE ShutdownInv'
  OBVIOUS
<1> USE DEF ShutdownInv, ShutdownStopsAll
<1>1. CASE Signal
  BY <1>1 DEF Signal, Ready
<1>2. CASE StopNext
  <2>1. ToSet(toStop) = {Head(toStop)} \cup ToSet(Tail(toStop))
    BY <1>2, ElementsHeadTail DEF TypeOK, StopNext
  <2> QED
    BY <1>2, <2>1 DEF StopNext
<1>3. CASE Exit
  BY <1>3, ElementsEmpty DEF Exit
<1>4. CASE \/ \E i \in Instances : Work(i) \/ Flip(i)
           \/ \E c \in Callers : Route(c)
           \/ UNCHANGED vars
  <2>1. UNCHANGED shutdown
    BY <1>4 DEF Work, Configure, Connect, Register, Announce, Flip, Route, Issue, CountOne,
                CountOther, Pick, PickRaises, Find, FindNone, Handled, Answer, Dispatch, vars
  <2> QED
    BY <2>1 DEF shutdown
<1> QED
  BY <1>1, <1>2, <1>3, <1>4 DEF Next

\* Before the runtime shuts down, stop was called on each device that was ready
\* when the signal came, for any number of instances (main.py:109-115).
THEOREM Stopped == Spec => []ShutdownStopsAll
<1>1. ShutdownInv => ShutdownStopsAll
  BY DEF ShutdownInv
<1> QED
  BY <1>1, TypeInit, TypeStep, RoutingInit, RoutingStep, RoutingPicks, ShutdownInit,
     ShutdownStep, PTL DEF Spec

=============================================================================
