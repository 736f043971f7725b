------------------------- MODULE PollManager_proof ------------------------
(* Proofs about PollManager, for any groups, signals, blocks, bands and    *)
(* values and any number of changes, failures, pauses and repolls.         *)
EXTENDS PollManager, SequenceTheorems, TLAPS

\* A block of a group is a sequence of signals.
LEMMA BlocksOfSignals ==
    ASSUME NEW g \in Groups
    PROVE  Blocks[g] \in Seq(Seq(Signals))
<1> DEFINE Own == {s \in Signals : Owner[s] = g}
<1>1. Seq(Own) \subseteq Seq(Signals)
  BY SeqMonotonic, Own \subseteq Signals
<1>2. Blocks[g] \in Seq(Seq(Own))
  BY BlocksAssumption
<1> QED
  BY <1>1, <1>2, SeqMonotonic

\* What a publish leaves behind: nothing but the two outputs of the signal at
\* hand changes, and they keep their types.
LEMMA PublishKeepsTypes ==
    ASSUME TypeOK, NEW t \in Threads, rest[t] # <<>>,
           NEW q \in {"GOOD", "BAD"}, NEW v \in Readings \cup {NoValue},
           Publish(t, q, v)
    PROVE  feed' \in [Signals -> Samples] /\ good' \in [Signals -> Readings \cup {NoValue}]
<1> DEFINE s == Current(t)
           new == [quality |-> q, value |-> v, turn |-> 1 - feed[s].turn]
<1>1. s \in Signals
  BY HeadTailProperties DEF TypeOK, Current
<1>2. new \in Samples
  <2>1. feed[s] \in Samples
    BY <1>1 DEF TypeOK
  <2>2. 1 - feed[s].turn \in {0, 1}
    BY <2>1 DEF Samples
  <2> QED
    BY <2>2 DEF Samples
<1>3. CASE broker = "up"
  <2>1. feed' = [feed EXCEPT ![s] = new]
    BY <1>3 DEF Publish
  <2>2. good' = [good EXCEPT ![s] = v] \/ good' = good
    BY <1>3 DEF Publish
  <2> HIDE DEF s, new
  <2>3. feed' \in [Signals -> Samples]
    BY <1>1, <1>2, <2>1 DEF TypeOK
  <2>4. good' \in [Signals -> Readings \cup {NoValue}]
    BY <1>1, <2>2 DEF TypeOK
  <2> QED
    BY <2>3, <2>4
<1>4. CASE broker # "up"
  BY <1>4 DEF Publish, outVars, TypeOK
<1> QED
  BY <1>3, <1>4

\* A thread that has a signal in hand is on a signal of the configuration and
\* holds a value the slave had.
LEMMA AtHand ==
    ASSUME TypeOK, NEW t \in Threads, rest[t] # <<>>
    PROVE  /\ Current(t) \in Signals
           /\ Reading(t) \in Readings
           /\ Tail(rest[t]) \in Seq(Signals)
<1>1. rest[t] \in Seq(Signals) /\ image[t] \in [Signals -> Readings]
  BY DEF TypeOK
<1> QED
  BY <1>1, HeadTailProperties DEF Current, Reading

-----------------------------------------------------------------------------

\* A thread commits and offers only what it has in hand.
InHand == \A t \in Threads : pc[t] \in {"committing", "offering"} => rest[t] # <<>>

TypeInv == TypeOK /\ InHand

LEMMA TypeInvInit == Init => TypeInv
<1> SUFFICES ASSUME Init PROVE TypeInv
  OBVIOUS
<1> USE DEF Init
<1>1. paused \in BOOLEAN
  BY Zenon
<1>2. feed \in [Signals -> Samples]
  BY DEF Samples
<1>3. /\ queue \in [Threads -> Seq(Groups)]
      /\ todo \in [Threads -> Seq(Seq(Signals))]
      /\ rest \in [Threads -> Seq(Signals)]
  BY EmptySeq
<1>4. /\ reg \in [Signals -> Readings]
      /\ image \in [Threads -> [Signals -> Readings]]
      /\ pc \in [Threads -> States]
      /\ last \in [Signals -> Readings \cup {NoValue}]
      /\ good \in [Signals -> Readings \cup {NoValue}]
  BY SignalsAssumption DEF States
<1>5. InHand
  BY DEF InHand
<1> QED
  BY <1>1, <1>2, <1>3, <1>4, <1>5 DEF TypeInv, TypeOK

\* A poll step keeps the types, and leaves a thread with a signal in hand where
\* it needs one.
LEMMA PollStepTypes ==
    ASSUME TypeInv, NEW t \in Threads, PollStep(t)
    PROVE  TypeInv'
<1> USE DEF TypeInv, Goto
<1>0. TypeOK /\ InHand
  OBVIOUS
<1>1. CASE NextGroup(t)
  <2>1. Head(queue[t]) \in Groups /\ Tail(queue[t]) \in Seq(Groups)
    BY <1>0, <1>1, HeadTailProperties DEF TypeOK, NextGroup
  <2>2. Blocks[Head(queue[t])] \in Seq(Seq(Signals))
    BY <2>1, BlocksOfSignals
  <2>3. todo' \in [Threads -> Seq(Seq(Signals))] /\ queue' \in [Threads -> Seq(Groups)]
    BY <1>0, <1>1, <2>1, <2>2 DEF TypeOK, NextGroup
  <2> QED
    BY <1>0, <1>1, <2>3 DEF TypeOK, NextGroup, InHand, slaveVars, outVars, env
<1>2. CASE EndCycle(t)
  <2>1. pc' \in [Threads -> States]
    BY <1>0, <1>2 DEF TypeOK, EndCycle, States
  <2> QED
    BY <1>0, <1>2, <2>1
    DEF TypeOK, EndCycle, InHand, slaveVars, jobVars, outVars, env
<1>3. CASE ReadBlock(t)
  <2>1. Head(todo[t]) \in Seq(Signals) /\ Tail(todo[t]) \in Seq(Seq(Signals))
    BY <1>0, <1>3, HeadTailProperties DEF TypeOK, ReadBlock
  <2>2. rest' \in [Threads -> Seq(Signals)] /\ todo' \in [Threads -> Seq(Seq(Signals))]
    BY <1>0, <1>3, <2>1 DEF TypeOK, ReadBlock
  <2>3. image' \in [Threads -> [Signals -> Readings]]
    BY <1>0, <1>3 DEF TypeOK, ReadBlock
  <2>4. pc' \in [Threads -> States]
    BY <1>0, <1>3 DEF TypeOK, ReadBlock, States
  <2>5. InHand'
    BY <1>0, <1>3 DEF TypeOK, ReadBlock, InHand
  <2> QED
    BY <1>0, <1>3, <2>2, <2>3, <2>4, <2>5 DEF TypeOK, ReadBlock, slaveVars, outVars, env
<1>4. CASE OfferFailed(t) \/ OfferUndecodable(t)
  <2>1. rest[t] # <<>> /\ pc[t] \in {"failing", "gating"} /\ pc' = pc
    BY <1>4 DEF OfferFailed, OfferUndecodable
  <2>2. rest' \in [Threads -> Seq(Signals)]
    BY <1>0, <1>4, <2>1, AtHand DEF TypeOK, OfferFailed, OfferUndecodable
  <2>3. feed' \in [Signals -> Samples] /\ good' \in [Signals -> Readings \cup {NoValue}]
    BY <1>0, <1>4, <2>1, PublishKeepsTypes DEF OfferFailed, OfferUndecodable
  <2>4. InHand'
    BY <1>0, <1>4, <2>1 DEF TypeOK, OfferFailed, OfferUndecodable, InHand
  <2> QED
    BY <1>0, <1>4, <2>1, <2>2, <2>3, <2>4
    DEF TypeOK, OfferFailed, OfferUndecodable, slaveVars, env
<1>5. CASE GatePasses(t)
  <2>1. pc' \in [Threads -> States]
    BY <1>0, <1>5 DEF TypeOK, GatePasses, States
  <2>2. InHand'
    BY <1>0, <1>5 DEF TypeOK, GatePasses, InHand, jobVars
  <2> QED
    BY <1>0, <1>5, <2>1, <2>2 DEF TypeOK, GatePasses, slaveVars, jobVars, outVars, env
<1>6. CASE GateSuppresses(t)
  <2>1. rest' \in [Threads -> Seq(Signals)]
    BY <1>0, <1>6, AtHand DEF TypeOK, GateSuppresses
  <2>2. InHand'
    BY <1>0, <1>6 DEF TypeOK, GateSuppresses, InHand
  <2> QED
    BY <1>0, <1>6, <2>1, <2>2 DEF TypeOK, GateSuppresses, slaveVars, outVars, env
<1>7. CASE Commit(t)
  <2>1. rest[t] # <<>>
    BY <1>0, <1>7 DEF Commit, InHand
  <2>2. last' \in [Signals -> Readings \cup {NoValue}]
    BY <1>0, <1>7, <2>1, AtHand DEF TypeOK, Commit
  <2>3. pc' \in [Threads -> States]
    BY <1>0, <1>7 DEF TypeOK, Commit, States
  <2>4. InHand'
    BY <1>0, <1>7, <2>1 DEF TypeOK, Commit, InHand, jobVars
  <2> QED
    BY <1>0, <1>7, <2>2, <2>3, <2>4 DEF TypeOK, Commit, slaveVars, jobVars, outVars, env
<1>8. CASE Offer(t)
  <2>1. rest[t] # <<>>
    BY <1>0, <1>8 DEF Offer, InHand
  <2>2. Reading(t) \in Readings /\ Tail(rest[t]) \in Seq(Signals)
    BY <1>0, <2>1, AtHand
  <2>3. rest' \in [Threads -> Seq(Signals)]
    BY <1>0, <1>8, <2>2 DEF TypeOK, Offer
  <2>4. feed' \in [Signals -> Samples] /\ good' \in [Signals -> Readings \cup {NoValue}]
    BY <1>0, <1>8, <2>1, <2>2, PublishKeepsTypes DEF Offer
  <2>5. pc' \in [Threads -> States]
    BY <1>0, <1>8 DEF TypeOK, Offer, States
  <2>6. InHand'
    BY <1>0, <1>8 DEF TypeOK, Offer, InHand
  <2> QED
    BY <1>0, <1>8, <2>3, <2>4, <2>5, <2>6 DEF TypeOK, Offer, slaveVars, env
<1>9. CASE EndBlock(t)
  <2>1. pc' \in [Threads -> States]
    BY <1>0, <1>9 DEF TypeOK, EndBlock, States
  <2>2. InHand'
    BY <1>0, <1>9 DEF TypeOK, EndBlock, InHand, jobVars
  <2> QED
    BY <1>0, <1>9, <2>1, <2>2 DEF TypeOK, EndBlock, slaveVars, jobVars, outVars, env
<1> QED
  BY <1>1, <1>2, <1>3, <1>4, <1>5, <1>6, <1>7, <1>8, <1>9 DEF PollStep

LEMMA TypeInvStep == TypeInv /\ [Next]_vars => TypeInv'
<1> SUFFICES ASSUME TypeInv, [Next]_vars PROVE TypeInv'
  OBVIOUS
<1>0. TypeOK /\ InHand
  BY DEF TypeInv
<1>1. ASSUME NEW g \in Groups, BeginCycle(g) PROVE TypeInv'
  <2>1. Blocks[g] \in Seq(Seq(Signals)) /\ g \in Threads
    BY BlocksOfSignals DEF Threads
  <2>2. todo' \in [Threads -> Seq(Seq(Signals))] /\ pc' \in [Threads -> States]
    BY <1>0, <1>1, <2>1 DEF TypeOK, BeginCycle, Goto, States
  <2>3. InHand'
    BY <1>0, <1>1, <2>1 DEF TypeOK, BeginCycle, Goto, InHand
  <2> QED
    BY <1>0, <1>1, <2>2, <2>3 DEF TypeInv, TypeOK, BeginCycle, slaveVars, outVars, env
<1>2. ASSUME NEW c \in Callers, Repoll(c) PROVE TypeInv'
  <2>1. c \in Threads /\ GroupOrder \in Seq(Groups)
    BY GroupsAssumption DEF Threads
  <2>2. /\ queue' \in [Threads -> Seq(Groups)]
        /\ pc' \in [Threads -> States]
        /\ repolls' \in Nat
    BY <1>0, <1>2, <2>1 DEF TypeOK, Repoll, Goto, States
  <2>3. InHand'
    BY <1>0, <1>2, <2>1 DEF TypeOK, Repoll, Goto, InHand
  <2> QED
    BY <1>0, <1>2, <2>2, <2>3 DEF TypeInv, TypeOK, Repoll, slaveVars, outVars
<1>3. ASSUME NEW t \in Threads, PollStep(t) PROVE TypeInv'
  BY <1>3, PollStepTypes
<1>4. CASE Pause \/ Resume
  <2>1. paused' \in BOOLEAN
    BY <1>4, Zenon DEF Pause, Resume
  <2>2. pauses' \in Nat
    BY <1>0, <1>4 DEF TypeOK, Pause, Resume, env
  <2> QED
    BY <1>0, <1>4, <2>1, <2>2
    DEF TypeInv, TypeOK, InHand, Pause, Resume, slaveVars, jobVars, outVars, env
<1>5. ASSUME NEW s \in Signals, Change(s) PROVE TypeInv'
  <2>1. reg' \in [Signals -> Readings] /\ changes' \in Nat
    BY <1>0, <1>5 DEF TypeOK, Change
  <2> QED
    BY <1>0, <1>5, <2>1 DEF TypeInv, TypeOK, InHand, Change, jobVars, outVars, env
<1>6. CASE LinkDown \/ LinkUp
  BY <1>0, <1>6
  DEF TypeInv, TypeOK, InHand, LinkDown, LinkUp, slaveVars, jobVars, outVars, env
<1>7. CASE BrokerDown \/ BrokerUp
  BY <1>0, <1>7
  DEF TypeInv, TypeOK, InHand, BrokerDown, BrokerUp, slaveVars, jobVars, outVars, env
<1>8. CASE UNCHANGED vars
  BY <1>0, <1>8 DEF TypeInv, TypeOK, InHand, vars, slaveVars, jobVars, outVars, env
<1> QED
  BY <1>1, <1>2, <1>3, <1>4, <1>5, <1>6, <1>7, <1>8 DEF Next

\* Every variable keeps its type, whatever the threads, commands and failures do.
THEOREM Typing == Spec => []TypeOK
<1>1. TypeInv => TypeOK
  BY DEF TypeInv
<1> QED
  BY <1>1, TypeInvInit, TypeInvStep, PTL DEF Spec

-----------------------------------------------------------------------------
(* Without repolls and with a broker that accepts every publish, _last is  *)
(* what its comment says.  The argument: a signal is in the blocks of its  *)
(* own group only, so a single thread ever touches it, and that thread     *)
(* goes from test to update to publish with nothing in between.            *)

Undisturbed == Callers = {} /\ MaxBrokerOutages = 0

Own(g) == {s \in Signals : Owner[s] = g}

OwnJob(g) ==
    /\ queue[g] = <<>>
    /\ todo[g] \in Seq(Seq(Own(g)))
    /\ rest[g] \in Seq(Own(g))

\* What thread g knows of the signal in its hand.
Known(g) ==
    /\ pc[g] = "committing" => Passes(g)
    /\ pc[g] = "offering" =>
         /\ last[Current(g)] = Reading(g)
         /\ \/ g \in Always
            \/ Exceeds(Band[Current(g)], good[Current(g)], Reading(g))

Settled(s) == Unpublished(Owner[s], s) \/ last[s] = good[s]

PublishedInv ==
    /\ broker = "up" /\ brokerOutages = 0
    /\ \A g \in Groups : OwnJob(g) /\ Known(g)
    /\ \A s \in Signals : Settled(s)

LEMMA PublishedInit == Init => PublishedInv
<1> SUFFICES ASSUME Init PROVE PublishedInv
  OBVIOUS
<1>1. \A g \in Groups : OwnJob(g)
  BY EmptySeq DEF Init, OwnJob, Threads
<1> QED
  BY <1>1 DEF Init, PublishedInv, Known, Settled, Threads

\* The signal in the hand of a poll thread is one of its own.
LEMMA OwnAtHand ==
    ASSUME PublishedInv, NEW g \in Groups, rest[g] # <<>>
    PROVE  /\ Current(g) \in Signals
           /\ Owner[Current(g)] = g
           /\ Tail(rest[g]) \in Seq(Own(g))
<1>1. rest[g] \in Seq(Own(g))
  BY DEF PublishedInv, OwnJob
<1> QED
  BY <1>1, HeadTailProperties DEF Own, Current

\* A step that leaves the outputs, the brokers and the jobs of all groups alone
\* leaves the invariant alone.
LEMMA PublishedFrame ==
    ASSUME PublishedInv,
           UNCHANGED <<broker, brokerOutages, pc, jobVars, last, outVars>>
    PROVE  PublishedInv'
BY DEF PublishedInv, OwnJob, Known, Settled, Unpublished, Passes, Current, Reading,
       jobVars, outVars

\* The other threads: what a step of g does not touch stays as it was.
LEMMA OtherGroups ==
    ASSUME PublishedInv, TypeInv, NEW g \in Groups,
           \A h \in Groups \ {g} :
              /\ pc'[h] = pc[h] /\ queue'[h] = queue[h] /\ todo'[h] = todo[h]
              /\ rest'[h] = rest[h] /\ image'[h] = image[h],
           \A s \in Signals : Owner[s] # g => last'[s] = last[s] /\ good'[s] = good[s]
    PROVE  /\ \A h \in Groups \ {g} : OwnJob(h)' /\ Known(h)'
           /\ \A s \in Signals : Owner[s] # g => Settled(s)'
<1>1. ASSUME NEW h \in Groups \ {g} PROVE OwnJob(h)' /\ Known(h)'
  <2>1. OwnJob(h)'
    BY DEF PublishedInv, OwnJob
  <2>2. CASE pc[h] \in {"committing", "offering"}
    <3>1. rest[h] # <<>>
      BY <2>2 DEF TypeInv, InHand, Threads
    <3>2. Current(h) \in Signals /\ Owner[Current(h)] = h
      BY <3>1, OwnAtHand
    <3>3. /\ Current(h)' = Current(h) /\ Reading(h)' = Reading(h)
          /\ last'[Current(h)] = last[Current(h)] /\ good'[Current(h)] = good[Current(h)]
      BY <3>2 DEF Current, Reading
    <3> HIDE DEF Current, Reading
    <3> QED
      BY <2>1, <3>2, <3>3 DEF PublishedInv, Known, Passes
  <2>3. CASE pc[h] \notin {"committing", "offering"}
    BY <2>1, <2>3 DEF Known
  <2> QED
    BY <2>2, <2>3
<1>2. ASSUME NEW s \in Signals, Owner[s] # g PROVE Settled(s)'
  <2>1. Owner[s] \in Groups \ {g}
    BY <1>2, SignalsAssumption
  <2> QED
    BY <1>2, <2>1 DEF PublishedInv, Settled, Unpublished, Current
<1> QED
  BY <1>1, <1>2


LEMMA PublishedPollStep ==
    ASSUME Undisturbed, TypeInv, PublishedInv, NEW g \in Groups, PollStep(g)
    PROVE  PublishedInv'
<1> g \in Threads
  BY DEF Threads
<1>0. /\ TypeOK /\ InHand
      /\ OwnJob(g) /\ Known(g)
      /\ broker = "up" /\ brokerOutages = 0
  BY DEF TypeInv, PublishedInv
<1> SUFFICES /\ broker' = "up" /\ brokerOutages' = 0
             /\ \A h \in Groups \ {g} : OwnJob(h)' /\ Known(h)'
             /\ \A s \in Signals : Owner[s] # g => Settled(s)'
             /\ OwnJob(g)' /\ Known(g)'
             /\ \A s \in Own(g) : Settled(s)'
  BY DEF PublishedInv, Own
<1>f. ASSUME broker' = broker, brokerOutages' = brokerOutages,
             \A h \in Groups \ {g} :
                /\ pc'[h] = pc[h] /\ queue'[h] = queue[h] /\ todo'[h] = todo[h]
                /\ rest'[h] = rest[h] /\ image'[h] = image[h],
             \A s \in Signals : Owner[s] # g => last'[s] = last[s] /\ good'[s] = good[s]
      PROVE  /\ broker' = "up" /\ brokerOutages' = 0
             /\ \A h \in Groups \ {g} : OwnJob(h)' /\ Known(h)'
             /\ \A s \in Signals : Owner[s] # g => Settled(s)'
  BY <1>f, <1>0, OtherGroups
\* A step that begins and ends outside committing and offering, and touches
\* neither last nor good, keeps the signals of g settled.
<1>q. ASSUME pc[g] \notin {"committing", "offering"}, pc'[g] # "offering",
             last' = last, good' = good
      PROVE  \A s \in Own(g) : Settled(s)'
  BY <1>q DEF PublishedInv, Settled, Unpublished, Own
<1>1. CASE NextGroup(g)
  BY <1>0, <1>1 DEF NextGroup, OwnJob
<1>2. CASE EndCycle(g) \/ EndBlock(g)
  <2>1. /\ pc[g] \notin {"committing", "offering"}
        /\ pc'[g] \in {"idle", "polling"}
        /\ \A h \in Groups \ {g} : pc'[h] = pc[h]
        /\ UNCHANGED <<broker, brokerOutages, jobVars, last, outVars>>
    <3>1. pc \in [Threads -> States]
      BY <1>0 DEF TypeOK
    <3>2. CASE EndCycle(g)
      BY <3>1, <3>2 DEF EndCycle, Goto, env
    <3>3. CASE EndBlock(g)
      BY <3>1, <3>3 DEF EndBlock, env
    <3> QED
      BY <1>2, <3>2, <3>3
  <2>2. OwnJob(g)' /\ Known(g)'
    BY <1>0, <2>1 DEF OwnJob, Known, jobVars
  <2> QED
    BY <2>1, <2>2, <1>f, <1>q DEF jobVars, outVars
<1>3. CASE ReadBlock(g)
  <2>1. /\ pc[g] = "polling" /\ pc'[g] \in {"gating", "failing"}
        /\ \A h \in Groups \ {g} :
              /\ pc'[h] = pc[h] /\ queue'[h] = queue[h] /\ todo'[h] = todo[h]
              /\ rest'[h] = rest[h] /\ image'[h] = image[h]
        /\ UNCHANGED <<broker, brokerOutages, queue, last, outVars>>
        /\ rest'[g] = Head(todo[g]) /\ todo'[g] = Tail(todo[g])
        /\ todo[g] # <<>>
    BY <1>0, <1>3 DEF TypeOK, ReadBlock, Goto, env, Threads
  <2>2. rest'[g] \in Seq(Own(g)) /\ todo'[g] \in Seq(Seq(Own(g)))
    BY <1>0, <2>1, HeadTailProperties DEF OwnJob
  <2>3. OwnJob(g)' /\ Known(g)'
    BY <1>0, <2>1, <2>2 DEF OwnJob, Known
  <2> QED
    BY <2>1, <2>3, <1>f, <1>q DEF outVars
<1>4. CASE OfferFailed(g) \/ OfferUndecodable(g)
  <2>1. /\ pc[g] \in {"gating", "failing"} /\ pc' = pc /\ rest[g] # <<>>
        /\ good' = good
        /\ rest'[g] = Tail(rest[g])
        /\ \A h \in Groups \ {g} : rest'[h] = rest[h]
        /\ UNCHANGED <<broker, brokerOutages, queue, todo, image, last>>
    <3>1. pc[g] \in {"gating", "failing"} /\ pc' = pc /\ rest[g] # <<>>
      BY <1>4 DEF OfferFailed, OfferUndecodable
    <3>2. good' = good
      BY <1>4 DEF OfferFailed, OfferUndecodable, Publish, outVars
    <3>3. rest' = [rest EXCEPT ![g] = Tail(rest[g])]
      BY <1>4 DEF OfferFailed, OfferUndecodable
    <3>4. UNCHANGED <<broker, brokerOutages, queue, todo, image, last>>
      BY <1>4 DEF OfferFailed, OfferUndecodable, env
    <3> QED
      BY <1>0, <3>1, <3>2, <3>3, <3>4 DEF TypeOK
  <2>2. OwnJob(g)' /\ Known(g)'
    BY <1>0, <2>1, OwnAtHand DEF OwnJob, Known
  <2> QED
    BY <2>1, <2>2, <1>f, <1>q
<1>5. CASE GatePasses(g)
  <2>1. /\ pc[g] = "gating" /\ pc'[g] = "committing" /\ Passes(g)
        /\ \A h \in Groups \ {g} : pc'[h] = pc[h]
        /\ UNCHANGED <<broker, brokerOutages, jobVars, last, outVars>>
    BY <1>0, <1>5 DEF TypeOK, GatePasses, Goto, env
  <2>2. OwnJob(g)' /\ Known(g)'
    BY <1>0, <2>1 DEF OwnJob, Known, Passes, Current, Reading, jobVars
  <2> QED
    BY <2>1, <2>2, <1>f, <1>q DEF jobVars, outVars
<1>6. CASE GateSuppresses(g)
  <2>1. /\ pc[g] = "gating" /\ pc' = pc /\ rest[g] # <<>>
        /\ rest'[g] = Tail(rest[g])
        /\ \A h \in Groups \ {g} : rest'[h] = rest[h]
        /\ UNCHANGED <<broker, brokerOutages, queue, todo, image, last, outVars>>
    BY <1>0, <1>6 DEF TypeOK, GateSuppresses, env
  <2>2. OwnJob(g)' /\ Known(g)'
    BY <1>0, <2>1, OwnAtHand DEF OwnJob, Known
  <2> QED
    BY <2>1, <2>2, <1>f, <1>q DEF outVars
<1>7. CASE Commit(g)
  <2> DEFINE s == Current(g)
  <2>1. rest[g] # <<>>
    BY <1>0, <1>7 DEF Commit, Goto, InHand
  <2>2. s \in Signals /\ Owner[s] = g
    BY <2>1, OwnAtHand
  <2>3. /\ pc[g] = "committing" /\ pc'[g] = "offering"
        /\ \A h \in Groups \ {g} : pc'[h] = pc[h]
        /\ UNCHANGED <<broker, brokerOutages, jobVars, outVars>>
        /\ last'[s] = Reading(g)
        /\ \A r \in Signals \ {s} : last'[r] = last[r]
    BY <1>0, <1>7, <2>2 DEF TypeOK, Commit, Goto, env
  <2>4. Current(g)' = s /\ Reading(g)' = Reading(g)
    BY <2>3 DEF Current, Reading, jobVars
  <2>5. Passes(g) /\ last[s] = good[s]
    BY <1>0, <2>2, <2>3 DEF Known, PublishedInv, Settled, Unpublished
  <2>6. OwnJob(g)' /\ Known(g)'
    <3> HIDE DEF s
    <3>1. g \in Always \/ Exceeds(Band[s], good[s], Reading(g))
      BY <2>2, <2>5 DEF Passes, s
    <3>2. good' = good
      BY <2>3 DEF outVars
    <3>3. OwnJob(g)'
      BY <1>0, <2>3 DEF OwnJob, jobVars
    <3> HIDE DEF Current, Reading
    <3> QED
      BY <2>3, <2>4, <3>1, <3>2, <3>3 DEF Known
  <2>7. \A r \in Own(g) : Settled(r)'
    <3> SUFFICES ASSUME NEW r \in Own(g) PROVE Settled(r)'
      OBVIOUS
    <3>1. CASE r = s
      BY <3>1, <2>2, <2>3, <2>4 DEF Settled, Unpublished
    <3>2. CASE r # s
      <4>1. last[r] = good[r]
        BY <2>3, <3>2 DEF PublishedInv, Settled, Unpublished, Own
      <4> QED
        BY <4>1, <2>3, <3>2 DEF Settled, Own, outVars
    <3> QED
      BY <3>1, <3>2
  <2> QED
    BY <2>2, <2>3, <2>6, <2>7, <1>f DEF jobVars, outVars
<1>8. CASE Offer(g)
  <2> DEFINE s == Current(g)
  <2>1. pc[g] = "offering" /\ rest[g] # <<>>
    BY <1>0, <1>8 DEF Offer, Goto, InHand
  <2>2. s \in Signals /\ Owner[s] = g /\ Tail(rest[g]) \in Seq(Own(g))
    BY <2>1, OwnAtHand
  <2>3. /\ pc'[g] = "gating"
        /\ \A h \in Groups \ {g} : pc'[h] = pc[h] /\ rest'[h] = rest[h]
        /\ rest'[g] = Tail(rest[g])
        /\ UNCHANGED <<broker, brokerOutages, queue, todo, image, last>>
    BY <1>0, <1>8 DEF TypeOK, Offer, Goto, env
  <2>4. good' = [good EXCEPT ![s] = Reading(g)]
    BY <1>0, <1>8 DEF Offer, Publish
  <2>5. good'[s] = Reading(g) /\ \A r \in Signals \ {s} : good'[r] = good[r]
    BY <1>0, <2>2, <2>4 DEF TypeOK
  <2>6. OwnJob(g)' /\ Known(g)'
    BY <1>0, <2>2, <2>3 DEF OwnJob, Known
  <2>7. last[s] = Reading(g)
    BY <1>0, <2>1 DEF Known
  <2>8. \A r \in Own(g) : Settled(r)'
    <3> SUFFICES ASSUME NEW r \in Own(g) PROVE Settled(r)'
      OBVIOUS
    <3>1. CASE r = s
      BY <3>1, <2>3, <2>5, <2>7 DEF Settled
    <3>2. CASE r # s
      BY <3>2, <2>1, <2>3, <2>5 DEF PublishedInv, Settled, Unpublished, Own
    <3> QED
      BY <3>1, <3>2
  <2> QED
    BY <2>2, <2>3, <2>5, <2>6, <2>8, <1>f
<1> QED
  BY <1>1, <1>2, <1>3, <1>4, <1>5, <1>6, <1>7, <1>8 DEF PollStep

LEMMA PublishedStep ==
    ASSUME Undisturbed
    PROVE  TypeInv /\ PublishedInv /\ [Next]_vars => PublishedInv'
<1> SUFFICES ASSUME TypeInv, PublishedInv, [Next]_vars PROVE PublishedInv'
  OBVIOUS
<1>0. Threads = Groups /\ TypeOK
  BY DEF Undisturbed, Threads, TypeInv
<1>1. ASSUME NEW g \in Groups, BeginCycle(g) PROVE PublishedInv'
  <2>1. /\ pc[g] = "idle" /\ pc'[g] = "polling"
        /\ todo'[g] = Blocks[g]
        /\ \A h \in Groups \ {g} : pc'[h] = pc[h] /\ todo'[h] = todo[h]
        /\ UNCHANGED <<broker, brokerOutages, queue, rest, image, last, outVars>>
    BY <1>0, <1>1 DEF TypeOK, BeginCycle, Goto, env
  <2>2. OwnJob(g)' /\ Known(g)'
    BY <2>1, BlocksAssumption DEF PublishedInv, OwnJob, Known, Own
  <2>3. /\ \A h \in Groups \ {g} : OwnJob(h)' /\ Known(h)'
        /\ \A s \in Signals : Owner[s] # g => Settled(s)'
    BY <2>1, OtherGroups DEF outVars
  <2>4. \A s \in Signals : Owner[s] = g => Settled(s)'
    BY <2>1 DEF PublishedInv, Settled, Unpublished, outVars
  <2> QED
    BY <2>1, <2>2, <2>3, <2>4 DEF PublishedInv
<1>2. ASSUME NEW t \in Threads, PollStep(t) PROVE PublishedInv'
  BY <1>0, <1>2, PublishedPollStep
<1>3. CASE \/ Pause \/ Resume \/ LinkDown \/ LinkUp
           \/ \E s \in Signals : Change(s)
           \/ UNCHANGED vars
  BY <1>3, PublishedFrame
  DEF Pause, Resume, LinkDown, LinkUp, Change, vars, slaveVars, jobVars, outVars, env
<1>4. ~BrokerDown /\ ~BrokerUp
  BY DEF Undisturbed, PublishedInv, BrokerDown, BrokerUp
<1> QED
  BY <1>1, <1>2, <1>3, <1>4 DEF Next, Undisturbed

\* Without repolls and without failing publishes, the value a signal is compared
\* with is the one the consumer holds, whatever the poll threads, the slave and
\* sb/pause do (poll_manager.py:165-168).
THEOREM LastPublished ==
    ASSUME Undisturbed
    PROVE  Spec => []LastIsPublished
<1>1. PublishedInv => LastIsPublished
  <2>1. \A s \in Signals : Owner[s] \in Threads
    BY SignalsAssumption DEF Threads
  <2> QED
    BY <2>1 DEF PublishedInv, Settled, LastIsPublished
<1> QED
  BY <1>1, TypeInvInit, TypeInvStep, PublishedInit, PublishedStep, PTL DEF Spec

\* Under the same conditions the consumer of an onChange signal never receives
\* an echo, or a change within the deadband of the value it holds.
THEOREM BandIsRespected ==
    ASSUME Undisturbed
    PROVE  Spec => BandRespected
<1>1. ASSUME TypeInv, PublishedInv, [Next]_vars, NEW s \in OnChange,
             feed'[s].turn # feed[s].turn, feed'[s].quality = "GOOD"
      PROVE  Exceeds(Band[s], good[s], feed'[s].value)
  <2>0. Threads = Groups /\ TypeOK /\ feed' # feed /\ s \in Signals
    BY <1>1 DEF Undisturbed, Threads, TypeInv, OnChange
  <2>1. PICK g \in Groups : OfferFailed(g) \/ OfferUndecodable(g) \/ Offer(g)
    BY <1>1, <2>0
    DEF Next, BeginCycle, Repoll, PollStep, NextGroup, EndCycle, ReadBlock, GatePasses,
        GateSuppresses, Commit, EndBlock, Pause, Resume, Change, LinkDown, LinkUp,
        BrokerDown, BrokerUp, vars, outVars
  <2>2. rest[g] # <<>>
    BY <1>1, <2>0, <2>1 DEF OfferFailed, OfferUndecodable, Offer, Goto, TypeInv, InHand
  <2>3. Current(g) \in Signals /\ Owner[Current(g)] = g
    BY <1>1, <2>2, OwnAtHand
  <2>4. PICK q \in {"GOOD", "BAD"}, v \in Readings \cup {NoValue} :
           /\ Publish(g, q, v)
           /\ q = "GOOD" => Offer(g) /\ v = Reading(g)
    <3>1. Reading(g) \in Readings
      BY <2>0, <2>2, AtHand DEF Threads
    <3> QED
      BY <2>1, <3>1 DEF OfferFailed, OfferUndecodable, Offer
  <2>5. feed' = [feed EXCEPT ![Current(g)] =
                    [quality |-> q, value |-> v, turn |-> 1 - feed[Current(g)].turn]]
    BY <2>0, <2>4 DEF Publish, outVars
  <2>6. Current(g) = s
    BY <1>1, <2>0, <2>5 DEF TypeOK
  <2>7. q = "GOOD" /\ feed'[s].value = v
    BY <1>1, <2>0, <2>5, <2>6 DEF TypeOK
  <2>8. pc[g] = "offering" /\ g \notin Always
    BY <1>1, <2>3, <2>4, <2>6, <2>7 DEF Offer, Goto, OnChange
  <2> QED
    BY <1>1, <2>4, <2>6, <2>7, <2>8 DEF PublishedInv, Known
<1>2. TypeInv /\ PublishedInv /\ [Next]_vars =>
        [\A s \in OnChange :
            feed'[s].turn # feed[s].turn /\ feed'[s].quality = "GOOD" =>
                Exceeds(Band[s], good[s], feed'[s].value)]_vars
  BY <1>1
<1> QED
  BY <1>2, TypeInvInit, TypeInvStep, PublishedInit, PublishedStep, PTL
  DEF Spec, BandRespected

=============================================================================
