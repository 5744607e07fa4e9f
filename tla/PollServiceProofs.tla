-------------------------- MODULE PollServiceProofs --------------------------
(***************************************************************************)
(* Safety of the poll service for any number of agents, polls, channels,   *)
(* commands and faults: who serves whom, and that no command is duplicated *)
(* or forgotten on its way to an agent.                                    *)
(***************************************************************************)
EXTENDS PollProperties, QueueLemmas, TLAPS

\* The control points between taking a poll and closing its MsgChan.
Busy == {"setroles", "dequeue", "offer", "requeue", "running", "closemsg"}

\* A registered channel was made for the agent it is registered for.
ProducersMatch ==
    \A a \in Agents : producers[a] # NoChan => ChanAgent[producers[a]] = a

\* A routine serves a poll of its agent exactly while it is busy, and that
\* handler is past its send.
ServingMatches ==
    \A ch \in Chans :
        /\ serving[ch] # NoPoll <=> routine[ch] \in Busy
        /\ serving[ch] # NoPoll =>
             /\ PollAgent[serving[ch]] = ChanAgent[ch]
             /\ pollPc[serving[ch]] # "send"

\* A handler that is about to send holds a channel of its agent.
SendsMatch ==
    \A p \in Polls :
        pollPc[p] = "send" => /\ pollChan[p] \in Chans
                              /\ ChanAgent[pollChan[p]] = PollAgent[p]

\* A routine that popped a command has it in hand.
HandFull ==
    \A ch \in Chans :
        routine[ch] \in {"offer", "requeue", "running"} =>
            hand[ch] \in Commands

RoutineInv ==
    /\ LiveRoutineIsRegistered
    /\ ProducersMatch
    /\ ServingMatches
    /\ SendsMatch
    /\ HandFull

PollInv == PollTypeOK /\ RoutineInv

\* The initial state satisfies the inductive invariant.
LEMMA InitInv == PollInit => PollInv
  BY PollServiceAssumption, CoreAssumption
  DEF PollInit, PollInv, PollTypeOK, RoutineInv, AgentDataTypeOK,
      AgentDataInit, LiveRoutineIsRegistered, ProducersMatch, ServingMatches,
      SendsMatch, HandFull, Busy, RoutineStates, PollStates


\* Every step preserves it.
LEMMA NextInv == ASSUME PollInv, [PollNext]_pollVars PROVE PollInv'
<1> USE PollServiceAssumption, CoreAssumption
    DEF PollInv, PollTypeOK, AgentDataTypeOK,
      RoutineInv, LiveRoutineIsRegistered, ProducersMatch, ServingMatches,
      SendsMatch, HandFull, Busy, RoutineStates, PollStates, RoutineGoes,
      HandlerGoes, goVars, routineVars, handlerVars, queueVars, fateVars
<1>1. ASSUME NEW p \in Polls, StartPoll(p) PROVE PollInv'
  <2>1. CASE producers[PollAgent[p]] # NoChan
    <3>1. /\ pollChan' = [pollChan EXCEPT ![p] = producers[PollAgent[p]]]
          /\ pollPc' = [pollPc EXCEPT ![p] = "send"]
          /\ UNCHANGED <<roles, producers, routine, serving, hand, payload,
                         queueVars, fateVars>>
          /\ ~ Served(p)
      BY <1>1, <2>1 DEF StartPoll, getProducerChan
    <3>2. PollTypeOK'
      BY <2>1, <3>1
    <3>3. RoutineInv'
      BY <2>1, <3>1 DEF Served
    <3>4. QED BY <3>2, <3>3
  <2>2. CASE producers[PollAgent[p]] = NoChan
    <3>1. PICK ch \in Chans :
            /\ ChanAgent[ch] = PollAgent[p]
            /\ Fresh(ch)
            /\ producers' = [producers EXCEPT ![PollAgent[p]] = ch]
            /\ routine' = [routine EXCEPT ![ch] = "select"]
            /\ pollChan' = [pollChan EXCEPT ![p] = ch]
      BY <1>1, <2>2 DEF StartPoll, getProducerChan
    <3>2. /\ pollPc' = [pollPc EXCEPT ![p] = "send"]
          /\ UNCHANGED <<roles, serving, hand, payload, queueVars, fateVars>>
          /\ ~ Served(p)
      BY <1>1 DEF StartPoll
    <3>3. PollTypeOK'
      BY <3>1, <3>2
    <3>4. LiveRoutineIsRegistered' /\ ProducersMatch'
      BY <2>2, <3>1, <3>2 DEF Fresh
    <3>5. ServingMatches' /\ SendsMatch' /\ HandFull'
      BY <3>1, <3>2 DEF Fresh, Served
    <3>6. QED BY <3>3, <3>4, <3>5
  <2>3. QED BY <2>1, <2>2
<1>2. ASSUME NEW ch \in Chans, NEW p \in Polls, Accept(ch, p) PROVE PollInv'
  BY <1>2 DEF Accept
<1>3. ASSUME NEW p \in Polls, SendTimeout(p) PROVE PollInv'
  BY <1>3 DEF SendTimeout, Closed
<1>4. ASSUME NEW p \in Polls, SendPanics(p) PROVE PollInv'
  BY <1>4 DEF SendPanics, Closed
<1>5. ASSUME NEW p \in Polls, EnterWait(p) PROVE PollInv'
  BY <1>5 DEF EnterWait
<1>6. ASSUME NEW p \in Polls, ReceiveClosed(p) PROVE PollInv'
  BY <1>6 DEF ReceiveClosed, Served
<1>7. ASSUME NEW p \in Polls, GiveUp(p) PROVE PollInv'
  BY <1>7 DEF GiveUp, Served
<1>8. ASSUME NEW p \in Polls, Reply(p) PROVE PollInv'
  BY <1>8 DEF Reply
<1>9. ASSUME NEW p \in Polls, ReplyLost(p) PROVE PollInv'
  BY <1>9 DEF ReplyLost, Lose, Fault
<1>10. ASSUME NEW ch \in Chans, RecordRoles(ch) PROVE PollInv'
  BY <1>10 DEF RecordRoles, SetRoles
<1>11. ASSUME NEW ch \in Chans, BlockingDequeue(ch) PROVE PollInv'
  BY <1>11 DEF BlockingDequeue
<1>12. ASSUME NEW ch \in Chans, DequeueTimeout(ch) PROVE PollInv'
  BY <1>12 DEF DequeueTimeout
<1>13. ASSUME NEW ch \in Chans, DequeueLost(ch) PROVE PollInv'
  BY <1>13 DEF DequeueLost, Lose, Fault
<1>14. ASSUME NEW ch \in Chans, HandOver(ch) PROVE PollInv'
  BY <1>14 DEF HandOver
<1>15. ASSUME NEW ch \in Chans, OfferRefused(ch) PROVE PollInv'
  BY <1>15 DEF OfferRefused
<1>16. ASSUME NEW ch \in Chans, ReportUnexecutedCommand(ch) PROVE PollInv'
  BY <1>16 DEF ReportUnexecutedCommand
<1>17. ASSUME NEW ch \in Chans, RequeueLost(ch) PROVE PollInv'
  BY <1>17 DEF RequeueLost, Lose, Fault
<1>18. ASSUME NEW ch \in Chans, ReportedRunning(ch) PROVE PollInv'
  BY <1>18 DEF ReportedRunning
<1>19. ASSUME NEW ch \in Chans, CloseMsgChan(ch) PROVE PollInv'
  BY <1>19 DEF CloseMsgChan
<1>20. ASSUME NEW ch \in Chans, Expire(ch) PROVE PollInv'
  BY <1>20 DEF Expire
<1>21. ASSUME NEW ch \in Chans, CleanUp(ch) PROVE PollInv'
  BY <1>21 DEF CleanUp, DropAgent
<1>22. ASSUME NEW a \in Agents, Event(a) PROVE PollInv'
  BY <1>22 DEF Event, MarkAsAlive, SetRoles
<1>23. ASSUME NEW a \in Agents, NEW c \in Commands, Enqueue(a, c)
       PROVE  PollInv'
  BY <1>23 DEF Enqueue, PushToAgent
<1>24. ASSUME Crash PROVE PollInv'
  <2>1. \A a \in Agents : InFlight(a) \subseteq Commands
    BY DEF InFlight, Holds
  <2>2. PollTypeOK'
    BY <1>24, <2>1 DEF Crash, Fault
  <2>3. RoutineInv'
    BY <1>24 DEF Crash
  <2>4. QED BY <2>2, <2>3
<1>25. CASE UNCHANGED pollVars
  BY <1>25 DEF pollVars
<1>26. QED
  BY <1>1, <1>2, <1>3, <1>4, <1>5, <1>6, <1>7, <1>8, <1>9, <1>10, <1>11,
     <1>12, <1>13, <1>14, <1>15, <1>16, <1>17, <1>18, <1>19, <1>20, <1>21,
     <1>22, <1>23, <1>24, <1>25
  DEF PollNext, RoutineStep, HandlerStep, PollFault

\* The inductive invariant holds in every reachable state.
THEOREM PollInvariance == PollSpec => []PollInv
<1>1. PollInv /\ [PollNext]_pollVars => PollInv'
  BY NextInv
<1>2. QED BY InitInv, <1>1, PTL DEF PollSpec

-----------------------------------------------------------------------------
\* Every variable of the poll service keeps its type; in particular no
\* nil command is ever pushed, handed over or received
\* (application.go:313-336).
THEOREM PollTypeCorrect == PollSpec => []PollTypeOK
<1>1. PollInv => PollTypeOK
  BY DEF PollInv
<1>2. QED BY PollInvariance, <1>1, PTL

\* A routine lives exactly while its channel is registered for its agent:
\* there are never two live routines of an agent (application.go:281-299).
THEOREM RegistrySafe == PollSpec => []LiveRoutineIsRegistered
<1>1. PollInv => LiveRoutineIsRegistered
  BY DEF PollInv, RoutineInv
<1>2. QED BY PollInvariance, <1>1, PTL

\* At most one handler of an agent is in a routine's hands
\* (rest/cmd.go:43): each serving routine is the registered one.
THEOREM ExclusiveService == PollSpec => []OnePollServed
<1>1. PollInv => OnePollServed
  <2> SUFFICES ASSUME PollInv, NEW p \in Polls, NEW q \in Polls,
                      NEW ch \in Chans, serving[ch] = p,
                      NEW k \in Chans, serving[k] = q,
                      PollAgent[p] = PollAgent[q]
               PROVE  p = q
    BY DEF OnePollServed, Served
  <2>1. ChanAgent[ch] = ChanAgent[k] /\ routine[ch] # "none"
                                    /\ routine[k] # "none"
    BY PollServiceAssumption
    DEF PollInv, RoutineInv, ServingMatches, Busy
  <2>2. ch = k
    BY <2>1 DEF PollInv, RoutineInv, LiveRoutineIsRegistered
  <2>3. QED BY <2>2
<1>2. QED BY PollInvariance, <1>1, PTL

\* Dropping an agent never hits one that is being served
\* (application.go:294-298): only the registered routine drops it, when it
\* serves nobody, and a crash ends all service.
THEOREM DropsAreSafe == PollSpec => DropsOnlyUnserved
<1> DEFINE Unlisted(a) == a \in ConnectedAgents /\ a \notin ConnectedAgents'
           Drop == \A a \in Agents :
                     Unlisted(a) =>
                        \A p \in Polls : PollAgent[p] = a => ~ Served(p)'
<1>1. ASSUME PollInv, PollInv', [PollNext]_pollVars PROVE Drop
  <2>1. ASSUME NEW a \in Agents, Unlisted(a)
        PROVE  Crash \/ \E ch \in Chans : ChanAgent[ch] = a /\ CleanUp(ch)
    BY <1>1, <2>1
    DEF PollNext, RoutineStep, HandlerStep, PollFault, ConnectedAgents,
        StartPoll, Accept, SendTimeout, SendPanics, EnterWait,
        ReceiveClosed, GiveUp, Reply, ReplyLost, RecordRoles, SetRoles,
        BlockingDequeue, DequeueTimeout, DequeueLost, HandOver,
        OfferRefused, ReportUnexecutedCommand, RequeueLost,
        ReportedRunning, CloseMsgChan, Expire, CleanUp, DropAgent, Event,
        MarkAsAlive, Enqueue, PushToAgent, pollVars
  <2>2. ASSUME Crash, NEW p \in Polls PROVE ~ Served(p)'
    BY <2>2, PollServiceAssumption DEF Crash, Served
  <2>3. ASSUME NEW ch \in Chans, CleanUp(ch), NEW p \in Polls,
               PollAgent[p] = ChanAgent[ch], Served(p)'
        PROVE  FALSE
    <3>1. PICK k \in Chans : serving'[k] = p
      BY <2>3 DEF Served
    <3>2. routine'[ch] = "none"
      BY <1>1, <2>3 DEF CleanUp, RoutineGoes, PollInv, PollTypeOK
    <3>3. routine'[k] \in Busy /\ ChanAgent[k] = ChanAgent[ch]
      BY <1>1, <2>3, <3>1, PollServiceAssumption
      DEF PollInv, RoutineInv, ServingMatches
    <3>4. producers'[ChanAgent[ch]] = NoChan
      BY <1>1, <2>3, PollServiceAssumption
      DEF CleanUp, RoutineGoes, PollInv, PollTypeOK
    <3>5. producers'[ChanAgent[k]] = k
      BY <1>1, <3>3 DEF PollInv, RoutineInv, LiveRoutineIsRegistered, Busy
    <3>6. QED BY <3>3, <3>4, <3>5, PollServiceAssumption
  <2>4. QED BY <2>1, <2>2, <2>3
<1>2. QED BY PollInvariance, <1>1, PTL DEF PollSpec, DropsOnlyUnserved

\* Nothing but an event of its own leaves an agent listed without a routine
\* that would drop it (application.go:294-298, 316; events/events.go:71-73),
\* whichever agents post events: the routine that lists an agent is
\* registered, and the one that unregisters itself drops it.
THEOREM ListedAgentsAreServed == PollSpec => OnlyEventsStrand
<1> DEFINE Strand == \A a \in Agents :
                        Stranded(a)' /\ ~ Stranded(a) => Event(a)
<1>1. ASSUME PollInv, [PollNext]_pollVars PROVE Strand
  <2> SUFFICES ASSUME NEW a \in Agents, Stranded(a)', ~ Stranded(a)
               PROVE  Event(a)
    OBVIOUS
  <2> USE PollServiceAssumption
      DEF Stranded, ConnectedAgents, PollInv, PollTypeOK, AgentDataTypeOK
  <2>1. ASSUME NEW ch \in Chans, RecordRoles(ch) PROVE FALSE
    <3>1. producers[ChanAgent[ch]] = ch /\ ch # NoChan
      BY <1>1, <2>1
      DEF RecordRoles, RoutineGoes, RoutineInv, LiveRoutineIsRegistered
    <3>2. QED BY <1>1, <2>1, <3>1 DEF RecordRoles, SetRoles
  <2>2. ASSUME NEW ch \in Chans, CleanUp(ch) PROVE FALSE
    BY <1>1, <2>2 DEF CleanUp, DropAgent
  <2>3. ASSUME Crash PROVE FALSE
    BY <2>3 DEF Crash
  <2>4. ASSUME NEW p \in Polls, StartPoll(p) PROVE FALSE
    BY <1>1, <2>4 DEF StartPoll, getProducerChan
  <2>5. ASSUME NEW b \in Agents, Event(b) PROVE Event(a)
    <3>1. CASE a # b
      BY <1>1, <2>5, <3>1 DEF Event, MarkAsAlive, SetRoles, goVars,
         routineVars
    <3>2. QED BY <2>5, <3>1
  <2>6. ASSUME UNCHANGED <<roles, producers>> PROVE FALSE
    BY <2>6
  <2>7. ASSUME ~ Crash, ~ \E ch \in Chans : RecordRoles(ch) \/ CleanUp(ch),
               ~ \E p \in Polls : StartPoll(p), ~ \E b \in Agents : Event(b)
        PROVE  UNCHANGED <<roles, producers>>
    BY <1>1, <2>7
    DEF PollNext, RoutineStep, HandlerStep, PollFault, Accept, SendTimeout,
        SendPanics, EnterWait, ReceiveClosed, GiveUp, Reply, ReplyLost,
        BlockingDequeue, DequeueTimeout, DequeueLost, HandOver, OfferRefused,
        ReportUnexecutedCommand, RequeueLost, ReportedRunning, CloseMsgChan,
        Expire, Enqueue, PushToAgent, goVars, routineVars, handlerVars,
        pollVars
  <2>8. QED BY <2>1, <2>2, <2>3, <2>4, <2>5, <2>6, <2>7
<1>2. QED BY PollInvariance, <1>1, PTL DEF PollSpec, OnlyEventsStrand

-----------------------------------------------------------------------------
(* Where a command is. *)

\* The command waits in the agent's list.
InList(a, c) == c \in ToSet(agentQueue[a])

\* A routine of the agent popped it.
InHand(a, c) ==
    \E ch \in Chans : ChanAgent[ch] = a /\ Holds(ch) /\ hand[ch] = c

\* A handler of the agent is to write it to its response.
Unsent(a, c) == \E p \in Polls : PollAgent[p] = a /\ payload[p] = c

\* A command was enqueued if and only if it is somewhere.
Accounted ==
    \A a \in Agents, c \in Commands :
        c \in enqueued[a] <=>
            \/ InList(a, c) \/ InHand(a, c) \/ Unsent(a, c)
            \/ c \in received[a] \/ c \in lost[a]

\* It is nowhere else.
Exclusive ==
    \A a \in Agents, c \in Commands :
        /\ InList(a, c) => /\ ~ InHand(a, c) /\ ~ Unsent(a, c)
                           /\ c \notin received[a] /\ c \notin lost[a]
        /\ InHand(a, c) => /\ ~ Unsent(a, c)
                           /\ c \notin received[a] /\ c \notin lost[a]
        /\ Unsent(a, c) => c \notin received[a] /\ c \notin lost[a]
        /\ c \notin received[a] \/ c \notin lost[a]

\* It is not twice in the list, nor in two responses.
ListDistinct == \A a \in Agents : IsInjective(agentQueue[a])

UnsentOnce ==
    \A p, q \in Polls :
        PollAgent[p] = PollAgent[q] /\ payload[p] = payload[q]
        /\ payload[p] # NoCommand => p = q

\* A handler with a command is about to write its response.
PayloadInReply ==
    \A p \in Polls : payload[p] # NoCommand => pollPc[p] = "reply"

\* The inductive invariant, next to the one of PollServiceProofs.
DeliveryInv ==
    /\ Accounted
    /\ Exclusive
    /\ ListDistinct
    /\ UnsentOnce
    /\ PayloadInReply

\* Nothing is enqueued, held or received at the start.
LEMMA InitDelivery == PollInit => DeliveryInv
  BY PollServiceAssumption, CoreAssumption
  DEF PollInit, DeliveryInv, Accounted, Exclusive, ListDistinct, UnsentOnce,
      PayloadInReply, InList, InHand, Unsent, Holds, ToSet, IsInjective

-----------------------------------------------------------------------------
(* Where a command stands, and the moves a step can make. *)

\* Place, in terms of the invariant.
Stands(a, c) ==
    IF c \in received[a] THEN "received"
    ELSE IF c \in lost[a] THEN "lost"
    ELSE IF InList(a, c) THEN "queued"
    ELSE IF InHand(a, c) \/ Unsent(a, c) THEN "held"
    ELSE "new"

\* No command moves.
Still == \A a \in Agents, c \in Commands : Stands(a, c)' = Stands(a, c)

\* One command of one agent moves.
Moves(b, d, from, to) ==
    /\ Stands(b, d) = from
    /\ \A a \in Agents, c \in Commands :
         Stands(a, c)' = IF a = b /\ c = d THEN to ELSE Stands(a, c)

\* The moves of Delivery.
AllowedMove(b, d) ==
    \/ Moves(b, d, "new", "queued")
    \/ Moves(b, d, "queued", "held")
    \/ Moves(b, d, "held", "queued")
    \/ Moves(b, d, "held", "received")
    \/ Moves(b, d, "queued", "lost")
    \/ Moves(b, d, "held", "lost")

\* Whatever is held is lost.
HeldAreLost ==
    \A a \in Agents, c \in Commands :
        Stands(a, c)' = IF Stands(a, c) = "held" THEN "lost" ELSE Stands(a, c)

SomeMove == \E b \in Agents, d \in Commands : AllowedMove(b, d)

-----------------------------------------------------------------------------
\* The steps that move no command.
Quiet ==
    /\ UNCHANGED <<agentQueue, enqueued, payload, received, lost>>
    /\ \A ch \in Chans : Holds(ch)' <=> Holds(ch)
    /\ \A ch \in Chans : Holds(ch) => hand'[ch] = hand[ch]
    /\ \A p \in Polls : payload[p] # NoCommand => pollPc'[p] = pollPc[p]

\* A quiet step leaves every command where it is.
LEMMA QuietKeepsDelivery ==
    ASSUME PollInv, DeliveryInv, Quiet PROVE DeliveryInv' /\ Still
<1>1. \A a, c : InHand(a, c)' <=> InHand(a, c)
  BY DEF Quiet, InHand
<1>2. \A a, c : (Unsent(a, c)' <=> Unsent(a, c))
                /\ (InList(a, c)' <=> InList(a, c))
  BY DEF Quiet, Unsent, InList
<1>3. Accounted' /\ Exclusive'
  BY <1>1, <1>2 DEF Quiet, DeliveryInv, Accounted, Exclusive
<1>4. ListDistinct' /\ UnsentOnce' /\ PayloadInReply'
  BY DEF Quiet, DeliveryInv, ListDistinct, UnsentOnce, PayloadInReply
<1>5. Still
  BY <1>1, <1>2 DEF Quiet, Still, Stands
<1>6. QED BY <1>3, <1>4, <1>5 DEF DeliveryInv

\* Most steps are quiet.
QuietAction ==
    \/ \E p \in Polls :
         \/ StartPoll(p) \/ SendTimeout(p) \/ SendPanics(p)
         \/ EnterWait(p) \/ ReceiveClosed(p) \/ GiveUp(p)
    \/ \E ch \in Chans :
         \/ \E p \in Polls : Accept(ch, p)
         \/ RecordRoles(ch) \/ DequeueTimeout(ch) \/ OfferRefused(ch)
         \/ ReportedRunning(ch) \/ CloseMsgChan(ch)
         \/ Expire(ch) \/ CleanUp(ch)
    \/ \E a \in Agents : Event(a)

\* All the steps of routines and handlers but the ones below are quiet.
LEMMA QuietActions ==
    ASSUME PollInv, DeliveryInv, QuietAction PROVE Quiet
<1> USE PollServiceAssumption, CoreAssumption
    DEF PollInv, PollTypeOK, DeliveryInv, PayloadInReply, Quiet, Holds,
        goVars, routineVars, handlerVars, queueVars, fateVars, RoutineGoes,
        HandlerGoes, RoutineStates, PollStates
<1>1. ASSUME NEW p \in Polls, StartPoll(p) PROVE Quiet
  BY <1>1 DEF StartPoll, getProducerChan, Fresh
<1>2. ASSUME NEW p \in Polls, SendTimeout(p) PROVE Quiet
  BY <1>2 DEF SendTimeout
<1>3. ASSUME NEW p \in Polls, SendPanics(p) PROVE Quiet
  BY <1>3 DEF SendPanics
<1>4. ASSUME NEW p \in Polls, EnterWait(p) PROVE Quiet
  BY <1>4 DEF EnterWait
<1>5. ASSUME NEW p \in Polls, ReceiveClosed(p) PROVE Quiet
  BY <1>5 DEF ReceiveClosed
<1>6. ASSUME NEW p \in Polls, GiveUp(p) PROVE Quiet
  BY <1>6 DEF GiveUp
<1>7. ASSUME NEW ch \in Chans, NEW p \in Polls, Accept(ch, p) PROVE Quiet
  BY <1>7 DEF Accept
<1>8. ASSUME NEW ch \in Chans, RecordRoles(ch) PROVE Quiet
  BY <1>8 DEF RecordRoles
<1>9. ASSUME NEW ch \in Chans, DequeueTimeout(ch) PROVE Quiet
  BY <1>9 DEF DequeueTimeout
<1>10. ASSUME NEW ch \in Chans, OfferRefused(ch) PROVE Quiet
  BY <1>10 DEF OfferRefused
<1>11. ASSUME NEW ch \in Chans, ReportedRunning(ch) PROVE Quiet
  BY <1>11 DEF ReportedRunning
<1>12. ASSUME NEW ch \in Chans, CloseMsgChan(ch) PROVE Quiet
  BY <1>12 DEF CloseMsgChan
<1>13. ASSUME NEW ch \in Chans, Expire(ch) PROVE Quiet
  BY <1>13 DEF Expire
<1>14. ASSUME NEW ch \in Chans, CleanUp(ch) PROVE Quiet
  BY <1>14 DEF CleanUp
<1>15. ASSUME NEW a \in Agents, Event(a) PROVE Quiet
  BY <1>15 DEF Event
<1>16. QED
  BY <1>1, <1>2, <1>3, <1>4, <1>5, <1>6, <1>7, <1>8, <1>9, <1>10, <1>11,
     <1>12, <1>13, <1>14, <1>15 DEF QuietAction

-----------------------------------------------------------------------------
(* The steps that move a command from one place to another. *)

\* The popped command leaves the list ...
LEMMA PopRemoves ==
    ASSUME PollInv, DeliveryInv, NEW b \in Agents, agentQueue[b] # <<>>,
           agentQueue' = [agentQueue EXCEPT ![b] = Tail(@)]
    PROVE  /\ Head(agentQueue[b]) \in Commands
           /\ InList(b, Head(agentQueue[b]))
           /\ \A a \in Agents, c \in Commands :
                InList(a, c)' <=> InList(a, c)
                                  /\ ~ (a = b /\ c = Head(agentQueue[b]))
           /\ ListDistinct'
<1>1. agentQueue \in [Agents -> Seq(Commands)]
  BY DEF PollInv, PollTypeOK
<1>2. agentQueue[b] \in Seq(Commands) /\ IsInjective(agentQueue[b])
  BY <1>1 DEF DeliveryInv, ListDistinct
<1>3. /\ Head(agentQueue[b]) \in Commands
      /\ Head(agentQueue[b]) \in ToSet(agentQueue[b])
      /\ ToSet(Tail(agentQueue[b]))
            = ToSet(agentQueue[b]) \ {Head(agentQueue[b])}
      /\ IsInjective(Tail(agentQueue[b]))
  BY <1>2, TailElements
<1>4. /\ agentQueue'[b] = Tail(agentQueue[b])
      /\ \A a \in Agents \ {b} : agentQueue'[a] = agentQueue[a]
  BY <1>1
<1>5. \A a \in Agents, c \in Commands :
        InList(a, c)' <=> InList(a, c)
                          /\ ~ (a = b /\ c = Head(agentQueue[b]))
  BY <1>3, <1>4 DEF InList
<1>6. ListDistinct'
  BY <1>3, <1>4 DEF DeliveryInv, ListDistinct
<1>7. QED BY <1>3, <1>5, <1>6 DEF InList

\* ... and a pushed one enters it.
LEMMA PushAdds ==
    ASSUME PollInv, DeliveryInv, NEW b \in Agents, NEW d \in Commands,
           ~ InList(b, d),
           agentQueue' = [agentQueue EXCEPT ![b] = Append(@, d)]
    PROVE  /\ \A a \in Agents, c \in Commands :
                InList(a, c)' <=> InList(a, c) \/ (a = b /\ c = d)
           /\ ListDistinct'
<1>1. agentQueue \in [Agents -> Seq(Commands)]
  BY DEF PollInv, PollTypeOK
<1>2. agentQueue[b] \in Seq(Commands) /\ IsInjective(agentQueue[b])
  BY <1>1 DEF DeliveryInv, ListDistinct
<1>3. /\ ToSet(Append(agentQueue[b], d)) = ToSet(agentQueue[b]) \cup {d}
      /\ IsInjective(Append(agentQueue[b], d))
  BY <1>2, AppendElements DEF InList
<1>4. /\ agentQueue'[b] = Append(agentQueue[b], d)
      /\ \A a \in Agents \ {b} : agentQueue'[a] = agentQueue[a]
  BY <1>1
<1>5. \A a \in Agents, c \in Commands :
        InList(a, c)' <=> InList(a, c) \/ (a = b /\ c = d)
  BY <1>3, <1>4 DEF InList
<1>6. ListDistinct'
  BY <1>3, <1>4 DEF DeliveryInv, ListDistinct
<1>7. QED BY <1>5, <1>6

\* A routine of an agent is the only one with a command in hand.
LEMMA OneHand ==
    ASSUME PollInv, NEW ch \in Chans, Holds(ch), NEW k \in Chans, Holds(k),
           ChanAgent[k] = ChanAgent[ch]
    PROVE  k = ch
  BY DEF PollInv, RoutineInv, LiveRoutineIsRegistered, Holds

\* Giving the command away empties that hand and no other.
LEMMA HandEmptied ==
    ASSUME PollInv, NEW ch \in Chans, Holds(ch), ~ Holds(ch)',
           \A k \in Chans \ {ch} : /\ Holds(k)' <=> Holds(k)
                                   /\ hand'[k] = hand[k]
    PROVE  /\ InHand(ChanAgent[ch], hand[ch])
           /\ hand[ch] \in Commands
           /\ \A a \in Agents, c \in Commands :
                InHand(a, c)' <=> InHand(a, c)
                                  /\ ~ (a = ChanAgent[ch] /\ c = hand[ch])
<1>1. hand[ch] \in Commands
  BY DEF PollInv, RoutineInv, HandFull, Holds
<1>2. \A k \in Chans : Holds(k) /\ ChanAgent[k] = ChanAgent[ch] => k = ch
  BY OneHand
<1>3. QED BY <1>1, <1>2 DEF InHand

\* Writing the response empties that handler and no other.
LEMMA ResponseWritten ==
    ASSUME PollInv, DeliveryInv, NEW p \in Polls, payload[p] # NoCommand,
           payload' = [payload EXCEPT ![p] = NoCommand]
    PROVE  /\ Unsent(PollAgent[p], payload[p])
           /\ payload[p] \in Commands
           /\ \A a \in Agents, c \in Commands :
                Unsent(a, c)' <=> Unsent(a, c)
                                  /\ ~ (a = PollAgent[p] /\ c = payload[p])
<1> USE CoreAssumption DEF PollInv, PollTypeOK, DeliveryInv, UnsentOnce, Unsent
<1>1. payload[p] \in Commands
  OBVIOUS
<1>2. \A q \in Polls : payload'[q] = IF q = p THEN NoCommand ELSE payload[q]
  OBVIOUS
<1>3. QED BY <1>1, <1>2

\* A pop moves the head of the list to the hand, or loses it.
LEMMA DequeueKeepsDelivery ==
    ASSUME PollInv, DeliveryInv, NEW ch \in Chans,
           BlockingDequeue(ch) \/ DequeueLost(ch)
    PROVE  DeliveryInv' /\ SomeMove
<1> DEFINE b == ChanAgent[ch]
           d == Head(agentQueue[b])
<1> USE PollServiceAssumption, CoreAssumption
    DEF goVars, routineVars, handlerVars, queueVars, fateVars, RoutineGoes,
        HandlerGoes
<1>1. /\ b \in Agents /\ agentQueue[b] # <<>>
      /\ agentQueue' = [agentQueue EXCEPT ![b] = Tail(@)]
      /\ routine[ch] = "dequeue"
      /\ UNCHANGED <<payload, pollPc, enqueued, received>>
  BY DEF BlockingDequeue, DequeueLost, Lose
<1>2. /\ d \in Commands /\ InList(b, d) /\ ListDistinct'
      /\ \A a \in Agents, c \in Commands :
            InList(a, c)' <=> InList(a, c) /\ ~ (a = b /\ c = d)
  BY <1>1, PopRemoves
<1>3. \A a, c : Unsent(a, c)' <=> Unsent(a, c)
  BY <1>1 DEF Unsent
<1>4. UnsentOnce' /\ PayloadInReply'
  BY <1>1 DEF DeliveryInv, UnsentOnce, PayloadInReply
<1>5. CASE BlockingDequeue(ch)
  <2>1. \A a \in Agents, c \in Commands :
          InHand(a, c)' <=> InHand(a, c) \/ (a = b /\ c = d)
    BY <1>1, <1>5 DEF BlockingDequeue, InHand, Holds, PollInv, PollTypeOK
  <2>2. UNCHANGED lost
    BY <1>5 DEF BlockingDequeue
  <2>3. Accounted' /\ Exclusive'
    BY <1>1, <1>2, <1>3, <2>1, <2>2 DEF DeliveryInv, Accounted, Exclusive
  <2>4. Moves(b, d, "queued", "held")
    BY <1>1, <1>2, <1>3, <2>1, <2>2
    DEF DeliveryInv, Exclusive, Moves, Stands
  <2>5. QED
    BY <1>1, <1>2, <1>4, <2>3, <2>4 DEF DeliveryInv, SomeMove, AllowedMove
<1>6. CASE DequeueLost(ch)
  <2>1. \A a, c : InHand(a, c)' <=> InHand(a, c)
    BY <1>1, <1>6 DEF DequeueLost, InHand, Holds, PollInv, PollTypeOK
  <2>2. \A a \in Agents, c \in Commands :
          c \in lost'[a] <=> c \in lost[a] \/ (a = b /\ c = d)
    BY <1>1, <1>6 DEF DequeueLost, Lose, PollInv, PollTypeOK
  <2>3. Accounted' /\ Exclusive'
    BY <1>1, <1>2, <1>3, <2>1, <2>2 DEF DeliveryInv, Accounted, Exclusive
  <2>4. Moves(b, d, "queued", "lost")
    BY <1>1, <1>2, <1>3, <2>1, <2>2
    DEF DeliveryInv, Exclusive, Moves, Stands
  <2>5. QED
    BY <1>1, <1>2, <1>4, <2>3, <2>4 DEF DeliveryInv, SomeMove, AllowedMove
<1>7. QED BY <1>5, <1>6

\* A hand-over moves the command from the hand to one unsent response.
LEMMA HandOverKeepsDelivery ==
    ASSUME PollInv, DeliveryInv, NEW ch \in Chans, HandOver(ch)
    PROVE  DeliveryInv' /\ Still
<1> DEFINE p == serving[ch]
           b == ChanAgent[ch]
           d == hand[ch]
<1> USE PollServiceAssumption, CoreAssumption
    DEF goVars, routineVars, handlerVars, queueVars, fateVars, RoutineGoes,
        HandlerGoes
<1>1. /\ p \in Polls /\ PollAgent[p] = b /\ b \in Agents
  BY DEF HandOver, PollInv, PollTypeOK, RoutineInv, ServingMatches, Busy
<1>2. /\ pollPc[p] = "wait" /\ pollPc' = [pollPc EXCEPT ![p] = "reply"]
      /\ payload' = [payload EXCEPT ![p] = d]
      /\ UNCHANGED <<agentQueue, enqueued, received, lost>>
  BY DEF HandOver
<1>3. payload[p] = NoCommand
  BY <1>1, <1>2 DEF DeliveryInv, PayloadInReply
<1>4. /\ InHand(b, d) /\ d \in Commands
      /\ \A a \in Agents, c \in Commands :
            InHand(a, c)' <=> InHand(a, c) /\ ~ (a = b /\ c = d)
  <2>1. /\ Holds(ch) /\ ~ Holds(ch)'
        /\ \A k \in Chans \ {ch} : /\ Holds(k)' <=> Holds(k)
                                   /\ hand'[k] = hand[k]
    BY DEF HandOver, Holds, PollInv, PollTypeOK
  <2>2. QED BY <2>1, HandEmptied
<1>5. \A q \in Polls : payload'[q] = IF q = p THEN d ELSE payload[q]
  BY <1>2 DEF PollInv, PollTypeOK
<1>6. \A a \in Agents, c \in Commands :
        Unsent(a, c)' <=> Unsent(a, c) \/ (a = b /\ c = d)
  BY <1>1, <1>3, <1>5 DEF Unsent
<1>7. \A a \in Agents, c \in Commands : InList(a, c)' <=> InList(a, c)
  BY <1>2 DEF InList
<1>8. Accounted' /\ Exclusive'
  BY <1>1, <1>2, <1>4, <1>6, <1>7 DEF DeliveryInv, Accounted, Exclusive
<1>9. UnsentOnce'
  <2>1. ~ Unsent(b, d)
    BY <1>1, <1>4 DEF DeliveryInv, Exclusive
  <2>2. QED BY <1>1, <1>5, <2>1 DEF DeliveryInv, UnsentOnce, Unsent
<1>10. PayloadInReply'
  BY <1>2, <1>5 DEF DeliveryInv, PayloadInReply, PollInv, PollTypeOK
<1>11. ListDistinct'
  BY <1>2 DEF DeliveryInv, ListDistinct
<1>12. Still
  BY <1>1, <1>2, <1>4, <1>6, <1>7 DEF Still, Stands
<1>13. QED BY <1>8, <1>9, <1>10, <1>11, <1>12 DEF DeliveryInv

\* A re-push moves the command from the hand back to the list, or loses it.
LEMMA RequeueKeepsDelivery ==
    ASSUME PollInv, DeliveryInv, NEW ch \in Chans,
           ReportUnexecutedCommand(ch) \/ RequeueLost(ch)
    PROVE  DeliveryInv' /\ SomeMove
<1> DEFINE b == ChanAgent[ch]
           d == hand[ch]
<1> USE PollServiceAssumption, CoreAssumption
    DEF goVars, routineVars, handlerVars, queueVars, fateVars, RoutineGoes,
        HandlerGoes
<1>1. b \in Agents /\ UNCHANGED <<payload, pollPc, enqueued, received>>
  BY DEF ReportUnexecutedCommand, RequeueLost, Lose
<1>2. /\ InHand(b, d) /\ d \in Commands
      /\ \A a \in Agents, c \in Commands :
            InHand(a, c)' <=> InHand(a, c) /\ ~ (a = b /\ c = d)
  <2>1. /\ Holds(ch) /\ ~ Holds(ch)'
        /\ \A k \in Chans \ {ch} : /\ Holds(k)' <=> Holds(k)
                                   /\ hand'[k] = hand[k]
    BY DEF ReportUnexecutedCommand, RequeueLost, Holds, PollInv, PollTypeOK
  <2>2. QED BY <2>1, HandEmptied
<1>3. \A a, c : Unsent(a, c)' <=> Unsent(a, c)
  BY <1>1 DEF Unsent
<1>4. UnsentOnce' /\ PayloadInReply'
  BY <1>1 DEF DeliveryInv, UnsentOnce, PayloadInReply
<1>5. ~ InList(b, d)
  BY <1>1, <1>2 DEF DeliveryInv, Exclusive
<1>6. CASE ReportUnexecutedCommand(ch)
  <2>1. /\ \A a \in Agents, c \in Commands :
             InList(a, c)' <=> InList(a, c) \/ (a = b /\ c = d)
        /\ ListDistinct'
    BY <1>1, <1>2, <1>5, <1>6, PushAdds DEF ReportUnexecutedCommand
  <2>2. UNCHANGED lost
    BY <1>6 DEF ReportUnexecutedCommand
  <2>3. Accounted' /\ Exclusive'
    BY <1>1, <1>2, <1>3, <2>1, <2>2 DEF DeliveryInv, Accounted, Exclusive
  <2>4. Moves(b, d, "held", "queued")
    BY <1>1, <1>2, <1>3, <1>5, <2>1, <2>2
    DEF DeliveryInv, Exclusive, Moves, Stands
  <2>5. QED
    BY <1>1, <1>2, <1>4, <2>1, <2>3, <2>4
    DEF DeliveryInv, SomeMove, AllowedMove
<1>7. CASE RequeueLost(ch)
  <2>1. \A a \in Agents, c \in Commands :
          c \in lost'[a] <=> c \in lost[a] \/ (a = b /\ c = d)
    BY <1>1, <1>7 DEF RequeueLost, Lose, PollInv, PollTypeOK
  <2>2. /\ \A a, c : InList(a, c)' <=> InList(a, c)
        /\ ListDistinct'
    BY <1>7 DEF RequeueLost, InList, DeliveryInv, ListDistinct
  <2>3. Accounted' /\ Exclusive'
    BY <1>1, <1>2, <1>3, <2>1, <2>2 DEF DeliveryInv, Accounted, Exclusive
  <2>4. Moves(b, d, "held", "lost")
    BY <1>1, <1>2, <1>3, <1>5, <2>1, <2>2
    DEF DeliveryInv, Exclusive, Moves, Stands
  <2>5. QED
    BY <1>1, <1>2, <1>4, <2>2, <2>3, <2>4
    DEF DeliveryInv, SomeMove, AllowedMove
<1>8. QED BY <1>6, <1>7

\* A response moves the command to the agent, or loses it.
LEMMA ReplyKeepsDelivery ==
    ASSUME PollInv, DeliveryInv, NEW p \in Polls, Reply(p) \/ ReplyLost(p)
    PROVE  DeliveryInv' /\ (Still \/ SomeMove)
<1> DEFINE b == PollAgent[p]
           d == payload[p]
<1> USE PollServiceAssumption, CoreAssumption
    DEF goVars, routineVars, handlerVars, queueVars, fateVars, RoutineGoes,
        HandlerGoes
<1>1. /\ b \in Agents
      /\ pollPc' = [pollPc EXCEPT ![p] = "idle"]
      /\ payload' = [payload EXCEPT ![p] = NoCommand]
      /\ UNCHANGED <<routine, hand, agentQueue, enqueued>>
  BY DEF Reply, ReplyLost
<1>2. \A a, c : /\ InHand(a, c)' <=> InHand(a, c)
                /\ InList(a, c)' <=> InList(a, c)
  BY <1>1 DEF InHand, Holds, InList
<1>3. ListDistinct' /\ UnsentOnce' /\ PayloadInReply'
  BY <1>1 DEF DeliveryInv, ListDistinct, UnsentOnce, PayloadInReply, PollInv,
              PollTypeOK
<1>4. CASE d = NoCommand
  <2>1. /\ UNCHANGED lost
        /\ \A a \in Agents : received'[a] = received[a]
    <3>1. {payload[p]} \ {NoCommand} = {}
      BY <1>4
    <3>2. \A S : S \cup ({payload[p]} \ {NoCommand}) = S
      BY <3>1
    <3>3. Reply(p) /\ received \in [Agents -> SUBSET Commands]
      BY <1>4 DEF Reply, ReplyLost, PollInv, PollTypeOK
    <3>4. QED BY <3>2, <3>3 DEF Reply
  <2>2. \A a \in Agents, c \in Commands : Unsent(a, c)' <=> Unsent(a, c)
    BY <1>1, <1>4 DEF Unsent, PollInv, PollTypeOK
  <2>3. Accounted' /\ Exclusive'
    BY <1>1, <1>2, <2>1, <2>2 DEF DeliveryInv, Accounted, Exclusive
  <2>4. Still
    BY <1>1, <1>2, <2>1, <2>2 DEF Still, Stands
  <2>5. QED BY <1>3, <2>3, <2>4 DEF DeliveryInv
<1>5. CASE d # NoCommand
  <2>1. /\ Unsent(b, d) /\ d \in Commands
        /\ \A a \in Agents, c \in Commands :
              Unsent(a, c)' <=> Unsent(a, c) /\ ~ (a = b /\ c = d)
    BY <1>1, <1>5, ResponseWritten
  <2>2. \/ /\ UNCHANGED lost
           /\ \A a \in Agents, c \in Commands :
                c \in received'[a] <=> c \in received[a] \/ (a = b /\ c = d)
        \/ /\ UNCHANGED received
           /\ \A a \in Agents, c \in Commands :
                c \in lost'[a] <=> c \in lost[a] \/ (a = b /\ c = d)
    BY <1>5 DEF Reply, ReplyLost, Lose, PollInv, PollTypeOK
  <2>3. Accounted' /\ Exclusive'
    BY <1>1, <1>2, <2>1, <2>2 DEF DeliveryInv, Accounted, Exclusive
  <2>4. Moves(b, d, "held", "received") \/ Moves(b, d, "held", "lost")
    BY <1>1, <1>2, <2>1, <2>2 DEF DeliveryInv, Exclusive, Moves, Stands
  <2>5. QED
    BY <1>1, <1>3, <2>1, <2>3, <2>4 DEF DeliveryInv, SomeMove, AllowedMove
<1>6. QED BY <1>4, <1>5

\* A command enqueued for the first time was nowhere before.
LEMMA EnqueueKeepsDelivery ==
    ASSUME PollInv, DeliveryInv, NEW b \in Agents, NEW d \in Commands,
           Enqueue(b, d)
    PROVE  DeliveryInv' /\ SomeMove
<1> USE PollServiceAssumption, CoreAssumption
    DEF goVars, routineVars, handlerVars, queueVars, fateVars, Enqueue,
        PushToAgent
<1>1. ~ InList(b, d) /\ ~ InHand(b, d) /\ ~ Unsent(b, d)
      /\ d \notin received[b] /\ d \notin lost[b]
  BY DEF DeliveryInv, Accounted
<1>2. /\ \A a \in Agents, c \in Commands :
           InList(a, c)' <=> InList(a, c) \/ (a = b /\ c = d)
      /\ ListDistinct'
  BY <1>1, PushAdds
<1>3. \A a, c : /\ InHand(a, c)' <=> InHand(a, c)
                /\ Unsent(a, c)' <=> Unsent(a, c)
  BY DEF InHand, Holds, Unsent
<1>4. \A a \in Agents, c \in Commands :
        c \in enqueued'[a] <=> c \in enqueued[a] \/ (a = b /\ c = d)
  BY DEF PollInv, PollTypeOK
<1>5. Accounted' /\ Exclusive'
  BY <1>1, <1>2, <1>3, <1>4 DEF DeliveryInv, Accounted, Exclusive
<1>6. UnsentOnce' /\ PayloadInReply'
  BY DEF DeliveryInv, UnsentOnce, PayloadInReply
<1>7. Moves(b, d, "new", "queued")
  BY <1>1, <1>2, <1>3 DEF Moves, Stands
<1>8. QED BY <1>2, <1>5, <1>6, <1>7 DEF DeliveryInv, SomeMove, AllowedMove

\* What is in flight is what is in a hand or in an unsent response.
LEMMA InFlightMeans ==
    ASSUME NEW a \in Agents, NEW c \in Commands
    PROVE  c \in InFlight(a) <=> InHand(a, c) \/ Unsent(a, c)
  BY CoreAssumption DEF InFlight, InHand, Unsent

\* A crash loses exactly what was in a hand or in an unsent response.
LEMMA CrashKeepsDelivery ==
    ASSUME PollInv, DeliveryInv, Crash PROVE DeliveryInv' /\ HeldAreLost
<1> USE PollServiceAssumption, CoreAssumption DEF queueVars
<1>1. \A a \in Agents, c \in Commands :
        /\ ~ InHand(a, c)' /\ ~ Unsent(a, c)'
        /\ InList(a, c)' <=> InList(a, c)
        /\ c \in lost'[a]
              <=> c \in lost[a] \/ InHand(a, c) \/ Unsent(a, c)
  <2>1. \A a \in Agents, c \in Commands :
          /\ ~ InHand(a, c)' /\ ~ Unsent(a, c)'
          /\ InList(a, c)' <=> InList(a, c)
    BY DEF Crash, InHand, Holds, Unsent, InList
  <2>2. \A a \in Agents, c \in Commands :
          c \in lost'[a] <=> c \in lost[a] \/ c \in InFlight(a)
    BY DEF Crash
  <2>3. QED BY <2>1, <2>2, InFlightMeans
<1>2. UNCHANGED <<received, enqueued>>
  BY DEF Crash
<1>3. Accounted' /\ Exclusive'
  BY <1>1, <1>2 DEF DeliveryInv, Accounted, Exclusive
<1>4. ListDistinct' /\ UnsentOnce' /\ PayloadInReply'
  BY DEF Crash, DeliveryInv, ListDistinct, UnsentOnce, PayloadInReply
<1>5. HeldAreLost
  BY <1>1, <1>2 DEF DeliveryInv, Exclusive, HeldAreLost, Stands
<1>6. QED BY <1>3, <1>4, <1>5 DEF DeliveryInv

-----------------------------------------------------------------------------
\* Every step preserves the delivery invariant and makes an allowed move.
LEMMA NextDelivery ==
    ASSUME PollInv, DeliveryInv, [PollNext]_pollVars
    PROVE  DeliveryInv' /\ (Still \/ SomeMove \/ HeldAreLost)
<1> DEFINE Goal == DeliveryInv' /\ (Still \/ SomeMove \/ HeldAreLost)
<1>1. ASSUME QuietAction PROVE Goal
  BY <1>1, QuietActions, QuietKeepsDelivery
<1>2. ASSUME NEW ch \in Chans, BlockingDequeue(ch) \/ DequeueLost(ch)
      PROVE  Goal
  BY <1>2, DequeueKeepsDelivery
<1>3. ASSUME NEW ch \in Chans, HandOver(ch) PROVE Goal
  BY <1>3, HandOverKeepsDelivery
<1>4. ASSUME NEW ch \in Chans,
             ReportUnexecutedCommand(ch) \/ RequeueLost(ch)
      PROVE  Goal
  BY <1>4, RequeueKeepsDelivery
<1>5. ASSUME NEW p \in Polls, Reply(p) \/ ReplyLost(p) PROVE Goal
  BY <1>5, ReplyKeepsDelivery
<1>6. ASSUME NEW a \in Agents, NEW c \in Commands, Enqueue(a, c)
      PROVE  Goal
  BY <1>6, EnqueueKeepsDelivery
<1>7. ASSUME Crash PROVE Goal
  BY <1>7, CrashKeepsDelivery
<1>8. CASE UNCHANGED pollVars
  <2>1. Quiet
    BY <1>8
    DEF pollVars, goVars, routineVars, handlerVars, queueVars, fateVars,
        Quiet, Holds
  <2>2. QED BY <2>1, QuietKeepsDelivery
<1>9. QED
  BY <1>1, <1>2, <1>3, <1>4, <1>5, <1>6, <1>7, <1>8
  DEF PollNext, RoutineStep, HandlerStep, PollFault, QuietAction

\* The invariant says that a command has exactly one spot.
LEMMA DeliveryMeansOnePlace ==
    ASSUME PollInv, DeliveryInv PROVE CommandInOnePlace
<1> SUFFICES ASSUME NEW a \in Agents, NEW c \in Commands
             PROVE  /\ c \in enqueued[a] <=> Spots(a, c) # {}
                    /\ \A s, t \in Spots(a, c) : s = t
  BY DEF CommandInOnePlace
<1>1. InList(a, c) <=> \E i \in DOMAIN agentQueue[a] : agentQueue[a][i] = c
  BY DEF InList, ToSet
<1>2. c \in enqueued[a] <=> Spots(a, c) # {}
  <2> DEFINE Somewhere == \/ InList(a, c) \/ InHand(a, c) \/ Unsent(a, c)
                          \/ c \in received[a] \/ c \in lost[a]
  <2>1. InList(a, c) => \E i : <<"queue", i>> \in Spots(a, c)
    BY <1>1 DEF Spots
  <2>2. InHand(a, c) => \E ch : <<"hand", ch>> \in Spots(a, c)
    BY DEF Spots, InHand
  <2>3. Unsent(a, c) => \E p : <<"payload", p>> \in Spots(a, c)
    BY DEF Spots, Unsent
  <2>4. /\ c \in received[a] => <<"received", 0>> \in Spots(a, c)
        /\ c \in lost[a] => <<"lost", 0>> \in Spots(a, c)
    BY DEF Spots
  <2>5. Spots(a, c) # {} => Somewhere
    BY <1>1 DEF Spots, InHand, Unsent
  <2>6. Somewhere <=> Spots(a, c) # {}
    BY <2>1, <2>2, <2>3, <2>4, <2>5
  <2>7. QED BY <2>6 DEF DeliveryInv, Accounted
<1>3. \A s \in Spots(a, c) :
        \/ InList(a, c) /\ \E i \in DOMAIN agentQueue[a] :
                              agentQueue[a][i] = c /\ s = <<"queue", i>>
        \/ InHand(a, c) /\ \E ch \in Chans :
                              /\ ChanAgent[ch] = a /\ Holds(ch) /\ hand[ch] = c
                              /\ s = <<"hand", ch>>
        \/ Unsent(a, c) /\ \E p \in Polls :
                              /\ PollAgent[p] = a /\ payload[p] = c
                              /\ s = <<"payload", p>>
        \/ c \in received[a] /\ s = <<"received", 0>>
        \/ c \in lost[a] /\ s = <<"lost", 0>>
  BY <1>1 DEF Spots, InHand, Unsent
<1>4. ASSUME NEW s \in Spots(a, c), NEW t \in Spots(a, c) PROVE s = t
  <2>1. CASE InList(a, c)
    <3>1. IsInjective(agentQueue[a])
      BY DEF DeliveryInv, ListDistinct
    <3>2. ~ InHand(a, c) /\ ~ Unsent(a, c)
          /\ c \notin received[a] /\ c \notin lost[a]
      BY <2>1 DEF DeliveryInv, Exclusive
    <3>3. QED BY <1>3, <3>1, <3>2 DEF IsInjective
  <2>2. CASE InHand(a, c)
    <3>1. ~ InList(a, c) /\ ~ Unsent(a, c)
          /\ c \notin received[a] /\ c \notin lost[a]
      BY <2>2 DEF DeliveryInv, Exclusive
    <3>2. \A ch, k \in Chans :
            (/\ ChanAgent[ch] = a /\ Holds(ch)
             /\ ChanAgent[k] = a /\ Holds(k)) => k = ch
      BY OneHand
    <3>3. QED BY <1>3, <3>1, <3>2
  <2>3. CASE Unsent(a, c)
    <3>1. ~ InList(a, c) /\ ~ InHand(a, c)
          /\ c \notin received[a] /\ c \notin lost[a]
      BY <2>3 DEF DeliveryInv, Exclusive
    <3>2. \A p, q \in Polls :
            (/\ PollAgent[p] = a /\ payload[p] = c
             /\ PollAgent[q] = a /\ payload[q] = c) => p = q
      BY CoreAssumption DEF DeliveryInv, UnsentOnce
    <3>3. QED BY <1>3, <3>1, <3>2
  <2>4. CASE c \in received[a] \/ c \in lost[a]
    <3>1. /\ ~ InList(a, c) /\ ~ InHand(a, c) /\ ~ Unsent(a, c)
          /\ c \notin received[a] \/ c \notin lost[a]
      BY <2>4 DEF DeliveryInv, Exclusive
    <3>2. QED BY <1>3, <3>1
  <2>5. QED BY <1>3, <2>1, <2>2, <2>3, <2>4
<1>5. QED BY <1>2, <1>4

\* The invariant holds in every reachable state.
THEOREM DeliveryInvariance == PollSpec => []DeliveryInv
<1>1. PollInv /\ DeliveryInv /\ [PollNext]_pollVars => DeliveryInv'
  BY NextDelivery
<1>2. QED BY InitDelivery, PollInvariance, <1>1, PTL DEF PollSpec

\* A command enqueued for an agent is in exactly one place, in every state
\* of every instance (application.go:318-336).
THEOREM NoCommandTwice == PollSpec => []CommandInOnePlace
<1>1. PollInv /\ DeliveryInv => CommandInOnePlace
  BY DeliveryMeansOnePlace
<1>2. QED BY PollInvariance, DeliveryInvariance, <1>1, PTL

-----------------------------------------------------------------------------
(* The refinement of Delivery. *)

\* The refinement mapping says where a command stands.
LEMMA PlaceIsStands ==
    Place = [a \in Agents |-> [c \in Commands |-> Stands(a, c)]]
  BY InFlightMeans DEF Place, Stands, InList

\* So it does after a step.
LEMMA PlaceIsStandsNext ==
    Place' = [a \in Agents |-> [c \in Commands |-> Stands(a, c)']]
<1>1. (Place = [a \in Agents |-> [c \in Commands |-> Stands(a, c)]])'
  BY PlaceIsStands, PTL
<1>2. QED BY <1>1

\* Initially every command is new.
LEMMA InitImplements == PollInit => AtMostOnce!Init
<1> SUFFICES ASSUME PollInit PROVE AtMostOnce!Init
  OBVIOUS
<1>1. \A a \in Agents, c \in Commands : Stands(a, c) = "new"
  BY CoreAssumption
  DEF PollInit, Stands, InList, InHand, Unsent, Holds, ToSet
<1>2. QED BY <1>1, PlaceIsStands DEF AtMostOnce!Init

\* A move of one command is a move of Delivery.
LEMMA MoveImplements ==
    ASSUME NEW b \in Agents, NEW d \in Commands, NEW from, NEW to,
           Moves(b, d, from, to)
    PROVE  AtMostOnce!Move(b, d, from, to)
<1>1. Place[b][d] = from
  BY PlaceIsStands DEF Moves
<1>2. Place' = [Place EXCEPT ![b][d] = to]
  BY PlaceIsStands, PlaceIsStandsNext DEF Moves
<1>3. QED BY <1>1, <1>2 DEF AtMostOnce!Move

\* Every step is a step of Delivery, or moves nothing.
LEMMA NextImplements ==
    ASSUME PollInv, DeliveryInv, [PollNext]_pollVars
    PROVE  [AtMostOnce!Next]_Place
<1>1. CASE Still
  BY <1>1, PlaceIsStands, PlaceIsStandsNext DEF Still
<1>2. CASE SomeMove
  BY <1>2, MoveImplements
  DEF SomeMove, AllowedMove, AtMostOnce!Next, AtMostOnce!Submit,
      AtMostOnce!Take, AtMostOnce!GiveBack, AtMostOnce!Deliver,
      AtMostOnce!LoseQueued, AtMostOnce!LoseHeld
<1>3. CASE HeldAreLost
  BY <1>3, PlaceIsStands, PlaceIsStandsNext
  DEF HeldAreLost, AtMostOnce!Next, AtMostOnce!LoseAllHeld
<1>4. QED BY <1>1, <1>2, <1>3, NextDelivery

\* The routines and handlers implement at-most-once delivery, for any number
\* of them (application.go:277-349, rest/cmd.go).
THEOREM DeliveryRefined == PollSpec => ImplementsDelivery
<1>1. PollInit => AtMostOnce!Init
  BY InitImplements
<1>2. PollInv /\ DeliveryInv /\ [PollNext]_pollVars => [AtMostOnce!Next]_Place
  BY NextImplements
<1>3. QED
  BY <1>1, <1>2, PollInvariance, DeliveryInvariance, PTL
  DEF PollSpec, ImplementsDelivery, AtMostOnce!Spec
=============================================================================
