--------------------------- MODULE ControllerProofs ---------------------------
(***************************************************************************)
(* What clients see of a command, for any number of agents, polls,         *)
(* channels, commands and faults.                                          *)
(***************************************************************************)
EXTENDS ControllerProperties, PollServiceProofs, FiniteSetTheorems

\* Nothing has been done with a command yet.
Untouched(c) ==
    /\ c \notin pickedUp
    /\ internals[c] = "none"
    /\ \A a \in Agents : c \notin enqueued[a]
    /\ \A k \in Keys : jobresult[c][k] = NoResponse

\* A response of g is on its way to the hash.
Setting(g) == \E call \in calls : call.by = g /\ call.step = "set"

\* Every command is in one stage: not sent, in the queue, in the loop's hands,
\* with its own goroutine, or past all this.
StageInv ==
    /\ IsInjective(cmdsQueue)
    /\ dpc = "pop" <=> dcmd = NoCommand
    /\ dpc # "distribute" <=> current = NoAgent
    /\ dcmd # NoCommand => dcmd \in sent \ ToSet(cmdsQueue)
    /\ ToSet(cmdsQueue) \subseteq sent
    /\ \A c \in Commands :
         c \notin sent \/ c \in ToSet(cmdsQueue) => Untouched(c)

\* What the loop has done with its command, by its control point.
LoopInv ==
    /\ dpc \in {"log", "route", "filter", "refuse"} => Untouched(dcmd)
    /\ dpc # "pop" => internals[dcmd] = "none" /\ dcmd \notin pickedUp
    /\ dpc \notin {"pop", "log"} => dcmd \in commandLog \cup unlogged
    /\ dpc \notin {"pop", "log", "route"} => ~ IsInternal(dcmd)

\* The targets that are left are not announced, but for the current one, and
\* those before it are announced and queued, or were to be.
TargetsInv ==
    dpc \in {"announce", "distribute"} =>
        /\ targets # {}
        /\ \A a \in targets :
             /\ dcmd \notin enqueued[a]
             /\ a # current => jobresult[dcmd][a] = NoResponse
        /\ \A k \in Keys :
             jobresult[dcmd][k] # NoResponse =>
                /\ k \in Agents
                /\ \/ dcmd \in enqueued[k]
                   \/ /\ jobresult[dcmd][k] = "QUEUED"
                      /\ k = current \/ <<k, dcmd>> \in unpushed

CurrentInv ==
    dpc = "distribute" =>
        /\ current \in targets
        /\ jobresult[dcmd][current] =
             IF Setting(dispatcher) THEN NoResponse ELSE "QUEUED"
        /\ ~ Returned(dispatcher) =>
             \A s \in CommandStates : <<dcmd, current, s>> \notin resultsLog

\* Who goes on to the pick-up signal has responded, or is about to.
AnsweredBy(g, c) ==
    /\ Setting(g) => \A k \in Keys : jobresult[c][k] = NoResponse
    /\ ~ Setting(g) => \E k \in Keys : jobresult[c][k] # NoResponse

DispatchedOrRefused(c) ==
    \A a \in Agents :
        jobresult[c][a] \notin {NoResponse, "ERROR"} =>
            c \in enqueued[a] \/ <<a, c>> \in unpushed

SignalInv ==
    /\ dpc = "signal" => /\ AnsweredBy(dispatcher, dcmd)
                         /\ DispatchedOrRefused(dcmd)
    /\ \A c \in Commands :
         /\ internals[c] = "handler" =>
              \A k \in Keys : jobresult[c][k] = NoResponse
         /\ internals[c] = "signal" => AnsweredBy(internal(c), c)
         /\ internals[c] # "none" => /\ c \notin pickedUp
                                     /\ c \in commandLog \cup unlogged
                                     /\ IsInternal(c)
                                     /\ c # dcmd

\* Whose call it is says what it writes, and where.
ByDispatcher(call) ==
    /\ call.cmd = dcmd
    /\ \/ dpc = "distribute" /\ call.key = current /\ call.state = "QUEUED"
       \/ /\ dpc = "signal" /\ call.key = CommandKey(dcmd)
          /\ call.state = "ERROR"

ByInternal(call, c) ==
    /\ call.cmd = c
    /\ internals[c] = "signal"
    /\ call.key = CommandKey(c)
    /\ call.state \in InternalOutcomes(c)

ByAgent(call) ==
    /\ call.key \in Agents
    /\ call.cmd \in enqueued[call.key]
    /\ call.state # "QUEUED"

Owned(call) ==
    \/ call.by = dispatcher /\ ByDispatcher(call)
    \/ \E c \in Commands : call.by = internal(c) /\ ByInternal(call, c)
    \/ /\ call.by # dispatcher
       /\ \A c \in Commands : call.by # internal(c)
       /\ ByAgent(call)

\* How far it is says what the hash holds.
Written(call) ==
    /\ call.step = "done" =>
         /\ IsTerminalCommandState(call.state)
         /\ jobresult[call.cmd][call.key] \notin {NoResponse, "QUEUED"}
    /\ call.step = "log" => jobresult[call.cmd][call.key] # NoResponse

CallsInv ==
    /\ \A x, y \in calls : x.by = y.by => x = y
    /\ \A call \in calls : Owned(call) /\ Written(call)

\* What is recorded agrees with the hash.
RecordInv ==
    /\ \A a \in Agents : \A c \in enqueued[a] :
         /\ jobresult[c][a] # NoResponse
         /\ c \in commandLog \cup unlogged
         /\ ~ IsInternal(c)
    /\ \A sig \in doneSignals :
         jobresult[sig[1]][sig[2]] \notin {NoResponse, "QUEUED"}
    /\ \A entry \in resultsLog :
         /\ entry[1] \in commandLog \cup unlogged
         /\ jobresult[entry[1]][entry[2]] # NoResponse
    /\ \A c \in pickedUp : ~ IsInternal(c) => DispatchedOrRefused(c)

\* A command without fanout has one target at most, and once.
FanoutInv ==
    /\ \A c \in Commands : ~ Content[c].fanout =>
         \A a, b \in Agents : c \in enqueued[a] /\ c \in enqueued[b] => a = b
    /\ dpc \in {"announce", "distribute"} /\ ~ Content[dcmd].fanout =>
         /\ \A a \in Agents : dcmd \notin enqueued[a]
         /\ \A a, b \in targets : a = b

LifeInv == /\ StageInv /\ LoopInv /\ TargetsInv /\ CurrentInv /\ SignalInv
           /\ CallsInv /\ RecordInv /\ FanoutInv

ControllerInv == ControllerTypeOK /\ PollInv /\ DeliveryInv /\ LifeInv

-----------------------------------------------------------------------------
(* The responders. *)

\* The goroutines that respond are told apart.
LEMMA ResponderNames ==
    /\ \A c : dispatcher # internal(c)
    /\ \A c, d : internal(c) = internal(d) => c = d
    /\ \A ch : routineOf(ch) # dispatcher
    /\ \A ch, c : routineOf(ch) # internal(c)
    /\ \A a, c : resultOf(a, c) # dispatcher
    /\ \A a, c, d : resultOf(a, c) # internal(d)
  BY DEF dispatcher, internal, routineOf, resultOf

\* They are all responders.
LEMMA ResponderTypes ==
    /\ dispatcher \in Responders
    /\ \A c \in Commands : internal(c) \in Responders
    /\ \A ch \in Chans : routineOf(ch) \in Responders
    /\ \A a \in Agents, c \in Commands : resultOf(a, c) \in Responders
  BY ControllerAssumption

\* The keys of responses.
LEMMA KeyTypes ==
    /\ Agents \subseteq Keys
    /\ \A c \in Commands : CommandKey(c) \in Keys
    /\ \A c : InternalOutcomes(c) \subseteq CommandStates \ {"QUEUED"}
    /\ NoResponse \notin CommandStates
  BY DEF Keys, InternalOutcomes, CommandStates, NoResponse

\* Calls are typed.
LEMMA CallsAreTyped ==
    ASSUME ResponderTypeOK, NEW call \in calls
    PROVE  /\ call.by \in Responders /\ call.cmd \in Commands
           /\ call.key \in Keys /\ call.state \in CommandStates
           /\ call.step \in {"set", "done", "log"}
           /\ call.state # NoResponse
  BY KeyTypes DEF ResponderTypeOK, Call

\* A call that begins is the only one of its goroutine, and is to be set.
LEMMA CallBegins ==
    ASSUME NEW g, NEW c, NEW k, NEW s, RespondToCommand(g, c, k, s)
    PROVE  /\ Setting(g)'
           /\ ~ Setting(g)
           /\ ~ Returned(g)'
           /\ \A h : h # g => /\ Setting(h)' <=> Setting(h)
                              /\ Returned(h)' <=> Returned(h)
<1> DEFINE new == [by |-> g, cmd |-> c, key |-> k, state |-> s,
                   step |-> "set"]
<1>1. calls' = calls \cup {new} /\ Returned(g)
  BY DEF RespondToCommand
<1>2. new.by = g /\ new.step = "set"
  OBVIOUS
<1> HIDE DEF new
<1>3. QED BY <1>1, <1>2 DEF Setting, Returned

\* A call that begins keeps the types.
LEMMA CallBeginsTyped ==
    ASSUME ResponderTypeOK, NEW g \in Responders, NEW c \in Commands,
           NEW k \in Keys, NEW s \in CommandStates,
           RespondToCommand(g, c, k, s)
    PROVE  ResponderTypeOK'
  BY DEF ResponderTypeOK, RespondToCommand, Call

-----------------------------------------------------------------------------
(* The poll service inside the controller. *)

\* Every step is a step of the poll service, or none: the loop pushes its
\* command to the current target, which has not been queued for it.
LEMMA StepIsPollStep ==
    ASSUME ControllerInv, [Next]_vars PROVE [PollNext]_pollVars
<1>1. ASSUME NEW a \in Agents, DispatchTo(a) PROVE PollNext
  <2>1. dcmd \in Commands /\ dcmd \notin enqueued[a]
    BY <1>1
    DEF ControllerInv, ControllerTypeOK, DispatcherTypeOK, LifeInv, StageInv,
        TargetsInv, CurrentInv, DispatchTo, Distributed
  <2>2. Enqueue(a, dcmd)
    BY <1>1, <2>1 DEF Enqueue, DispatchTo
  <2>3. QED BY <2>1, <2>2 DEF PollNext
<1>2. ASSUME NEW ch \in Chans, Routine(ch) PROVE PollNext
  BY <1>2
  DEF Routine, HandOverAndReport, FinishReport, PollNext, RoutineStep
<1>3. ASSUME NEW p \in Polls, Handler(p) PROVE PollNext
  BY <1>3 DEF Handler, PollNext
<1>4. ASSUME Disturbance PROVE PollNext
  BY <1>4 DEF Disturbance, PollNext, PollFault
<1>5. ASSUME CrashAll PROVE PollNext
  BY <1>5 DEF CrashAll, PollNext, PollFault
<1>6. ASSUME \/ \E c \in Commands : SendCommand(c) \/ Internal(c)
             \/ Loop
             \/ \E a \in Agents : DispatchLost(a)
             \/ \E a \in Agents, c \in Commands : PostResult(a, c)
             \/ \E call \in calls : Responding(call)
             \/ PopCommandLost
             \/ UNCHANGED vars
      PROVE  UNCHANGED pollVars
  BY <1>6
  DEF SendCommand, Internal, Loop, DispatchLost, PostResult, Responding,
      PopCommandLost, vars
<1>7. QED
  BY <1>1, <1>2, <1>3, <1>4, <1>5, <1>6 DEF Next, Work

\* So what is proved of the poll service stays true.
LEMMA PollStays ==
    ASSUME ControllerInv, [Next]_vars PROVE PollInv' /\ DeliveryInv'
  BY StepIsPollStep, NextInv, NextDelivery DEF ControllerInv

-----------------------------------------------------------------------------
\* Nothing has been sent at the start.
LEMMA ControllerInitInv == Init => ControllerInv
<1> SUFFICES ASSUME Init PROVE ControllerInv
  OBVIOUS
<1>1. PollInv /\ DeliveryInv
  BY InitInv, InitDelivery DEF Init
<1>2. DispatcherTypeOK
  BY DispatcherAssumption
  DEF Init, DispatcherInit, DispatcherTypeOK, DispatcherStates
<1>3. ResponderTypeOK
  BY DEF Init, ResponderInit, ResponderTypeOK
<1>4. ControllerTypeOK
  BY <1>1, <1>2, <1>3, ControllerAssumption
  DEF Init, ControllerTypeOK, PollInv
<1>5. ToSet(cmdsQueue) = {} /\ IsInjective(cmdsQueue)
  BY DEF Init, DispatcherInit, ToSet, IsInjective
<1>6. LifeInv
  BY <1>5
  DEF Init, PollInit, DispatcherInit, ResponderInit, LifeInv, StageInv,
      LoopInv, TargetsInv, CurrentInv, SignalInv, CallsInv, RecordInv,
      FanoutInv, Untouched, DispatchedOrRefused
<1>7. QED BY <1>1, <1>4, <1>6 DEF ControllerInv

-----------------------------------------------------------------------------
(* Types. *)

\* A step of a response in progress keeps the types.
LEMMA CallStepTyped ==
    ASSUME ResponderTypeOK, NEW call \in calls, CallStep(call)
    PROVE  ResponderTypeOK'
<1>1. call \in Call /\ Content3(call) \in Response
  BY DEF ResponderTypeOK, Call, Content3, Response
<1>2. ASSUME NEW step \in {"set", "done", "log"}, Advance(call, step)
      PROVE  calls' \subseteq Call
  BY <1>1, <1>2 DEF ResponderTypeOK, Call, Advance
<1>3. CASE SetResult(call)
  <2>1. calls' \subseteq Call
    BY <1>2, <1>3 DEF SetResult
  <2>2. jobresult' \in [Commands -> [Keys -> CommandStates \cup {NoResponse}]]
    BY <1>1, <1>3 DEF SetResult, ResponderTypeOK, Call
  <2>3. QED BY <1>3, <2>1, <2>2 DEF SetResult, ResponderTypeOK
<1>4. CASE signalAsDone(call)
  BY <1>1, <1>2, <1>4 DEF signalAsDone, ResponderTypeOK
<1>5. CASE LogResponse(call)
  BY <1>1, <1>5 DEF LogResponse, ResponderTypeOK
<1>6. QED BY <1>3, <1>4, <1>5 DEF CallStep

\* A step of the dispatch loop keeps the types.
LEMMA LoopTyped ==
    ASSUME ControllerInv, LoopStep PROVE DispatcherTypeOK' /\ ResponderTypeOK'
<1> USE DispatcherAssumption
    DEF ControllerInv, ControllerTypeOK, DispatcherTypeOK, DispatcherStates,
        LoopGoes, logVars
<1>1. CASE BlockingPop
  BY <1>1 DEF BlockingPop, responderVars, ResponderTypeOK
<1>2. CASE LogCommand
  <2>1. dcmd \in Commands
    BY <1>2 DEF LogCommand, LifeInv, StageInv
  <2>2. QED BY <1>2, <2>1 DEF LogCommand, responderVars, ResponderTypeOK
<1>3. CASE StartInternal
  BY <1>3 DEF StartInternal, responderVars, ResponderTypeOK
<1>4. CASE SnapshotCandidates
  BY <1>4
  DEF SnapshotCandidates, ConnectedAgents, PollTypeOK, AgentDataTypeOK,
      responderVars, ResponderTypeOK
<1>5. CASE ChooseTargets
  BY <1>5 DEF ChooseTargets, responderVars, ResponderTypeOK
<1>6. CASE ChooseNode
  BY <1>6
  DEF ChooseNode, IsConnected, PollTypeOK, AgentDataTypeOK, responderVars,
      ResponderTypeOK
<1>7. ASSUME NEW a \in Agents, CheckRoles(a)
      PROVE  DispatcherTypeOK' /\ ResponderTypeOK'
  BY <1>7 DEF CheckRoles, responderVars, ResponderTypeOK
<1>8. ASSUME NEW a \in Agents, AnnounceQueued(a)
      PROVE  DispatcherTypeOK' /\ ResponderTypeOK'
  <2>1. dcmd \in Commands
    BY <1>8 DEF AnnounceQueued, LifeInv, StageInv
  <2>2. ResponderTypeOK'
    BY <1>8, <2>1, CallBeginsTyped, ResponderTypes, KeyTypes
    DEF AnnounceQueued, CommandStates
  <2>3. QED BY <1>8, <2>2 DEF AnnounceQueued
<1>9. CASE RespondNoAgents
  <2>1. dcmd \in Commands
    BY <1>9 DEF RespondNoAgents, LifeInv, StageInv
  <2>2. ResponderTypeOK'
    BY <1>9, <2>1, CallBeginsTyped, ResponderTypes, KeyTypes
    DEF RespondNoAgents, CommandStates
  <2>3. QED BY <1>9, <2>2 DEF RespondNoAgents
<1>10. CASE SignalPickedUp
  <2>1. dcmd \in Commands
    BY <1>10 DEF SignalPickedUp, LifeInv, StageInv
  <2>2. QED
    BY <1>10, <2>1 DEF SignalPickedUp, SignalAsPickedUp, ResponderTypeOK
<1>11. QED
  BY <1>1, <1>2, <1>3, <1>4, <1>5, <1>6, <1>7, <1>8, <1>9, <1>10 DEF LoopStep

\* Every variable keeps its type.
LEMMA NextTyped ==
    ASSUME ControllerInv, [Next]_vars PROVE ControllerTypeOK'
<1>1. PollTypeOK'
  BY PollStays DEF PollInv
<1> DEFINE Tally == /\ (posted \in [Agents -> [Commands -> 0..MaxResults]])'
                    /\ (unpushed \subseteq Agents \X Commands)'
                    /\ (forgotten \subseteq Commands)'
                    /\ (cut \subseteq Commands \X Keys)'
           Goal == DispatcherTypeOK' /\ ResponderTypeOK' /\ Tally
<1> SUFFICES Goal
  BY <1>1 DEF ControllerTypeOK
<1>2. UNCHANGED tallyVars => Tally
  BY DEF tallyVars, historyVars, ControllerInv, ControllerTypeOK
<1>3. UNCHANGED responderVars => ResponderTypeOK'
  BY DEF responderVars, ResponderTypeOK, ControllerInv, ControllerTypeOK
<1>4. UNCHANGED dispatcherVars => DispatcherTypeOK'
  BY DEF dispatcherVars, DispatcherTypeOK, ControllerInv, ControllerTypeOK
<1>5. ResponderTypeOK /\ DispatcherTypeOK
  BY DEF ControllerInv, ControllerTypeOK
<1>6. ASSUME NEW c \in Commands, SendCommand(c) PROVE Goal
  <2>1. DispatcherTypeOK'
    BY <1>5, <1>6
    DEF SendCommand, Push, DispatcherTypeOK, loopVars, logVars
  <2>2. QED BY <1>2, <1>3, <1>6, <2>1 DEF SendCommand, Push
<1>7. ASSUME NEW c \in Commands, ExecuteInternalCommand(c), UNCHANGED tallyVars
      PROVE  Goal
  <2>1. ResponderTypeOK'
    BY <1>5, <1>7, CallBeginsTyped, ResponderTypes, KeyTypes
    DEF ExecuteInternalCommand
  <2>2. DispatcherTypeOK'
    BY <1>5, <1>7
    DEF ExecuteInternalCommand, DispatcherTypeOK, loopVars, logVars
  <2>3. QED BY <1>2, <1>7, <2>1, <2>2
<1>8. ASSUME NEW c \in Commands, SignalInternal(c), UNCHANGED tallyVars
      PROVE  Goal
  <2>1. ResponderTypeOK' /\ DispatcherTypeOK'
    BY <1>5, <1>8
    DEF SignalInternal, SignalAsPickedUp, ResponderTypeOK, DispatcherTypeOK,
        loopVars, logVars
  <2>2. QED BY <1>2, <1>8, <2>1
<1>9. ASSUME Loop PROVE Goal
  BY <1>2, <1>9, LoopTyped DEF Loop
<1>10. ASSUME Distributed PROVE DispatcherTypeOK' /\ ResponderTypeOK'
  BY <1>3, <1>5, <1>10, DispatcherAssumption
  DEF Distributed, DispatcherTypeOK, DispatcherStates, logVars
<1>11. ASSUME NEW a \in Agents, DispatchTo(a) PROVE Goal
  BY <1>2, <1>10, <1>11 DEF DispatchTo
<1>12. ASSUME NEW a \in Agents, DispatchLost(a) PROVE Goal
  <2>1. dcmd \in Commands
    BY <1>5, <1>12
    DEF ControllerInv, LifeInv, StageInv, DispatchLost, Distributed,
        DispatcherTypeOK
  <2>2. Tally
    BY <1>12, <2>1 DEF DispatchLost, ControllerInv, ControllerTypeOK
  <2>3. QED BY <1>10, <1>12, <2>2 DEF DispatchLost
<1>13. ASSUME NEW ch \in Chans, HandOverAndReport(ch) PROVE Goal
  <2>1. hand[ch] \in Commands /\ ChanAgent[ch] \in Agents
    BY <1>13, PollServiceAssumption
    DEF HandOverAndReport, HandOver, RoutineGoes, ControllerInv, PollInv,
        RoutineInv, HandFull
  <2>2. ResponderTypeOK'
    BY <1>5, <1>13, <2>1, CallBeginsTyped, ResponderTypes, KeyTypes
    DEF HandOverAndReport, CommandStates
  <2>3. QED BY <1>2, <1>4, <1>13, <2>2 DEF HandOverAndReport
<1>14. ASSUME NEW a \in Agents, NEW c \in Commands, PostResult(a, c) PROVE Goal
  <2>1. ResponderTypeOK'
    BY <1>5, <1>14, CallBeginsTyped, ResponderTypes, KeyTypes
    DEF PostResult, CommandStates
  <2>2. (posted \in [Agents -> [Commands -> 0..MaxResults]])'
    BY <1>14, ControllerAssumption
    DEF PostResult, ControllerInv, ControllerTypeOK
  <2>3. QED
    BY <1>4, <1>14, <2>1, <2>2
    DEF PostResult, ControllerInv, ControllerTypeOK, historyVars
<1>15. ASSUME NEW call \in calls, Responding(call) PROVE Goal
  BY <1>2, <1>4, <1>5, <1>15, CallStepTyped DEF Responding
<1>16. ASSUME PopCommandLost PROVE Goal
  <2>1. DispatcherTypeOK'
    BY <1>5, <1>16, DispatcherAssumption
    DEF PopCommandLost, PopLost, DispatcherTypeOK, loopVars
  <2>2. Head(cmdsQueue) \in Commands
    BY <1>5, <1>16 DEF PopCommandLost, PopLost, DispatcherTypeOK
  <2>3. Tally
    BY <1>16, <2>2 DEF PopCommandLost, ControllerInv, ControllerTypeOK
  <2>4. QED BY <1>3, <1>16, <2>1, <2>3 DEF PopCommandLost, PopLost
<1>17. ASSUME CrashAll PROVE Goal
  <2>1. DispatcherTypeOK' /\ ResponderTypeOK'
    BY <1>5, <1>17
    DEF CrashAll, DispatcherCrash, ResponderCrash, DispatcherTypeOK,
        DispatcherStates, ResponderTypeOK, logVars
  <2>2. InHands \subseteq Commands
    BY <1>5 DEF InHands, DispatcherTypeOK
  <2>3. {<<call.cmd, call.key>> : call \in Unsignalled}
          \subseteq Commands \X Keys
    BY <1>5, CallsAreTyped DEF Unsignalled
  <2>4. Tally
    BY <1>17, <2>2, <2>3 DEF CrashAll, ControllerInv, ControllerTypeOK
  <2>5. QED BY <2>1, <2>4
<1>18. UNCHANGED <<dispatcherVars, responderVars, tallyVars>> => Goal
  BY <1>2, <1>3, <1>4
<1>19. QED
  BY <1>6, <1>7, <1>8, <1>9, <1>11, <1>12, <1>13, <1>14, <1>15, <1>16,
     <1>17, <1>18
  DEF Next, Work, Internal, InternalStep, Routine, FinishReport, Handler,
      Disturbance, vars

-----------------------------------------------------------------------------
(* The life of a command, step by step. *)

\* What the life of a command is told from.
lifeOnly == <<enqueued, unpushed, sent, cmdsQueue, dpc, dcmd, targets,
              current, internals, commandLog, unlogged, responderVars>>

\* Nothing else changes it.
LEMMA QuietKeepsLife ==
    ASSUME LifeInv, UNCHANGED lifeOnly PROVE LifeInv'
<1> USE DEF LifeInv, lifeOnly, responderVars
<1>1. StageInv'
  BY DEF StageInv, Untouched
<1>2. LoopInv' /\ TargetsInv' /\ FanoutInv'
  BY DEF LoopInv, TargetsInv, FanoutInv, Untouched
<1>3. CurrentInv' /\ SignalInv'
  BY DEF CurrentInv, SignalInv, Setting, Returned, AnsweredBy,
         DispatchedOrRefused
<1>4. CallsInv' /\ RecordInv'
  BY DEF CallsInv, Owned, Written, ByDispatcher, ByInternal, ByAgent,
         RecordInv, DispatchedOrRefused
<1>5. QED BY <1>1, <1>2, <1>3, <1>4

\* A command is pushed.
LEMMA PushKeepsLife ==
    ASSUME ControllerInv, NEW c \in Commands, SendCommand(c) PROVE LifeInv'
<1> USE DEF ControllerInv, LifeInv, SendCommand, Push, loopVars, logVars,
        responderVars, pollVars, queueVars, tallyVars, historyVars
<1>1. cmdsQueue \in Seq(Commands)
  BY DEF ControllerTypeOK, DispatcherTypeOK
<1>2. c \notin ToSet(cmdsQueue)
  BY DEF StageInv
<1>3. ToSet(cmdsQueue') = ToSet(cmdsQueue) \cup {c} /\ IsInjective(cmdsQueue')
  BY <1>1, <1>2, AppendElements DEF StageInv
<1>4. Untouched(c)
  BY DEF StageInv
<1>5. StageInv'
  BY <1>3, <1>4 DEF StageInv, Untouched
<1>6. LoopInv' /\ TargetsInv' /\ FanoutInv'
  BY DEF LoopInv, TargetsInv, FanoutInv, Untouched
<1>7. CurrentInv' /\ SignalInv'
  BY DEF CurrentInv, SignalInv, Setting, Returned, AnsweredBy,
         DispatchedOrRefused
<1>8. CallsInv' /\ RecordInv'
  BY DEF CallsInv, Owned, Written, ByDispatcher, ByInternal, ByAgent,
         RecordInv, DispatchedOrRefused
<1>9. QED BY <1>5, <1>6, <1>7, <1>8

\* The head of the queue is lost, or taken by the loop.
LEMMA PopKeepsLife ==
    ASSUME ControllerInv, BlockingPop \/ PopLost,
           UNCHANGED <<enqueued, unpushed>>
    PROVE  LifeInv'
<1> USE DEF ControllerInv, LifeInv, loopVars, logVars, responderVars, LoopGoes
<1> DEFINE c == Head(cmdsQueue)
<1>1. cmdsQueue \in Seq(Commands) /\ cmdsQueue # <<>>
  BY DEF ControllerTypeOK, DispatcherTypeOK, BlockingPop, PopLost
<1>2. /\ c \in Commands /\ c \in ToSet(cmdsQueue)
      /\ ToSet(Tail(cmdsQueue)) = ToSet(cmdsQueue) \ {c}
      /\ IsInjective(Tail(cmdsQueue))
  BY <1>1, TailElements DEF StageInv
<1>3. c \in sent /\ Untouched(c) /\ c # NoCommand
  BY <1>2, CoreAssumption DEF StageInv
<1> HIDE DEF c
<1>4. CASE BlockingPop
  <2>1. cmdsQueue' = Tail(cmdsQueue) /\ dcmd' = c
        /\ dpc = "pop" /\ dpc' = "log"
    BY <1>4 DEF BlockingPop, c
  <2> USE <1>4 DEF BlockingPop
  <2>2. StageInv'
    BY <1>2, <1>3, <2>1 DEF StageInv, Untouched
  <2>3. LoopInv' /\ TargetsInv' /\ FanoutInv'
    BY <1>3, <2>1 DEF LoopInv, TargetsInv, FanoutInv, Untouched
  <2>4. CurrentInv' /\ SignalInv'
    BY <1>3, <2>1
    DEF CurrentInv, SignalInv, Setting, AnsweredBy, Untouched
  <2>5. CallsInv' /\ RecordInv'
    BY <2>1
    DEF CallsInv, Owned, Written, ByDispatcher, ByInternal, ByAgent, RecordInv,
        DispatchedOrRefused
  <2>6. QED BY <2>2, <2>3, <2>4, <2>5
<1>5. CASE PopLost
  <2>1. cmdsQueue' = Tail(cmdsQueue)
    BY <1>5 DEF PopLost
  <2> USE <1>5 DEF PopLost
  <2>2. StageInv'
    BY <1>2, <1>3, <2>1 DEF StageInv, Untouched
  <2>3. LoopInv' /\ TargetsInv' /\ FanoutInv'
    BY DEF LoopInv, TargetsInv, FanoutInv, Untouched
  <2>4. CurrentInv' /\ SignalInv'
    BY DEF CurrentInv, SignalInv, Setting, AnsweredBy, Untouched,
           DispatchedOrRefused, Returned
  <2>5. CallsInv' /\ RecordInv'
    BY DEF CallsInv, Owned, Written, ByDispatcher, ByInternal, ByAgent,
           RecordInv, DispatchedOrRefused
  <2>6. QED BY <2>2, <2>3, <2>4, <2>5
<1>6. QED BY <1>4, <1>5

\* The loop logs its command and chooses agents.
ChoosingStep ==
    \/ LogCommand \/ SnapshotCandidates \/ ChooseTargets \/ ChooseNode
    \/ \E a \in Agents : CheckRoles(a)

\* The command is untouched until the agents are chosen.
LEMMA ChoosingKeepsLife ==
    ASSUME ControllerInv, ChoosingStep, UNCHANGED <<enqueued, unpushed>>
    PROVE  LifeInv'
<1> USE DEF ControllerInv, LifeInv, logVars, responderVars, LoopGoes
<1>1. /\ dpc \in {"log", "route", "filter"}
      /\ dpc' \in {"route", "filter", "refuse", "announce"}
      /\ commandLog \cup unlogged \subseteq (commandLog \cup unlogged)'
      /\ dpc' # "log" => dcmd \in (commandLog \cup unlogged)'
      /\ dpc' \in {"filter", "refuse", "announce"} => ~ IsInternal(dcmd)
      /\ UNCHANGED <<cmdsQueue, sent, dcmd, current, internals, responderVars>>
  BY DEF ChoosingStep, LogCommand, SnapshotCandidates, ChooseTargets,
         ChooseNode, CheckRoles, LoopInv
<1>2. dpc' = "announce" =>
        /\ targets' # {} /\ targets' \subseteq Agents
        /\ ~ Content[dcmd].fanout => \A a, b \in targets' : a = b
  <2>1. CASE ChooseTargets
    <3>1. targets \subseteq Agents /\ (dpc' = "announce" => targets # {})
      BY <2>1 DEF ChooseTargets, ControllerTypeOK, DispatcherTypeOK
    <3>2. CASE targets' = targets /\ (Content[dcmd].fanout \/ targets = {})
      BY <3>1, <3>2
    <3>3. ASSUME NEW a \in targets, targets' = {a}
          PROVE  targets' # {} /\ targets' \subseteq Agents
                 /\ \A x, y \in targets' : x = y
      BY <3>1, <3>3
    <3>4. QED BY <2>1, <3>2, <3>3 DEF ChooseTargets
  <2>2. CASE ChooseNode
    <3>1. DOMAIN roles \subseteq Agents
      BY DEF ControllerTypeOK, PollTypeOK, AgentDataTypeOK
    <3>2. QED BY <2>2, <3>1 DEF ChooseNode, IsConnected
  <2>3. QED
    BY <2>1, <2>2
    DEF ChoosingStep, LogCommand, SnapshotCandidates, CheckRoles
<1>3. Untouched(dcmd) /\ dcmd \in Commands
  BY <1>1 DEF LoopInv, StageInv, ControllerTypeOK, DispatcherTypeOK
<1>4. StageInv'
  BY <1>1 DEF StageInv, Untouched
<1>5. LoopInv'
  BY <1>1, <1>3 DEF LoopInv, Untouched
<1>6. TargetsInv' /\ FanoutInv'
  <2>1. TargetsInv'
    BY <1>1, <1>2, <1>3, KeyTypes DEF TargetsInv, Untouched
  <2>2. FanoutInv'
    BY <1>1, <1>2, <1>3 DEF FanoutInv, Untouched
  <2>3. QED BY <2>1, <2>2
<1>7. CurrentInv' /\ SignalInv'
  <2>1. CurrentInv'
    BY <1>1 DEF CurrentInv
  <2>2. \A c \in Commands :
          AnsweredBy(internal(c), c)' <=> AnsweredBy(internal(c), c)
    BY <1>1 DEF AnsweredBy, Setting
  <2>3. SignalInv'
    BY <1>1, <2>2 DEF SignalInv
  <2>4. QED BY <2>1, <2>3
<1>8. CallsInv' /\ RecordInv'
  BY <1>1
  DEF CallsInv, Owned, Written, ByDispatcher, ByInternal, ByAgent, RecordInv,
      DispatchedOrRefused
<1>9. QED BY <1>4, <1>5, <1>6, <1>7, <1>8

\* An internal command gets a goroutine of its own.
LEMMA StartInternalKeepsLife ==
    ASSUME ControllerInv, StartInternal, UNCHANGED <<enqueued, unpushed>>
    PROVE  LifeInv'
<1> USE DEF ControllerInv, LifeInv, logVars, responderVars, LoopGoes,
            StartInternal
<1>1. Untouched(dcmd) /\ dcmd \in Commands
      /\ dcmd \in commandLog \cup unlogged
      /\ dcmd \in sent /\ dcmd \notin ToSet(cmdsQueue)
  BY DEF LoopInv, StageInv, ControllerTypeOK, DispatcherTypeOK
<1>2. /\ internals'[dcmd] = "handler"
      /\ \A c \in Commands : c # dcmd => internals'[c] = internals[c]
      /\ dcmd' \notin Commands
  BY <1>1, CoreAssumption DEF ControllerTypeOK, DispatcherTypeOK
<1>3. StageInv'
  BY <1>1, <1>2 DEF StageInv, Untouched
<1>4. LoopInv' /\ TargetsInv' /\ FanoutInv'
  BY DEF LoopInv, TargetsInv, FanoutInv
<1>5. CurrentInv' /\ SignalInv'
  BY <1>1, <1>2
  DEF CurrentInv, SignalInv, Setting, AnsweredBy, Untouched
<1>6. CallsInv' /\ RecordInv'
  BY <1>1, <1>2
  DEF CallsInv, Owned, Written, ByDispatcher, ByInternal, ByAgent, RecordInv,
      DispatchedOrRefused, Untouched
<1>7. QED BY <1>3, <1>4, <1>5, <1>6

\* A call that begins is owned; whose the others are must not change.
LEMMA BeginKeepsCalls ==
    ASSUME CallsInv, NEW g, NEW c, NEW k, NEW s, RespondToCommand(g, c, k, s),
           NEW own, own = [by |-> g, cmd |-> c, key |-> k, state |-> s,
                           step |-> "set"],
           Owned(own)', \A call \in calls : Owned(call)'
    PROVE  CallsInv'
<1>1. calls' = calls \cup {own} /\ UNCHANGED jobresult /\ Returned(g)
  BY DEF RespondToCommand
<1>2. own.by = g /\ own.step = "set"
  OBVIOUS
<1>3. \A call : Written(call)' <=> Written(call)
  BY <1>1 DEF Written
<1>4. Written(own)
  BY <1>2 DEF Written
<1>5. \A call \in calls' : (Owned(call) /\ Written(call))'
  BY <1>1, <1>3, <1>4 DEF CallsInv
<1>6. \A x, y \in calls' : x.by = y.by => x = y
  BY <1>1, <1>2 DEF CallsInv, Returned
<1>7. QED BY <1>5, <1>6 DEF CallsInv

\* The next target is announced.
LEMMA AnnounceKeepsLife ==
    ASSUME ControllerInv, NEW a \in Agents, AnnounceQueued(a),
           UNCHANGED <<enqueued, unpushed>>
    PROVE  LifeInv'
<1> USE DEF ControllerInv, LifeInv
<1>1. /\ dpc = "announce" /\ dpc' = "distribute" /\ a \in targets
      /\ current' = a /\ current = NoAgent
      /\ RespondToCommand(dispatcher, dcmd, a, "QUEUED")
      /\ UNCHANGED <<cmdsQueue, sent, dcmd, targets, internals,
                     commandLog, unlogged>>
      /\ UNCHANGED <<jobresult, doneSignals, resultsLog, pickedUp>>
  BY DEF AnnounceQueued, LoopGoes, logVars, StageInv, RespondToCommand
<1>2. /\ current \notin targets /\ current \notin Agents /\ a # current
      /\ dcmd \in Commands
  BY <1>1, DispatcherAssumption
  DEF StageInv, ControllerTypeOK, DispatcherTypeOK
<1>3. jobresult[dcmd][a] = NoResponse
  BY <1>1, <1>2 DEF TargetsInv
<1>4. /\ Setting(dispatcher)'
      /\ \A c \in Commands : Setting(internal(c))' <=> Setting(internal(c))
  BY <1>1, CallBegins, ResponderNames
<1>5. StageInv'
  BY <1>1, <1>2 DEF StageInv, Untouched
<1>6. LoopInv'
  BY <1>1 DEF LoopInv
<1>7. TargetsInv'
  BY <1>1, <1>2 DEF TargetsInv
<1>8. CurrentInv'
  <2>1. \A s : <<dcmd, a, s>> \notin resultsLog
    BY <1>3 DEF RecordInv
  <2>2. QED BY <1>1, <1>3, <1>4, <2>1 DEF CurrentInv
<1>9. SignalInv'
  BY <1>1, <1>4 DEF SignalInv, AnsweredBy
<1>10. CallsInv'
  <2> DEFINE own == [by |-> dispatcher, cmd |-> dcmd, key |-> a,
                     state |-> "QUEUED", step |-> "set"]
  <2>1. Owned(own)'
    BY <1>1 DEF Owned, ByDispatcher
  <2>2. \A call \in calls : call.by # dispatcher
    BY <1>1 DEF RespondToCommand, Returned
  <2>3. \A call \in calls : Owned(call)'
    BY <1>1, <2>2 DEF CallsInv, Owned, ByInternal, ByAgent
  <2>4. QED BY <1>1, <2>1, <2>3, BeginKeepsCalls
<1>11. RecordInv' /\ FanoutInv'
  BY <1>1 DEF RecordInv, FanoutInv, DispatchedOrRefused
<1>12. QED
  BY <1>5, <1>6, <1>7, <1>8, <1>9, <1>10, <1>11

\* No agent matches, and the loop says so under the command's own key.
LEMMA RefuseKeepsLife ==
    ASSUME ControllerInv, RespondNoAgents, UNCHANGED <<enqueued, unpushed>>
    PROVE  LifeInv'
<1> USE DEF ControllerInv, LifeInv
<1>1. /\ dpc = "refuse" /\ dpc' = "signal"
      /\ RespondToCommand(dispatcher, dcmd, CommandKey(dcmd), "ERROR")
      /\ UNCHANGED <<cmdsQueue, sent, dcmd, targets, current, internals,
                     commandLog, unlogged>>
      /\ UNCHANGED <<jobresult, doneSignals, resultsLog, pickedUp>>
  BY DEF RespondNoAgents, LoopGoes, logVars, RespondToCommand
<1>2. Untouched(dcmd)
  BY <1>1 DEF LoopInv
<1>3. /\ Setting(dispatcher)'
      /\ \A c \in Commands : Setting(internal(c))' <=> Setting(internal(c))
  BY <1>1, CallBegins, ResponderNames
<1>4. StageInv'
  BY <1>1 DEF StageInv, Untouched
<1>5. LoopInv' /\ TargetsInv' /\ CurrentInv'
  BY <1>1 DEF LoopInv, TargetsInv, CurrentInv
<1>6. SignalInv'
  <2>1. AnsweredBy(dispatcher, dcmd)'
    BY <1>1, <1>2, <1>3 DEF AnsweredBy, Untouched
  <2>2. DispatchedOrRefused(dcmd)'
    BY <1>1, <1>2, KeyTypes DEF DispatchedOrRefused, Untouched
  <2>3. QED BY <1>1, <1>3, <2>1, <2>2 DEF SignalInv, AnsweredBy
<1>7. CallsInv'
  <2> DEFINE own == [by |-> dispatcher, cmd |-> dcmd, key |-> CommandKey(dcmd),
                     state |-> "ERROR", step |-> "set"]
  <2>1. Owned(own)'
    BY <1>1 DEF Owned, ByDispatcher
  <2>2. \A call \in calls : call.by # dispatcher
    BY <1>1 DEF RespondToCommand, Returned
  <2>3. \A call \in calls : Owned(call)'
    BY <1>1, <2>2 DEF CallsInv, Owned, ByInternal, ByAgent
  <2>4. QED BY <1>1, <2>1, <2>3, BeginKeepsCalls
<1>8. RecordInv' /\ FanoutInv'
  BY <1>1 DEF RecordInv, FanoutInv, DispatchedOrRefused
<1>9. QED BY <1>4, <1>5, <1>6, <1>7, <1>8

\* The pick-up signal goes out and the loop is free.
LEMMA PickUpKeepsLife ==
    ASSUME ControllerInv, SignalPickedUp, UNCHANGED <<enqueued, unpushed>>
    PROVE  LifeInv'
<1> USE DEF ControllerInv, LifeInv
<1>1. /\ dpc = "signal" /\ dpc' = "pop" /\ dcmd' = NoCommand
      /\ Returned(dispatcher)
      /\ pickedUp' = pickedUp \cup {dcmd}
      /\ UNCHANGED <<cmdsQueue, sent, targets, current, internals,
                     commandLog, unlogged, jobresult, doneSignals, resultsLog,
                     calls>>
  BY DEF SignalPickedUp, LoopGoes, logVars, SignalAsPickedUp
<1>2. /\ dcmd \in Commands /\ dcmd \in sent /\ dcmd \notin ToSet(cmdsQueue)
      /\ NoCommand \notin Commands /\ current = NoAgent
      /\ DispatchedOrRefused(dcmd)
  BY <1>1, CoreAssumption
  DEF StageInv, SignalInv, ControllerTypeOK, DispatcherTypeOK
<1>3. StageInv'
  BY <1>1, <1>2 DEF StageInv, Untouched
<1>4. LoopInv' /\ TargetsInv' /\ CurrentInv'
  BY <1>1 DEF LoopInv, TargetsInv, CurrentInv
<1>5. SignalInv'
  <2>1. \A c \in Commands :
          AnsweredBy(internal(c), c)' <=> AnsweredBy(internal(c), c)
    BY <1>1 DEF AnsweredBy, Setting
  <2>2. QED BY <1>1, <1>2, <2>1 DEF SignalInv
<1>6. CallsInv'
  BY <1>1 DEF CallsInv, Owned, Written, ByInternal, ByAgent, Returned
<1>7. RecordInv' /\ FanoutInv'
  BY <1>1, <1>2 DEF RecordInv, FanoutInv, DispatchedOrRefused
<1>8. QED BY <1>3, <1>4, <1>5, <1>6, <1>7

\* The handler of an internal command answers.
LEMMA ExecuteKeepsLife ==
    ASSUME ControllerInv, NEW c \in Commands, ExecuteInternalCommand(c),
           UNCHANGED <<enqueued, unpushed>>
    PROVE  LifeInv'
<1> USE DEF ControllerInv, LifeInv
<1>1. PICK s \in InternalOutcomes(c) :
        RespondToCommand(internal(c), c, CommandKey(c), s)
  BY DEF ExecuteInternalCommand
<1>2. /\ internals[c] = "handler" /\ internals'[c] = "signal"
      /\ \A d \in Commands : d # c => internals'[d] = internals[d]
      /\ UNCHANGED <<cmdsQueue, sent, dpc, dcmd, targets, current,
                     commandLog, unlogged>>
      /\ UNCHANGED <<jobresult, doneSignals, resultsLog, pickedUp>>
  BY DEF ExecuteInternalCommand, ControllerTypeOK, DispatcherTypeOK, loopVars,
         logVars, RespondToCommand
<1>3. /\ Setting(internal(c))'
      /\ Setting(dispatcher)' <=> Setting(dispatcher)
      /\ Returned(dispatcher)' <=> Returned(dispatcher)
      /\ \A d \in Commands : d # c =>
           (Setting(internal(d))' <=> Setting(internal(d)))
  BY <1>1, CallBegins, ResponderNames
<1>4. c # dcmd /\ c \in sent /\ c \notin ToSet(cmdsQueue)
  BY <1>2 DEF StageInv, Untouched, SignalInv
<1>5. StageInv'
  BY <1>2, <1>4 DEF StageInv, Untouched
<1>6. LoopInv' /\ TargetsInv'
  BY <1>2, <1>4 DEF LoopInv, TargetsInv, Untouched, StageInv, ControllerTypeOK,
     DispatcherTypeOK
<1>7. CurrentInv'
  BY <1>2, <1>3 DEF CurrentInv
<1>8. SignalInv'
  <2>1. AnsweredBy(internal(c), c)'
    BY <1>2, <1>3 DEF AnsweredBy, SignalInv
  <2>2. /\ AnsweredBy(dispatcher, dcmd)' <=> AnsweredBy(dispatcher, dcmd)
        /\ \A d \in Commands : d # c =>
             (AnsweredBy(internal(d), d)' <=> AnsweredBy(internal(d), d))
        /\ DispatchedOrRefused(dcmd)' <=> DispatchedOrRefused(dcmd)
    BY <1>2, <1>3 DEF AnsweredBy, DispatchedOrRefused
  <2>3. QED BY <1>2, <2>1, <2>2 DEF SignalInv
<1>9. CallsInv'
  <2> DEFINE own == [by |-> internal(c), cmd |-> c, key |-> CommandKey(c),
                     state |-> s, step |-> "set"]
  <2>1. Owned(own)'
    BY <1>2 DEF Owned, ByInternal
  <2>2. \A call \in calls : call.by # internal(c)
    BY <1>1 DEF RespondToCommand, Returned
  <2>3. \A call \in calls : Owned(call)'
    BY <1>2, <2>2 DEF CallsInv, Owned, ByDispatcher, ByInternal, ByAgent
  <2>4. QED BY <1>1, <2>1, <2>3, BeginKeepsCalls
<1>10. RecordInv' /\ FanoutInv'
  BY <1>2 DEF RecordInv, FanoutInv, DispatchedOrRefused
<1>11. QED BY <1>5, <1>6, <1>7, <1>8, <1>9, <1>10

\* ... and signals the command as picked up.
LEMMA SignalInternalKeepsLife ==
    ASSUME ControllerInv, NEW c \in Commands, SignalInternal(c),
           UNCHANGED <<enqueued, unpushed>>
    PROVE  LifeInv'
<1> USE DEF ControllerInv, LifeInv
<1>1. /\ internals[c] = "signal" /\ internals'[c] = "none"
      /\ \A d \in Commands : d # c => internals'[d] = internals[d]
      /\ Returned(internal(c))
      /\ pickedUp' = pickedUp \cup {c}
      /\ UNCHANGED <<cmdsQueue, sent, dpc, dcmd, targets, current,
                     commandLog, unlogged,
                     jobresult, doneSignals, resultsLog, calls>>
  BY DEF SignalInternal, SignalAsPickedUp, ControllerTypeOK,
         DispatcherTypeOK, loopVars, logVars
<1>2. c # dcmd /\ c \in sent /\ c \notin ToSet(cmdsQueue) /\ IsInternal(c)
  BY <1>1 DEF StageInv, Untouched, SignalInv
<1>3. StageInv'
  BY <1>1, <1>2 DEF StageInv, Untouched
<1>4. LoopInv' /\ TargetsInv' /\ CurrentInv'
  BY <1>1, <1>2
  DEF LoopInv, TargetsInv, CurrentInv, Untouched, StageInv, Setting, Returned,
      ControllerTypeOK, DispatcherTypeOK
<1>5. SignalInv'
  <2>1. /\ AnsweredBy(dispatcher, dcmd)' <=> AnsweredBy(dispatcher, dcmd)
        /\ \A d \in Commands :
             AnsweredBy(internal(d), d)' <=> AnsweredBy(internal(d), d)
        /\ DispatchedOrRefused(dcmd)' <=> DispatchedOrRefused(dcmd)
    BY <1>1 DEF AnsweredBy, DispatchedOrRefused, Setting
  <2>2. QED BY <1>1, <2>1 DEF SignalInv
<1>6. CallsInv'
  <2>1. \A call \in calls : call.by # internal(c)
    BY <1>1 DEF Returned
  <2>2. \A call \in calls : Owned(call)'
    BY <1>1, <2>1 DEF CallsInv, Owned, ByDispatcher, ByInternal, ByAgent
  <2>3. QED BY <1>1, <2>2 DEF CallsInv, Written
<1>7. RecordInv' /\ FanoutInv'
  BY <1>1, <1>2 DEF RecordInv, FanoutInv, DispatchedOrRefused
<1>8. QED BY <1>3, <1>4, <1>5, <1>6, <1>7

\* A routine or an agent begins to respond to a command that was queued for
\* the agent.
LEMMA ReportKeepsLife ==
    ASSUME ControllerInv, NEW g, g # dispatcher,
           \A c \in Commands : g # internal(c),
           NEW a \in Agents, NEW c \in enqueued[a], NEW s, s # "QUEUED",
           RespondToCommand(g, c, a, s),
           UNCHANGED <<enqueued, unpushed, sent, cmdsQueue, dpc, dcmd, targets,
                       current, internals, commandLog, unlogged>>
    PROVE  LifeInv'
<1> USE DEF ControllerInv, LifeInv
<1>1. UNCHANGED <<jobresult, doneSignals, resultsLog, pickedUp>>
  BY DEF RespondToCommand
<1>2. /\ Setting(dispatcher)' <=> Setting(dispatcher)
      /\ Returned(dispatcher)' <=> Returned(dispatcher)
      /\ \A d \in Commands : Setting(internal(d))' <=> Setting(internal(d))
  BY CallBegins
<1>3. StageInv' /\ LoopInv' /\ TargetsInv'
  BY <1>1 DEF StageInv, LoopInv, TargetsInv, Untouched
<1>4. CurrentInv' /\ SignalInv'
  BY <1>1, <1>2 DEF CurrentInv, SignalInv, AnsweredBy, DispatchedOrRefused
<1>5. CallsInv'
  <2> DEFINE own == [by |-> g, cmd |-> c, key |-> a, state |-> s,
                     step |-> "set"]
  <2>1. Owned(own)'
    BY <1>1 DEF Owned, ByAgent
  <2>2. \A call \in calls : Owned(call)'
    BY <1>1 DEF CallsInv, Owned, ByDispatcher, ByInternal, ByAgent
  <2>3. QED BY <1>1, <2>1, <2>2, BeginKeepsCalls
<1>6. RecordInv' /\ FanoutInv'
  BY <1>1 DEF RecordInv, FanoutInv, DispatchedOrRefused
<1>7. QED BY <1>3, <1>4, <1>5, <1>6

\* A hand-over is of a queued command.
LEMMA HandOverKeepsLife ==
    ASSUME ControllerInv, NEW ch \in Chans, HandOverAndReport(ch)
    PROVE  LifeInv'
<1> USE DEF ControllerInv
<1>1. ChanAgent[ch] \in Agents /\ hand[ch] \in Commands
      /\ InHand(ChanAgent[ch], hand[ch])
  BY PollServiceAssumption
  DEF HandOverAndReport, HandOver, RoutineGoes, PollInv, RoutineInv, HandFull,
      InHand, Holds
<1>2. hand[ch] \in enqueued[ChanAgent[ch]]
  BY <1>1 DEF DeliveryInv, Accounted
<1>3. UNCHANGED <<enqueued, unpushed, sent, cmdsQueue, dpc, dcmd, targets,
                  current, internals, commandLog, unlogged>>
  BY DEF HandOverAndReport, HandOver, queueVars, dispatcherVars, tallyVars, historyVars
<1>4. RespondToCommand(routineOf(ch), hand[ch], ChanAgent[ch], "RUNNING")
  BY DEF HandOverAndReport
<1>5. QED BY <1>1, <1>2, <1>3, <1>4, ReportKeepsLife, ResponderNames

\* So is a command an agent answers.
LEMMA ResultKeepsLife ==
    ASSUME ControllerInv, NEW a \in Agents, NEW c \in Commands,
           PostResult(a, c)
    PROVE  LifeInv'
<1> USE DEF ControllerInv
<1>1. c \in enqueued[a]
  BY DEF PostResult, DeliveryInv, Accounted
<1>2. UNCHANGED <<enqueued, unpushed, sent, cmdsQueue, dpc, dcmd, targets,
                  current, internals, commandLog, unlogged>>
  BY DEF PostResult, pollVars, queueVars, dispatcherVars, historyVars
<1>3. PICK s \in {"SUCCESS", "ERROR"} :
        RespondToCommand(resultOf(a, c), c, a, s)
  BY DEF PostResult
<1>4. QED BY <1>1, <1>2, <1>3, ReportKeepsLife, ResponderNames

\* The command goes to the current target's list, or is lost on the way.
LEMMA DistributeKeepsLife ==
    ASSUME ControllerInv, NEW a \in Agents, DispatchTo(a) \/ DispatchLost(a)
    PROVE  LifeInv'
<1> USE DEF ControllerInv, LifeInv
<1>1. /\ dpc = "distribute" /\ current = a /\ current' = NoAgent
      /\ Returned(dispatcher)
      /\ targets' = targets \ {a}
      /\ dpc' = IF targets' = {} THEN "signal" ELSE "announce"
      /\ UNCHANGED <<cmdsQueue, sent, dcmd, internals, commandLog, unlogged>>
      /\ UNCHANGED responderVars
  BY DEF DispatchTo, DispatchLost, Distributed, logVars
<1>2. UNCHANGED <<jobresult, doneSignals, resultsLog, pickedUp, calls>>
  BY <1>1 DEF responderVars
<1>3. /\ enqueued'[a] \subseteq enqueued[a] \cup {dcmd}
      /\ \A b \in Agents : /\ b # a => enqueued'[b] = enqueued[b]
                           /\ enqueued[b] \subseteq enqueued'[b]
      /\ unpushed \subseteq unpushed'
      /\ dcmd \in enqueued'[a] \/ <<a, dcmd>> \in unpushed'
  <2>1. CASE DispatchTo(a)
    BY <2>1
    DEF DispatchTo, PushToAgent, tallyVars, historyVars, ControllerTypeOK, PollTypeOK
  <2>2. CASE DispatchLost(a)
    BY <2>2 DEF DispatchLost, pollVars, queueVars
  <2>3. QED BY <2>1, <2>2
<1>4. ~ Setting(dispatcher) /\ jobresult[dcmd][a] = "QUEUED"
  BY <1>1 DEF Setting, Returned, CurrentInv
<1>5. /\ dcmd \in Commands /\ dcmd \in sent /\ dcmd \notin ToSet(cmdsQueue)
      /\ a \in targets /\ NoAgent \notin Agents /\ targets \subseteq Agents
  BY <1>1, DispatcherAssumption
  DEF StageInv, CurrentInv, ControllerTypeOK, DispatcherTypeOK
<1>6. StageInv'
  BY <1>1, <1>2, <1>3, <1>5 DEF StageInv, Untouched
<1>7. LoopInv' /\ CurrentInv'
  BY <1>1, <1>2 DEF LoopInv, CurrentInv
<1>8. TargetsInv'
  <2>1. \A b \in targets' : b \in Agents /\ b # a
                            /\ dcmd \notin enqueued'[b]
                            /\ jobresult[dcmd][b] = NoResponse
    BY <1>1, <1>3, <1>5 DEF TargetsInv
  <2>2. \A k \in Keys :
          jobresult[dcmd][k] # NoResponse =>
             /\ k \in Agents
             /\ \/ dcmd \in enqueued'[k]
                \/ jobresult[dcmd][k] = "QUEUED" /\ <<k, dcmd>> \in unpushed'
    BY <1>1, <1>3, <1>4 DEF TargetsInv
  <2>3. QED BY <1>1, <1>2, <2>1, <2>2 DEF TargetsInv
<1>9. SignalInv'
  <2>1. AnsweredBy(dispatcher, dcmd)'
    BY <1>1, <1>2, <1>4, KeyTypes DEF AnsweredBy, Setting, NoResponse
  <2>2. DispatchedOrRefused(dcmd)'
    BY <1>1, <1>2, <1>3, KeyTypes DEF DispatchedOrRefused, TargetsInv
  <2>3. \A c \in Commands :
          AnsweredBy(internal(c), c)' <=> AnsweredBy(internal(c), c)
    BY <1>2 DEF AnsweredBy, Setting
  <2>4. QED BY <1>1, <1>2, <2>1, <2>2, <2>3 DEF SignalInv
<1>10. CallsInv'
  <2>1. \A call \in calls : call.by # dispatcher
    BY <1>1 DEF Returned
  <2>2. \A call \in calls : Owned(call)'
    BY <1>1, <1>2, <1>3, <2>1 DEF CallsInv, Owned, ByInternal, ByAgent
  <2>3. QED BY <1>2, <2>2 DEF CallsInv, Written
<1>11. RecordInv'
  <2>1. dcmd \in commandLog \cup unlogged /\ ~ IsInternal(dcmd)
    BY <1>1 DEF LoopInv
  <2>2. \A b \in Agents : \A c \in enqueued'[b] :
           jobresult[c][b] # NoResponse /\ c \in commandLog \cup unlogged
           /\ ~ IsInternal(c)
    BY <1>3, <1>4, <2>1 DEF RecordInv, NoResponse
  <2>3. \A c \in pickedUp : ~ IsInternal(c) => DispatchedOrRefused(c)'
    BY <1>2, <1>3 DEF RecordInv, DispatchedOrRefused
  <2>4. QED BY <1>1, <1>2, <2>2, <2>3 DEF RecordInv
<1>12. FanoutInv'
  <2>1. \A c \in Commands : ~ Content[c].fanout =>
          \A x, y \in Agents :
             c \in enqueued'[x] /\ c \in enqueued'[y] => x = y
    BY <1>1, <1>3 DEF FanoutInv
  <2>2. ~ Content[dcmd].fanout => targets' = {}
    BY <1>1, <1>5 DEF FanoutInv
  <2>3. QED BY <1>1, <2>1, <2>2 DEF FanoutInv
<1>13. QED BY <1>6, <1>7, <1>8, <1>9, <1>10, <1>11, <1>12

-----------------------------------------------------------------------------
(* The steps of a response in progress. *)

\* The loop announces a target, or refuses the command.
WritesAnnouncement(call) ==
    /\ call.by = dispatcher /\ call.cmd = dcmd
    /\ dpc = "distribute" /\ call.key = current /\ call.state = "QUEUED"
    /\ jobresult[dcmd][current] = NoResponse

WritesRefusal(call) ==
    /\ call.by = dispatcher /\ call.cmd = dcmd
    /\ dpc = "signal" /\ call.key = CommandKey(dcmd) /\ call.state = "ERROR"
    /\ \A k \in Keys : jobresult[dcmd][k] = NoResponse

\* An internal command is answered.
WritesAnswer(call, c) ==
    /\ call.by = internal(c) /\ call.cmd = c
    /\ internals[c] = "signal" /\ IsInternal(c)
    /\ c # dcmd /\ c \notin pickedUp
    /\ call.key = CommandKey(c) /\ call.state \in InternalOutcomes(c)
    /\ \A k \in Keys : jobresult[c][k] = NoResponse

\* A routine or an agent reports on a command the agent was given.
WritesReport(call) ==
    /\ call.by # dispatcher
    /\ \A c \in Commands : call.by # internal(c)
    /\ call.key \in Agents
    /\ call.cmd \in enqueued[call.key]
    /\ call.state # "QUEUED"
    /\ jobresult[call.cmd][call.key] # NoResponse
    /\ ~ IsInternal(call.cmd)
    /\ call.cmd \in commandLog \cup unlogged

\* These are all the writes to the hash.
LEMMA WhatIsWritten ==
    ASSUME LifeInv, NEW call \in calls, call.step = "set"
    PROVE  \/ WritesAnnouncement(call) \/ WritesRefusal(call)
           \/ \E c \in Commands : WritesAnswer(call, c)
           \/ WritesReport(call)
<1> USE DEF LifeInv
<1>1. Setting(call.by) /\ Owned(call)
  BY DEF Setting, CallsInv
<1>2. CASE call.by = dispatcher /\ ByDispatcher(call)
  BY <1>1, <1>2
  DEF ByDispatcher, CurrentInv, SignalInv, AnsweredBy, WritesAnnouncement,
      WritesRefusal
<1>3. ASSUME NEW c \in Commands, call.by = internal(c), ByInternal(call, c)
      PROVE  WritesAnswer(call, c)
  BY <1>1, <1>3 DEF ByInternal, SignalInv, AnsweredBy, WritesAnswer
<1>4. CASE /\ call.by # dispatcher
           /\ \A c \in Commands : call.by # internal(c)
           /\ ByAgent(call)
  BY <1>4 DEF ByAgent, RecordInv, WritesReport
<1>5. QED BY <1>1, <1>2, <1>3, <1>4 DEF Owned

\* A call that goes on is the same one.
LEMMA CallGoesOn ==
    ASSUME ResponderTypeOK, CallsInv, NEW call \in calls,
           NEW step, Advance(call, step)
    PROVE  \E next :
              /\ calls' = (calls \ {call}) \cup {next}
              /\ next.by = call.by /\ next.cmd = call.cmd
              /\ next.key = call.key /\ next.state = call.state
              /\ next.step = step
<1> DEFINE next == [call EXCEPT !.step = step]
<1>1. call \in [by: Responders, cmd: Commands, key: Keys,
                state: CommandStates, step: {"set", "done", "log"}]
  BY DEF ResponderTypeOK, Call
<1>2. /\ next.by = call.by /\ next.cmd = call.cmd
      /\ next.key = call.key /\ next.state = call.state /\ next.step = step
  BY <1>1
<1>3. QED BY <1>2 DEF Advance

\* Nobody else's calls change; its own is set no more.
LEMMA SettingAdvances ==
    ASSUME ResponderTypeOK, CallsInv, NEW call \in calls,
           NEW step, step # "set", Advance(call, step)
    PROVE  /\ \A h : Returned(h)' <=> Returned(h)
           /\ \A h : Setting(h)' <=> Setting(h) /\ h # call.by
           /\ \A x, y \in calls' : x.by = y.by => x = y
<1>1. PICK next :
        /\ calls' = (calls \ {call}) \cup {next}
        /\ next.by = call.by /\ next.step = step
  BY CallGoesOn
<1>2. \A x, y \in calls : x.by = y.by => x = y
  BY DEF CallsInv
<1>3. \A h : Returned(h)' <=> Returned(h)
  BY <1>1 DEF Returned
<1>4. \A h : Setting(h)' <=> Setting(h) /\ h # call.by
  BY <1>1, <1>2 DEF Setting
<1>5. \A x, y \in calls' : x.by = y.by => x = y
  BY <1>1, <1>2
<1>6. QED BY <1>3, <1>4, <1>5

\* Setting a result changes one field, and ends the setting.
LEMMA SetEffect ==
    ASSUME ResponderTypeOK, CallsInv, NEW call \in calls, SetResult(call)
    PROVE  /\ call.step = "set"
           /\ jobresult'[call.cmd][call.key] = call.state
           /\ \A c \in Commands, k \in Keys :
                c # call.cmd \/ k # call.key =>
                   jobresult'[c][k] = jobresult[c][k]
           /\ \A h : Returned(h)' <=> Returned(h)
           /\ \A h : Setting(h)' <=> Setting(h) /\ h # call.by
           /\ \A x, y \in calls' : x.by = y.by => x = y
           /\ UNCHANGED <<doneSignals, resultsLog, pickedUp>>
<1>1. call.cmd \in Commands /\ call.key \in Keys
  BY CallsAreTyped
<1>2. /\ call.step = "set"
      /\ jobresult' = [jobresult EXCEPT ![call.cmd][call.key] = call.state]
      /\ jobresult \in [Commands -> [Keys -> CommandStates \cup {NoResponse}]]
      /\ UNCHANGED <<doneSignals, resultsLog, pickedUp>>
  BY DEF SetResult, ResponderTypeOK
<1>3. /\ jobresult'[call.cmd][call.key] = call.state
      /\ \A c \in Commands, k \in Keys :
           c # call.cmd \/ k # call.key => jobresult'[c][k] = jobresult[c][k]
  BY <1>1, <1>2
<1>4. PICK step : step # "set" /\ Advance(call, step)
  BY DEF SetResult
<1>5. QED BY <1>2, <1>3, <1>4, SettingAdvances

\* A result that is set.
LEMMA SetKeepsLife ==
    ASSUME ControllerInv, NEW call \in calls, SetResult(call),
           UNCHANGED <<enqueued, unpushed, dispatcherVars>>
    PROVE  LifeInv'
<1> USE DEF ControllerInv, LifeInv
<1> DEFINE d == call.cmd
           f == call.key
<1>1. /\ d \in Commands /\ f \in Keys
      /\ call.state \in CommandStates /\ call.state # NoResponse
      /\ ResponderTypeOK
  BY CallsAreTyped DEF ControllerTypeOK
<1>2. /\ jobresult'[d][f] = call.state
      /\ \A c \in Commands, k \in Keys :
           c # d \/ k # f => jobresult'[c][k] = jobresult[c][k]
  BY <1>1, SetEffect
<1>3. /\ \A h : Returned(h)' <=> Returned(h)
      /\ \A h : Setting(h)' <=> Setting(h) /\ h # call.by
      /\ Setting(call.by)
      /\ \A x, y \in calls' : x.by = y.by => x = y
  BY <1>1, SetEffect DEF Setting
<1>4. UNCHANGED <<doneSignals, resultsLog, pickedUp, cmdsQueue, sent, dpc,
                  dcmd, targets, current, internals, commandLog, unlogged>>
  BY <1>1, SetEffect DEF dispatcherVars
<1>5. \/ WritesAnnouncement(call) \/ WritesRefusal(call)
      \/ \E c \in Commands : WritesAnswer(call, c)
      \/ WritesReport(call)
  BY <1>1, SetEffect, WhatIsWritten
<1> HIDE DEF d, f
<1>6. \A c \in Commands : c # dcmd /\ Untouched(c) => Untouched(c)'
  <2>1. ASSUME NEW c \in Commands, c # dcmd, Untouched(c) PROVE c # d
    BY <1>5, <2>1
    DEF Untouched, WritesAnnouncement, WritesRefusal, WritesAnswer,
        WritesReport, d
  <2>2. QED BY <1>2, <1>4, <2>1 DEF Untouched
<1>7. dpc \in {"log", "route", "filter", "refuse"} =>
        dcmd \in Commands /\ Untouched(dcmd)'
  <2>1. ASSUME dpc \in {"log", "route", "filter", "refuse"}
        PROVE  dcmd \in Commands /\ Untouched(dcmd) /\ dcmd # d
    <3>1. dcmd \in Commands /\ Untouched(dcmd)
      BY <2>1 DEF StageInv, LoopInv, ControllerTypeOK, DispatcherTypeOK
    <3>2. QED
      BY <1>5, <2>1, <3>1
      DEF Untouched, WritesAnnouncement, WritesRefusal, WritesAnswer,
          WritesReport, d
  <2>2. QED BY <1>2, <1>4, <2>1 DEF Untouched
<1>8. StageInv' /\ LoopInv'
  <2>1. \A c \in Commands :
          c \notin sent \/ c \in ToSet(cmdsQueue) => Untouched(c)'
    BY <1>6, CoreAssumption DEF StageInv
  <2>2. StageInv'
    BY <1>4, <2>1 DEF StageInv
  <2>3. LoopInv'
    BY <1>4, <1>7 DEF LoopInv
  <2>4. QED BY <2>2, <2>3
<1>9. targets \subseteq Agents /\ (dcmd = NoCommand \/ dcmd \in Commands)
  BY DEF ControllerTypeOK, DispatcherTypeOK
<1>10. dpc \in {"announce", "distribute"} /\ d = dcmd /\ f \in targets =>
         f = current
  BY <1>5
  DEF TargetsInv, WritesAnnouncement, WritesRefusal, WritesAnswer,
      WritesReport, d, f
<1>11. TargetsInv'
  <2> SUFFICES ASSUME dpc \in {"announce", "distribute"} PROVE TargetsInv'
    BY <1>4 DEF TargetsInv
  <2>1. dcmd \in Commands
    BY <1>9 DEF StageInv
  <2>2. \A a \in targets : a # current => jobresult'[dcmd][a] = NoResponse
    BY <1>2, <1>9, <1>10, <2>1, KeyTypes DEF TargetsInv
  <2>3. ASSUME NEW k \in Keys, jobresult'[dcmd][k] # NoResponse
        PROVE  /\ k \in Agents
               /\ \/ dcmd \in enqueued[k]
                  \/ /\ jobresult'[dcmd][k] = "QUEUED"
                     /\ k = current \/ <<k, dcmd>> \in unpushed
    <3>1. CASE d = dcmd /\ k = f
      BY <1>2, <1>5, <1>9, <3>1
      DEF TargetsInv, CurrentInv, WritesAnnouncement, WritesRefusal,
          WritesAnswer, WritesReport, d, f
    <3>2. CASE d # dcmd \/ k # f
      BY <1>2, <2>1, <2>3, <3>2 DEF TargetsInv
    <3>3. QED BY <3>1, <3>2
  <2>4. QED BY <1>4, <2>2, <2>3 DEF TargetsInv
<1>12. CurrentInv'
  <2> SUFFICES ASSUME dpc = "distribute"
               PROVE  jobresult'[dcmd][current] =
                        IF Setting(dispatcher)' THEN NoResponse ELSE "QUEUED"
    BY <1>3, <1>4 DEF CurrentInv
  <2>1. dcmd \in Commands /\ current \in Keys /\ current \in targets
    BY <1>9, KeyTypes DEF StageInv, CurrentInv
  <2>2. CASE call.by = dispatcher
    BY <1>2, <1>3, <1>5, <2>2, ResponderNames
    DEF WritesAnnouncement, WritesRefusal, WritesAnswer, WritesReport, d, f
  <2>3. CASE call.by # dispatcher
    <3>1. d # dcmd \/ f # current
      BY <1>5, <2>1, <2>3
      DEF TargetsInv, WritesAnnouncement, WritesRefusal, WritesAnswer,
          WritesReport, d, f
    <3>2. QED BY <1>2, <1>3, <2>1, <2>3, <3>1 DEF CurrentInv
  <2>4. QED BY <2>2, <2>3
<1>13. SignalInv'
  <2>1. ASSUME dpc = "signal"
        PROVE  AnsweredBy(dispatcher, dcmd)' /\ DispatchedOrRefused(dcmd)'
    <3>1. dcmd \in Commands
      BY <1>9, <2>1 DEF StageInv
    <3>2. CASE call.by = dispatcher
      <4>1. d = dcmd /\ call.state = "ERROR" /\ ~ Setting(dispatcher)'
        BY <1>3, <1>5, <2>1, <3>2, ResponderNames
        DEF WritesAnnouncement, WritesRefusal, WritesAnswer, WritesReport, d
      <4>2. AnsweredBy(dispatcher, dcmd)'
        BY <1>1, <1>2, <1>4, <4>1 DEF AnsweredBy
      <4>3. DispatchedOrRefused(dcmd)'
        BY <1>2, <1>4, <2>1, <3>1, <4>1, KeyTypes
        DEF SignalInv, DispatchedOrRefused
      <4>4. QED BY <4>2, <4>3
    <3>3. CASE call.by # dispatcher
      <4>1. d = dcmd => /\ f \in Agents /\ dcmd \in enqueued[f]
                        /\ jobresult[dcmd][f] # NoResponse
        BY <1>5, <3>3
        DEF WritesAnnouncement, WritesRefusal, WritesAnswer, WritesReport,
            d, f
      <4>2. AnsweredBy(dispatcher, dcmd)'
        BY <1>1, <1>2, <1>3, <1>4, <2>1, <3>1, <3>3, <4>1
        DEF SignalInv, AnsweredBy
      <4>3. DispatchedOrRefused(dcmd)'
        BY <1>2, <1>4, <2>1, <3>1, <4>1, KeyTypes
        DEF SignalInv, DispatchedOrRefused
      <4>4. QED BY <4>2, <4>3
    <3>4. QED BY <3>2, <3>3
  <2>2. ASSUME NEW c \in Commands, internals[c] = "handler"
        PROVE  \A k \in Keys : jobresult'[c][k] = NoResponse
    <3>1. c # d
      BY <1>1, <1>5, <2>2
      DEF SignalInv, WritesAnnouncement, WritesRefusal, WritesAnswer,
          WritesReport, d, f
    <3>2. QED BY <1>2, <2>2, <3>1 DEF SignalInv
  <2>3. ASSUME NEW c \in Commands, internals[c] = "signal"
        PROVE  AnsweredBy(internal(c), c)'
    <3>1. CASE d = c
      <4>1. call.by = internal(c)
        BY <1>5, <2>3, <3>1
        DEF SignalInv, WritesAnnouncement, WritesRefusal, WritesAnswer,
            WritesReport, d
      <4>2. QED BY <1>1, <1>2, <1>3, <3>1, <4>1 DEF AnsweredBy
    <3>2. CASE d # c
      <4>1. call.by # internal(c)
        BY <1>5, <3>2, ResponderNames
        DEF WritesAnnouncement, WritesRefusal, WritesAnswer, WritesReport, d
      <4>2. QED BY <1>2, <1>3, <2>3, <3>2, <4>1 DEF SignalInv, AnsweredBy
    <3>3. QED BY <3>1, <3>2
  <2>4. QED BY <1>4, <2>1, <2>2, <2>3 DEF SignalInv
<1>14. \A c \in Commands, k \in Keys :
         jobresult[c][k] # NoResponse =>
            /\ jobresult'[c][k] # NoResponse
            /\ jobresult[c][k] # "QUEUED" => jobresult'[c][k] # "QUEUED"
  <2>1. call.state = "QUEUED" => jobresult[d][f] = NoResponse
    BY <1>5, KeyTypes
    DEF WritesAnnouncement, WritesRefusal, WritesAnswer, WritesReport, d, f
  <2>2. QED BY <1>1, <1>2, <2>1
<1>15. CallsInv'
  <2>1. PICK next :
          /\ calls' = (calls \ {call}) \cup {next}
          /\ next.by = call.by /\ next.cmd = d
          /\ next.key = f /\ next.state = call.state
          /\ next.step = IF IsTerminalCommandState(call.state)
                         THEN "done" ELSE "log"
    BY <1>1, CallGoesOn DEF SetResult, d, f
  <2>2. Owned(next)'
    <3>1. Owned(call)
      BY DEF CallsInv
    <3>2. QED
      BY <1>4, <2>1, <3>1
      DEF Owned, ByDispatcher, ByInternal, ByAgent, d, f
  <2>3. Written(next)'
    BY <1>1, <1>2, <2>1 DEF Written, IsTerminalCommandState
  <2>4. ASSUME NEW other \in calls PROVE Owned(other)' /\ Written(other)'
    <3>1. Owned(other) /\ Written(other)
      BY DEF CallsInv
    <3>2. other.cmd \in Commands /\ other.key \in Keys
      BY <1>1, CallsAreTyped
    <3>3. Owned(other)'
      BY <1>4, <3>1 DEF Owned, ByDispatcher, ByInternal, ByAgent
    <3>4. Written(other)'
      BY <1>14, <3>1, <3>2 DEF Written
    <3>5. QED BY <3>3, <3>4
  <2>5. QED BY <1>3, <2>1, <2>2, <2>3, <2>4 DEF CallsInv
<1>16. RecordInv'
  <2>1. \A a \in Agents : \A c \in enqueued[a] :
          jobresult'[c][a] # NoResponse /\ c \in commandLog \cup unlogged
          /\ ~ IsInternal(c)
    BY <1>14, KeyTypes
    DEF RecordInv, ControllerTypeOK, PollTypeOK
  <2>2. \A sig \in doneSignals :
          jobresult'[sig[1]][sig[2]] \notin {NoResponse, "QUEUED"}
    BY <1>1, <1>14 DEF RecordInv, ResponderTypeOK, Response
  <2>3. \A entry \in resultsLog : jobresult'[entry[1]][entry[2]] # NoResponse
    BY <1>1, <1>14 DEF RecordInv, ResponderTypeOK, Response
  <2>4. ASSUME NEW c \in pickedUp, ~ IsInternal(c)
        PROVE  DispatchedOrRefused(c)'
    <3>1. c \in Commands /\ DispatchedOrRefused(c)
      BY <1>1, <2>4 DEF RecordInv, ResponderTypeOK
    <3>2. d = c /\ f \in Agents => c \in enqueued[f]
      BY <1>4, <1>5, <2>4
      DEF LoopInv, WritesAnnouncement, WritesRefusal, WritesAnswer,
          WritesReport, d, f
    <3>3. QED BY <1>2, <1>4, <3>1, <3>2, KeyTypes DEF DispatchedOrRefused
  <2>5. QED BY <1>4, <2>1, <2>2, <2>3, <2>4 DEF RecordInv
<1>17. FanoutInv'
  BY <1>4 DEF FanoutInv
<1>18. QED BY <1>8, <1>11, <1>12, <1>13, <1>15, <1>16, <1>17

\* A done signal follows its result.
LEMMA DoneKeepsLife ==
    ASSUME ControllerInv, NEW call \in calls, signalAsDone(call),
           UNCHANGED <<enqueued, unpushed, dispatcherVars>>
    PROVE  LifeInv'
<1> USE DEF ControllerInv, LifeInv
<1>1. /\ call.step = "done" /\ Advance(call, "log")
      /\ doneSignals' = doneSignals \cup {<<call.cmd, call.key, call.state>>}
      /\ ResponderTypeOK
      /\ UNCHANGED <<jobresult, resultsLog, pickedUp, cmdsQueue, sent, dpc,
                     dcmd, targets, current, internals, commandLog, unlogged>>
  BY DEF signalAsDone, Content3, ControllerTypeOK, dispatcherVars
<1>2. /\ \A h : Returned(h)' <=> Returned(h)
      /\ \A x, y \in calls' : x.by = y.by => x = y
  BY <1>1, SettingAdvances
<1>3. \A h : Setting(h)' <=> Setting(h)
  <2>1. \A h : Setting(h)' <=> Setting(h) /\ h # call.by
    BY <1>1, SettingAdvances
  <2>2. ~ Setting(call.by)
    BY <1>1 DEF Setting, CallsInv
  <2>3. QED BY <2>1, <2>2
<1>4. StageInv' /\ LoopInv' /\ TargetsInv' /\ FanoutInv'
  BY <1>1 DEF StageInv, LoopInv, TargetsInv, FanoutInv, Untouched
<1>5. CurrentInv' /\ SignalInv'
  BY <1>1, <1>2, <1>3
  DEF CurrentInv, SignalInv, AnsweredBy, DispatchedOrRefused
<1>6. /\ Owned(call)
      /\ jobresult[call.cmd][call.key] \notin {NoResponse, "QUEUED"}
  BY <1>1 DEF CallsInv, Written
<1>7. CallsInv'
  <2>1. PICK next :
          /\ calls' = (calls \ {call}) \cup {next}
          /\ next.by = call.by /\ next.cmd = call.cmd
          /\ next.key = call.key /\ next.state = call.state
          /\ next.step = "log"
    BY <1>1, CallGoesOn
  <2>2. Owned(next)' /\ Written(next)'
    BY <1>1, <1>6, <2>1
    DEF Owned, ByDispatcher, ByInternal, ByAgent, Written
  <2>3. \A other \in calls : Owned(other)' /\ Written(other)'
    BY <1>1
    DEF CallsInv, Owned, ByDispatcher, ByInternal, ByAgent, Written
  <2>4. QED BY <1>2, <2>1, <2>2, <2>3 DEF CallsInv
<1>8. RecordInv'
  BY <1>1, <1>6 DEF RecordInv, DispatchedOrRefused
<1>9. QED BY <1>4, <1>5, <1>7, <1>8

\* A response is logged, and its call returns.
LEMMA LogKeepsLife ==
    ASSUME ControllerInv, NEW call \in calls, LogResponse(call),
           UNCHANGED <<enqueued, unpushed, dispatcherVars>>
    PROVE  LifeInv'
<1> USE DEF ControllerInv, LifeInv
<1>1. /\ call.step = "log" /\ calls' = calls \ {call}
      /\ resultsLog' = resultsLog \cup {<<call.cmd, call.key, call.state>>}
      /\ UNCHANGED <<jobresult, doneSignals, pickedUp, cmdsQueue, sent, dpc,
                     dcmd, targets, current, internals, commandLog, unlogged>>
  BY DEF LogResponse, Content3, dispatcherVars
<1>2. \A h : Setting(h)' <=> Setting(h)
  BY <1>1 DEF Setting
<1>3. Owned(call) /\ jobresult[call.cmd][call.key] # NoResponse
  BY <1>1 DEF CallsInv, Written
<1>4. call.cmd \in commandLog \cup unlogged
  BY <1>3
  DEF Owned, ByDispatcher, ByInternal, ByAgent, LoopInv, SignalInv, RecordInv
<1>5. StageInv' /\ LoopInv' /\ TargetsInv' /\ FanoutInv'
  BY <1>1 DEF StageInv, LoopInv, TargetsInv, FanoutInv, Untouched
<1>6. CurrentInv'
  <2> SUFFICES ASSUME dpc = "distribute", ~ Returned(dispatcher)'
               PROVE  \A s \in CommandStates :
                        <<dcmd, current, s>> \notin resultsLog'
    BY <1>1, <1>2 DEF CurrentInv
  <2>1. ~ Returned(dispatcher) /\ call.by # dispatcher
    BY <1>1 DEF Returned, CallsInv
  <2>2. current \in targets
    BY DEF CurrentInv
  <2>3. call.cmd # dcmd \/ call.key # current
    BY <1>3, <2>1, <2>2
    DEF Owned, ByInternal, ByAgent, SignalInv, TargetsInv
  <2>4. QED BY <1>1, <2>1, <2>3 DEF CurrentInv
<1>7. SignalInv'
  BY <1>1, <1>2 DEF SignalInv, AnsweredBy, DispatchedOrRefused
<1>8. CallsInv'
  BY <1>1
  DEF CallsInv, Owned, ByDispatcher, ByInternal, ByAgent, Written
<1>9. RecordInv'
  BY <1>1, <1>3, <1>4 DEF RecordInv, DispatchedOrRefused
<1>10. QED BY <1>5, <1>6, <1>7, <1>8, <1>9

\* A crash forgets the loop, the goroutines and their calls; what reached
\* Redis still fits together.
LEMMA CrashKeepsLife ==
    ASSUME ControllerInv, CrashAll PROVE LifeInv'
<1> USE DEF ControllerInv, LifeInv
<1>1. /\ dpc' = "pop" /\ dcmd' = NoCommand /\ current' = NoAgent
      /\ internals' = [c \in Commands |-> "none"] /\ calls' = {}
      /\ UNCHANGED <<cmdsQueue, sent, commandLog, unlogged, jobresult,
                     doneSignals,
                     resultsLog, pickedUp, enqueued, unpushed>>
  BY DEF CrashAll, Crash, DispatcherCrash, ResponderCrash, logVars, queueVars,
         tallyVars, historyVars
<1>2. StageInv'
  BY <1>1 DEF StageInv, Untouched
<1>3. LoopInv' /\ TargetsInv' /\ CurrentInv' /\ SignalInv' /\ CallsInv'
  BY <1>1 DEF LoopInv, TargetsInv, CurrentInv, SignalInv, CallsInv
<1>4. RecordInv' /\ FanoutInv'
  BY <1>1 DEF RecordInv, FanoutInv, DispatchedOrRefused
<1>5. QED BY <1>2, <1>3, <1>4

-----------------------------------------------------------------------------
\* Every step preserves the invariant.
LEMMA NextController ==
    ASSUME ControllerInv, [Next]_vars PROVE ControllerInv'
<1>1. ASSUME NEW c \in Commands, Internal(c) PROVE LifeInv'
  <2>1. UNCHANGED <<enqueued, unpushed>>
    BY <1>1 DEF Internal, pollVars, queueVars, tallyVars, historyVars
  <2>2. QED
    BY <1>1, <2>1, ExecuteKeepsLife, SignalInternalKeepsLife
    DEF Internal, InternalStep
<1>2. ASSUME Loop PROVE LifeInv'
  <2>1. UNCHANGED <<enqueued, unpushed>>
    BY <1>2 DEF Loop, pollVars, queueVars, tallyVars, historyVars
  <2>2. QED
    BY <1>2, <2>1, PopKeepsLife, ChoosingKeepsLife, StartInternalKeepsLife,
       AnnounceKeepsLife, RefuseKeepsLife, PickUpKeepsLife
    DEF Loop, LoopStep, ChoosingStep
<1>3. ASSUME PopCommandLost PROVE LifeInv'
  BY <1>3, PopKeepsLife
  DEF PopCommandLost, pollVars, queueVars, tallyVars, historyVars
<1>4. ASSUME NEW call \in calls, Responding(call) PROVE LifeInv'
  <2>1. UNCHANGED <<enqueued, unpushed, dispatcherVars>>
    BY <1>4 DEF Responding, pollVars, queueVars, tallyVars, historyVars
  <2>2. QED
    BY <1>4, <2>1, SetKeepsLife, DoneKeepsLife, LogKeepsLife
    DEF Responding, CallStep
<1>5. ASSUME NEW ch \in Chans, Routine(ch) PROVE LifeInv'
  <2>1. CASE HandOverAndReport(ch)
    BY <2>1, HandOverKeepsLife
  <2>2. CASE ~ HandOverAndReport(ch)
    <3>1. UNCHANGED lifeOnly
      BY <1>5, <2>2
      DEF Routine, FinishReport, ReportedRunning, Accept, RecordRoles,
          BlockingDequeue, DequeueTimeout, OfferRefused,
          ReportUnexecutedCommand, CloseMsgChan, Expire, CleanUp, queueVars,
          dispatcherVars, tallyVars, historyVars, lifeOnly
    <3>2. QED BY <3>1, QuietKeepsLife DEF ControllerInv
  <2>3. QED BY <2>1, <2>2
<1>6. ASSUME Disturbance \/ (\E p \in Polls : Handler(p)) \/ UNCHANGED vars
      PROVE  LifeInv'
  <2>1. UNCHANGED lifeOnly
    BY <1>6
    DEF Disturbance, Handler, HandlerStep, SendPanics, EnterWait,
        ReceiveClosed, Reply, DequeueLost, RequeueLost, StartPoll,
        SendTimeout, GiveUp, ReplyLost, Event, queueVars, dispatcherVars,
        tallyVars, historyVars, pollVars, vars, lifeOnly
  <2>2. QED BY <2>1, QuietKeepsLife DEF ControllerInv
<1>7. LifeInv'
  BY <1>1, <1>2, <1>3, <1>4, <1>5, <1>6, PushKeepsLife, DistributeKeepsLife,
     ResultKeepsLife, CrashKeepsLife
  DEF Next, Work
<1>8. QED BY <1>7, NextTyped, PollStays DEF ControllerInv

\* The invariant holds in every reachable state.
THEOREM ControllerInvariance == Spec => []ControllerInv
<1>1. ControllerInv /\ [Next]_vars => ControllerInv'
  BY NextController
<1>2. QED BY ControllerInitInv, <1>1, PTL DEF Spec

-----------------------------------------------------------------------------
(* What clients see. *)

\* Every variable of the controller keeps its type: no response, push or
\* signal is ever made for no command (application.go:231-275).
THEOREM ControllerTypeCorrect == Spec => []ControllerTypeOK
<1>1. ControllerInv => ControllerTypeOK
  BY DEF ControllerInv
<1>2. QED BY ControllerInvariance, <1>1, PTL

\* The controller is an environment the poll service allows, so that every
\* theorem about PollSpec holds of it (application.go:262-275).
THEOREM PollServiceImplemented == Spec => ImplementsPollService
<1>1. Init => PollInit
  BY DEF Init
<1>2. ControllerInv /\ [Next]_vars => [PollNext]_pollVars
  BY StepIsPollStep
<1>3. QED
  BY <1>1, <1>2, ControllerInvariance, PTL
  DEF Spec, ImplementsPollService, PollSpec

\* In particular no command reaches an agent of the controller twice
\* (application.go:262-336).
COROLLARY NoCommandTwiceHere == Spec => []CommandInOnePlace
  BY PollServiceImplemented, NoCommandTwice, PTL DEF ImplementsPollService

\* Nor do the loop's reads of the agent information disturb the service: each
\* agent has one routine at most and it is the registered one, serves one poll
\* at a time, drops only an agent without a served poll, and delivers as
\* Delivery says (application.go:281-349).
COROLLARY ServedInController ==
    Spec => /\ []LiveRoutineIsRegistered
            /\ []OnePollServed
            /\ DropsOnlyUnserved
            /\ ImplementsDelivery
  BY PollServiceImplemented, RegistrySafe, ExclusiveService, DropsAreSafe,
     DeliveryRefined, PTL
  DEF ImplementsPollService

\* Whoever the loop finds in the list has a routine that will drop it when it
\* falls silent, or was left without one by an event of its own
\* (application.go:294-298, 316; events/events.go:71-73).
COROLLARY ListedAgentsHere == Spec => OnlyEventsStrand
  BY PollServiceImplemented, ListedAgentsAreServed DEF ImplementsPollService

\* A command is announced before it is queued, whatever crashes in between
\* (application.go:266-270).
THEOREM AnnouncedFirst == Spec => []EnqueuedIsAnnounced
<1>1. ControllerInv => EnqueuedIsAnnounced
  BY DEF ControllerInv, LifeInv, RecordInv, EnqueuedIsAnnounced
<1>2. QED BY ControllerInvariance, <1>1, PTL

\* A done signal means that the result was written, and only a late RUNNING
\* can have replaced it (redisdata/commandresponder.go:45-58).
THEOREM DoneMeansWritten == Spec => []DoneIsRecorded
<1>1. ControllerInv => DoneIsRecorded
  <2> SUFFICES ASSUME ControllerInv, NEW sig \in doneSignals
               PROVE  \/ /\ IsTerminalCommandState(jobresult[sig[1]][sig[2]])
                         /\ jobresult[sig[1]][sig[2]] # NoResponse
                      \/ jobresult[sig[1]][sig[2]] = "RUNNING"
    BY DEF DoneIsRecorded
  <2>1. jobresult[sig[1]][sig[2]] \notin {NoResponse, "QUEUED"}
    BY DEF ControllerInv, LifeInv, RecordInv
  <2>2. QED BY <2>1 DEF IsTerminalCommandState
<1>2. QED BY ControllerInvariance, <1>1, PTL

\* What is picked up has been queued for every agent it was announced to,
\* but for pushes that failed (application.go:262-275).
THEOREM DispatchedAtPickUp == Spec => []PickedUpIsDispatched
<1>1. ControllerInv => PickedUpIsDispatched
  BY DEF ControllerInv, LifeInv, RecordInv, DispatchedOrRefused,
         PickedUpIsDispatched
<1>2. QED BY ControllerInvariance, <1>1, PTL

\* Without fan-out one agent at most gets the command, however many there
\* are and however they come and go (application/agentpicking.go:19-24).
THEOREM OneAgentChosen == Spec => []OneAgentWithoutFanout
<1>1. ControllerInv => OneAgentWithoutFanout
  <2> SUFFICES ASSUME ControllerInv, NEW c \in Commands,
                      ~ Content[c].fanout
               PROVE  Cardinality({a \in Agents : c \in enqueued[a]}) <= 1
    BY DEF OneAgentWithoutFanout
  <2> DEFINE S == {a \in Agents : c \in enqueued[a]}
  <2>1. \A a, b \in S : a = b
    BY DEF ControllerInv, LifeInv, FanoutInv
  <2>2. S = {} => Cardinality(S) = 0
    BY FS_EmptySet
  <2>3. ASSUME NEW a \in S PROVE Cardinality(S) = 1
    <3>1. S = {a}
      BY <2>1, <2>3
    <3>2. QED BY <3>1, FS_Singleton
  <2>4. Cardinality(S) = 0 \/ Cardinality(S) = 1
    BY <2>2, <2>3
  <2>5. Cardinality(S) <= 1
    <3> HIDE DEF S
    <3>1. QED BY <2>4
  <2>6. QED BY <2>5
<1>2. QED BY ControllerInvariance, <1>1, PTL

\* What clients can read of responses.
written == <<jobresult, doneSignals, resultsLog>>

\* A step writes nothing of it, or is one of a response in progress.
LEMMA WriteStep ==
    ASSUME ControllerInv, [Next]_vars
    PROVE  \/ UNCHANGED written
           \/ \E call \in calls :
                /\ CallStep(call)
                /\ UNCHANGED <<enqueued, unpushed, dispatcherVars, pickedUp>>
<1>1. ASSUME NEW g, NEW c, NEW k, NEW s, RespondToCommand(g, c, k, s)
      PROVE  UNCHANGED written
  BY <1>1 DEF RespondToCommand, written
<1>2. ASSUME Loop PROVE UNCHANGED written
  BY <1>2
  DEF Loop, LoopStep, BlockingPop, LogCommand, StartInternal,
      SnapshotCandidates, CheckRoles, ChooseTargets, ChooseNode,
      RespondNoAgents, AnnounceQueued, SignalPickedUp, RespondToCommand,
      SignalAsPickedUp, responderVars, written
<1>3. ASSUME NEW c \in Commands, SendCommand(c) \/ Internal(c)
      PROVE  UNCHANGED written
  BY <1>3
  DEF SendCommand, Push, Internal, InternalStep, ExecuteInternalCommand,
      SignalInternal, RespondToCommand, SignalAsPickedUp, responderVars,
      written
<1>4. ASSUME NEW a \in Agents, DispatchTo(a) \/ DispatchLost(a)
      PROVE  UNCHANGED written
  BY <1>4 DEF DispatchTo, DispatchLost, Distributed, responderVars, written
<1>5. ASSUME NEW ch \in Chans, Routine(ch) PROVE UNCHANGED written
  BY <1>1, <1>5 DEF Routine, HandOverAndReport, FinishReport, responderVars,
     written
<1>6. ASSUME NEW a \in Agents, NEW c \in Commands, PostResult(a, c)
      PROVE  UNCHANGED written
  BY <1>1, <1>6 DEF PostResult
<1>7. ASSUME \/ \E p \in Polls : Handler(p)
             \/ Disturbance \/ PopCommandLost \/ CrashAll \/ UNCHANGED vars
      PROVE  UNCHANGED written
  BY <1>7
  DEF Handler, Disturbance, PopCommandLost, PopLost, CrashAll,
      DispatcherCrash, ResponderCrash, vars, responderVars, written
<1>8. ASSUME NEW call \in calls, Responding(call)
      PROVE  UNCHANGED <<enqueued, unpushed, dispatcherVars, pickedUp>>
  BY <1>8
  DEF Responding, CallStep, SetResult, signalAsDone, LogResponse, pollVars,
      queueVars, tallyVars, historyVars
<1>9. QED
  BY <1>2, <1>3, <1>4, <1>5, <1>6, <1>7, <1>8 DEF Next, Work, Responding

\* A picked-up command and one with a response have passed the loop's push
\* to the command log.
MarksInv ==
    \A c \in Commands :
        \/ c \in pickedUp
        \/ \E k \in Keys : jobresult[c][k] # NoResponse
        => c \in commandLog \cup unlogged

\* Only the loop and a goroutine of an internal command give the signal.
LEMMA SignalStep ==
    ASSUME [Next]_vars
    PROVE  \/ UNCHANGED pickedUp
           \/ SignalPickedUp
           \/ \E c \in Commands : SignalInternal(c)
<1> SUFFICES ASSUME ~ SignalPickedUp, ~ \E c \in Commands : SignalInternal(c)
             PROVE  UNCHANGED pickedUp
  OBVIOUS
<1>1. ASSUME Loop PROVE UNCHANGED pickedUp
  BY <1>1
  DEF Loop, LoopStep, BlockingPop, LogCommand, StartInternal,
      SnapshotCandidates, CheckRoles, ChooseTargets, ChooseNode,
      RespondNoAgents, AnnounceQueued, RespondToCommand, responderVars
<1>2. ASSUME NEW c \in Commands, SendCommand(c) \/ Internal(c)
      PROVE  UNCHANGED pickedUp
  BY <1>2
  DEF SendCommand, Push, Internal, InternalStep, ExecuteInternalCommand,
      RespondToCommand, responderVars
<1>3. ASSUME NEW a \in Agents, DispatchTo(a) \/ DispatchLost(a)
      PROVE  UNCHANGED pickedUp
  BY <1>3 DEF DispatchTo, DispatchLost, Distributed, responderVars
<1>4. ASSUME NEW ch \in Chans, Routine(ch) PROVE UNCHANGED pickedUp
  BY <1>4 DEF Routine, HandOverAndReport, FinishReport, RespondToCommand,
     responderVars
<1>5. ASSUME NEW a \in Agents, NEW c \in Commands, PostResult(a, c)
      PROVE  UNCHANGED pickedUp
  BY <1>5 DEF PostResult, RespondToCommand
<1>6. ASSUME \/ \E p \in Polls : Handler(p)
             \/ Disturbance \/ PopCommandLost \/ CrashAll \/ UNCHANGED vars
      PROVE  UNCHANGED pickedUp
  BY <1>6
  DEF Handler, Disturbance, PopCommandLost, PopLost, CrashAll,
      DispatcherCrash, ResponderCrash, vars, responderVars
<1>7. ASSUME NEW call \in calls, Responding(call) PROVE UNCHANGED pickedUp
  BY <1>7 DEF Responding, CallStep, SetResult, signalAsDone, LogResponse
<1>8. QED
  BY <1>1, <1>2, <1>3, <1>4, <1>5, <1>6, <1>7 DEF Next, Work

\* A command that passed the push to the log stays in the log or counted.
LEMMA LogsGrow ==
    ASSUME [Next]_vars
    PROVE  commandLog \cup unlogged \subseteq (commandLog \cup unlogged)'
<1>1. CASE LogCommand
  BY <1>1 DEF LogCommand
<1>2. CASE ~ LogCommand
  <2>1. UNCHANGED <<commandLog, unlogged>>
    BY <1>2
    DEF Next, Work, Loop, LoopStep, BlockingPop, StartInternal,
        SnapshotCandidates, CheckRoles, ChooseTargets, ChooseNode,
        RespondNoAgents, AnnounceQueued, SignalPickedUp, SendCommand, Push,
        Internal, InternalStep, ExecuteInternalCommand, SignalInternal,
        DispatchTo, DispatchLost, Distributed, Routine, HandOverAndReport,
        FinishReport, PostResult, Handler, Disturbance, PopCommandLost,
        PopLost, Responding, CrashAll, DispatcherCrash, vars, dispatcherVars,
        logVars
  <2>2. QED BY <2>1
<1>3. QED BY <1>1, <1>2

\* Who writes a response or gives the signal handles a command that passed
\* the push to the log.
LEMMA MarksAreLogged ==
    ASSUME ControllerInv, MarksInv, [Next]_vars PROVE MarksInv'
<1> USE DEF ControllerInv, LifeInv
<1> SUFFICES ASSUME NEW c \in Commands,
                    \/ c \in pickedUp'
                    \/ \E k \in Keys : jobresult'[c][k] # NoResponse
             PROVE  c \in (commandLog \cup unlogged)'
  BY DEF MarksInv
<1>1. commandLog \cup unlogged \subseteq (commandLog \cup unlogged)'
  BY LogsGrow
<1>2. CASE c \in pickedUp'
  <2>1. ASSUME SignalPickedUp PROVE c \in commandLog \cup unlogged
    BY <1>2, <2>1
    DEF SignalPickedUp, SignalAsPickedUp, LoopGoes, LoopInv, MarksInv
  <2>2. ASSUME NEW d \in Commands, SignalInternal(d)
        PROVE  c \in commandLog \cup unlogged
    BY <1>2, <2>2 DEF SignalInternal, SignalAsPickedUp, SignalInv, MarksInv
  <2>3. ASSUME UNCHANGED pickedUp PROVE c \in commandLog \cup unlogged
    BY <1>2, <2>3 DEF MarksInv
  <2>4. QED BY <1>1, <2>1, <2>2, <2>3, SignalStep
<1>3. ASSUME NEW k \in Keys, jobresult'[c][k] # NoResponse
      PROVE  c \in commandLog \cup unlogged
  <2>1. ASSUME NEW call \in calls, SetResult(call)
        PROVE  c \in commandLog \cup unlogged
    <3>1. jobresult'[c][k] = jobresult[c][k] \/ c = call.cmd
      BY <2>1, SetEffect DEF ControllerTypeOK
    <3>2. call.cmd \in commandLog \cup unlogged
      BY DEF CallsInv, Owned, ByDispatcher, ByInternal, ByAgent, LoopInv,
             SignalInv, RecordInv
    <3>3. QED BY <1>3, <3>1, <3>2 DEF MarksInv
  <2>2. ASSUME UNCHANGED jobresult PROVE c \in commandLog \cup unlogged
    BY <1>3, <2>2 DEF MarksInv
  <2>3. QED
    BY <2>1, <2>2, WriteStep
    DEF CallStep, signalAsDone, LogResponse, written
<1>4. QED BY <1>1, <1>2, <1>3

\* Nothing comes of a command before the loop pushed it to the command log,
\* whoever writes it, and past a failing push the log alone lacks it
\* (logged/commandsource.go:13-23, application.go:246-274).
THEOREM LoggedBeforeAnswered == Spec => []NothingUnlogged
<1>1. Init => MarksInv
  BY DEF Init, ResponderInit, MarksInv
<1>2. ControllerInv /\ MarksInv /\ [Next]_vars => MarksInv'
  BY MarksAreLogged
<1>3. ControllerInv /\ MarksInv => NothingUnlogged
  <2> SUFFICES ASSUME ControllerInv, MarksInv, NEW c \in Commands,
                      c \notin commandLog \cup unlogged
               PROVE  /\ c \notin pickedUp
                      /\ \A a \in Agents : c \notin enqueued[a]
                      /\ \A k \in Keys : jobresult[c][k] = NoResponse
                      /\ \A entry \in doneSignals \cup resultsLog :
                           entry[1] # c
    BY DEF NothingUnlogged
  <2>1. c \notin pickedUp /\ \A k \in Keys : jobresult[c][k] = NoResponse
    BY DEF MarksInv
  <2>2. \A a \in Agents : c \notin enqueued[a]
    BY DEF ControllerInv, LifeInv, RecordInv
  <2>3. ASSUME NEW entry \in doneSignals \cup resultsLog PROVE entry[1] # c
    <3>1. entry[2] \in Keys
      BY DEF ControllerInv, ControllerTypeOK, ResponderTypeOK, Response
    <3>2. jobresult[entry[1]][entry[2]] # NoResponse
      BY DEF ControllerInv, LifeInv, RecordInv
    <3>3. QED BY <2>1, <3>1, <3>2
  <2>4. QED BY <2>1, <2>2, <2>3
<1>4. QED BY <1>1, <1>2, <1>3, ControllerInvariance, PTL DEF Spec

\* A write never takes a field back to QUEUED, and after the pick-up signal
\* it only goes to a field that is there.
LEMMA WritesAreOrdered ==
    ASSUME ControllerInv, [Next]_vars,
           NEW c \in Commands, NEW k \in Keys
    PROVE  /\ c \in pickedUp /\ jobresult[c][k] = NoResponse =>
                jobresult'[c][k] = NoResponse
           /\ jobresult[c][k] \notin {NoResponse, "QUEUED"} =>
                jobresult'[c][k] # "QUEUED"
<1> USE DEF ControllerInv, LifeInv
<1>1. CASE UNCHANGED jobresult
  BY <1>1
<1>2. ASSUME NEW call \in calls, SetResult(call),
             c = call.cmd, k = call.key
      PROVE  /\ c \in pickedUp => jobresult[c][k] # NoResponse
             /\ call.state = "QUEUED" => jobresult[c][k] = NoResponse
  <2>1. \/ WritesAnnouncement(call) \/ WritesRefusal(call)
        \/ \E d \in Commands : WritesAnswer(call, d)
        \/ WritesReport(call)
    BY <1>2, WhatIsWritten DEF SetResult
  <2>2. dpc \in {"distribute", "signal"} => dcmd \notin pickedUp
    BY DEF LoopInv
  <2>3. \A d : "QUEUED" \notin InternalOutcomes(d)
    BY KeyTypes
  <2>4. QED
    BY <1>2, <2>1, <2>2, <2>3
    DEF WritesAnnouncement, WritesRefusal, WritesAnswer, WritesReport
<1>3. ASSUME NEW call \in calls, SetResult(call)
      PROVE  \/ jobresult'[c][k] = jobresult[c][k]
             \/ /\ c = call.cmd /\ k = call.key
                /\ jobresult'[c][k] = call.state
  BY <1>3, SetEffect DEF ControllerTypeOK
<1>4. ASSUME NEW call \in calls, signalAsDone(call) \/ LogResponse(call)
      PROVE  UNCHANGED jobresult
  BY <1>4 DEF signalAsDone, LogResponse
<1>5. QED BY <1>1, <1>2, <1>3, <1>4, WriteStep DEF CallStep, written

\* The pick-up signal is the last thing that can add a responder: a client
\* that reads the hash after it knows whom to wait for
\* (client/lowlevelclient.go:137-155).
THEOREM RespondersFixed == Spec => RespondersFixedAtPickUp
<1> DEFINE A == \A c \in pickedUp, k \in Keys :
                  jobresult[c][k] = NoResponse => jobresult'[c][k] = NoResponse
<1>1. ControllerInv /\ [Next]_vars => A
  BY WritesAreOrdered DEF ControllerInv, ControllerTypeOK, ResponderTypeOK
<1>2. QED
  BY ControllerInvariance, <1>1, PTL DEF Spec, RespondersFixedAtPickUp

\* A response never goes back to QUEUED (application.go:266-270, 329-331,
\* rest/result.go:37).
THEOREM ForwardFromQueued == Spec => NeverBackToQueued
<1> DEFINE A == \A c \in Commands, k \in Keys :
                  jobresult[c][k] \notin {NoResponse, "QUEUED"} =>
                     jobresult'[c][k] # "QUEUED"
<1>1. ControllerInv /\ [Next]_vars => A
  BY WritesAreOrdered
<1>2. QED
  BY ControllerInvariance, <1>1, PTL DEF Spec, NeverBackToQueued

\* The QUEUED of an agent is the first of its responses in the log
\* (application.go:266-270, logged/commandresponder.go:18).
THEOREM QueuedLoggedFirst == Spec => QueuedIsLoggedFirst
<1> DEFINE A == \A entry \in resultsLog' \ resultsLog :
                  entry[3] = "QUEUED" =>
                     \A s \in CommandStates :
                        <<entry[1], entry[2], s>> \notin resultsLog
<1>1. ASSUME ControllerInv, [Next]_vars PROVE A
  <2>1. ASSUME NEW call \in calls, LogResponse(call), call.state = "QUEUED",
               NEW s \in CommandStates
        PROVE  <<call.cmd, call.key, s>> \notin resultsLog
    <3>1. Owned(call) /\ "QUEUED" \notin InternalOutcomes(call.cmd)
      BY <1>1, KeyTypes DEF ControllerInv, LifeInv, CallsInv
    <3>2. /\ call.by = dispatcher /\ dpc = "distribute"
          /\ call.cmd = dcmd /\ call.key = current
      BY <2>1, <3>1 DEF Owned, ByDispatcher, ByInternal, ByAgent
    <3>3. ~ Returned(dispatcher)
      BY <3>2 DEF Returned
    <3>4. QED BY <1>1, <3>2, <3>3 DEF ControllerInv, LifeInv, CurrentInv
  <2>2. ASSUME NEW entry \in resultsLog' \ resultsLog
        PROVE  \E call \in calls :
                  /\ LogResponse(call)
                  /\ entry = <<call.cmd, call.key, call.state>>
    BY <1>1, <2>2, WriteStep
    DEF CallStep, SetResult, signalAsDone, LogResponse, Content3, written
  <2>3. QED BY <2>1, <2>2
<1>2. QED
  BY ControllerInvariance, <1>1, PTL DEF Spec, QueuedIsLoggedFirst

-----------------------------------------------------------------------------
(* The refinement of CommandLifecycle. *)

\* Both specifications speak of the same commands and states.
LEMMA LifeIsCore ==
    /\ Life!Keys = Keys
    /\ Life!NoResponse = NoResponse
    /\ Life!CommandStates = CommandStates
    /\ \A c : Life!CommandKey(c) = CommandKey(c)
    /\ \A c : Life!IsInternal(c) <=> IsInternal(c)
    /\ \A c : Life!InternalOutcomes(c) = InternalOutcomes(c)
    /\ \A s : Life!IsTerminalCommandState(s) <=> IsTerminalCommandState(s)
<1>1. \A c : Life!CommandKey(c) = CommandKey(c)
  BY DEF Life!CommandKey, CommandKey
<1>2. Life!Keys = Keys
  BY <1>1 DEF Life!Keys, Keys
<1>3. Life!NoResponse = NoResponse /\ Life!CommandStates = CommandStates
  BY DEF Life!NoResponse, NoResponse, Life!CommandStates, CommandStates
<1>4. /\ \A c : Life!IsInternal(c) <=> IsInternal(c)
      /\ \A c : Life!InternalOutcomes(c) = InternalOutcomes(c)
      /\ \A s : Life!IsTerminalCommandState(s) <=> IsTerminalCommandState(s)
  BY DEF Life!IsInternal, IsInternal, Life!InternalOutcomes,
         InternalOutcomes, Life!IsTerminalCommandState,
         IsTerminalCommandState
<1>5. QED BY <1>1, <1>2, <1>3, <1>4

\* A result that is set is an answer, an announcement or a report.
LEMMA SetIsAllowed ==
    ASSUME ControllerInv, NEW call \in calls, SetResult(call),
           UNCHANGED <<enqueued, unpushed, dispatcherVars>>
    PROVE  Life!LifecycleNext
<1> USE DEF ControllerInv, LifeInv
<1>1. /\ call.cmd \in Commands /\ call.key \in Keys
      /\ call.state \in CommandStates /\ call.step = "set"
  BY CallsAreTyped DEF ControllerTypeOK, SetResult
<1>2. Life!Respond(call.cmd, call.key, call.state)
  BY LifeIsCore DEF SetResult, dispatcherVars, Life!Respond
<1>3. CASE WritesAnnouncement(call)
  <2>1. /\ current \in Agents /\ dcmd \in sent /\ dcmd \notin pickedUp
        /\ ~ IsInternal(dcmd)
    BY <1>3
    DEF WritesAnnouncement, CurrentInv, StageInv, LoopInv, ControllerTypeOK,
        DispatcherTypeOK
  <2>2. \A k \in Keys : jobresult[dcmd][k] # NoResponse =>
          \/ jobresult[dcmd][k] = "QUEUED"
          \/ k \in Agents /\ dcmd \in enqueued[k]
    BY <1>3 DEF WritesAnnouncement, TargetsInv
  <2>3. Life!Announce(dcmd, current)
    BY <1>2, <1>3, <2>1, <2>2, LifeIsCore
    DEF WritesAnnouncement, Life!Announce, Life!Present, Life!ResponseTo
  <2>4. QED
    BY <1>1, <1>3, <2>1, <2>3, LifeIsCore
    DEF WritesAnnouncement, Life!LifecycleNext, Life!Responding
<1>4. CASE WritesRefusal(call)
  <2>1. dcmd \in sent /\ dcmd \notin pickedUp /\ ~ IsInternal(dcmd)
    BY <1>4 DEF WritesRefusal, StageInv, LoopInv
  <2>2. Life!Answer(dcmd)
    BY <1>2, <1>4, <2>1, LifeIsCore
    DEF WritesRefusal, Life!Answer, Life!Present, Life!ResponseTo,
        Life!AnswerStates
  <2>3. QED
    BY <1>1, <1>4, <2>2, LifeIsCore
    DEF WritesRefusal, Life!LifecycleNext, Life!Responding
<1>5. ASSUME NEW c \in Commands, WritesAnswer(call, c)
      PROVE  Life!LifecycleNext
  <2>1. c \in sent
    BY <1>5 DEF WritesAnswer, StageInv, Untouched
  <2>2. Life!Answer(c)
    BY <1>2, <1>5, <2>1, LifeIsCore
    DEF WritesAnswer, Life!Answer, Life!Present, Life!ResponseTo,
        Life!AnswerStates
  <2>3. QED BY <2>2, LifeIsCore DEF Life!LifecycleNext, Life!Responding
<1>6. CASE WritesReport(call)
  <2>1. Life!Report(call.cmd, call.key)
    BY <1>1, <1>2, <1>6, LifeIsCore DEF WritesReport, Life!Report
  <2>2. QED
    BY <1>1, <1>6, <2>1, LifeIsCore
    DEF WritesReport, Life!LifecycleNext, Life!Responding
<1>7. QED BY <1>1, <1>3, <1>4, <1>5, <1>6, WhatIsWritten

\* A done signal is one.
LEMMA DoneIsAllowed ==
    ASSUME ControllerInv, NEW call \in calls, signalAsDone(call),
           UNCHANGED <<enqueued, unpushed, dispatcherVars>>
    PROVE  Life!LifecycleNext
<1> USE DEF ControllerInv, LifeInv
<1>1. /\ call.cmd \in Commands /\ call.key \in Keys
      /\ call.state \in CommandStates /\ call.step = "done"
  BY CallsAreTyped DEF ControllerTypeOK, signalAsDone
<1>2. /\ jobresult[call.cmd][call.key] \notin {NoResponse, "QUEUED"}
      /\ call.state \in Life!TerminalStates
  BY <1>1, LifeIsCore DEF CallsInv, Written, Life!TerminalStates
<1>3. Life!SignalDone(call.cmd, call.key)
  BY <1>2, LifeIsCore
  DEF signalAsDone, Content3, dispatcherVars, Life!SignalDone, Life!Present
<1>4. QED BY <1>1, <1>3, LifeIsCore DEF Life!LifecycleNext, Life!Responding

\* A push to an agent's list follows its announcement.
LEMMA PushIsAllowed ==
    ASSUME ControllerInv, NEW a \in Agents, DispatchTo(a)
    PROVE  Life!LifecycleNext
<1> USE DEF ControllerInv, LifeInv
<1>1. /\ dpc = "distribute" /\ current = a /\ Returned(dispatcher)
      /\ enqueued' = [enqueued EXCEPT ![a] = @ \cup {dcmd}]
      /\ UNCHANGED <<sent, jobresult, doneSignals, pickedUp>>
  BY DEF DispatchTo, Distributed, PushToAgent, responderVars
<1>2. /\ dcmd \in Commands /\ dcmd \in sent /\ dcmd \notin pickedUp
      /\ dcmd \notin enqueued[a] /\ jobresult[dcmd][a] = "QUEUED"
  BY <1>1
  DEF StageInv, LoopInv, TargetsInv, CurrentInv, Setting, Returned,
      ControllerTypeOK, DispatcherTypeOK
<1>3. Life!QueueFor(a, dcmd)
  BY <1>1, <1>2, LifeIsCore DEF Life!QueueFor
<1>4. QED BY <1>2, <1>3, LifeIsCore DEF Life!LifecycleNext, Life!Responding

\* A pick-up signal follows a response.
LEMMA PickUpIsAllowed ==
    ASSUME ControllerInv, NEW g, NEW c \in Commands, SignalAsPickedUp(g, c),
           c \notin pickedUp, AnsweredBy(g, c), UNCHANGED <<sent, enqueued>>
    PROVE  Life!LifecycleNext
<1>1. ~ Setting(g)
  BY DEF SignalAsPickedUp, Returned, Setting
<1>2. Life!PickUp(c)
  BY <1>1, LifeIsCore
  DEF AnsweredBy, SignalAsPickedUp, Life!PickUp, Life!ResponseTo,
      Life!Present
<1>3. QED BY <1>2, LifeIsCore DEF Life!LifecycleNext, Life!Responding

\* Every step of the controller is one of the lifecycle, or none.
LEMMA StepIsLifecycleStep ==
    ASSUME ControllerInv, [Next]_vars
    PROVE  [Life!LifecycleNext]_(Life!lifeVars)
<1> USE DEF ControllerInv
<1>1. ASSUME NEW c \in Commands, SendCommand(c) PROVE Life!LifecycleNext
  <2>1. Life!SendCommand(c)
    BY <1>1
    DEF SendCommand, Push, pollVars, queueVars, responderVars,
        Life!SendCommand
  <2>2. QED BY <2>1 DEF Life!LifecycleNext
<1>2. ASSUME NEW c \in Commands, Internal(c), ~ UNCHANGED Life!lifeVars
      PROVE  Life!LifecycleNext
  <2>1. SignalInternal(c) /\ UNCHANGED <<sent, enqueued>>
    BY <1>2
    DEF Internal, InternalStep, ExecuteInternalCommand, SignalInternal,
        RespondToCommand, pollVars, queueVars, Life!lifeVars
  <2>2. c \notin pickedUp /\ AnsweredBy(internal(c), c)
    BY <2>1 DEF SignalInternal, LifeInv, SignalInv
  <2>3. QED BY <2>1, <2>2, PickUpIsAllowed DEF SignalInternal
<1>3. ASSUME Loop, ~ UNCHANGED Life!lifeVars PROVE Life!LifecycleNext
  <2>1. SignalPickedUp /\ UNCHANGED <<sent, enqueued>>
    BY <1>3
    DEF Loop, LoopStep, BlockingPop, LogCommand, StartInternal,
        SnapshotCandidates, CheckRoles, ChooseTargets, ChooseNode,
        RespondNoAgents, AnnounceQueued, SignalPickedUp, RespondToCommand,
        responderVars, pollVars, queueVars, Life!lifeVars
  <2>2. /\ dcmd \in Commands /\ dcmd \notin pickedUp
        /\ AnsweredBy(dispatcher, dcmd)
    BY <2>1
    DEF SignalPickedUp, LoopGoes, LifeInv, StageInv, LoopInv, SignalInv,
        ControllerTypeOK, DispatcherTypeOK
  <2>3. QED BY <2>1, <2>2, PickUpIsAllowed DEF SignalPickedUp
<1>4. ASSUME NEW call \in calls, Responding(call), ~ UNCHANGED Life!lifeVars
      PROVE  Life!LifecycleNext
  <2>1. UNCHANGED <<enqueued, unpushed, dispatcherVars>>
    BY <1>4 DEF Responding, pollVars, queueVars, tallyVars, historyVars
  <2>2. ~ LogResponse(call)
    BY <1>4, <2>1 DEF LogResponse, dispatcherVars, Life!lifeVars
  <2>3. QED
    BY <1>4, <2>1, <2>2, SetIsAllowed, DoneIsAllowed DEF Responding, CallStep
<1>5. ASSUME \/ \E a \in Agents : DispatchLost(a)
             \/ \E ch \in Chans : Routine(ch)
             \/ \E a \in Agents, c \in Commands : PostResult(a, c)
             \/ \E p \in Polls : Handler(p)
      PROVE  UNCHANGED Life!lifeVars
  <2>1. ASSUME NEW ch \in Chans, Routine(ch) PROVE UNCHANGED Life!lifeVars
    BY <2>1
    DEF Routine, HandOverAndReport, HandOver, FinishReport, ReportedRunning,
        Accept, RecordRoles, BlockingDequeue, DequeueTimeout, OfferRefused,
        ReportUnexecutedCommand, CloseMsgChan, Expire, CleanUp,
        RespondToCommand, queueVars, dispatcherVars, responderVars,
        Life!lifeVars
  <2>2. QED
    BY <1>5, <2>1
    DEF DispatchLost, Distributed, PostResult, RespondToCommand, Handler,
        HandlerStep, SendPanics, EnterWait, ReceiveClosed, Reply, pollVars,
        queueVars, dispatcherVars, responderVars, Life!lifeVars
<1>6. ASSUME Disturbance \/ PopCommandLost \/ CrashAll \/ UNCHANGED vars
      PROVE  UNCHANGED Life!lifeVars
  BY <1>6
  DEF Disturbance, PopCommandLost, PopLost, CrashAll, Crash, DispatcherCrash,
      ResponderCrash, DequeueLost, RequeueLost, StartPoll, SendTimeout,
      GiveUp, ReplyLost, Event, queueVars, dispatcherVars, responderVars,
      pollVars, vars, Life!lifeVars
<1>7. QED
  BY <1>1, <1>2, <1>3, <1>4, <1>5, <1>6, PushIsAllowed DEF Next, Work

\* Dispatcher, routines, internal goroutines and agents together show
\* clients what CommandLifecycle allows and nothing else, crashes and lost
\* calls included; what is shown of the client library over it holds with
\* this controller (redisdata/commandresponder.go, application.go:231-349).
THEOREM LifecycleRefined == Spec => ImplementsLifecycle
<1>1. Init => Life!LifecycleInit
  BY LifeIsCore
  DEF Init, PollInit, DispatcherInit, ResponderInit, Life!LifecycleInit
<1>2. ControllerInv /\ [Next]_vars => [Life!LifecycleNext]_(Life!lifeVars)
  BY StepIsLifecycleStep
<1>3. QED
  BY <1>1, <1>2, ControllerInvariance, PTL
  DEF Spec, ImplementsLifecycle, Life!LifecycleSpec

-----------------------------------------------------------------------------
(* What is not lost: no command without its pick-up signal, no answer without
   its done signal, but for the faults that hit that very one. *)

Settled(c, k) == Answered(c, k) \/ <<c, k>> \in cut

\* Who responded has settled, or is an agent that was told QUEUED or has the
\* command already; who posted a result has settled.
AnswersInv ==
    /\ \A c \in Commands, k \in Keys :
         jobresult[c][k] # NoResponse =>
            \/ Settled(c, k)
            \/ /\ k \in Agents
               /\ \/ c \in enqueued[k]
                  \/ jobresult[c][k] = "QUEUED" /\ ~ IsInternal(c)
    /\ \A a \in Agents, c \in Commands : posted[a][c] # 0 => Settled(c, a)

\* What is sent stays in somebody's hands until it is picked up: taken by a
\* step from one hand it is in the next, or forgotten.
LEMMA NextInHand ==
    ASSUME ControllerInv, SentIsInHand, [Next]_vars PROVE SentIsInHand'
<1> DEFINE Kept(c) == c \in pickedUp \cup forgotten \cup ToSet(cmdsQueue)
                           \cup InHands
<1> SUFFICES ASSUME NEW c \in sent' PROVE Kept(c)'
  BY DEF SentIsInHand
<1>1. /\ cmdsQueue \in Seq(Commands) /\ IsInjective(cmdsQueue)
      /\ internals \in [Commands -> {"none", "handler", "signal"}]
      /\ dcmd \in Commands \cup {NoCommand}
      /\ dpc = "pop" <=> dcmd = NoCommand
      /\ c \in sent => Kept(c)
  BY DEF ControllerInv, ControllerTypeOK, DispatcherTypeOK, LifeInv, StageInv,
         SentIsInHand
<1>2. ASSUME c \in sent, pickedUp \subseteq pickedUp',
             forgotten \subseteq forgotten',
             UNCHANGED <<cmdsQueue, dcmd, internals>>
      PROVE  Kept(c)'
  BY <1>1, <1>2 DEF InHands
<1>3. ASSUME NEW d \in Commands, SendCommand(d) PROVE Kept(c)'
  <2>1. /\ ToSet(cmdsQueue') = ToSet(cmdsQueue) \cup {d}
        /\ sent' = sent \cup {d}
        /\ UNCHANGED <<pickedUp, forgotten, dcmd, internals>>
    BY <1>1, <1>3, AppendElements
    DEF SendCommand, Push, loopVars, responderVars, tallyVars, historyVars
  <2>2. QED BY <1>1, <2>1 DEF InHands
<1>4. ASSUME BlockingPop, Loop PROVE Kept(c)'
  <2>1. /\ ToSet(Tail(cmdsQueue)) = ToSet(cmdsQueue) \ {Head(cmdsQueue)}
        /\ Head(cmdsQueue) \in Commands
    BY <1>1, <1>4, TailElements DEF BlockingPop
  <2>2. /\ cmdsQueue' = Tail(cmdsQueue) /\ dcmd' = Head(cmdsQueue)
        /\ dcmd = NoCommand
        /\ UNCHANGED <<sent, pickedUp, forgotten, internals>>
    BY <1>1, <1>4
    DEF Loop, BlockingPop, LoopGoes, responderVars, tallyVars, historyVars
  <2>3. QED BY <1>1, <2>1, <2>2, CoreAssumption DEF InHands
<1>5. ASSUME PopCommandLost PROVE Kept(c)'
  <2>1. ToSet(Tail(cmdsQueue)) = ToSet(cmdsQueue) \ {Head(cmdsQueue)}
    BY <1>1, <1>5, TailElements DEF PopCommandLost, PopLost
  <2>2. /\ cmdsQueue' = Tail(cmdsQueue)
        /\ forgotten' = forgotten \cup {Head(cmdsQueue)}
        /\ UNCHANGED <<sent, pickedUp, dcmd, internals>>
    BY <1>5 DEF PopCommandLost, PopLost, loopVars, responderVars
  <2>3. QED BY <1>1, <2>1, <2>2 DEF InHands
<1>6. ASSUME StartInternal, Loop PROVE Kept(c)'
  <2>1. /\ internals' = [internals EXCEPT ![dcmd] = "handler"]
        /\ dcmd \in Commands
        /\ UNCHANGED <<sent, cmdsQueue, pickedUp, forgotten>>
    BY <1>1, <1>6
    DEF Loop, StartInternal, LoopGoes, responderVars, tallyVars, historyVars
  <2>2. QED BY <1>1, <2>1 DEF InHands
<1>7. ASSUME SignalPickedUp, Loop PROVE Kept(c)'
  <2>1. /\ pickedUp' = pickedUp \cup {dcmd}
        /\ UNCHANGED <<sent, cmdsQueue, forgotten, internals>>
    BY <1>7
    DEF Loop, SignalPickedUp, SignalAsPickedUp, tallyVars, historyVars
  <2>2. QED BY <1>1, <2>1 DEF InHands
<1>8. ASSUME NEW d \in Commands, Internal(d) PROVE Kept(c)'
  <2>1. /\ UNCHANGED <<sent, cmdsQueue, dcmd, forgotten>>
        /\ \A e \in Commands : e # d => internals'[e] = internals[e]
    BY <1>1, <1>8
    DEF Internal, InternalStep, ExecuteInternalCommand, SignalInternal,
        loopVars, tallyVars, historyVars
  <2>2. CASE ExecuteInternalCommand(d)
    <3>1. internals'[d] = "signal" /\ UNCHANGED pickedUp
      BY <1>1, <2>2 DEF ExecuteInternalCommand, RespondToCommand
    <3>2. QED BY <1>1, <2>1, <3>1 DEF InHands
  <2>3. CASE SignalInternal(d)
    <3>1. pickedUp' = pickedUp \cup {d}
      BY <2>3 DEF SignalInternal, SignalAsPickedUp
    <3>2. QED BY <1>1, <2>1, <3>1 DEF InHands
  <2>4. QED BY <1>8, <2>2, <2>3 DEF Internal, InternalStep
<1>9. ASSUME CrashAll PROVE Kept(c)'
  BY <1>1, <1>9 DEF CrashAll, DispatcherCrash, ResponderCrash, InHands
<1>10. ASSUME Loop, ~ BlockingPop, ~ StartInternal, ~ SignalPickedUp
       PROVE  Kept(c)'
  <2>1. UNCHANGED <<sent, cmdsQueue, dcmd, internals, pickedUp, forgotten>>
    BY <1>10
    DEF Loop, LoopStep, LogCommand, SnapshotCandidates, ChooseTargets,
        ChooseNode, CheckRoles, AnnounceQueued, RespondNoAgents,
        RespondToCommand, responderVars, tallyVars, historyVars
  <2>2. QED BY <1>2, <2>1
<1>11. ASSUME \/ \E a \in Agents : DispatchTo(a) \/ DispatchLost(a)
              \/ \E ch \in Chans : Routine(ch)
              \/ \E p \in Polls : Handler(p)
              \/ Disturbance
              \/ \E a \in Agents, d \in Commands : PostResult(a, d)
              \/ \E call \in calls : Responding(call)
              \/ UNCHANGED vars
       PROVE  Kept(c)'
  <2>1. UNCHANGED <<sent, cmdsQueue, dcmd, internals, pickedUp, forgotten>>
    BY <1>11
    DEF DispatchTo, DispatchLost, Distributed, Routine, HandOverAndReport,
        FinishReport, Handler, Disturbance, PostResult, Responding, CallStep,
        SetResult, signalAsDone, LogResponse, RespondToCommand, vars,
        dispatcherVars, responderVars, tallyVars, historyVars
  <2>2. QED BY <1>2, <2>1
<1>12. QED
  BY <1>3, <1>4, <1>5, <1>6, <1>7, <1>8, <1>9, <1>10, <1>11 DEF Next, Work

\* Whatever the loop refuses, loses or leaves to a goroutine, a command that
\* was sent and is not picked up is in the queue or in hands that will signal
\* it: the safety half of EveryCommandIsPickedUp
\* (application.go:231-275, internals.go:40-58).
THEOREM NothingSentIsLost == Spec => []SentIsInHand
<1>1. Init => SentIsInHand
  BY DEF Init, DispatcherInit, SentIsInHand
<1>2. QED BY <1>1, ControllerInvariance, NextInHand, PTL DEF Spec

\* A call in progress goes on, unless it is cut short.
LEMMA CallsGoOn ==
    ASSUME [Next]_vars
    PROVE  /\ calls \subseteq calls' \/ CrashAll
              \/ \E call \in calls : CallStep(call)
           /\ cut \subseteq cut'
<1>1. ASSUME NEW g, NEW c, NEW k, NEW s, RespondToCommand(g, c, k, s)
      PROVE  calls \subseteq calls'
  BY <1>1 DEF RespondToCommand
<1>2. ASSUME Loop \/ (\E c \in Commands : SendCommand(c) \/ Internal(c))
             \/ (\E a \in Agents : DispatchTo(a) \/ DispatchLost(a))
      PROVE  calls \subseteq calls' /\ UNCHANGED cut
  <2>1. UNCHANGED cut
    BY <1>2
    DEF Loop, SendCommand, Internal, DispatchTo, DispatchLost, tallyVars,
        historyVars
  <2>2. calls \subseteq calls'
    BY <1>1, <1>2
    DEF Loop, LoopStep, BlockingPop, LogCommand, StartInternal,
        SnapshotCandidates, CheckRoles, ChooseTargets, ChooseNode,
        RespondNoAgents, AnnounceQueued, SignalPickedUp, SignalAsPickedUp,
        SendCommand, Push, Internal, InternalStep, ExecuteInternalCommand,
        SignalInternal, DispatchTo, DispatchLost, Distributed, responderVars
  <2>3. QED BY <2>1, <2>2
<1>3. ASSUME \/ \E ch \in Chans : Routine(ch)
             \/ \E p \in Polls : Handler(p)
             \/ Disturbance \/ PopCommandLost \/ UNCHANGED vars
             \/ \E a \in Agents, c \in Commands : PostResult(a, c)
      PROVE  calls \subseteq calls' /\ UNCHANGED cut
  BY <1>1, <1>3
  DEF Routine, HandOverAndReport, FinishReport, Handler, Disturbance,
      PopCommandLost, PopLost, PostResult, vars, responderVars, tallyVars,
      historyVars
<1>4. ASSUME NEW call \in calls, Responding(call)
      PROVE  CallStep(call) /\ UNCHANGED cut
  BY <1>4 DEF Responding, tallyVars, historyVars
<1>5. CrashAll => cut \subseteq cut'
  BY DEF CrashAll
<1>6. QED BY <1>2, <1>3, <1>4, <1>5 DEF Next, Work

\* Done signals stay.
LEMMA DoneStays ==
    ASSUME ControllerInv, [Next]_vars PROVE doneSignals \subseteq doneSignals'
  BY WriteStep
  DEF written, CallStep, SetResult, signalAsDone, LogResponse

\* What is settled stays settled: an answer on its way gets its signal, or is
\* counted as cut.
LEMMA SettledStays ==
    ASSUME ControllerInv, [Next]_vars, NEW c \in Commands, NEW k \in Keys,
           Settled(c, k)
    PROVE  Settled(c, k)'
<1>1. doneSignals \subseteq doneSignals' /\ cut \subseteq cut'
  BY DoneStays, CallsGoOn
<1>2. SUFFICES ASSUME NEW call \in Unsignalled, call.cmd = c, call.key = k
               PROVE  Settled(c, k)'
  BY <1>1 DEF Settled, Answered
<1>3. /\ call \in calls /\ IsTerminalCommandState(call.state)
      /\ call.step # "log"
  BY DEF Unsignalled
<1>4. ResponderTypeOK /\ CallsInv
  BY DEF ControllerInv, ControllerTypeOK, LifeInv
<1>5. CASE call \in calls'
  BY <1>2, <1>3, <1>5 DEF Settled, Answered, Unsignalled
<1>6. CASE CrashAll
  BY <1>2, <1>6 DEF CrashAll, Settled
<1>7. ASSUME NEW other \in calls, CallStep(other), call # other
      PROVE  call \in calls'
  BY <1>3, <1>7
  DEF CallStep, SetResult, signalAsDone, LogResponse, Advance
<1>8. CASE CallStep(call)
  <2>1. CASE SetResult(call)
    <3>1. PICK next :
            /\ calls' = (calls \ {call}) \cup {next}
            /\ next.cmd = c /\ next.key = k /\ next.state = call.state
            /\ next.step = "done"
      BY <1>2, <1>3, <1>4, <2>1, CallGoesOn DEF SetResult
    <3>2. next \in Unsignalled'
      BY <1>3, <3>1 DEF Unsignalled
    <3>3. QED BY <3>1, <3>2 DEF Settled, Answered
  <2>2. CASE signalAsDone(call)
    <3>1. call.state \in CommandStates /\ <<c, k, call.state>> \in doneSignals'
      BY <1>2, <1>3, <1>4, <2>2, CallsAreTyped DEF signalAsDone, Content3
    <3>2. QED BY <3>1 DEF Settled, Answered
  <2>3. QED BY <1>3, <1>8, <2>1, <2>2 DEF CallStep, LogResponse
<1>9. QED BY <1>3, <1>5, <1>6, <1>7, <1>8, CallsGoOn

\* A call that begins with an answer, or has set one, settles.
LEMMA AnswerBegins ==
    ASSUME NEW g, NEW c, NEW k, NEW s, RespondToCommand(g, c, k, s),
           IsTerminalCommandState(s)
    PROVE  Settled(c, k)'
<1> DEFINE own == [by |-> g, cmd |-> c, key |-> k, state |-> s,
                   step |-> "set"]
<1>1. own \in calls'
  BY DEF RespondToCommand
<1>2. own.cmd = c /\ own.key = k /\ own.state = s /\ own.step = "set"
  OBVIOUS
<1> HIDE DEF own
<1>3. own \in Unsignalled'
  BY <1>1, <1>2 DEF Unsignalled
<1>4. QED BY <1>2, <1>3 DEF Settled, Answered

\* The field that a call sets is settled, announced or reported.
LEMMA SetIsAccounted ==
    ASSUME ControllerInv, [Next]_vars, NEW call \in calls, SetResult(call)
    PROVE  \/ Settled(call.cmd, call.key)'
           \/ /\ call.key \in Agents
              /\ \/ call.cmd \in enqueued[call.key]
                 \/ call.state = "QUEUED" /\ ~ IsInternal(call.cmd)
<1>1. /\ call.step = "set" /\ call.cmd \in Commands /\ call.key \in Keys
      /\ call.state \in CommandStates
  BY CallsAreTyped DEF SetResult, ControllerInv, ControllerTypeOK
<1>2. IsTerminalCommandState(call.state) => Settled(call.cmd, call.key)'
  <2>1. IsTerminalCommandState(call.state) => call \in Unsignalled
    BY <1>1 DEF Unsignalled
  <2>2. QED BY <1>1, <2>1, SettledStays DEF Settled, Answered
<1>3. CASE WritesAnnouncement(call)
  BY <1>3
  DEF WritesAnnouncement, ControllerInv, LifeInv, CurrentInv, LoopInv,
      ControllerTypeOK, DispatcherTypeOK
<1>4. CASE WritesRefusal(call) \/ \E c \in Commands : WritesAnswer(call, c)
  BY <1>2, <1>4
  DEF WritesRefusal, WritesAnswer, InternalOutcomes, IsTerminalCommandState
<1>5. CASE WritesReport(call)
  BY <1>5 DEF WritesReport
<1>6. QED BY <1>1, <1>3, <1>4, <1>5, WhatIsWritten DEF ControllerInv

\* The commands ever enqueued for an agent stay enqueued.
LEMMA EnqueuedGrows ==
    ASSUME PollTypeOK, [PollNext]_pollVars, NEW a \in Agents
    PROVE  enqueued[a] \subseteq enqueued'[a]
<1>1. ASSUME NEW b \in Agents, NEW c \in Commands, Enqueue(b, c)
      PROVE  enqueued[a] \subseteq enqueued'[a]
  BY <1>1 DEF Enqueue, PushToAgent, PollTypeOK
<1>2. ASSUME ~ \E b \in Agents, c \in Commands : Enqueue(b, c)
      PROVE  UNCHANGED enqueued
  BY <1>2
  DEF PollNext, RoutineStep, HandlerStep, PollFault, Accept, RecordRoles,
      BlockingDequeue, DequeueTimeout, HandOver, OfferRefused,
      ReportUnexecutedCommand, ReportedRunning, CloseMsgChan, Expire, CleanUp,
      StartPoll, SendPanics, EnterWait, ReceiveClosed, Reply, SendTimeout,
      GiveUp, Event, DequeueLost, RequeueLost, ReplyLost, Crash, queueVars,
      pollVars
<1>3. QED BY <1>1, <1>2

\* Only an agent that posts a result is counted as having posted one.
LEMMA PostedByResult ==
    ASSUME [Next]_vars
    PROVE  UNCHANGED posted \/ \E a \in Agents, c \in Commands : PostResult(a, c)
  BY DEF Next, Work, SendCommand, Internal, Loop, DispatchTo, DispatchLost, Routine,
         HandOverAndReport, FinishReport, Handler, Disturbance, Responding,
         PopCommandLost, CrashAll, tallyVars, vars

\* Every step keeps the account of the answers.
LEMMA NextAnswers ==
    ASSUME ControllerInv, AnswersInv, [Next]_vars PROVE AnswersInv'
<1>1. ASSUME NEW a \in Agents PROVE enqueued[a] \subseteq enqueued'[a]
  BY StepIsPollStep, EnqueuedGrows DEF ControllerInv, PollInv
<1>2. ASSUME NEW c \in Commands, NEW k \in Keys, jobresult'[c][k] # NoResponse
      PROVE  \/ Settled(c, k)'
             \/ /\ k \in Agents
                /\ \/ c \in enqueued'[k]
                   \/ jobresult'[c][k] = "QUEUED" /\ ~ IsInternal(c)
  <2>1. CASE jobresult'[c][k] = jobresult[c][k]
    BY <1>1, <1>2, <2>1, SettledStays DEF AnswersInv
  <2>2. CASE jobresult'[c][k] # jobresult[c][k]
    <3>1. PICK call \in calls : CallStep(call) /\ ~ UNCHANGED jobresult
      BY <2>2, WriteStep DEF written
    <3>2. SetResult(call)
      BY <3>1 DEF CallStep, signalAsDone, LogResponse
    <3>3. /\ call.cmd = c /\ call.key = k
          /\ jobresult'[c][k] = call.state
      BY <2>2, <3>2, SetEffect
      DEF ControllerInv, ControllerTypeOK, LifeInv
    <3>4. QED BY <1>1, <3>2, <3>3, SetIsAccounted
  <2>3. QED BY <2>1, <2>2
<1>3. ASSUME NEW a \in Agents, NEW c \in Commands, posted'[a][c] # 0
      PROVE  Settled(c, a)'
  <2>1. CASE posted[a][c] # 0
    BY <2>1, SettledStays, KeyTypes DEF AnswersInv
  <2>2. CASE posted[a][c] = 0
    <3>1. PICK b \in Agents, d \in Commands : PostResult(b, d)
      BY <1>3, <2>2, PostedByResult
    <3>2. a = b /\ c = d
      BY <1>3, <2>2, <3>1
      DEF PostResult, ControllerInv, ControllerTypeOK
    <3>3. QED BY <3>1, <3>2, AnswerBegins DEF PostResult, IsTerminalCommandState
  <2>3. QED BY <2>1, <2>2
<1>4. QED BY <1>2, <1>3 DEF AnswersInv

\* Where there is a wait there is a reason: each command an agent was given
\* is in one place, and each answer it or the controller makes reaches the
\* done signal or is cut by a crash (application.go:262-336,
\* redisdata/commandresponder.go:36-59).
THEOREM WaitsHaveReasons == Spec => []EveryWaitHasAReason
<1>1. Init => AnswersInv
  BY DEF Init, ResponderInit, AnswersInv
<1>2. ControllerInv /\ AnswersInv => EveryWaitHasAReason
  <2> SUFFICES ASSUME ControllerInv, AnswersInv, NEW c \in pickedUp,
                      NEW k \in Keys, jobresult[c][k] # NoResponse,
                      ~ Settled(c, k)
               PROVE  /\ k \in Agents
                      /\ Owes(k, c) \/ c \in lost[k] \/ <<k, c>> \in unpushed
    BY LifeIsCore
    DEF EveryWaitHasAReason, Awaited, Answered, Settled, Life!ResponseTo,
        Life!Present
  <2>1. c \in Commands
    BY DEF ControllerInv, ControllerTypeOK, ResponderTypeOK
  <2>2. /\ k \in Agents
        /\ \/ c \in enqueued[k]
           \/ jobresult[c][k] = "QUEUED" /\ ~ IsInternal(c)
    BY <2>1 DEF AnswersInv
  <2>3. c \in enqueued[k] \/ <<k, c>> \in unpushed
    BY <2>2, KeyTypes
    DEF ControllerInv, LifeInv, RecordInv, DispatchedOrRefused, NoResponse
  <2>4. CASE c \in enqueued[k]
    <3>1. \/ InList(k, c) \/ c \in InFlight(k)
          \/ c \in received[k] \/ c \in lost[k]
      BY <2>1, <2>2, <2>4, InFlightMeans
      DEF ControllerInv, DeliveryInv, Accounted
    <3>2. posted[k][c] = 0
      BY <2>1, <2>2 DEF AnswersInv
    <3>3. QED BY <2>2, <3>1, <3>2 DEF Owes, InList
  <2>5. QED BY <2>2, <2>3, <2>4
<1>3. QED BY <1>1, <1>2, ControllerInvariance, NextAnswers, PTL DEF Spec

-----------------------------------------------------------------------------
(* What is said of a command is so. *)

\* A command the controller has refused, or is refusing, is past the point
\* where it could be queued for an agent.
Refused(c) ==
    /\ c \in sent \ ToSet(cmdsQueue)
    /\ dcmd = c => dpc = "signal"
    /\ \A a \in Agents : c \notin enqueued[a]

\* A response that is so and will be.
Firm(c, k, s) ==
    \/ IsInternal(c) /\ k = CommandKey(c) /\ s \in InternalOutcomes(c)
    \/ s = "QUEUED" /\ k \in Agents
    \/ s = "RUNNING" /\ k \in Agents /\ HandedTo(k, c)
    \/ /\ IsTerminalCommandState(s)
       /\ k \in Agents /\ c \in received[k] /\ posted[k][c] # 0
    \/ s = "ERROR" /\ k = CommandKey(c) /\ Refused(c)

\* Every response is, the ones on their way to the hash included.
FoundedInv ==
    /\ \A c \in Commands, k \in Keys :
          jobresult[c][k] # NoResponse => Firm(c, k, jobresult[c][k])
    /\ \A r \in doneSignals \cup resultsLog : Firm(r[1], r[2], r[3])
    /\ \A call \in calls : Firm(call.cmd, call.key, call.state)

\* What an agent was handed stays handed, and what it received received.
LEMMA HandedStays ==
    ASSUME PollInv, DeliveryInv, [PollNext]_pollVars, NEW a \in Agents,
           NEW c \in Commands
    PROVE  /\ HandedTo(a, c) => HandedTo(a, c)'
           /\ c \in received[a] => c \in received'[a]
<1> USE DEF PollInv, PollTypeOK
<1>1. ASSUME NEW p \in Polls, Reply(p)
      PROVE  /\ HandedTo(a, c) => HandedTo(a, c)'
             /\ c \in received[a] => c \in received'[a]
  BY <1>1, CoreAssumption DEF Reply, HandedTo
<1>2. ASSUME NEW p \in Polls, ReplyLost(p)
      PROVE  /\ HandedTo(a, c) => HandedTo(a, c)'
             /\ c \in received[a] => c \in received'[a]
  BY <1>2, CoreAssumption DEF ReplyLost, Lose, HandedTo
<1>3. ASSUME NEW ch \in Chans, HandOver(ch)
      PROVE  /\ HandedTo(a, c) => HandedTo(a, c)'
             /\ c \in received[a] => c \in received'[a]
  <2>1. \A p \in Polls : payload[p] = c => payload'[p] = c
    BY <1>3, CoreAssumption DEF HandOver, HandlerGoes, DeliveryInv, PayloadInReply
  <2>2. UNCHANGED <<received, lost>>
    BY <1>3 DEF HandOver, fateVars
  <2>3. QED BY <2>1, <2>2 DEF HandedTo
<1>4. ASSUME Crash
      PROVE  /\ HandedTo(a, c) => HandedTo(a, c)'
             /\ c \in received[a] => c \in received'[a]
  <2>1. \A p \in Polls : PollAgent[p] = a /\ payload[p] = c => c \in InFlight(a)
    BY CoreAssumption DEF InFlight
  <2>2. received' = received /\ lost'[a] = lost[a] \cup InFlight(a)
    BY <1>4 DEF Crash
  <2>3. QED BY <2>1, <2>2 DEF HandedTo
<1>5. ASSUME NEW ch \in Chans, DequeueLost(ch) \/ RequeueLost(ch)
      PROVE  /\ HandedTo(a, c) => HandedTo(a, c)'
             /\ c \in received[a] => c \in received'[a]
  <2>1. PICK b, d : lost' = [lost EXCEPT ![b] = @ \cup {d}]
    BY <1>5 DEF DequeueLost, RequeueLost, Lose
  <2>2. UNCHANGED <<received, payload>>
    BY <1>5 DEF DequeueLost, RequeueLost, Lose, handlerVars
  <2>3. lost[a] \subseteq lost'[a]
    BY <2>1
  <2>4. QED BY <2>2, <2>3 DEF HandedTo
<1>6. ASSUME ~ \E p \in Polls : Reply(p) \/ ReplyLost(p),
             ~ \E ch \in Chans :
                  HandOver(ch) \/ DequeueLost(ch) \/ RequeueLost(ch),
             ~ Crash
      PROVE  /\ HandedTo(a, c) => HandedTo(a, c)'
             /\ c \in received[a] => c \in received'[a]
  <2>1. UNCHANGED <<payload, received, lost>>
    BY <1>6
    DEF PollNext, RoutineStep, HandlerStep, PollFault, Accept, RecordRoles,
        BlockingDequeue, DequeueTimeout, OfferRefused,
        ReportUnexecutedCommand, ReportedRunning, CloseMsgChan, Expire,
        CleanUp, StartPoll, SendPanics, EnterWait, ReceiveClosed, SendTimeout,
        GiveUp, Event, Enqueue, PushToAgent, handlerVars, goVars, fateVars,
        pollVars
  <2>2. QED BY <2>1 DEF HandedTo
<1>7. QED BY <1>1, <1>2, <1>3, <1>4, <1>5, <1>6

\* Nothing is posted back.
LEMMA PostedStays ==
    ASSUME ControllerInv, [Next]_vars, NEW a \in Agents, NEW c \in Commands,
           posted[a][c] # 0
    PROVE  posted'[a][c] # 0
<1>1. CASE UNCHANGED posted
  BY <1>1
<1>2. ASSUME NEW b \in Agents, NEW d \in Commands, PostResult(b, d)
      PROVE  posted'[a][c] # 0
  <2>1. /\ posted' = [posted EXCEPT ![b][d] = @ + 1]
        /\ posted \in [Agents -> [Commands -> Nat]]
    BY <1>2, ControllerAssumption
    DEF PostResult, ControllerInv, ControllerTypeOK
  <2>2. QED BY <2>1
<1>3. QED BY <1>1, <1>2, PostedByResult

\* Only the loop's command is queued for an agent, while it is distributed.
LEMMA EnqueuedByLoop ==
    ASSUME ControllerInv, [Next]_vars, NEW a \in Agents, NEW c \in Commands,
           c \notin enqueued[a], c \in enqueued'[a]
    PROVE  c = dcmd /\ dpc = "distribute"
<1>1. ASSUME NEW b \in Agents, DispatchTo(b) PROVE c = dcmd /\ dpc = "distribute"
  BY <1>1
  DEF DispatchTo, Distributed, PushToAgent, ControllerInv, PollInv, PollTypeOK
<1>2. (\A b \in Agents : ~ DispatchTo(b)) => UNCHANGED enqueued
  BY DEF Next, Work, Loop, SendCommand, Internal, DispatchLost, Routine,
         HandOverAndReport, FinishReport, ReportedRunning, HandOver, Accept,
         RecordRoles, BlockingDequeue, DequeueTimeout, OfferRefused,
         ReportUnexecutedCommand, CloseMsgChan, Expire, CleanUp, Handler,
         HandlerStep, SendPanics, EnterWait, ReceiveClosed, Reply,
         Disturbance, DequeueLost, RequeueLost, StartPoll, SendTimeout,
         GiveUp, ReplyLost, Event, PostResult, Responding, PopCommandLost,
         CrashAll, Crash, queueVars, pollVars, vars
<1>3. QED BY <1>1, <1>2

\* What the controller refused it does not come back to.
LEMMA RefusedStays ==
    ASSUME ControllerInv, [Next]_vars, NEW c \in Commands, Refused(c)
    PROVE  Refused(c)'
<1>1. /\ cmdsQueue \in Seq(Commands) /\ IsInjective(cmdsQueue)
      /\ ToSet(cmdsQueue) \subseteq sent
      /\ dcmd \in Commands \cup {NoCommand}
      /\ dpc = "pop" <=> dcmd = NoCommand
      /\ c # NoCommand
  BY CoreAssumption
  DEF ControllerInv, ControllerTypeOK, DispatcherTypeOK, LifeInv, StageInv
<1>2. \A a \in Agents : c \notin enqueued'[a]
  BY EnqueuedByLoop DEF Refused
<1>3. ASSUME NEW d \in Commands, SendCommand(d) PROVE Refused(c)'
  <2>1. /\ ToSet(cmdsQueue') = ToSet(cmdsQueue) \cup {d}
        /\ sent' = sent \cup {d} /\ d \notin sent
        /\ UNCHANGED <<dpc, dcmd>>
    BY <1>1, <1>3, AppendElements DEF SendCommand, Push, loopVars
  <2>2. QED BY <1>2, <2>1 DEF Refused
<1>4. ASSUME BlockingPop \/ PopLost, UNCHANGED sent PROVE Refused(c)'
  <2>1. /\ ToSet(cmdsQueue') = ToSet(cmdsQueue) \ {Head(cmdsQueue)}
        /\ Head(cmdsQueue) \in ToSet(cmdsQueue)
    BY <1>1, <1>4, TailElements DEF BlockingPop, PopLost
  <2>2. dcmd' \in {dcmd, Head(cmdsQueue)} /\ (dcmd' = c => dpc' = dpc)
    BY <1>4, <2>1 DEF BlockingPop, PopLost, loopVars, Refused
  <2>3. QED BY <1>2, <1>4, <2>1, <2>2 DEF Refused
<1>5. ASSUME UNCHANGED <<sent, cmdsQueue>>,
             \/ dcmd' = NoCommand
             \/ UNCHANGED <<dcmd, dpc>>
             \/ UNCHANGED dcmd /\ dcmd # c
      PROVE  Refused(c)'
  BY <1>1, <1>2, <1>5 DEF Refused
<1>6. ASSUME Loop, ~ BlockingPop
      PROVE  /\ UNCHANGED <<sent, cmdsQueue>>
             /\ \/ dcmd' = NoCommand
                \/ UNCHANGED dcmd /\ dpc # "signal"
  BY <1>6
  DEF Loop, LoopStep, LogCommand, StartInternal, SnapshotCandidates,
      CheckRoles, ChooseTargets, ChooseNode, RespondNoAgents, AnnounceQueued,
      SignalPickedUp, LoopGoes
<1>7. ASSUME NEW a \in Agents, DispatchTo(a) \/ DispatchLost(a)
      PROVE  UNCHANGED <<sent, cmdsQueue, dcmd>> /\ dpc # "signal"
  BY <1>7 DEF DispatchTo, DispatchLost, Distributed
<1>8. ASSUME CrashAll PROVE UNCHANGED <<sent, cmdsQueue>> /\ dcmd' = NoCommand
  BY <1>8 DEF CrashAll, DispatcherCrash
<1>9. ASSUME \/ \E d \in Commands : Internal(d)
             \/ \E ch \in Chans : Routine(ch)
             \/ \E p \in Polls : Handler(p)
             \/ Disturbance
             \/ \E a \in Agents, d \in Commands : PostResult(a, d)
             \/ \E call \in calls : Responding(call)
             \/ UNCHANGED vars
      PROVE  UNCHANGED <<sent, cmdsQueue, dcmd, dpc>>
  BY <1>9
  DEF Internal, InternalStep, ExecuteInternalCommand, SignalInternal, Routine,
      HandOverAndReport, FinishReport, Handler, Disturbance, PostResult,
      Responding, loopVars, dispatcherVars, vars
<1>10. dpc # "signal" => dcmd # c
  BY DEF Refused
<1>11. CASE Loop
  <2>1. BlockingPop => UNCHANGED sent
    BY DEF BlockingPop
  <2>2. QED BY <1>4, <1>5, <1>6, <1>10, <1>11, <2>1
<1>12. CASE PopCommandLost
  BY <1>4, <1>12 DEF PopCommandLost, PopLost
<1>13. CASE \E a \in Agents : DispatchTo(a) \/ DispatchLost(a)
  BY <1>5, <1>7, <1>10, <1>13
<1>14. QED
  BY <1>3, <1>5, <1>8, <1>9, <1>11, <1>12, <1>13 DEF Next, Work

\* What is so stays so.
LEMMA FirmStays ==
    ASSUME ControllerInv, [Next]_vars, NEW c \in Commands, NEW k, NEW s,
           Firm(c, k, s)
    PROVE  Firm(c, k, s)'
<1>1. ASSUME k \in Agents, HandedTo(k, c) PROVE HandedTo(k, c)'
  BY <1>1, HandedStays, StepIsPollStep DEF ControllerInv
<1>2. ASSUME k \in Agents, c \in received[k], posted[k][c] # 0
      PROVE  c \in received'[k] /\ posted'[k][c] # 0
  BY <1>2, HandedStays, PostedStays, StepIsPollStep DEF ControllerInv
<1>3. QED BY <1>1, <1>2, RefusedStays DEF Firm

\* A response that begins is so.
LEMMA BegunIsFirm ==
    ASSUME ControllerInv, [Next]_vars, NEW g, NEW c, NEW k, NEW s,
           \/ \E ch \in Chans :
                /\ HandOver(ch)
                /\ c = hand[ch] /\ k = ChanAgent[ch] /\ s = "RUNNING"
           \/ AnnounceQueued(k) /\ k \in Agents /\ c = dcmd /\ s = "QUEUED"
           \/ /\ RespondNoAgents /\ c = dcmd /\ k = CommandKey(dcmd)
              /\ s = "ERROR"
           \/ /\ ExecuteInternalCommand(c) /\ c \in Commands
              /\ k = CommandKey(c) /\ s \in InternalOutcomes(c)
           \/ /\ k \in Agents /\ c \in Commands /\ PostResult(k, c)
              /\ s \in {"SUCCESS", "ERROR"}
    PROVE  Firm(c, k, s)'
<1>1. ASSUME NEW ch \in Chans, HandOver(ch), c = hand[ch],
             k = ChanAgent[ch], s = "RUNNING"
      PROVE  Firm(c, k, s)'
  <2>1. /\ serving[ch] \in Polls /\ PollAgent[serving[ch]] = k
        /\ k \in Agents
    BY <1>1, PollServiceAssumption
    DEF ControllerInv, PollInv, PollTypeOK, RoutineInv, ServingMatches, Busy,
        HandOver, RoutineGoes
  <2>2. payload'[serving[ch]] = c
    BY <1>1, <2>1 DEF HandOver, ControllerInv, PollInv, PollTypeOK
  <2>3. QED BY <1>1, <2>1, <2>2 DEF Firm, HandedTo
<1>2. ASSUME RespondNoAgents, c = dcmd, k = CommandKey(dcmd), s = "ERROR"
      PROVE  Firm(c, k, s)'
  <2>1. /\ c \in sent \ ToSet(cmdsQueue)
        /\ \A a \in Agents : c \notin enqueued[a]
    BY <1>2, DispatcherAssumption
    DEF ControllerInv, LifeInv, StageInv, LoopInv, Untouched, RespondNoAgents,
        LoopGoes
  <2>2. /\ UNCHANGED <<sent, cmdsQueue>> /\ dpc' = "signal"
    BY <1>2 DEF RespondNoAgents, LoopGoes
  <2>3. \A a \in Agents : c \notin enqueued'[a]
    BY <1>2, <2>1, EnqueuedByLoop
    DEF RespondNoAgents, LoopGoes, ControllerInv, ControllerTypeOK,
        DispatcherTypeOK, LifeInv, StageInv
  <2>4. QED BY <1>2, <2>1, <2>2, <2>3 DEF Firm, Refused
<1>3. ASSUME ExecuteInternalCommand(c), c \in Commands, k = CommandKey(c),
             s \in InternalOutcomes(c)
      PROVE  Firm(c, k, s)'
  BY <1>3
  DEF ExecuteInternalCommand, ControllerInv, LifeInv, SignalInv, Firm
<1>4. ASSUME k \in Agents, c \in Commands, PostResult(k, c),
             s \in {"SUCCESS", "ERROR"}
      PROVE  Firm(c, k, s)'
  <2>1. /\ c \in received[k] /\ UNCHANGED received
        /\ posted' = [posted EXCEPT ![k][c] = @ + 1]
        /\ posted \in [Agents -> [Commands -> Nat]]
    BY <1>4, ControllerAssumption
    DEF PostResult, ControllerInv, ControllerTypeOK, pollVars, fateVars
  <2>2. posted'[k][c] # 0
    BY <1>4, <2>1
  <2>3. QED BY <1>4, <2>1, <2>2 DEF Firm, IsTerminalCommandState
<1>5. CASE AnnounceQueued(k) /\ k \in Agents /\ s = "QUEUED"
  BY <1>5 DEF Firm
<1>6. QED BY <1>1, <1>2, <1>3, <1>4, <1>5

\* So are all that are on their way.
LEMMA NextCallsFirm ==
    ASSUME ControllerInv, FoundedInv, [Next]_vars, NEW call \in calls'
    PROVE  Firm(call.cmd, call.key, call.state)'
<1>1. ASSUME NEW old \in calls, call.cmd = old.cmd, call.key = old.key,
             call.state = old.state
      PROVE  Firm(call.cmd, call.key, call.state)'
  <2>1. old.cmd \in Commands /\ Firm(old.cmd, old.key, old.state)
    BY CallsAreTyped DEF ControllerInv, ControllerTypeOK, FoundedInv
  <2>2. Firm(call.cmd, call.key, call.state)
    BY <1>1, <2>1
  <2>3. QED BY <1>1, <2>1, <2>2, FirmStays
<1>2. CASE call \in calls
  BY <1>1, <1>2
<1>3. ASSUME call \notin calls, NEW g, NEW c, NEW k, NEW s,
             RespondToCommand(g, c, k, s)
      PROVE  call.cmd = c /\ call.key = k /\ call.state = s
  BY <1>3 DEF RespondToCommand
<1>4. ASSUME call \notin calls, Loop PROVE Firm(call.cmd, call.key, call.state)'
  <2>1. CASE RespondNoAgents
    <3>1. /\ call.cmd = dcmd /\ call.key = CommandKey(dcmd)
          /\ call.state = "ERROR"
      BY <1>3, <1>4, <2>1 DEF RespondNoAgents
    <3>2. QED BY <2>1, <3>1, BegunIsFirm
  <2>2. ASSUME NEW a \in Agents, AnnounceQueued(a)
        PROVE  Firm(call.cmd, call.key, call.state)'
    <3>1. call.cmd = dcmd /\ call.key = a /\ call.state = "QUEUED"
      BY <1>3, <1>4, <2>2 DEF AnnounceQueued
    <3>2. QED BY <2>2, <3>1, BegunIsFirm
  <2>3. CASE UNCHANGED calls
    BY <1>4, <2>3
  <2>4. QED
    BY <1>4, <2>1, <2>2, <2>3
    DEF Loop, LoopStep, BlockingPop, LogCommand, StartInternal,
        SnapshotCandidates, CheckRoles, ChooseTargets, ChooseNode,
        SignalPickedUp, SignalAsPickedUp, responderVars
<1>5. ASSUME call \notin calls, NEW d \in Commands, Internal(d)
      PROVE  Firm(call.cmd, call.key, call.state)'
  <2>1. CASE ExecuteInternalCommand(d)
    <3>1. PICK s \in InternalOutcomes(d) :
            RespondToCommand(internal(d), d, CommandKey(d), s)
      BY <2>1 DEF ExecuteInternalCommand
    <3>2. call.cmd = d /\ call.key = CommandKey(d) /\ call.state = s
      BY <1>3, <1>5, <3>1
    <3>3. QED BY <2>1, <3>1, <3>2, BegunIsFirm
  <2>2. CASE SignalInternal(d)
    BY <1>5, <2>2 DEF SignalInternal, SignalAsPickedUp
  <2>3. QED BY <1>5, <2>1, <2>2 DEF Internal, InternalStep
<1>6. ASSUME call \notin calls, NEW ch \in Chans, Routine(ch)
      PROVE  Firm(call.cmd, call.key, call.state)'
  <2>1. CASE HandOverAndReport(ch)
    <3>1. /\ call.cmd = hand[ch] /\ call.key = ChanAgent[ch]
          /\ call.state = "RUNNING"
      BY <1>3, <1>6, <2>1 DEF HandOverAndReport
    <3>2. HandOver(ch)
      BY <2>1 DEF HandOverAndReport
    <3>3. QED BY <3>1, <3>2, BegunIsFirm
  <2>2. CASE UNCHANGED calls
    BY <1>6, <2>2
  <2>3. QED BY <1>6, <2>1, <2>2 DEF Routine, FinishReport, responderVars
<1>7. ASSUME call \notin calls, NEW a \in Agents, NEW d \in Commands,
             PostResult(a, d)
      PROVE  Firm(call.cmd, call.key, call.state)'
  <2>1. PICK s \in {"SUCCESS", "ERROR"} :
          RespondToCommand(resultOf(a, d), d, a, s)
    BY <1>7 DEF PostResult
  <2>2. call.cmd = d /\ call.key = a /\ call.state = s
    BY <1>3, <1>7, <2>1
  <2>3. QED BY <1>7, <2>1, <2>2, BegunIsFirm
<1>8. ASSUME call \notin calls, NEW old \in calls, Responding(old)
      PROVE  Firm(call.cmd, call.key, call.state)'
  <2>1. ResponderTypeOK /\ CallsInv
    BY DEF ControllerInv, ControllerTypeOK, LifeInv
  <2>2. ~ LogResponse(old)
    BY <1>8 DEF LogResponse
  <2>3. PICK step : Advance(old, step)
    BY <1>8, <2>2 DEF Responding, CallStep, SetResult, signalAsDone
  <2>4. PICK next :
          /\ calls' = (calls \ {old}) \cup {next}
          /\ next.cmd = old.cmd /\ next.key = old.key
          /\ next.state = old.state
    BY <2>1, <2>3, CallGoesOn
  <2>5. call = next
    BY <1>8, <2>4
  <2>6. QED BY <1>1, <1>8, <2>4, <2>5
<1>9. ASSUME \/ \E c \in Commands : SendCommand(c)
             \/ \E a \in Agents : DispatchTo(a) \/ DispatchLost(a)
             \/ \E p \in Polls : Handler(p)
             \/ Disturbance \/ PopCommandLost \/ UNCHANGED vars
      PROVE  UNCHANGED calls
  BY <1>9
  DEF SendCommand, Push, DispatchTo, DispatchLost, Distributed, Handler,
      Disturbance, PopCommandLost, PopLost, responderVars, vars
<1>10. CrashAll => calls' = {}
  BY DEF CrashAll, DispatcherCrash, ResponderCrash
<1>11. QED
  BY <1>2, <1>4, <1>5, <1>6, <1>7, <1>8, <1>9, <1>10 DEF Next, Work

\* Every step keeps all that is said true.
LEMMA NextFounded ==
    ASSUME ControllerInv, FoundedInv, [Next]_vars PROVE FoundedInv'
<1>1. ResponderTypeOK /\ CallsInv
  BY DEF ControllerInv, ControllerTypeOK, LifeInv
<1>2. ASSUME NEW c \in Commands, NEW k \in Keys, NEW s,
             s = jobresult'[c][k], s # NoResponse
      PROVE  Firm(c, k, s)'
  <2>1. CASE s = jobresult[c][k]
    BY <1>2, <2>1, FirmStays DEF FoundedInv
  <2>2. CASE s # jobresult[c][k]
    <3>1. PICK call \in calls : CallStep(call) /\ ~ UNCHANGED jobresult
      BY <1>2, <2>2, WriteStep DEF written
    <3>2. SetResult(call)
      BY <3>1 DEF CallStep, signalAsDone, LogResponse
    <3>3. call.cmd = c /\ call.key = k /\ s = call.state
      BY <1>1, <1>2, <2>2, <3>2, SetEffect
    <3>4. Firm(c, k, s)
      BY <3>3 DEF FoundedInv
    <3>5. QED BY <3>4, FirmStays
  <2>3. QED BY <2>1, <2>2
<1>3. ASSUME NEW r \in doneSignals' \cup resultsLog'
      PROVE  Firm(r[1], r[2], r[3])'
  <2>1. r \in doneSignals \cup resultsLog
        \/ \E call \in calls : r = Content3(call)
    BY <1>3, WriteStep
    DEF written, CallStep, SetResult, signalAsDone, LogResponse
  <2>2. CASE r \in doneSignals \cup resultsLog
    <3>1. r[1] \in Commands /\ Firm(r[1], r[2], r[3])
      BY <1>1, <2>2 DEF ResponderTypeOK, Response, FoundedInv
    <3>2. QED BY <3>1, FirmStays
  <2>3. ASSUME NEW call \in calls, r = Content3(call)
        PROVE  Firm(r[1], r[2], r[3])'
    <3>1. r[1] \in Commands /\ Firm(r[1], r[2], r[3])
      BY <1>1, <2>3, CallsAreTyped DEF Content3, FoundedInv
    <3>2. QED BY <3>1, FirmStays
  <2>4. QED BY <2>1, <2>2, <2>3
<1>4. \A call \in calls' : Firm(call.cmd, call.key, call.state)'
  BY NextCallsFirm
<1>5. QED BY <1>2, <1>3, <1>4 DEF FoundedInv

\* What Redis says of a command is so, in every reachable state.
LEMMA FoundedInvariance == Spec => []FoundedInv
<1>1. Init => FoundedInv
  BY DEF Init, ResponderInit, FoundedInv
<1>2. QED BY <1>1, ControllerInvariance, NextFounded, PTL DEF Spec

\* No response is made up: an agent that is said to run a command was handed
\* it, one that is said to be done received it and posted a result, and a
\* command that is refused is never queued for anybody, though the refusal may
\* be in an agent's own field (application.go:231-275, 325-336,
\* core/commandresponses.go:10-91).
THEOREM NothingIsInvented == Spec => []NoAnswerIsInvented
<1>1. FoundedInv => NoAnswerIsInvented
  BY DEF FoundedInv, NoAnswerIsInvented, Firm, Founded, Refused
<1>2. QED BY <1>1, FoundedInvariance, PTL
=============================================================================
