---------------------------- MODULE SystemProofs ----------------------------
(***************************************************************************)
(* The client library on the controller, for any number of agents, polls,  *)
(* channels, commands, calls and faults.                                   *)
(***************************************************************************)
EXTENDS SystemProperties, ControllerProofs

\* What is proved of Client, of this instance of it.
P == INSTANCE ClientProofs
       WITH Reported <- CommandStates \ {"QUEUED"},
            MaxSignals <- Cardinality(CommandStates)

\* Both instances of Client say the same.
LEMMA SameCardinality == \A S : Lib!Cardinality(S) = P!Cardinality(S)
  BY DEF Lib!Cardinality, P!Cardinality

\* The calls start alike in both.
LEMMA SameInit == Lib!ClientInit <=> P!ClientInit
  BY DEF Lib!ClientInit, P!ClientInit, Lib!LifecycleInit,
         P!LifecycleInit, Lib!NoResponses, P!NoResponses, Lib!Keys,
         P!Keys, Lib!CommandKey, P!CommandKey, Lib!NoResponse,
         P!NoResponse

\* A call begins alike in both.
LEMMA SameExecute == \A c : Lib!Execute(c) <=> P!Execute(c)
  BY SameCardinality
  DEF Lib!Execute, P!Execute, Lib!Goes, P!Goes, Lib!Called, P!Called,
      Lib!ApisOf, P!ApisOf, Lib!IsInternal, P!IsInternal,
      Lib!SendCommand, P!SendCommand, Lib!lifeVars, P!lifeVars,
      Lib!readerVars, P!readerVars

\* The goroutine of Execute steps alike in both.
LEMMA SameExecuteStep == \A c : Lib!ExecuteStep(c) <=> P!ExecuteStep(c)
  BY DEF Lib!ExecuteStep, P!ExecuteStep, Lib!isPickedUp, P!isPickedUp,
         Lib!ReadInitial, P!ReadInitial, Lib!SendInitial,
         P!SendInitial, Lib!CloseEarly, P!CloseEarly, Lib!ReadAgents,
         P!ReadAgents, Lib!NextAgent, P!NextAgent, Lib!isDone,
         P!isDone, Lib!ReadAnswer, P!ReadAnswer, Lib!SendAnswer,
         P!SendAnswer, Lib!CloseChannel, P!CloseChannel, Lib!Goes,
         P!Goes, Lib!ReadResponses, P!ReadResponses, Lib!Send, P!Send,
         Lib!Ends, P!Ends, Lib!InitialStates, P!InitialStates,
         Lib!lifeVars, P!lifeVars, Lib!readerVars, P!readerVars,
         Lib!Keys, P!Keys, Lib!CommandKey, P!CommandKey,
         Lib!NoResponse, P!NoResponse, Lib!NoResponses, P!NoResponses,
         Lib!TerminalStates, P!TerminalStates, Lib!CommandStates,
         P!CommandStates, Lib!IsTerminalCommandState,
         P!IsTerminalCommandState, Lib!ResponseTo, P!ResponseTo,
         Lib!Present, P!Present

\* So does the goroutine of a high-level call.
LEMMA SameApiStep == \A c : Lib!ApiStep(c) <=> P!ApiStep(c)
  BY DEF Lib!ApiStep, P!ApiStep, Lib!TakeFirst, P!TakeFirst,
         Lib!Exhaust, P!Exhaust, Lib!Conclude, P!Conclude, Lib!Takes,
         P!Takes, Lib!ErrorOrResults, P!ErrorOrResults,
         Lib!ChannelClosed, P!ChannelClosed, Lib!OutcomeOf,
         P!OutcomeOf, Lib!ExecutableOutcome, P!ExecutableOutcome,
         Lib!LiveAgentsOutcome, P!LiveAgentsOutcome,
         Lib!ListJobsOutcome, P!ListJobsOutcome, Lib!AddJobOutcome,
         P!AddJobOutcome, Lib!RemoveJobOutcome, P!RemoveJobOutcome,
         Lib!lifeVars, P!lifeVars, Lib!executeVars, P!executeVars

\* Their environments may do the same.
LEMMA SameEnvironment == \A c : Lib!Environment(c) <=> P!Environment(c)
  BY SameCardinality
  DEF Lib!Environment, P!Environment, Lib!Responding, P!Responding,
      Lib!Answer, P!Answer, Lib!PickUp, P!PickUp, Lib!Announce,
      P!Announce, Lib!QueueFor, P!QueueFor, Lib!Report, P!Report,
      Lib!SignalDone, P!SignalDone, Lib!Respond, P!Respond,
      Lib!AnswerStates, P!AnswerStates, Lib!IsInternal, P!IsInternal,
      Lib!InternalOutcomes, P!InternalOutcomes, Lib!Keys, P!Keys,
      Lib!CommandKey, P!CommandKey, Lib!CommandStates,
      P!CommandStates, Lib!NoResponse, P!NoResponse, Lib!Present,
      P!Present, Lib!ResponseTo, P!ResponseTo, Lib!TerminalStates,
      P!TerminalStates, Lib!IsTerminalCommandState,
      P!IsTerminalCommandState, Lib!executeVars, P!executeVars,
      Lib!readerVars, P!readerVars

\* So the specifications agree.
LEMMA SameSpec == Lib!ClientSpec <=> P!ClientSpec
<1>1. Lib!ClientNext <=> P!ClientNext
  BY SameExecute, SameExecuteStep, SameApiStep, SameEnvironment
  DEF Lib!ClientNext, P!ClientNext
<1>2. [Lib!ClientNext]_(Lib!clientVars) <=> [P!ClientNext]_(P!clientVars)
  BY <1>1 DEF Lib!clientVars, P!clientVars, Lib!lifeVars, P!lifeVars,
              Lib!executeVars, P!executeVars, Lib!readerVars,
              P!readerVars
<1>3. QED BY <1>2, SameInit, PTL DEF Lib!ClientSpec, P!ClientSpec

-----------------------------------------------------------------------------
(* The controller under the library. *)

\* Whatever the library does, the controller takes its own steps.
LEMMA SystemIsController == SystemSpec => Spec
<1>1. SystemInit => Init
  BY DEF SystemInit
<1>2. [SystemNext]_systemVars => [Next]_vars
  BY DEF SystemNext, Execute, Library, Serve, Next, systemVars
<1>3. QED BY <1>1, <1>2, PTL DEF SystemSpec, Spec

\* All that is proved of the controller holds in the system.
LEMMA SystemController == SystemSpec => []ControllerInv
  BY SystemIsController, ControllerInvariance, PTL

\* Only clients send commands.
LEMMA WorkSendsNothing == ASSUME Work PROVE UNCHANGED sent
<1>1. ASSUME Loop \/ (\E c \in Commands : Internal(c)) PROVE UNCHANGED sent
  BY <1>1
  DEF Loop, LoopStep, BlockingPop, LogCommand, StartInternal,
      SnapshotCandidates, ChooseTargets, ChooseNode, CheckRoles,
      AnnounceQueued, RespondNoAgents, SignalPickedUp, Internal, InternalStep,
      ExecuteInternalCommand, SignalInternal
<1>2. ASSUME \E a \in Agents : DispatchTo(a) \/ DispatchLost(a)
      PROVE  UNCHANGED sent
  BY <1>2 DEF DispatchTo, DispatchLost, Distributed
<1>3. ASSUME PopCommandLost \/ CrashAll PROVE UNCHANGED sent
  BY <1>3 DEF PopCommandLost, PopLost, CrashAll, DispatcherCrash
<1>4. ASSUME \/ \E ch \in Chans : Routine(ch)
             \/ \E p \in Polls : Handler(p)
             \/ Disturbance
             \/ \E a \in Agents, c \in Commands : PostResult(a, c)
             \/ \E call \in calls : Responding(call)
      PROVE  UNCHANGED sent
  BY <1>4
  DEF Routine, HandOverAndReport, FinishReport, Handler, Disturbance,
      PostResult, Responding, dispatcherVars
<1>5. QED BY <1>1, <1>2, <1>3, <1>4 DEF Work

\* What the controller and the agents do shows as a response or a signal, or
\* does not show.
LEMMA WorkIsResponding ==
    ASSUME ControllerInv, Work
    PROVE  UNCHANGED Life!lifeVars \/ \E c \in Commands : Life!Responding(c)
<1>1. [Life!LifecycleNext]_(Life!lifeVars)
  BY StepIsLifecycleStep DEF Next
<1>2. \A c : ~ Life!SendCommand(c)
  BY WorkSendsNothing DEF Life!SendCommand
<1>3. QED BY <1>1, <1>2 DEF Life!LifecycleNext

\* The instances of CommandLifecycle say the same.
LEMMA SameResponding ==
    /\ Lib!lifeVars = Life!lifeVars
    /\ \A c : Lib!Responding(c) <=> Life!Responding(c)
  BY DEF Lib!lifeVars, Life!lifeVars, Lib!Responding, Life!Responding,
         Lib!Answer, Life!Answer, Lib!PickUp, Life!PickUp, Lib!Announce,
         Life!Announce, Lib!QueueFor, Life!QueueFor, Lib!Report, Life!Report,
         Lib!SignalDone, Life!SignalDone, Lib!Respond, Life!Respond,
         Lib!AnswerStates, Life!AnswerStates, Lib!IsInternal,
         Life!IsInternal, Lib!InternalOutcomes, Life!InternalOutcomes,
         Lib!Keys, Life!Keys, Lib!CommandKey, Life!CommandKey,
         Lib!CommandStates, Life!CommandStates, Lib!NoResponse,
         Life!NoResponse, Lib!Present, Life!Present, Lib!ResponseTo,
         Life!ResponseTo, Lib!TerminalStates, Life!TerminalStates,
         Lib!IsTerminalCommandState, Life!IsTerminalCommandState

\* There are a few states of a response.
LEMMA StatesAreFinite == IsFiniteSet(CommandStates)
<1>1. \A x, S : IsFiniteSet(S) => IsFiniteSet(S \cup {x})
  BY FS_AddElement
<1>2. IsFiniteSet(((({} \cup {"QUEUED"}) \cup {"RUNNING"})
                     \cup {"ERROR"}) \cup {"SUCCESS"})
  BY <1>1, FS_EmptySet
<1>3. CommandStates = (((({} \cup {"QUEUED"}) \cup {"RUNNING"})
                         \cup {"ERROR"}) \cup {"SUCCESS"})
                      \cup {"UNKNOWN_CMD"}
  BY DEF CommandStates
<1>4. QED BY <1>1, <1>2, <1>3

\* The bounds of Client on what is reported of c.
Bounded(results, signals, c) ==
    /\ \A a \in Agents :
         /\ results[c][a] \in (CommandStates \ {"QUEUED"})
                                \cup {"QUEUED", Lib!NoResponse}
         /\ \A s \in Lib!TerminalStates :
              <<c, a, s>> \in signals => s \in CommandStates \ {"QUEUED"}
    /\ \A k \in Lib!Keys :
         Lib!Cardinality({s \in Lib!TerminalStates : <<c, k, s>> \in signals})
           <= Cardinality(CommandStates)

\* They exclude nothing here.
LEMMA ReportsAreBounded ==
    ASSUME NEW results \in [Commands -> [Keys -> CommandStates \cup {NoResponse}]],
           NEW signals \in SUBSET Response, NEW c \in Commands
    PROVE  Bounded(results, signals, c)
<1>1. Lib!NoResponse = NoResponse
      /\ Lib!TerminalStates \subseteq CommandStates \ {"QUEUED"}
  BY DEF Lib!NoResponse, NoResponse, Lib!TerminalStates, Lib!CommandStates,
         CommandStates, Lib!IsTerminalCommandState
<1>2. \A S : Lib!Cardinality(S) = Cardinality(S)
  BY DEF Lib!Cardinality, Cardinality
<1>3. ASSUME NEW k \in Lib!Keys
      PROVE  Cardinality({s \in Lib!TerminalStates : <<c, k, s>> \in signals})
               <= Cardinality(CommandStates)
  <2>1. {s \in Lib!TerminalStates : <<c, k, s>> \in signals}
          \in SUBSET CommandStates
    BY <1>1
  <2>2. QED BY <2>1, FS_Subset, StatesAreFinite
<1>4. QED BY <1>1, <1>2, <1>3, KeyTypes DEF Bounded

\* A step of the system is one of the library or of its environment.
LEMMA SystemStepIsClientStep ==
    ASSUME ControllerInv, ControllerInv', [SystemNext]_systemVars
    PROVE  [Lib!ClientNext]_(Lib!clientVars)
<1>1. ASSUME NEW c \in Commands, Execute(c) \/ Library(c)
      PROVE  Lib!ClientNext
  BY <1>1 DEF Execute, Library, Lib!ClientNext
<1>2. CASE Serve
  <2>1. CASE UNCHANGED Life!lifeVars
    BY <1>2, <2>1
    DEF Serve, callVars, Life!lifeVars, Lib!lifeVars, Lib!clientVars,
        Lib!executeVars, Lib!readerVars
  <2>2. ASSUME NEW c \in Commands, Life!Responding(c) PROVE Lib!ClientNext
    <3>1. /\ jobresult' \in [Commands -> [Keys -> CommandStates \cup {NoResponse}]]
          /\ doneSignals' \in SUBSET Response
      BY DEF ControllerInv, ControllerTypeOK, ResponderTypeOK
    <3>2. UNCHANGED <<Lib!executeVars, Lib!readerVars>>
      BY <1>2 DEF Serve, callVars, Lib!executeVars, Lib!readerVars
    <3>3. Bounded(jobresult', doneSignals', c)
      BY <3>1, ReportsAreBounded
    <3>4. Lib!Responding(c)
      BY <2>2, SameResponding
    <3>5. Lib!Environment(c)
      BY <3>2, <3>3, <3>4 DEF Lib!Environment, Bounded
    <3>6. QED BY <3>5 DEF Lib!ClientNext
  <2>3. QED BY <1>2, <2>1, <2>2, WorkIsResponding DEF Serve
<1>3. CASE UNCHANGED systemVars
  BY <1>3
  DEF systemVars, vars, callVars, pollVars, queueVars, dispatcherVars,
      responderVars, Lib!clientVars, Lib!lifeVars, Lib!executeVars,
      Lib!readerVars
<1>4. QED BY <1>1, <1>2, <1>3 DEF SystemNext

\* The controller, its agents and their faults are an environment the client
\* library was written for, so that what is proved of the library for every
\* such environment is a fact about the whole
\* (client/lowlevelclient.go:124-158 on redisdata/commandresponder.go:36-59).
THEOREM ClientImplemented == SystemSpec => ImplementsClient
<1>1. SystemInit => Lib!ClientInit
  BY DEF SystemInit
<1>2. ControllerInv /\ ControllerInv' /\ [SystemNext]_systemVars
        => [Lib!ClientNext]_(Lib!clientVars)
  BY SystemStepIsClientStep
<1>3. QED
  BY <1>1, <1>2, SystemController, PTL
  DEF SystemSpec, ImplementsClient, Lib!ClientSpec

-----------------------------------------------------------------------------
(* What callers get. *)

\* What Client assumes of its constants.
LEMMA LibraryAssumed ==
    /\ Agents \subseteq P!AgentID
    /\ Content \in [Commands -> P!CommandContent]
    /\ NoCommand \notin Commands
    /\ MaxCalls \in Nat
    /\ CommandStates \ {"QUEUED"} \subseteq P!CommandStates \ {"QUEUED"}
    /\ Cardinality(CommandStates) \in Nat
    /\ NoKey \notin P!Keys
    /\ Nothing \notin P!Answers
<1>1. Agents \subseteq P!AgentID /\ Content \in [Commands -> P!CommandContent]
  BY CoreAssumption DEF P!AgentID, AgentID, P!CommandContent, CommandContent
<1>2. P!CommandStates = CommandStates /\ P!Keys = Keys
  BY DEF P!CommandStates, CommandStates, P!Keys, Keys, P!CommandKey, CommandKey
<1>3. P!Answers = Lib!Answers
  BY DEF P!Answers, Lib!Answers, P!Keys, Lib!Keys, P!CommandKey,
         Lib!CommandKey, P!TerminalStates, Lib!TerminalStates,
         P!CommandStates, Lib!CommandStates, P!IsTerminalCommandState,
         Lib!IsTerminalCommandState
<1>4. QED
  BY <1>1, <1>2, <1>3, CoreAssumption, SystemAssumption, StatesAreFinite,
     FS_CardinalityType

\* What is proved of Client is proved of this instance.
LEMMA LibraryFacts ==
    P!ClientSpec => []P!ClientInv /\ []P!AwaitsResponders
<1>1. P!ClientSpec => []P!ClientInv
  BY P!ClientInvariance, LibraryAssumed
<1>2. P!ClientSpec => []P!AwaitsResponders
  BY P!OnlyRespondersAwaited, LibraryAssumed
<1>3. QED BY <1>1, <1>2, PTL

\* In the system the library keeps its invariants.
LEMMA SystemLibrary ==
    SystemSpec => []P!ClientInv /\ []P!AwaitsResponders
  BY ClientImplemented, SameSpec, LibraryFacts, PTL DEF ImplementsClient

\* A call on the controller as it is, with its crashes and lost calls, returns
\* the terminal response of every agent its command was announced to, but for
\* those found RUNNING after their done signal, if it waits and returns
\* (client/lowlevelclient.go:126-157 on application.go:262-336).
THEOREM CallersHearEveryone == SystemSpec => []Lib!EveryResponderIsHeard
<1>1. P!ClientSpec => []P!EveryResponderIsHeard
  BY P!NobodyIsMissed, LibraryAssumed
<1>2. P!EveryResponderIsHeard <=> Lib!EveryResponderIsHeard
  BY DEF P!EveryResponderIsHeard, Lib!EveryResponderIsHeard, P!ResponseTo,
         Lib!ResponseTo, P!Present, Lib!Present, P!NoResponse,
         Lib!NoResponse, P!Keys, Lib!Keys, P!CommandKey, Lib!CommandKey,
         P!Heard, Lib!Heard
<1>3. QED
  BY <1>1, <1>2, ClientImplemented, SameSpec, PTL DEF ImplementsClient

\* No call makes success of silence, or panics for want of a response, on the
\* controller as it is (client/client.go:37-43, 181-205, 221).
THEOREM CallersAreConfirmed == SystemSpec => []Lib!SuccessIsConfirmed
<1>1. P!ClientSpec => []P!SuccessIsConfirmed
  BY P!SilenceIsNoSuccess, LibraryAssumed
<1>2. P!SuccessIsConfirmed <=> Lib!SuccessIsConfirmed
  BY DEF P!SuccessIsConfirmed, Lib!SuccessIsConfirmed, P!Keys, Lib!Keys,
         P!CommandKey, Lib!CommandKey, P!TerminalStates, Lib!TerminalStates,
         P!CommandStates, Lib!CommandStates, P!IsTerminalCommandState,
         Lib!IsTerminalCommandState
<1>3. QED
  BY <1>1, <1>2, ClientImplemented, SameSpec, PTL DEF ImplementsClient

\* A call that waits, for its pick-up signal or for an agent, waits for
\* something that was given, is coming or is owed, unless a fault hit its very
\* command or that very answer
\* (client/lowlevelclient.go:124-151 on application.go:231-336).
THEOREM NobodyWaitsInVain == SystemSpec => []NoCallWaitsInVain
<1>1. ASSUME SentIsInHand, EveryWaitHasAReason, P!ClientInv,
             P!AwaitsResponders
      PROVE  NoCallWaitsInVain
  <2> SUFFICES ASSUME NEW c \in Commands, cpc[c] = "done"
               PROVE  Awaited(c, target[c])
    BY <1>1 DEF NoCallWaitsInVain, SentIsInHand
  <2>1. c \in pickedUp /\ target[c] \in P!Keys
    BY <1>1
    DEF P!ClientInv, P!CallInv, P!CallStarts, P!ReadsMatch
  <2>2. target[c] \in P!ResponseTo(c)
    BY <1>1, <2>1, LibraryAssumed DEF P!AwaitsResponders
  <2>3. P!ResponseTo(c) = Life!ResponseTo(c)
    BY DEF P!ResponseTo, Life!ResponseTo, P!Present, Life!Present,
           P!NoResponse, Life!NoResponse, P!Keys, Life!Keys, P!CommandKey,
           Life!CommandKey
  <2>4. QED BY <1>1, <2>1, <2>2, <2>3 DEF EveryWaitHasAReason
<1>2. QED
  BY <1>1, SystemIsController, NothingSentIsLost, WaitsHaveReasons,
     SystemLibrary, PTL

\* What is proved of the controller, as a caller's system shows it: signals,
\* responses and logs stay in order and no answer goes missing whatever the
\* clients do meanwhile.
COROLLARY OrderInSystem ==
    SystemSpec => /\ [](DoneIsRecorded /\ PickedUpIsDispatched)
                  /\ [](NothingUnlogged /\ EveryWaitHasAReason)
                  /\ NeverBackToQueued /\ QueuedIsLoggedFirst
  BY SystemIsController, DoneMeansWritten, DispatchedAtPickUp,
     LoggedBeforeAnswered, WaitsHaveReasons, ForwardFromQueued,
     QueuedLoggedFirst, PTL
-----------------------------------------------------------------------------
(* What callers are told. *)

\* Whatever a call has read, holds or has got of its command is so.
Told(c) ==
    /\ \A k \in Keys, s \in CommandStates :
         responses[c][k] = s => Firm(c, k, s)
    /\ \A k \in Keys, s \in P!TerminalStates :
         held[c] = <<k, s>> => Firm(c, k, s)
    /\ \A i \in DOMAIN answers[c] : \A k \in Keys, s \in P!TerminalStates :
         answers[c][i] = <<k, s>> => Firm(c, k, s)

ToldInv == \A c \in Commands : Told(c)

\* A goroutine of Execute reads what the hash says, and passes on what it read.
LEMMA ExecuteStepTells ==
    ASSUME P!ClientTypeOK, NEW c \in Commands, NEW d \in Commands,
           P!ExecuteStep(d)
    PROVE  /\ \A k \in Keys :
                responses'[c][k]
                  \in {NoResponse, responses[c][k], jobresult[c][k]}
           /\ \/ held'[c] = held[c]
              \/ \E k : held'[c] = <<k, responses[c][k]>>
           /\ UNCHANGED answers
<1> USE DEF P!readerVars, P!ClientTypeOK
<1>1. P!Keys = Keys /\ P!NoResponse = NoResponse
  BY DEF P!Keys, Keys, P!CommandKey, CommandKey, P!NoResponse, NoResponse
<1>2. ASSUME NEW k, P!Send(d, k)
      PROVE  /\ \/ held'[c] = held[c]
                \/ held'[c] = <<k, responses[c][k]>>
             /\ UNCHANGED answers
  BY <1>2 DEF P!Send
<1>3. CASE P!ReadInitial(d) \/ P!ReadAgents(d) \/ P!ReadAnswer(d)
  BY <1>1, <1>3
  DEF P!ReadInitial, P!ReadAgents, P!ReadAnswer, P!ReadResponses
<1>4. CASE P!SendInitial(d)
  <2>1. PICK k : P!Send(d, k)
    BY <1>4 DEF P!SendInitial
  <2>2. QED BY <1>1, <1>2, <1>4, <2>1 DEF P!SendInitial
<1>5. CASE P!SendAnswer(d)
  <2>1. P!Send(d, target[d])
    BY <1>5 DEF P!SendAnswer
  <2>2. \A k \in Keys : responses'[c][k] \in {NoResponse, responses[c][k]}
    BY <1>1, <1>5 DEF P!SendAnswer, P!NoResponses
  <2>3. QED BY <1>1, <1>2, <2>1, <2>2
<1>6. CASE P!CloseEarly(d) \/ P!CloseChannel(d)
  <2>1. P!Ends(d)
    BY <1>6 DEF P!CloseEarly, P!CloseChannel
  <2>2. \A k \in Keys : responses'[c][k] \in {NoResponse, responses[c][k]}
    BY <1>1, <2>1 DEF P!Ends, P!NoResponses
  <2>3. QED BY <2>1, <2>2 DEF P!Ends
<1>7. CASE P!isPickedUp(d) \/ P!NextAgent(d) \/ P!isDone(d)
  BY <1>7 DEF P!isPickedUp, P!NextAgent, P!isDone
<1>8. QED BY <1>3, <1>4, <1>5, <1>6, <1>7 DEF P!ExecuteStep

\* The goroutine of a high-level call takes what is passed on.
LEMMA ApiStepTells ==
    ASSUME P!ClientTypeOK, NEW c \in Commands, NEW d \in Commands,
           P!ApiStep(d)
    PROVE  /\ UNCHANGED responses
           /\ held'[c] \in {held[c], Nothing}
           /\ answers'[c] \in {answers[c], Append(answers[c], held[c])}
  BY DEF P!ApiStep, P!TakeFirst, P!Exhaust, P!Takes, P!Conclude,
         P!executeVars, P!ClientTypeOK

\* Both sides speak of the same answers.
LEMMA SameAnswers ==
    /\ P!Keys = Keys /\ Keys \X P!TerminalStates = P!Answers
    /\ P!TerminalStates \subseteq CommandStates
    /\ Nothing \notin P!Answers
  BY LibraryAssumed
  DEF P!Keys, Keys, P!CommandKey, CommandKey, P!Answers, P!TerminalStates,
      P!CommandStates, CommandStates

\* Every step of the system keeps what callers know true.
LEMMA NextTold ==
    ASSUME ControllerInv, FoundedInv, P!ClientTypeOK, P!ClientTypeOK', ToldInv,
           [SystemNext]_systemVars
    PROVE  ToldInv'
<1> SUFFICES ASSUME NEW c \in Commands PROVE Told(c)'
  BY DEF ToldInv
<1>1. [Next]_vars
  BY DEF SystemNext, Execute, Library, Serve, Next, systemVars
<1>2. ASSUME NEW k, NEW s, Firm(c, k, s) PROVE Firm(c, k, s)'
  BY <1>1, <1>2, FirmStays
<1>3. Told(c) /\ jobresult[c] \in [Keys -> CommandStates \cup {NoResponse}]
  BY DEF ToldInv, ControllerInv, ControllerTypeOK, ResponderTypeOK
<1>4. /\ Keys \X P!TerminalStates = P!Answers
      /\ P!TerminalStates \subseteq CommandStates
      /\ Nothing \notin P!Answers
  BY SameAnswers
<1>5. held'[c] = Nothing \/ held'[c] \in Keys \X P!TerminalStates
  BY <1>4 DEF P!ClientTypeOK
<1>6. ASSUME UNCHANGED <<responses, held, answers>> PROVE Told(c)'
  BY <1>2, <1>3, <1>6 DEF Told
<1>7. ASSUME NEW d \in Commands, P!ExecuteStep(d) PROVE Told(c)'
  <2>1. /\ \A k \in Keys :
             responses'[c][k]
               \in {NoResponse, responses[c][k], jobresult[c][k]}
        /\ \/ held'[c] = held[c]
           \/ \E k : held'[c] = <<k, responses[c][k]>>
        /\ UNCHANGED answers
    BY <1>7, ExecuteStepTells
  <2>2. ASSUME NEW k \in Keys, NEW s \in CommandStates, responses'[c][k] = s
        PROVE  Firm(c, k, s)'
    <3>1. s \in {responses[c][k], jobresult[c][k]} /\ s # NoResponse
      BY <2>1, <2>2, KeyTypes
    <3>2. Firm(c, k, s)
      BY <1>3, <3>1 DEF Told, FoundedInv
    <3>3. QED BY <1>2, <3>2
  <2>3. ASSUME NEW k \in Keys, NEW s \in P!TerminalStates, held'[c] = <<k, s>>
        PROVE  Firm(c, k, s)'
    <3>1. Firm(c, k, s)
      BY <1>3, <1>4, <2>1, <2>3 DEF Told
    <3>2. QED BY <1>2, <3>1
  <2>4. ASSUME NEW i \in DOMAIN answers'[c], NEW k \in Keys,
               NEW s \in P!TerminalStates, answers'[c][i] = <<k, s>>
        PROVE  Firm(c, k, s)'
    BY <1>2, <1>3, <2>1, <2>4 DEF Told
  <2>5. QED BY <2>2, <2>3, <2>4 DEF Told
<1>8. ASSUME NEW d \in Commands, P!ApiStep(d) PROVE Told(c)'
  <2>1. /\ UNCHANGED responses
        /\ held'[c] \in {held[c], Nothing}
        /\ answers'[c] \in {answers[c], Append(answers[c], held[c])}
    BY <1>8, ApiStepTells
  <2>2. ASSUME NEW k \in Keys, NEW s \in P!TerminalStates, held'[c] = <<k, s>>
        PROVE  Firm(c, k, s)'
    <3>1. <<k, s>> # Nothing
      BY <1>4
    <3>2. QED BY <1>2, <1>3, <2>1, <2>2, <3>1 DEF Told
  <2>3. ASSUME NEW i \in DOMAIN answers'[c], NEW k \in Keys,
               NEW s \in P!TerminalStates, answers'[c][i] = <<k, s>>
        PROVE  Firm(c, k, s)'
    <3>1. \/ i \in DOMAIN answers[c] /\ answers'[c][i] = answers[c][i]
          \/ answers'[c][i] = held[c]
      <4>1. CASE answers'[c] = answers[c]
        BY <2>3, <4>1
      <4>2. CASE answers'[c] = Append(answers[c], held[c])
        <5>1. answers[c] \in Seq(P!Answers \cup {Nothing})
          BY DEF P!ClientTypeOK
        <5>2. held[c] \in P!Answers \cup {Nothing}
          BY DEF P!ClientTypeOK
        <5>3. QED BY <2>3, <4>2, <5>1, <5>2
      <4>3. QED BY <2>1, <4>1, <4>2
    <3>2. QED BY <1>2, <1>3, <2>3, <3>1 DEF Told
  <2>4. QED BY <1>2, <1>3, <2>1, <2>2, <2>3 DEF Told
<1>9. ASSUME NEW d \in Commands, Execute(d) PROVE Told(c)'
  BY <1>6, <1>9 DEF Execute, Lib!Execute, Lib!readerVars
<1>10. CASE Serve \/ UNCHANGED systemVars
  BY <1>6, <1>10 DEF Serve, callVars, systemVars
<1>11. QED
  BY <1>7, <1>8, <1>9, <1>10, SameExecuteStep, SameApiStep
  DEF SystemNext, Library

\* What is so of the controller's responses is so in the system.
LEMMA SystemFounded == SystemSpec => []FoundedInv
  BY SystemIsController, FoundedInvariance, PTL

\* A caller is told the truth: who it hears has run its command, or the
\* command was refused and nobody will get it
\* (client/lowlevelclient.go:124-158, client/client.go:37-221 on
\* application.go:231-336).
THEOREM CallersAreToldTheTruth == SystemSpec => []NoCallerIsDeceived
<1>1. ASSUME SystemInit PROVE ToldInv
  <2> SUFFICES ASSUME NEW c \in Commands PROVE Told(c)
    BY DEF ToldInv
  <2>1. /\ responses[c] = Lib!NoResponses
        /\ held[c] = Nothing /\ answers[c] = <<>>
    BY <1>1 DEF SystemInit, Lib!ClientInit
  <2>2. \A k \in Keys : responses[c][k] = NoResponse
    BY <2>1
    DEF Lib!NoResponses, Lib!NoResponse, NoResponse, Lib!Keys, Keys,
        Lib!CommandKey, CommandKey
  <2>3. \A k \in Keys, s \in P!TerminalStates : held[c] # <<k, s>>
    BY <2>1, SameAnswers
  <2>4. QED BY <2>1, <2>2, <2>3, KeyTypes DEF Told
<1>2. P!ClientInv => P!ClientTypeOK
  BY DEF P!ClientInv
<1>3. SystemSpec => []ToldInv
  BY <1>1, <1>2, SystemController, SystemFounded, SystemLibrary, NextTold, PTL
  DEF SystemSpec
<1>4. ASSUME ToldInv, P!ClientTypeOK PROVE NoCallerIsDeceived
  <2> SUFFICES ASSUME NEW c \in Commands, NEW i \in DOMAIN answers[c]
               PROVE  Founded(c, answers[c][i][1], answers[c][i][2])
    BY DEF NoCallerIsDeceived
  <2>1. answers[c][i] \in Keys \X P!TerminalStates
    BY <1>4, SameAnswers DEF P!ClientTypeOK
  <2>2. PICK k \in Keys, s \in P!TerminalStates : answers[c][i] = <<k, s>>
    BY <2>1
  <2>3. Firm(c, k, s)
    BY <1>4, <2>2 DEF ToldInv, Told
  <2>4. Founded(c, k, s)
    BY <2>3 DEF Firm, Founded, Refused
  <2>5. QED BY <2>2, <2>4
<1>5. QED BY <1>2, <1>3, <1>4, SystemLibrary, PTL
=============================================================================
