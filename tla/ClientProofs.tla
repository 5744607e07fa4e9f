---------------------------- MODULE ClientProofs ----------------------------
(***************************************************************************)
(* Safety of the client library for any number of calls, agents, reported  *)
(* states and done signals.                                                *)
(***************************************************************************)
EXTENDS ClientProperties, TLAPS

(* What the controller keeps true in Redis. *)

\* A command is queued for agents that have a response, a done signal is
\* about an agent past QUEUED, and a command is picked up with responders.
ResponsesFirst ==
    /\ \A a \in Agents : \A c \in enqueued[a] : Present(c, a)
    /\ \A c \in Commands, k \in Keys, s \in TerminalStates :
         <<c, k, s>> \in doneSignals =>
             jobresult[c][k] \notin {NoResponse, "QUEUED"}
    /\ \A c \in pickedUp : ResponseTo(c) # {}

\* The controller alone answers an internal command, once.
InternalAnswers ==
    \A c \in Commands : IsInternal(c) =>
        /\ \A a \in Agents : c \notin enqueued[a]
        /\ \A k \in ResponseTo(c) :
             k = CommandKey(c) /\ jobresult[c][k] \in TerminalStates

RedisInv == LifecycleTypeOK /\ ResponsesFirst /\ InternalAnswers

-----------------------------------------------------------------------------
(* What a call keeps true. *)

Waiting == {"wait", "done", "reread", "deliver"}

\* Before the first response is sent nothing came out of a call; past the
\* pick-up its command is picked up, which fixes its responders.
CallStarts(c) ==
    /\ cpc[c] \in {"idle", "pickup", "read"} =>
         held[c] = Nothing /\ answers[c] = <<>> /\ outcome[c] = "none"
    /\ cpc[c] # "idle" => api[c] \in ApisOf(c)
    /\ cpc[c] \notin {"idle", "pickup"} => c \in pickedUp

\* What a call has read and still sends, and the agent it waits for: its done
\* signal precedes the response read.
ReadsMatch(c) ==
    /\ cpc[c] = "send" =>
         \A k \in pending[c] : responses[c][k] # NoResponse
    /\ cpc[c] \in {"done", "reread", "deliver"} => target[c] \in Keys
    /\ cpc[c] \notin {"done", "reread", "deliver"} => target[c] = NoKey
    /\ cpc[c] = "reread" =>
         \E s \in TerminalStates : <<c, target[c], s>> \in doneSignals
    /\ cpc[c] = "deliver" =>
         /\ responses[c][target[c]] \notin {NoResponse, "QUEUED"}
         /\ responses[c][target[c]] = "RUNNING" => target[c] \in late[c]
    /\ cpc[c] = "closed" => pending[c] = {}

\* Where the call is with responder k.
Accounted(c, k) ==
    \/ k \in pending[c]
    \/ k = target[c]
    \/ k \in Heard(c)
    \/ k \in late[c]
    \/ held[c] # Nothing /\ held[c][1] = k

NobodyIsForgotten(c) ==
    cpc[c] \in Waiting \cup {"closed"} =>
        \A k \in ResponseTo(c) : Accounted(c, k)

\* The answer is on its way or arrived.
Delivered(c) == held[c] # Nothing \/ answers[c] # <<>>

\* The one response to an internal command is among the initial ones.
InternalCall(c) ==
    IsInternal(c) =>
        /\ cpc[c] \in {"idle", "pickup", "read", "send", "early"}
        /\ cpc[c] = "send" =>
             /\ \A k \in Keys : responses[c][k] = jobresult[c][k]
             /\ pending[c] = {} => Delivered(c)
             /\ pending[c] \subseteq ResponseTo(c)
        /\ cpc[c] = "early" => Delivered(c)
        /\ held[c] # Nothing => held[c][2] = jobresult[c][held[c][1]]
        /\ \A i \in DOMAIN answers[c] :
             answers[c][i][2] = jobresult[c][answers[c][i][1]]

\* LiveAgents leaves after one response; success is a result of an internal
\* command.
OutcomeMatches(c) ==
    /\ api[c] = "LiveAgents" /\ outcome[c] = "none" => answers[c] = <<>>
    /\ outcome[c] # "panic"
    /\ outcome[c] = "success" =>
         /\ IsInternal(c)
         /\ \E k \in Keys : jobresult[c][k] \in TerminalStates \ {"ERROR"}

CallInv(c) ==
    /\ CallStarts(c)
    /\ ReadsMatch(c)
    /\ NobodyIsForgotten(c)
    /\ InternalCall(c)
    /\ OutcomeMatches(c)

ClientInv == ClientTypeOK /\ RedisInv /\ \A c \in Commands : CallInv(c)

-----------------------------------------------------------------------------
(* The steps of the controller and the agents. *)

\* What a step leaves of a picked-up command.
Settled(d) ==
    d \in pickedUp =>
        /\ d \in pickedUp'
        /\ ResponseTo(d)' = ResponseTo(d)
        /\ IsInternal(d) => jobresult'[d] = jobresult[d]

\* The states a done signal can carry.
LEMMA TerminalStatesAre ==
    TerminalStates = {"ERROR", "SUCCESS", "UNKNOWN_CMD"}
  BY DEF TerminalStates, CommandStates, IsTerminalCommandState

\* Agents and the commands' own pairs are keys.
LEMMA KeysOf ==
    /\ Agents \subseteq Keys
    /\ \A c \in Commands : CommandKey(c) \in Keys
  BY DEF Keys

\* Writing a response: which keys have one afterwards.
LEMMA RespondStep ==
    ASSUME LifecycleTypeOK, NEW c \in Commands, NEW k \in Keys,
           NEW s \in CommandStates, Respond(c, k, s)
    PROVE  /\ LifecycleTypeOK'
           /\ jobresult'[c][k] = s /\ s # NoResponse
           /\ \A d \in Commands, j \in Keys :
                d # c \/ j # k => jobresult'[d][j] = jobresult[d][j]
           /\ \A d \in Commands : d # c => jobresult'[d] = jobresult[d]
           /\ UNCHANGED <<sent, enqueued, doneSignals, pickedUp>>
  BY DEF LifecycleTypeOK, Respond, CommandStates, NoResponse

\* The first response of the controller itself.
LEMMA AnswerKeepsRedis ==
    ASSUME RedisInv, NEW c \in Commands, Answer(c)
    PROVE  RedisInv' /\ \A d \in Commands : Settled(d)
<1> USE DEF RedisInv
<1>1. PICK s \in AnswerStates(c) : Respond(c, CommandKey(c), s)
      BY DEF Answer
<1>2. s \in TerminalStates /\ s \in CommandStates
      BY <1>1, TerminalStatesAre
         DEF AnswerStates, InternalOutcomes, CommandStates
<1>3. CommandKey(c) \in Keys
      BY KeysOf
<1>4. /\ LifecycleTypeOK'
      /\ jobresult'[c][CommandKey(c)] = s /\ s # NoResponse
      /\ \A d \in Commands, j \in Keys :
           d # c \/ j # CommandKey(c) => jobresult'[d][j] = jobresult[d][j]
      /\ \A d \in Commands : d # c => jobresult'[d] = jobresult[d]
      /\ UNCHANGED <<sent, enqueued, doneSignals, pickedUp>>
      BY <1>1, <1>2, <1>3, RespondStep
<1>5. c \notin pickedUp /\ \A k \in Keys : jobresult[c][k] = NoResponse
      BY DEF Answer, ResponseTo, Present
<1>6. \A d \in Commands : Settled(d)
      BY <1>4, <1>5 DEF Settled, ResponseTo, Present
<1>7. ResponsesFirst'
  <2>1. \A a \in Agents : \A d \in enqueued'[a] : Present(d, a)'
        BY <1>4, KeysOf DEF ResponsesFirst, Present, LifecycleTypeOK
  <2>2. \A d \in Commands, k \in Keys, t \in TerminalStates :
          <<d, k, t>> \in doneSignals' =>
              jobresult'[d][k] \notin {NoResponse, "QUEUED"}
        BY <1>2, <1>4, TerminalStatesAre DEF ResponsesFirst
  <2>3. \A d \in pickedUp' : ResponseTo(d)' # {}
        BY <1>4, <1>6 DEF ResponsesFirst, Settled, LifecycleTypeOK
  <2> QED
      BY <2>1, <2>2, <2>3 DEF ResponsesFirst
<1>8. InternalAnswers'
      BY <1>2, <1>4, <1>5 DEF InternalAnswers, Present, ResponseTo
<1> QED
      BY <1>4, <1>6, <1>7, <1>8

\* A QUEUED response, of a command that is not internal.
LEMMA AnnounceKeepsRedis ==
    ASSUME RedisInv, NEW c \in Commands, NEW a \in Agents, Announce(c, a)
    PROVE  RedisInv' /\ \A d \in Commands : Settled(d)
<1> USE DEF RedisInv
<1>1. a \in Keys
      BY KeysOf
<1>2. /\ LifecycleTypeOK'
      /\ jobresult'[c][a] = "QUEUED" /\ "QUEUED" # NoResponse
      /\ \A d \in Commands, j \in Keys :
           d # c \/ j # a => jobresult'[d][j] = jobresult[d][j]
      /\ \A d \in Commands : d # c => jobresult'[d] = jobresult[d]
      /\ UNCHANGED <<sent, enqueued, doneSignals, pickedUp>>
      BY <1>1, RespondStep DEF Announce, CommandStates
<1>3. /\ c \notin pickedUp /\ ~ IsInternal(c)
      /\ jobresult[c][a] = NoResponse
      BY DEF Announce, Present
<1>4. ResponsesFirst'
      BY <1>1, <1>2, <1>3, KeysOf
         DEF ResponsesFirst, Present, ResponseTo, LifecycleTypeOK
<1>5. InternalAnswers'
      BY <1>2, <1>3 DEF InternalAnswers, Present, ResponseTo
<1>6. \A d \in Commands : Settled(d)
      BY <1>2, <1>3 DEF Settled, ResponseTo, Present
<1> QED
      BY <1>2, <1>4, <1>5, <1>6

\* A command queued for an agent that has it as QUEUED.
LEMMA QueueForKeepsRedis ==
    ASSUME RedisInv, NEW c \in Commands, NEW a \in Agents, QueueFor(a, c)
    PROVE  RedisInv' /\ \A d \in Commands : Settled(d)
<1> USE DEF RedisInv
<1>1. /\ UNCHANGED <<sent, jobresult, doneSignals, pickedUp>>
      /\ jobresult[c][a] = "QUEUED"
      /\ enqueued' = [enqueued EXCEPT ![a] = @ \cup {c}]
      BY DEF QueueFor
<1>2. a \in Keys
      BY KeysOf
<1>3. LifecycleTypeOK'
      BY <1>1 DEF LifecycleTypeOK
<1>4. ~ IsInternal(c)
      BY <1>1, <1>2, TerminalStatesAre
         DEF InternalAnswers, ResponseTo, Present, NoResponse
<1>5. ResponsesFirst'
      BY <1>1, <1>2
         DEF ResponsesFirst, Present, ResponseTo, LifecycleTypeOK, NoResponse
<1>6. InternalAnswers'
      BY <1>1, <1>4 DEF InternalAnswers, Present, ResponseTo, LifecycleTypeOK
<1>7. \A d \in Commands : Settled(d)
      BY <1>1 DEF Settled, ResponseTo, Present
<1> QED
      BY <1>3, <1>5, <1>6, <1>7

\* A response in the place of another.
LEMMA ReportKeepsRedis ==
    ASSUME RedisInv, NEW c \in Commands, NEW a \in Agents, Report(c, a)
    PROVE  RedisInv' /\ \A d \in Commands : Settled(d)
<1> USE DEF RedisInv
<1>1. PICK s \in CommandStates \ {"QUEUED"} : Respond(c, a, s)
      BY DEF Report
<1>2. a \in Keys
      BY KeysOf
<1>3. /\ LifecycleTypeOK'
      /\ jobresult'[c][a] = s /\ s # NoResponse
      /\ \A d \in Commands, j \in Keys :
           d # c \/ j # a => jobresult'[d][j] = jobresult[d][j]
      /\ \A d \in Commands : d # c => jobresult'[d] = jobresult[d]
      /\ UNCHANGED <<sent, enqueued, doneSignals, pickedUp>>
      BY <1>1, <1>2, RespondStep
<1>4. ~ IsInternal(c) /\ jobresult[c][a] # NoResponse
      BY DEF Report, InternalAnswers, ResponsesFirst, Present
<1>5. \A d \in Commands : ResponseTo(d)' = ResponseTo(d)
      BY <1>2, <1>3, <1>4 DEF ResponseTo, Present
<1>6. ResponsesFirst'
      BY <1>1, <1>2, <1>3, <1>5, KeysOf
         DEF ResponsesFirst, Present, ResponseTo, LifecycleTypeOK
<1>7. InternalAnswers'
      BY <1>3, <1>4, <1>5 DEF InternalAnswers
<1>8. \A d \in Commands : Settled(d)
      BY <1>3, <1>4, <1>5 DEF Settled
<1> QED
      BY <1>3, <1>6, <1>7, <1>8

\* The steps that write no response.
LEMMA SignalsKeepRedis ==
    ASSUME RedisInv, NEW c \in Commands,
           \/ PickUp(c)
           \/ \E k \in Keys : SignalDone(c, k)
           \/ SendCommand(c)
           \/ UNCHANGED lifeVars
    PROVE  RedisInv' /\ \A d \in Commands : Settled(d)
<1> USE DEF RedisInv
<1>1. UNCHANGED <<enqueued, jobresult>>
      BY DEF PickUp, SignalDone, SendCommand, lifeVars
<1>2. LifecycleTypeOK'
      BY DEF PickUp, SignalDone, SendCommand, lifeVars, LifecycleTypeOK
<1>3. ResponsesFirst'
      BY <1>1 DEF PickUp, SignalDone, SendCommand, lifeVars, ResponsesFirst,
                  Present, ResponseTo
<1>4. InternalAnswers'
      BY <1>1 DEF InternalAnswers, ResponseTo, Present
<1>5. \A d \in Commands : Settled(d)
      BY <1>1 DEF Settled, ResponseTo, Present, PickUp, SignalDone,
                  SendCommand, lifeVars
<1> QED
      BY <1>2, <1>3, <1>4, <1>5

\* Nobody takes a done signal away.
LEMMA SignalsGrow ==
    ASSUME NEW c \in Commands,
           Responding(c) \/ SendCommand(c) \/ UNCHANGED lifeVars
    PROVE  doneSignals \subseteq doneSignals'
  BY DEF Responding, Answer, PickUp, Announce, QueueFor, Report, SignalDone,
         Respond, SendCommand, lifeVars

\* All of them: what is picked up keeps its responders.
LEMMA RespondingKeepsRedis ==
    ASSUME RedisInv, NEW c \in Commands,
           Responding(c) \/ SendCommand(c) \/ UNCHANGED lifeVars
    PROVE  /\ RedisInv'
           /\ \A d \in Commands : Settled(d)
           /\ doneSignals \subseteq doneSignals'
  BY AnswerKeepsRedis, AnnounceKeepsRedis, QueueForKeepsRedis,
     ReportKeepsRedis, SignalsKeepRedis, SignalsGrow DEF Responding

-----------------------------------------------------------------------------
(* The steps of a call. *)

\* What a step leaves of a call that it is not a step of.
SameCall(d) ==
    /\ cpc'[d] = cpc[d] /\ api'[d] = api[d] /\ responses'[d] = responses[d]
    /\ pending'[d] = pending[d] /\ target'[d] = target[d]
    /\ late'[d] = late[d] /\ held'[d] = held[d] /\ answers'[d] = answers[d]
    /\ outcome'[d] = outcome[d]

\* A call that takes no step stays right whatever the controller does.
LEMMA CallIsKept ==
    ASSUME NEW d \in Commands, CallInv(d), SameCall(d), Settled(d),
           RedisInv, doneSignals \subseteq doneSignals'
    PROVE  CallInv(d)'
<1> USE DEF CallInv, SameCall
<1>1. CallStarts(d)'
      BY DEF CallStarts, Settled, ApisOf, IsInternal
<1>2. ReadsMatch(d)'
      BY DEF ReadsMatch
<1>3. NobodyIsForgotten(d)'
  <2>1. cpc[d] \in Waiting \cup {"closed"} => ResponseTo(d)' = ResponseTo(d)
        BY DEF CallStarts, Settled, Waiting
  <2> QED
      BY <2>1 DEF NobodyIsForgotten, Accounted, Heard, Waiting
<1>4. InternalCall(d)'
  <2> SUFFICES ASSUME IsInternal(d) PROVE InternalCall(d)'
      BY DEF InternalCall, IsInternal
  <2>1. CASE cpc[d] \in {"idle", "pickup", "read"}
        BY <2>1 DEF CallStarts, InternalCall
  <2>2. CASE cpc[d] \notin {"idle", "pickup", "read"}
    <3>1. jobresult'[d] = jobresult[d] /\ ResponseTo(d)' = ResponseTo(d)
          BY <2>2 DEF CallStarts, Settled
    <3> QED
        BY <3>1 DEF InternalCall, Delivered
  <2> QED
      BY <2>1, <2>2
<1>5. OutcomeMatches(d)'
  <2>1. outcome[d] = "success" => cpc[d] \notin {"idle", "pickup", "read"}
        BY DEF CallStarts
  <2>2. outcome[d] = "success" => jobresult'[d] = jobresult[d]
        BY <2>1 DEF CallStarts, Settled, OutcomeMatches
  <2> QED
      BY <2>2 DEF OutcomeMatches, IsInternal
<1> QED
    BY <1>1, <1>2, <1>3, <1>4, <1>5

\* A step of the call of c: the other calls are as they were.
StepOf(c) ==
    \A d \in Commands \ {c} : SameCall(d)

\* A call starts.
LEMMA ExecuteKeeps ==
    ASSUME ClientInv, NEW c \in Commands, Execute(c)
    PROVE  ClientTypeOK' /\ StepOf(c) /\ CallInv(c)'
<1> USE DEF ClientInv
<1>1. LifecycleTypeOK'
      BY RespondingKeepsRedis DEF Execute, RedisInv
<1>2. PICK f \in ApisOf(c) : api' = [api EXCEPT ![c] = f]
      BY DEF Execute
<1>3. f \in Apis
      BY DEF ApisOf, Apis
<1>4. /\ cpc[c] = "idle" /\ cpc' = [cpc EXCEPT ![c] = "pickup"]
      /\ UNCHANGED <<responses, pending, target, late, held, answers, outcome>>
      BY DEF Execute, Goes, readerVars
<1>5. ClientTypeOK'
      BY <1>1, <1>2, <1>3, <1>4 DEF ClientTypeOK, ClientStates
<1>6. StepOf(c)
      BY <1>2, <1>4 DEF StepOf, SameCall, ClientTypeOK
<1>7. cpc'[c] = "pickup" /\ api'[c] = f
      BY <1>2, <1>4 DEF ClientTypeOK
<1>8. held[c] = Nothing /\ answers[c] = <<>> /\ outcome[c] = "none"
      BY <1>4 DEF CallInv, CallStarts
<1>9. CallInv(c)'
      BY <1>2, <1>4, <1>7, <1>8
         DEF CallInv, CallStarts, ReadsMatch, NobodyIsForgotten, InternalCall,
             OutcomeMatches, Waiting, ApisOf, IsInternal
<1> QED
    BY <1>5, <1>6, <1>9

\* The steps of the Execute goroutine that send nothing.
LEMMA QuietStepKeeps ==
    ASSUME ClientInv, NEW c \in Commands,
           \/ isPickedUp(c) \/ ReadInitial(c) \/ ReadAgents(c)
           \/ NextAgent(c) \/ isDone(c) \/ ReadAnswer(c)
    PROVE  ClientTypeOK' /\ StepOf(c) /\ CallInv(c)'
<1> USE DEF ClientInv
<1>1. /\ UNCHANGED <<sent, enqueued, jobresult, doneSignals, pickedUp, api>>
      /\ UNCHANGED <<held, answers, outcome>>
      BY DEF isPickedUp, ReadInitial, ReadAgents, NextAgent, isDone,
             ReadAnswer, lifeVars, readerVars
<1>2. LifecycleTypeOK'
      BY <1>1 DEF ClientTypeOK, LifecycleTypeOK
<1>3. ResponseTo(c)' = ResponseTo(c) /\ ResponseTo(c) \subseteq Keys
      BY <1>1 DEF ResponseTo, Present
<1>4. OutcomeMatches(c)'
      BY <1>1 DEF CallInv, OutcomeMatches, IsInternal
<1>5. CASE isPickedUp(c)
  <2>1. /\ c \in pickedUp /\ cpc[c] = "pickup"
        /\ cpc' = [cpc EXCEPT ![c] = "read"]
        /\ UNCHANGED <<responses, pending, target, late>>
        BY <1>5 DEF isPickedUp, Goes
  <2>2. ClientTypeOK' /\ StepOf(c) /\ cpc'[c] = "read"
        BY <1>1, <1>2, <2>1 DEF ClientTypeOK, ClientStates, StepOf, SameCall
  <2>3. CallInv(c)'
        BY <1>1, <1>4, <2>1, <2>2
           DEF CallInv, CallStarts, ReadsMatch, NobodyIsForgotten, Waiting,
               InternalCall, ApisOf, IsInternal
  <2> QED
      BY <2>2, <2>3
<1>6. CASE ReadInitial(c)
  <2>1. /\ cpc[c] = "read" /\ cpc' = [cpc EXCEPT ![c] = "send"]
        /\ ReadResponses(c, Keys)
        /\ pending' = [pending EXCEPT ![c] = ResponseTo(c)]
        /\ UNCHANGED <<target, late>>
        BY <1>6 DEF ReadInitial, Goes
  <2>2. /\ responses' \in
             [Commands -> [Keys -> CommandStates \cup {NoResponse}]]
        /\ \A k \in Keys : responses'[c][k] = jobresult[c][k]
        /\ \A d \in Commands \ {c} : responses'[d] = responses[d]
        BY <2>1 DEF ReadResponses, ClientTypeOK, LifecycleTypeOK
  <2>3. /\ ClientTypeOK' /\ StepOf(c) /\ cpc'[c] = "send"
        /\ pending'[c] = ResponseTo(c)
        BY <1>1, <1>2, <1>3, <2>1, <2>2
           DEF ClientTypeOK, ClientStates, StepOf, SameCall
  <2>4. c \in pickedUp /\ ResponseTo(c) # {}
        BY <2>1 DEF CallInv, CallStarts, RedisInv, ResponsesFirst
  <2>5. CallStarts(c)'
        BY <1>1, <2>1, <2>3, <2>4 DEF CallInv, CallStarts, ApisOf, IsInternal
  <2>6. ReadsMatch(c)'
        BY <1>3, <2>1, <2>2, <2>3 DEF CallInv, ReadsMatch, ResponseTo, Present
  <2>7. NobodyIsForgotten(c)'
        BY <2>3 DEF NobodyIsForgotten, Waiting
  <2>8. InternalCall(c)'
        BY <1>1, <1>3, <2>1, <2>2, <2>3, <2>4
           DEF CallInv, CallStarts, InternalCall, IsInternal
  <2> QED
      BY <1>4, <2>3, <2>5, <2>6, <2>7, <2>8 DEF CallInv
<1>7. CASE ReadAgents(c)
  <2>1. /\ cpc[c] = "send" /\ cpc' = [cpc EXCEPT ![c] = "wait"]
        /\ ReadResponses(c, {})
        /\ pending' = [pending EXCEPT ![c] = ResponseTo(c)]
        /\ UNCHANGED <<target, late>>
        /\ \E s \in InitialStates(c) : ~ IsTerminalCommandState(s)
        BY <1>7 DEF ReadAgents, Goes
  <2>2. /\ responses' \in
             [Commands -> [Keys -> CommandStates \cup {NoResponse}]]
        /\ \A d \in Commands \ {c} : responses'[d] = responses[d]
        BY <2>1 DEF ReadResponses, ClientTypeOK, LifecycleTypeOK
  <2>3. /\ ClientTypeOK' /\ StepOf(c) /\ cpc'[c] = "wait"
        /\ pending'[c] = ResponseTo(c)
        BY <1>1, <1>2, <1>3, <2>1, <2>2
           DEF ClientTypeOK, ClientStates, StepOf, SameCall
  <2>4. ~ IsInternal(c)
    <3>1. SUFFICES ASSUME IsInternal(c) PROVE FALSE
          OBVIOUS
    <3>2. PICK s \in InitialStates(c) : s \in {"QUEUED", "RUNNING"}
          BY <2>1 DEF IsTerminalCommandState
    <3>3. PICK k \in Keys : responses[c][k] = s
          BY <3>2 DEF InitialStates
    <3>4. jobresult[c][k] = s
          BY <2>1, <3>1, <3>3 DEF CallInv, InternalCall
    <3> QED
        BY <3>1, <3>2, <3>4, TerminalStatesAre
           DEF RedisInv, InternalAnswers, ResponseTo, Present, NoResponse
  <2>5. CallStarts(c)'
        BY <1>1, <2>1, <2>3 DEF CallInv, CallStarts, ApisOf, IsInternal
  <2>6. target[c] = NoKey
        BY <2>1 DEF CallInv, ReadsMatch
  <2>7. ReadsMatch(c)'
        BY <2>1, <2>3, <2>6 DEF ReadsMatch
  <2>8. NobodyIsForgotten(c)'
        BY <1>3, <2>3 DEF NobodyIsForgotten, Accounted
  <2>9. InternalCall(c)'
        BY <2>4 DEF InternalCall, IsInternal
  <2> QED
      BY <1>4, <2>3, <2>5, <2>7, <2>8, <2>9 DEF CallInv
<1>8. CASE NextAgent(c)
  <2>1. PICK k \in pending[c] :
          /\ target' = [target EXCEPT ![c] = k]
          /\ pending' = [pending EXCEPT ![c] = @ \ {k}]
        BY <1>8 DEF NextAgent
  <2>2. /\ cpc[c] = "wait" /\ cpc' = [cpc EXCEPT ![c] = "done"]
        /\ UNCHANGED <<responses, late>>
        BY <1>8 DEF NextAgent, Goes
  <2>3. k \in Keys
        BY DEF ClientTypeOK
  <2>4. /\ ClientTypeOK' /\ StepOf(c) /\ cpc'[c] = "done"
        /\ target'[c] = k /\ pending'[c] = pending[c] \ {k}
        BY <1>1, <1>2, <2>1, <2>2, <2>3
           DEF ClientTypeOK, ClientStates, StepOf, SameCall
  <2>5. CallStarts(c)' /\ ReadsMatch(c)' /\ InternalCall(c)'
        BY <1>1, <2>2, <2>3, <2>4
           DEF CallInv, CallStarts, ReadsMatch, InternalCall, ApisOf, IsInternal
  <2>6. target[c] = NoKey /\ NoKey \notin Keys
        BY <2>2, ClientAssumption DEF CallInv, ReadsMatch
  <2>7. NobodyIsForgotten(c)'
        BY <1>1, <1>3, <2>2, <2>4, <2>6
           DEF CallInv, NobodyIsForgotten, Accounted, Heard, Waiting
  <2> QED
      BY <1>4, <2>4, <2>5, <2>7 DEF CallInv
<1>9. CASE isDone(c)
  <2>1. /\ cpc[c] = "done" /\ cpc' = [cpc EXCEPT ![c] = "reread"]
        /\ \E s \in TerminalStates : <<c, target[c], s>> \in doneSignals
        /\ UNCHANGED <<responses, pending, target, late>>
        BY <1>9 DEF isDone, Goes
  <2>2. ClientTypeOK' /\ StepOf(c) /\ cpc'[c] = "reread"
        BY <1>1, <1>2, <2>1 DEF ClientTypeOK, ClientStates, StepOf, SameCall
  <2>3. CallStarts(c)' /\ ReadsMatch(c)' /\ InternalCall(c)'
        BY <1>1, <2>1, <2>2
           DEF CallInv, CallStarts, ReadsMatch, InternalCall, ApisOf, IsInternal
  <2>4. NobodyIsForgotten(c)'
        BY <1>1, <1>3, <2>1, <2>2
           DEF CallInv, NobodyIsForgotten, Accounted, Heard, Waiting
  <2> QED
      BY <1>4, <2>2, <2>3, <2>4 DEF CallInv
<1>10. CASE ReadAnswer(c)
  <2>1. /\ cpc[c] = "reread" /\ cpc' = [cpc EXCEPT ![c] = "deliver"]
        /\ ReadResponses(c, {target[c]})
        /\ late' = IF jobresult[c][target[c]] = "RUNNING"
                   THEN [late EXCEPT ![c] = @ \cup {target[c]}] ELSE late
        /\ UNCHANGED <<pending, target>>
        BY <1>10 DEF ReadAnswer, Goes
  <2>2. /\ target[c] \in Keys
        /\ \E s \in TerminalStates : <<c, target[c], s>> \in doneSignals
        BY <2>1 DEF CallInv, ReadsMatch
  <2>3. jobresult[c][target[c]] \notin {NoResponse, "QUEUED"}
        BY <2>2 DEF RedisInv, ResponsesFirst
  <2>4. /\ responses' \in
             [Commands -> [Keys -> CommandStates \cup {NoResponse}]]
        /\ responses'[c][target[c]] = jobresult[c][target[c]]
        /\ \A d \in Commands \ {c} : responses'[d] = responses[d]
        BY <2>1, <2>2 DEF ReadResponses, ClientTypeOK, LifecycleTypeOK
  <2>5. /\ late' \in [Commands -> SUBSET Keys]
        /\ late[c] \subseteq late'[c]
        /\ jobresult[c][target[c]] = "RUNNING" => target[c] \in late'[c]
        /\ \A d \in Commands \ {c} : late'[d] = late[d]
        BY <2>1, <2>2 DEF ClientTypeOK
  <2>6. ClientTypeOK' /\ StepOf(c) /\ cpc'[c] = "deliver"
        BY <1>1, <1>2, <2>1, <2>4, <2>5
           DEF ClientTypeOK, ClientStates, StepOf, SameCall
  <2>7. CallStarts(c)' /\ InternalCall(c)'
        BY <1>1, <2>1, <2>6
           DEF CallInv, CallStarts, InternalCall, ApisOf, IsInternal
  <2>8. ReadsMatch(c)'
        BY <2>1, <2>2, <2>3, <2>4, <2>5, <2>6 DEF ReadsMatch
  <2>9. NobodyIsForgotten(c)'
        BY <1>1, <1>3, <2>1, <2>5, <2>6
           DEF CallInv, NobodyIsForgotten, Accounted, Heard, Waiting
  <2> QED
      BY <1>4, <2>6, <2>7, <2>8, <2>9 DEF CallInv
<1> QED
    BY <1>5, <1>6, <1>7, <1>8, <1>9, <1>10

\* The filter takes the response of k: it holds a terminal one.
LEMMA SendStep ==
    ASSUME ClientTypeOK, NEW c \in Commands, NEW k \in Keys,
           Send(c, k), responses[c][k] # NoResponse
    PROVE  /\ UNCHANGED <<answers, outcome>>
           /\ held[c] = Nothing
           /\ held' \in [Commands -> Answers \cup {Nothing}]
           /\ \A d \in Commands \ {c} : held'[d] = held[d]
           /\ responses[c][k] \in TerminalStates =>
                held'[c] # Nothing /\ held'[c] = <<k, responses[c][k]>>
           /\ responses[c][k] \in {"QUEUED", "RUNNING"} => held'[c] = Nothing
           /\ responses[c][k] \in TerminalStates \cup {"QUEUED", "RUNNING"}
<1>1. responses[c][k] \in CommandStates
      BY DEF ClientTypeOK
<1>2. CASE responses[c][k] \in TerminalStates
  <2>1. /\ held' = [held EXCEPT ![c] = <<k, responses[c][k]>>]
        /\ <<k, responses[c][k]>> \in Answers
        BY <1>2 DEF Send, TerminalStates, Answers
  <2> QED
      BY <1>2, <2>1, TerminalStatesAre, ClientAssumption DEF Send, ClientTypeOK
<1>3. CASE responses[c][k] \in {"QUEUED", "RUNNING"}
      BY <1>3, TerminalStatesAre
         DEF Send, ClientTypeOK, IsTerminalCommandState
<1> QED
    BY <1>1, <1>2, <1>3 DEF TerminalStates, IsTerminalCommandState

\* An initial response is sent: of an internal command, the answer.
LEMMA SendInitialKeeps ==
    ASSUME ClientInv, NEW c \in Commands, SendInitial(c)
    PROVE  ClientTypeOK' /\ StepOf(c) /\ CallInv(c)'
<1> USE DEF ClientInv
<1>1. PICK k \in pending[c] :
        Send(c, k) /\ pending' = [pending EXCEPT ![c] = @ \ {k}]
      BY DEF SendInitial
<1>2. /\ cpc[c] = "send"
      /\ UNCHANGED <<sent, enqueued, jobresult, doneSignals, pickedUp>>
      /\ UNCHANGED <<cpc, api, responses, target, late>>
      BY DEF SendInitial, lifeVars
<1>3. k \in Keys /\ responses[c][k] # NoResponse
      BY <1>1, <1>2 DEF ClientTypeOK, CallInv, ReadsMatch
<1>4. /\ UNCHANGED <<answers, outcome>>
      /\ held[c] = Nothing
      /\ held' \in [Commands -> Answers \cup {Nothing}]
      /\ \A d \in Commands \ {c} : held'[d] = held[d]
      /\ responses[c][k] \in TerminalStates =>
           held'[c] # Nothing /\ held'[c] = <<k, responses[c][k]>>
      /\ responses[c][k] \in {"QUEUED", "RUNNING"} => held'[c] = Nothing
      BY <1>1, <1>3, SendStep
<1>5. /\ ClientTypeOK' /\ StepOf(c)
      /\ pending'[c] = pending[c] \ {k}
      BY <1>1, <1>2, <1>4
         DEF ClientTypeOK, LifecycleTypeOK, StepOf, SameCall
<1>6. CallStarts(c)' /\ ReadsMatch(c)' /\ OutcomeMatches(c)'
      BY <1>2, <1>4, <1>5
         DEF CallInv, CallStarts, ReadsMatch, OutcomeMatches, ApisOf, IsInternal
<1>7. NobodyIsForgotten(c)'
      BY <1>2 DEF NobodyIsForgotten, Waiting
<1>8. InternalCall(c)'
  <2>1. SUFFICES ASSUME IsInternal(c) PROVE InternalCall(c)'
        BY DEF InternalCall, IsInternal
  <2>2. responses[c][k] = jobresult[c][k] /\ k \in ResponseTo(c)
        BY <1>1, <1>2, <1>3, <2>1 DEF CallInv, InternalCall
  <2>3. responses[c][k] \in TerminalStates
        BY <2>1, <2>2 DEF RedisInv, InternalAnswers
  <2>4. ResponseTo(c)' = ResponseTo(c)
        BY <1>2 DEF ResponseTo, Present
  <2> QED
      BY <1>2, <1>4, <1>5, <2>1, <2>2, <2>3, <2>4
         DEF CallInv, InternalCall, Delivered
<1> QED
    BY <1>5, <1>6, <1>7, <1>8 DEF CallInv

\* The response of the agent waited for is sent, or it was RUNNING.
LEMMA SendAnswerKeeps ==
    ASSUME ClientInv, NEW c \in Commands, SendAnswer(c)
    PROVE  ClientTypeOK' /\ StepOf(c) /\ CallInv(c)'
<1> USE DEF ClientInv
<1>1. /\ cpc[c] = "deliver" /\ cpc' = [cpc EXCEPT ![c] = "wait"]
      /\ Send(c, target[c])
      /\ target' = [target EXCEPT ![c] = NoKey]
      /\ responses' = [responses EXCEPT ![c] = NoResponses]
      /\ UNCHANGED <<sent, enqueued, jobresult, doneSignals, pickedUp>>
      /\ UNCHANGED <<api, pending, late>>
      BY DEF SendAnswer, Goes, lifeVars
<1>2. /\ target[c] \in Keys
      /\ responses[c][target[c]] \notin {NoResponse, "QUEUED"}
      /\ responses[c][target[c]] = "RUNNING" => target[c] \in late[c]
      BY <1>1 DEF CallInv, ReadsMatch
<1>3. /\ UNCHANGED <<answers, outcome>>
      /\ held[c] = Nothing
      /\ held' \in [Commands -> Answers \cup {Nothing}]
      /\ \A d \in Commands \ {c} : held'[d] = held[d]
      /\ responses[c][target[c]] \in TerminalStates =>
           /\ held'[c] # Nothing
           /\ held'[c] = <<target[c], responses[c][target[c]]>>
      /\ responses[c][target[c]] \in TerminalStates \cup {"QUEUED", "RUNNING"}
      BY <1>1, <1>2, SendStep
<1>4. NoResponses \in [Keys -> CommandStates \cup {NoResponse}]
      BY DEF NoResponses
<1>5. /\ ClientTypeOK' /\ StepOf(c)
      /\ cpc'[c] = "wait" /\ target'[c] = NoKey
      BY <1>1, <1>3, <1>4
         DEF ClientTypeOK, LifecycleTypeOK, ClientStates, StepOf, SameCall
<1>6. CallStarts(c)' /\ ReadsMatch(c)' /\ OutcomeMatches(c)'
      BY <1>1, <1>3, <1>5
         DEF CallInv, CallStarts, ReadsMatch, OutcomeMatches, ApisOf, IsInternal
<1>7. NobodyIsForgotten(c)'
  <2>1. SUFFICES ASSUME NEW k \in ResponseTo(c) PROVE Accounted(c, k)'
        BY <1>1 DEF NobodyIsForgotten, ResponseTo, Present
  <2>2. Accounted(c, k)
        BY <1>1 DEF CallInv, NobodyIsForgotten, Waiting
  <2>3. Heard(c)' = Heard(c)
        BY <1>3 DEF Heard
  <2>4. CASE k = target[c]
        BY <1>1, <1>2, <1>3, <2>4 DEF Accounted
  <2>5. CASE k # target[c]
        BY <1>1, <1>3, <2>2, <2>3, <2>5 DEF Accounted
  <2> QED
      BY <2>4, <2>5
<1>8. InternalCall(c)'
      BY <1>1 DEF CallInv, InternalCall, IsInternal
<1> QED
    BY <1>5, <1>6, <1>7, <1>8 DEF CallInv

\* The channel is closed.
LEMMA CloseKeeps ==
    ASSUME ClientInv, NEW c \in Commands, CloseEarly(c) \/ CloseChannel(c)
    PROVE  ClientTypeOK' /\ StepOf(c) /\ CallInv(c)'
<1> USE DEF ClientInv
<1>1. /\ pending[c] = {}
      /\ responses' = [responses EXCEPT ![c] = NoResponses]
      /\ UNCHANGED <<sent, enqueued, jobresult, doneSignals, pickedUp>>
      /\ UNCHANGED <<api, pending, target, late, held, answers, outcome>>
      /\ \/ cpc[c] = "send" /\ cpc' = [cpc EXCEPT ![c] = "early"]
         \/ cpc[c] = "wait" /\ cpc' = [cpc EXCEPT ![c] = "closed"]
      BY DEF CloseEarly, CloseChannel, Ends, Goes, lifeVars, readerVars
<1>2. NoResponses \in [Keys -> CommandStates \cup {NoResponse}]
      BY DEF NoResponses
<1>3. /\ ClientTypeOK' /\ StepOf(c)
      /\ \/ cpc[c] = "send" /\ cpc'[c] = "early"
         \/ cpc[c] = "wait" /\ cpc'[c] = "closed"
      BY <1>1, <1>2
         DEF ClientTypeOK, LifecycleTypeOK, ClientStates, StepOf, SameCall
<1>4. CallStarts(c)' /\ ReadsMatch(c)' /\ OutcomeMatches(c)'
      BY <1>1, <1>3
         DEF CallInv, CallStarts, ReadsMatch, OutcomeMatches, ApisOf, IsInternal
<1>5. NobodyIsForgotten(c)'
      BY <1>1, <1>3
         DEF CallInv, NobodyIsForgotten, Accounted, Heard, Waiting,
             ResponseTo, Present
<1>6. InternalCall(c)'
      BY <1>1, <1>3 DEF CallInv, InternalCall, IsInternal, Delivered
<1> QED
    BY <1>3, <1>4, <1>5, <1>6 DEF CallInv

\* The API goroutine receives what the filter holds.
LEMMA TakesStep ==
    ASSUME ClientInv, NEW c \in Commands, Takes(c)
    PROVE  /\ cpc[c] \notin {"idle", "pickup", "read"}
           /\ UNCHANGED <<sent, enqueued, jobresult, doneSignals, pickedUp>>
           /\ UNCHANGED <<cpc, api, responses, pending, target, late>>
           /\ answers' \in [Commands -> Seq(Answers)]
           /\ held' \in [Commands -> Answers \cup {Nothing}]
           /\ \A d \in Commands \ {c} :
                held'[d] = held[d] /\ answers'[d] = answers[d]
           /\ held'[c] = Nothing /\ answers'[c] # <<>>
           /\ Heard(c) \cup {held[c][1]} \subseteq Heard(c)'
           /\ InternalCall(c)' /\ NobodyIsForgotten(c)'
           /\ CallStarts(c) /\ ReadsMatch(c)
<1> USE DEF ClientInv
<1>1. /\ held[c] # Nothing /\ held[c] \in Answers
      /\ answers[c] \in Seq(Answers)
      /\ UNCHANGED <<sent, enqueued, jobresult, doneSignals, pickedUp>>
      /\ UNCHANGED <<cpc, api, responses, pending, target, late>>
      BY DEF Takes, ClientTypeOK, lifeVars, executeVars
<1>2. cpc[c] \notin {"idle", "pickup", "read"}
      BY <1>1 DEF CallInv, CallStarts
<1>3. /\ Append(answers[c], held[c]) \in Seq(Answers)
      /\ Append(answers[c], held[c]) # <<>>
      /\ DOMAIN Append(answers[c], held[c]) =
           DOMAIN answers[c] \cup {Len(answers[c]) + 1}
      /\ \A i \in DOMAIN answers[c] :
           Append(answers[c], held[c])[i] = answers[c][i]
      /\ Append(answers[c], held[c])[Len(answers[c]) + 1] = held[c]
      BY <1>1
<1>4. /\ answers' \in [Commands -> Seq(Answers)]
      /\ held' \in [Commands -> Answers \cup {Nothing}]
      /\ \A d \in Commands \ {c} :
           held'[d] = held[d] /\ answers'[d] = answers[d]
      /\ held'[c] = Nothing /\ answers'[c] = Append(answers[c], held[c])
      BY <1>1, <1>3 DEF Takes, ClientTypeOK
<1>5. Heard(c) \cup {held[c][1]} \subseteq Heard(c)'
      BY <1>3, <1>4 DEF Heard
<1>6. InternalCall(c)'
      BY <1>1, <1>3, <1>4
         DEF CallInv, InternalCall, IsInternal, Delivered, ResponseTo, Present
<1>7. NobodyIsForgotten(c)'
      BY <1>1, <1>5
         DEF CallInv, NobodyIsForgotten, Accounted, ResponseTo, Present
<1> QED
    BY <1>1, <1>2, <1>3, <1>4, <1>5, <1>6, <1>7 DEF CallInv

\* The API goroutine takes a response and goes on, or leaves.
LEMMA TakeKeeps ==
    ASSUME ClientInv, NEW c \in Commands, TakeFirst(c) \/ Exhaust(c)
    PROVE  ClientTypeOK' /\ StepOf(c) /\ CallInv(c)'
<1> USE DEF ClientInv
<1>1. Takes(c)
      BY DEF TakeFirst, Exhaust
<1>2. /\ outcome' \in [Commands -> Outcomes]
      /\ \A d \in Commands \ {c} : outcome'[d] = outcome[d]
      /\ \/ outcome'[c] \in {"error", "results"}
         \/ outcome'[c] = outcome[c] /\ api[c] # "LiveAgents"
      BY DEF TakeFirst, Exhaust, ErrorOrResults, Outcomes, ClientTypeOK
<1>3. /\ cpc[c] \notin {"idle", "pickup", "read"}
      /\ UNCHANGED <<sent, enqueued, jobresult, doneSignals, pickedUp>>
      /\ UNCHANGED <<cpc, api, responses, pending, target, late>>
      /\ answers' \in [Commands -> Seq(Answers)]
      /\ held' \in [Commands -> Answers \cup {Nothing}]
      /\ \A d \in Commands \ {c} :
           held'[d] = held[d] /\ answers'[d] = answers[d]
      BY <1>1, TakesStep
<1>4. ClientTypeOK' /\ StepOf(c)
      BY <1>2, <1>3 DEF ClientTypeOK, LifecycleTypeOK, StepOf, SameCall
<1>5. CallStarts(c)' /\ ReadsMatch(c)'
      BY <1>3 DEF CallInv, CallStarts, ReadsMatch, ApisOf, IsInternal
<1>6. OutcomeMatches(c)'
      BY <1>2, <1>3 DEF CallInv, OutcomeMatches, IsInternal
<1>7. InternalCall(c)' /\ NobodyIsForgotten(c)'
      BY <1>1, TakesStep
<1> QED
    BY <1>4, <1>5, <1>6, <1>7 DEF CallInv

\* It concludes: an internal command had its answer.
LEMMA ConcludeKeeps ==
    ASSUME ClientInv, NEW c \in Commands, Conclude(c)
    PROVE  ClientTypeOK' /\ StepOf(c) /\ CallInv(c)'
<1> USE DEF ClientInv
<1>1. /\ outcome[c] = "none"
      /\ cpc[c] \in {"early", "closed"} /\ held[c] = Nothing
      /\ outcome' = [outcome EXCEPT ![c] = OutcomeOf(api[c], answers[c])]
      /\ UNCHANGED <<sent, enqueued, jobresult, doneSignals, pickedUp>>
      /\ UNCHANGED <<cpc, api, responses, pending, target, late>>
      /\ UNCHANGED <<held, answers>>
      BY DEF Conclude, ChannelClosed, lifeVars, executeVars
<1>2. OutcomeOf(api[c], answers[c]) \in Outcomes
      BY DEF OutcomeOf, ExecutableOutcome, LiveAgentsOutcome, ListJobsOutcome,
             AddJobOutcome, RemoveJobOutcome, ErrorOrResults, Outcomes
<1>3. ClientTypeOK' /\ StepOf(c) /\ outcome'[c] = OutcomeOf(api[c], answers[c])
      BY <1>1, <1>2 DEF ClientTypeOK, LifecycleTypeOK, StepOf, SameCall
<1>4. CallStarts(c)' /\ ReadsMatch(c)'
      BY <1>1 DEF CallInv, CallStarts, ReadsMatch, ApisOf, IsInternal
<1>5. NobodyIsForgotten(c)'
      BY <1>1
         DEF CallInv, NobodyIsForgotten, Accounted, Heard, ResponseTo, Present
<1>6. InternalCall(c)'
      BY <1>1
         DEF CallInv, InternalCall, IsInternal, Delivered, ResponseTo, Present
<1>7. OutcomeMatches(c)'
  <2>1. api[c] \in ApisOf(c)
        BY <1>1 DEF CallInv, CallStarts
  <2>2. CASE ~ IsInternal(c)
    <3>1. outcome'[c] \in {"error", "results"}
          BY <1>3, <2>1, <2>2 DEF ApisOf, OutcomeOf, ExecutableOutcome
    <3> QED
        BY <3>1 DEF OutcomeMatches
  <2>3. CASE IsInternal(c)
    <3>1. answers[c] # <<>>
          BY <1>1, <2>3 DEF CallInv, InternalCall, Delivered
    <3>2. api[c] # "LiveAgents"
          BY <1>1, <3>1 DEF CallInv, OutcomeMatches
    <3>3. outcome'[c] # "panic"
          BY <1>3, <2>1, <2>3, <3>1, <3>2
             DEF ApisOf, OutcomeOf, ListJobsOutcome, AddJobOutcome,
                 RemoveJobOutcome, ErrorOrResults
    <3>4. 1 \in DOMAIN answers[c] /\ answers[c][1] \in Answers
          BY <3>1 DEF ClientTypeOK
    <3>5. /\ answers[c][1][1] \in Keys /\ answers[c][1][2] \in TerminalStates
          /\ jobresult[c][answers[c][1][1]] = answers[c][1][2]
          BY <2>3, <3>4 DEF CallInv, InternalCall, Answers
    <3>6. outcome'[c] = "success" => answers[c][1][2] # "ERROR"
          BY <1>3, <2>1, <2>3, <3>1, <3>2
             DEF ApisOf, OutcomeOf, ListJobsOutcome, AddJobOutcome,
                 RemoveJobOutcome, ErrorOrResults
    <3> QED
        BY <1>1, <2>3, <3>2, <3>3, <3>5, <3>6 DEF OutcomeMatches, IsInternal
  <2> QED
      BY <2>2, <2>3
<1> QED
    BY <1>3, <1>4, <1>5, <1>6, <1>7 DEF CallInv

-----------------------------------------------------------------------------
(* The specification. *)

\* The initial state satisfies the invariant.
LEMMA ClientInitInv == ClientInit => ClientInv
<1> SUFFICES ASSUME ClientInit PROVE ClientInv
    OBVIOUS
<1>1. LifecycleTypeOK
      BY DEF ClientInit, LifecycleInit, LifecycleTypeOK
<1>2. ClientTypeOK
      BY <1>1 DEF ClientInit, ClientTypeOK, ClientStates, NoResponses, Outcomes
<1>3. RedisInv
      BY <1>1 DEF ClientInit, LifecycleInit, RedisInv, ResponsesFirst,
                  InternalAnswers, ResponseTo, Present
<1>4. \A c \in Commands : CallInv(c)
      BY DEF ClientInit, CallInv, CallStarts, ReadsMatch, NobodyIsForgotten,
             Waiting, InternalCall, OutcomeMatches
<1> QED
    BY <1>2, <1>3, <1>4 DEF ClientInv

\* A step of a call: what it does to its own invariant is shown above.
LEMMA OwnStepKeeps ==
    ASSUME ClientInv, NEW c \in Commands, NEW e \in Commands,
           ClientTypeOK', StepOf(c), CallInv(c)',
           Responding(e) \/ SendCommand(e) \/ UNCHANGED lifeVars
    PROVE  ClientInv'
<1>1. /\ RedisInv'
      /\ \A d \in Commands : Settled(d)
      /\ doneSignals \subseteq doneSignals'
      BY RespondingKeepsRedis DEF ClientInv
<1>2. ASSUME NEW d \in Commands \ {c} PROVE CallInv(d)'
      BY <1>1, CallIsKept DEF ClientInv, StepOf
<1> QED
    BY <1>1, <1>2 DEF ClientInv

\* Every step preserves it.
LEMMA ClientStepInv ==
    ClientInv /\ [ClientNext]_clientVars => ClientInv'
<1> SUFFICES ASSUME ClientInv, [ClientNext]_clientVars PROVE ClientInv'
    OBVIOUS
<1>1. ASSUME NEW c \in Commands, Execute(c) PROVE ClientInv'
      BY <1>1, ExecuteKeeps, OwnStepKeeps DEF Execute
<1>2. ASSUME NEW c \in Commands, ExecuteStep(c) PROVE ClientInv'
  <2>1. UNCHANGED lifeVars
        BY <1>2 DEF ExecuteStep, isPickedUp, ReadInitial, SendInitial,
               CloseEarly, ReadAgents, NextAgent, isDone, ReadAnswer,
               SendAnswer, CloseChannel, Ends
  <2>2. ClientTypeOK' /\ StepOf(c) /\ CallInv(c)'
        BY <1>2, QuietStepKeeps, SendInitialKeeps, SendAnswerKeeps, CloseKeeps
           DEF ExecuteStep
  <2> QED
      BY <2>1, <2>2, OwnStepKeeps
<1>3. ASSUME NEW c \in Commands, ApiStep(c) PROVE ClientInv'
  <2>1. UNCHANGED lifeVars
        BY <1>3 DEF ApiStep, TakeFirst, Exhaust, Takes, Conclude
  <2>2. ClientTypeOK' /\ StepOf(c) /\ CallInv(c)'
        BY <1>3, TakeKeeps, ConcludeKeeps DEF ApiStep
  <2> QED
      BY <2>1, <2>2, OwnStepKeeps
<1>4. ASSUME NEW c \in Commands,
             Environment(c) \/ UNCHANGED clientVars
      PROVE  ClientInv'
  <2>1. /\ Responding(c) \/ UNCHANGED lifeVars
        /\ UNCHANGED <<cpc, api, responses, pending, target, late>>
        /\ UNCHANGED <<held, answers, outcome>>
        BY <1>4 DEF Environment, clientVars, executeVars, readerVars
  <2>2. /\ RedisInv'
        /\ \A d \in Commands : Settled(d)
        /\ doneSignals \subseteq doneSignals'
        BY <2>1, RespondingKeepsRedis DEF ClientInv
  <2>3. ClientTypeOK'
        BY <2>1, <2>2 DEF ClientInv, RedisInv, ClientTypeOK
  <2>4. ASSUME NEW d \in Commands PROVE CallInv(d)'
    <3>1. SameCall(d)
          BY <2>1 DEF SameCall
    <3> QED
        BY <2>2, <3>1, CallIsKept DEF ClientInv
  <2> QED
      BY <2>2, <2>3, <2>4 DEF ClientInv
<1>5. CASE UNCHANGED clientVars
  <2>1. CASE Commands = {}
        BY <1>5, <2>1
           DEF clientVars, lifeVars, executeVars, readerVars, ClientInv,
               ClientTypeOK, LifecycleTypeOK, RedisInv, ResponsesFirst,
               InternalAnswers
  <2> QED
      BY <1>4, <1>5, <2>1
<1> QED
    BY <1>1, <1>2, <1>3, <1>4, <1>5 DEF ClientNext

\* The inductive invariant: what the controller keeps in Redis, and for each
\* call where it stands with its responders.
THEOREM ClientInvariance == ClientSpec => []ClientInv
<1>1. ClientInv /\ [ClientNext]_clientVars => ClientInv'
      BY ClientStepInv
<1> QED
    BY <1>1, ClientInitInv, PTL DEF ClientSpec

\* The state of the calls and of Redis stays of its types.
THEOREM ClientTypeCorrect == ClientSpec => []ClientTypeOK
  BY ClientInvariance, PTL DEF ClientInv

\* A call that waited returns the terminal response of each responder, but
\* for those found RUNNING after their done signal, however many agents there
\* are and whatever they report (client/lowlevelclient.go:126-157).
THEOREM NobodyIsMissed == ClientSpec => []EveryResponderIsHeard
<1>1. ClientInv => EveryResponderIsHeard
  <2> SUFFICES ASSUME ClientInv, NEW c \in Commands,
                      cpc[c] = "closed", held[c] = Nothing,
                      NEW k \in ResponseTo(c)
               PROVE  k \in Heard(c) \cup late[c]
      BY DEF EveryResponderIsHeard
  <2>1. Accounted(c, k) /\ pending[c] = {} /\ target[c] = NoKey
        BY DEF ClientInv, CallInv, NobodyIsForgotten, ReadsMatch
  <2>2. k # NoKey
        BY ClientAssumption DEF ResponseTo
  <2> QED
      BY <2>1, <2>2 DEF Accounted
<1> QED
    BY <1>1, ClientInvariance, PTL

\* What is read after a done signal is a response past QUEUED
\* (client/lowlevelclient.go:152-153).
THEOREM DoneMeansAnswered == ClientSpec => []DoneAgentAnswered
<1>1. ClientInv => DoneAgentAnswered
      BY DEF ClientInv, CallInv, ReadsMatch, DoneAgentAnswered
<1> QED
    BY <1>1, ClientInvariance, PTL

\* No call panics for want of a response or makes success of silence
\* (client/client.go:37-43, 181-205, 221).
THEOREM SilenceIsNoSuccess == ClientSpec => []SuccessIsConfirmed
<1>1. ClientInv => SuccessIsConfirmed
      BY DEF ClientInv, CallInv, OutcomeMatches, SuccessIsConfirmed
<1> QED
    BY <1>1, ClientInvariance, PTL

-----------------------------------------------------------------------------
(* Whom a call waits for. *)

\* A call waits, now or later, for agents that have responded only.
AwaitsResponders ==
    \A c \in Commands :
        /\ pending[c] \subseteq ResponseTo(c)
        /\ target[c] # NoKey => target[c] \in ResponseTo(c)

\* A response stays.
LEMMA ResponsesStay ==
    ASSUME LifecycleTypeOK, [ClientNext]_clientVars, NEW c \in Commands
    PROVE  ResponseTo(c) \subseteq ResponseTo(c)'
<1>1. UNCHANGED jobresult => ResponseTo(c)' = ResponseTo(c)
      BY DEF ResponseTo, Present
<1>2. ASSUME NEW d \in Commands, NEW k \in Keys, NEW s \in CommandStates,
             Respond(d, k, s)
      PROVE  ResponseTo(c) \subseteq ResponseTo(c)'
  <2>1. s # NoResponse
        BY DEF CommandStates, NoResponse
  <2> QED
      BY <1>2, <2>1, RespondStep DEF ResponseTo, Present
<1>3. ASSUME NEW d \in Commands, Environment(d)
      PROVE  ResponseTo(c) \subseteq ResponseTo(c)'
  <2>1. CASE Answer(d)
    <3>1. AnswerStates(d) \subseteq CommandStates /\ CommandKey(d) \in Keys
          BY KeysOf DEF AnswerStates, InternalOutcomes, CommandStates
    <3> QED
        BY <1>2, <2>1, <3>1 DEF Answer
  <2>2. ASSUME NEW a \in Agents, Announce(d, a) \/ Report(d, a)
        PROVE  ResponseTo(c) \subseteq ResponseTo(c)'
        BY <1>2, <2>2, KeysOf DEF Announce, Report, CommandStates
  <2>3. ASSUME NEW a \in Agents, QueueFor(a, d) PROVE UNCHANGED jobresult
        BY <2>3 DEF QueueFor
  <2>4. PickUp(d) \/ (\E k \in Keys : SignalDone(d, k)) => UNCHANGED jobresult
        BY DEF PickUp, SignalDone
  <2> QED
      BY <1>1, <1>3, <2>1, <2>2, <2>3, <2>4 DEF Environment, Responding
<1>4. ASSUME NEW d \in Commands, Execute(d) \/ ExecuteStep(d) \/ ApiStep(d)
      PROVE  UNCHANGED jobresult
      BY <1>4
      DEF Execute, SendCommand, ExecuteStep, isPickedUp, ReadInitial,
          SendInitial, CloseEarly, ReadAgents, NextAgent, isDone, ReadAnswer,
          SendAnswer, CloseChannel, Ends, ApiStep, TakeFirst, Exhaust, Takes,
          Conclude, lifeVars
<1> QED
    BY <1>1, <1>3, <1>4 DEF ClientNext, clientVars, lifeVars

\* A goroutine of a call visits what it read.
LEMMA OwnStepAwaits ==
    ASSUME ClientTypeOK, AwaitsResponders, NEW c \in Commands,
           Execute(c) \/ ExecuteStep(c) \/ ApiStep(c), NEW d \in Commands
    PROVE  /\ pending'[d] \subseteq ResponseTo(d)
           /\ target'[d] # NoKey => target'[d] \in ResponseTo(d)
<1> USE DEF ClientTypeOK, AwaitsResponders
<1>1. CASE ReadInitial(c) \/ ReadAgents(c)
      BY <1>1 DEF ReadInitial, ReadAgents
<1>2. CASE SendInitial(c) \/ NextAgent(c)
      BY <1>2 DEF SendInitial, NextAgent
<1>3. CASE SendAnswer(c)
      BY <1>3 DEF SendAnswer
<1>4. CASE \/ Execute(c) \/ isPickedUp(c) \/ CloseEarly(c) \/ isDone(c)
           \/ ReadAnswer(c) \/ CloseChannel(c) \/ ApiStep(c)
      BY <1>4
      DEF Execute, isPickedUp, CloseEarly, isDone, ReadAnswer, CloseChannel,
          Ends, ApiStep, TakeFirst, Exhaust, Takes, Conclude, executeVars
<1> QED
    BY <1>1, <1>2, <1>3, <1>4 DEF ExecuteStep

\* No call waits for an agent that nobody announced
\* (client/lowlevelclient.go:143-151).
THEOREM OnlyRespondersAwaited == ClientSpec => []AwaitsResponders
<1>1. ClientInit => AwaitsResponders
      BY DEF ClientInit, AwaitsResponders
<1>2. ASSUME ClientTypeOK, AwaitsResponders, [ClientNext]_clientVars
      PROVE  AwaitsResponders'
  <2> SUFFICES ASSUME NEW d \in Commands
               PROVE  /\ pending'[d] \subseteq ResponseTo(d)
                      /\ target'[d] # NoKey => target'[d] \in ResponseTo(d)
      BY <1>2, ResponsesStay DEF AwaitsResponders, ClientTypeOK
  <2>1. ASSUME (\E c \in Commands : Environment(c)) \/ UNCHANGED clientVars
        PROVE  UNCHANGED <<pending, target>>
        BY <2>1 DEF Environment, executeVars, clientVars
  <2> QED
      BY <1>2, <2>1, OwnStepAwaits DEF ClientNext, AwaitsResponders
<1> QED
    BY <1>1, <1>2, ClientTypeCorrect, PTL DEF ClientSpec
=============================================================================
