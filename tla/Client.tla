------------------------------- MODULE Client -------------------------------
(***************************************************************************)
(* Package client: one call of the library per command, each of which has  *)
(* an id of its own.  Three goroutines share it: the one of                *)
(* LowLevelClient.Execute, which reads Redis and sends on responseChan,    *)
(* the filter TerminalResponses, and the one of the high-level API, which  *)
(* makes a result of the terminal responses.  Both channels are            *)
(* unbuffered.                                                             *)
(*                                                                         *)
(* Redis is that of CommandLifecycle.  BRPOPLPUSH moves a signal from a    *)
(* list onto the same list, so that reading a signal leaves it.  Its       *)
(* timeout is a minute in nanoseconds where Redis expects seconds: waiting *)
(* does not end in any time that matters.                                  *)
(***************************************************************************)
EXTENDS CommandLifecycle, Sequences, FiniteSets

CONSTANTS
    MaxCalls,   \* bound on the calls made
    Reported,   \* the states agents report (a bound: all but QUEUED)
    MaxSignals, \* bound on the done signals of one agent
    NoKey,      \* no agent is waited for
    Nothing     \* no response is held

Answers == Keys \X TerminalStates

ASSUME ClientAssumption ==
    /\ MaxCalls \in Nat
    /\ Reported \subseteq CommandStates \ {"QUEUED"}
    /\ MaxSignals \in Nat
    /\ NoKey \notin Keys
    /\ Nothing \notin Answers

VARIABLES
    cpc,        \* control point of the Execute goroutine of c
    api,        \* the high-level call c is executed for
    responses,  \* the responses it has read and not sent yet
    pending,    \* what its current loop over a map has still to visit
    target,     \* the agent it waits for
    held,       \* the terminal response the filter is about to pass on
    answers,    \* the terminal responses the API goroutine got
    outcome,    \* what the API goroutine made of them
    late        \* history: agents found RUNNING again after they were done

executeVars == <<cpc, api, responses, pending, target, late>>
readerVars == <<held, answers, outcome>>
clientVars == <<lifeVars, executeVars, readerVars>>

\* The channel is closed in the last two: early, because an initial response
\* was terminal, or after a loop over the agents.
ClientStates ==
    {"idle", "pickup", "read", "send", "wait", "done", "reread", "deliver",
     "early", "closed"}
Apis == {"ExecuteExecutable", "LiveAgents", "SchedulerListJobs",
         "SchedulerAddJob", "SchedulerRemoveJob"}
Outcomes == {"none", "results", "error", "success", "panic"}

NoResponses == [k \in Keys |-> NoResponse]

ClientTypeOK ==
    /\ LifecycleTypeOK
    /\ cpc \in [Commands -> ClientStates]
    /\ api \in [Commands -> Apis \cup {"none"}]
    /\ responses \in [Commands -> [Keys -> CommandStates \cup {NoResponse}]]
    /\ pending \in [Commands -> SUBSET Keys]
    /\ target \in [Commands -> Keys \cup {NoKey}]
    /\ held \in [Commands -> Answers \cup {Nothing}]
    /\ answers \in [Commands -> Seq(Answers)]
    /\ outcome \in [Commands -> Outcomes]
    /\ late \in [Commands -> SUBSET Keys]

ClientInit ==
    /\ LifecycleInit
    /\ cpc = [c \in Commands |-> "idle"]
    /\ api = [c \in Commands |-> "none"]
    /\ responses = [c \in Commands |-> NoResponses]
    /\ pending = [c \in Commands |-> {}]
    /\ target = [c \in Commands |-> NoKey]
    /\ held = [c \in Commands |-> Nothing]
    /\ answers = [c \in Commands |-> <<>>]
    /\ outcome = [c \in Commands |-> "none"]
    /\ late = [c \in Commands |-> {}]

Goes(c, from, to) == cpc[c] = from /\ cpc' = [cpc EXCEPT ![c] = to]

\* The calls a command can be built for.
ApisOf(c) ==
    IF ~ IsInternal(c) THEN {"ExecuteExecutable"}
    ELSE IF Content[c].name = "list_agents" THEN {"LiveAgents"}
    ELSE {"SchedulerListJobs", "SchedulerAddJob", "SchedulerRemoveJob"}

Called == {c \in Commands : cpc[c] # "idle"}

\* Variant: every response is passed on.
SendAll(c, k) ==
    /\ held[c] = Nothing
    /\ held' = [held EXCEPT ![c] = <<k, responses[c][k]>>]
    /\ UNCHANGED <<answers, outcome>>

\* TerminalResponses receives what the Execute goroutine sends, once the one
\* before is passed on: it keeps a terminal response and drops the others.
Send(c, k) ==
    LET state == responses[c][k] IN
    /\ held[c] = Nothing
    /\ held' = IF IsTerminalCommandState(state)
               THEN [held EXCEPT ![c] = <<k, state>>] ELSE held
    /\ UNCHANGED <<answers, outcome>>

\* responsesFor: one HGETALL, of which the goroutine looks at some keys.
ReadResponses(c, keys) ==
    responses' = [responses EXCEPT ![c] =
        [k \in Keys |-> IF k \in keys THEN jobresult[c][k] ELSE NoResponse]]

\* The goroutine ends, and its variables with it.
Ends(c) ==
    /\ responses' = [responses EXCEPT ![c] = NoResponses]
    /\ UNCHANGED <<lifeVars, api, pending, target, late, readerVars>>
-----------------------------------------------------------------------------
(* Execute. *)

\* The call starts, and RPUSHes its command, or fails to: Send swallows the
\* error.
Execute(c) ==
    /\ Goes(c, "idle", "pickup")
    /\ Cardinality(Called) < MaxCalls
    /\ \E f \in ApisOf(c) : api' = [api EXCEPT ![c] = f]
    /\ SendCommand(c) \/ UNCHANGED lifeVars
    /\ UNCHANGED <<responses, pending, target, late, readerVars>>

\* Variant: a signal that is not there yet reads as "picked up".
isPickedUpAtOnce(c) ==
    /\ Goes(c, "pickup", "read")
    /\ UNCHANGED <<lifeVars, api, responses, pending, target, late, readerVars>>

isPickedUp(c) ==
    /\ c \in pickedUp
    /\ Goes(c, "pickup", "read")
    /\ UNCHANGED <<lifeVars, api, responses, pending, target, late, readerVars>>

ReadInitial(c) ==
    /\ Goes(c, "read", "send")
    /\ ReadResponses(c, Keys)
    /\ pending' = [pending EXCEPT ![c] = ResponseTo(c)]
    /\ UNCHANGED <<lifeVars, api, target, late, readerVars>>

SendInitial(c) ==
    /\ cpc[c] = "send"
    /\ \E k \in pending[c] :
         Send(c, k) /\ pending' = [pending EXCEPT ![c] = @ \ {k}]
    /\ UNCHANGED <<lifeVars, cpc, api, responses, target, late>>

\* The "initial command state" is that of any of the responses, the empty
\* string, which counts as terminal, when there are none.
InitialStates(c) ==
    LET states == {responses[c][k] : k \in Keys} \ {NoResponse}
    IN  IF states = {} THEN {""} ELSE states

CloseEarly(c) ==
    /\ pending[c] = {}
    /\ \E s \in InitialStates(c) : IsTerminalCommandState(s)
    /\ Goes(c, "send", "early")
    /\ Ends(c)

\* Otherwise the agents are the keys of a second HGETALL.
ReadAgents(c) ==
    /\ pending[c] = {}
    /\ \E s \in InitialStates(c) : ~ IsTerminalCommandState(s)
    /\ Goes(c, "send", "wait")
    /\ ReadResponses(c, {})
    /\ pending' = [pending EXCEPT ![c] = ResponseTo(c)]
    /\ UNCHANGED <<lifeVars, api, target, late, readerVars>>

NextAgent(c) ==
    /\ Goes(c, "wait", "done")
    /\ \E k \in pending[c] :
         /\ target' = [target EXCEPT ![c] = k]
         /\ pending' = [pending EXCEPT ![c] = @ \ {k}]
    /\ UNCHANGED <<lifeVars, api, responses, late, readerVars>>

\* Variant: a signal that is not there yet reads as "done".
isDoneAtOnce(c) ==
    /\ Goes(c, "done", "reread")
    /\ UNCHANGED <<lifeVars, api, responses, pending, target, late, readerVars>>

isDone(c) ==
    /\ \E s \in TerminalStates : <<c, target[c], s>> \in doneSignals
    /\ Goes(c, "done", "reread")
    /\ UNCHANGED <<lifeVars, api, responses, pending, target, late, readerVars>>

ReadAnswer(c) ==
    /\ Goes(c, "reread", "deliver")
    /\ ReadResponses(c, {target[c]})
    /\ late' = IF jobresult[c][target[c]] = "RUNNING"
               THEN [late EXCEPT ![c] = @ \cup {target[c]}] ELSE late
    /\ UNCHANGED <<lifeVars, api, pending, target, readerVars>>

SendAnswer(c) ==
    /\ Goes(c, "deliver", "wait")
    /\ Send(c, target[c])
    /\ target' = [target EXCEPT ![c] = NoKey]
    /\ responses' = [responses EXCEPT ![c] = NoResponses]
    /\ UNCHANGED <<lifeVars, api, pending, late>>

CloseChannel(c) ==
    /\ pending[c] = {}
    /\ Goes(c, "wait", "closed")
    /\ Ends(c)

ExecuteStep(c) ==
    \/ isPickedUp(c) \/ ReadInitial(c) \/ SendInitial(c) \/ CloseEarly(c)
    \/ ReadAgents(c) \/ NextAgent(c) \/ isDone(c) \/ ReadAnswer(c)
    \/ SendAnswer(c) \/ CloseChannel(c)
-----------------------------------------------------------------------------
(* The high-level calls. *)

ErrorOrResults(answer) == IF answer[2] = "ERROR" THEN "error" ELSE "results"

Takes(c) ==
    /\ outcome[c] = "none"
    /\ held[c] # Nothing
    /\ answers' = [answers EXCEPT ![c] = Append(@, held[c])]
    /\ held' = [held EXCEPT ![c] = Nothing]
    /\ UNCHANGED <<lifeVars, executeVars>>

\* LiveAgents looks at one response and leaves the channel.
TakeFirst(c) ==
    /\ api[c] = "LiveAgents"
    /\ Takes(c)
    /\ outcome' = [outcome EXCEPT ![c] = ErrorOrResults(held[c])]

\* Variant: no call waits for more than one response.
ExhaustOnce(c) ==
    /\ api[c] # "LiveAgents"
    /\ Takes(c)
    /\ outcome' = [outcome EXCEPT ![c] = ErrorOrResults(held[c])]

\* The others exhaust it.
Exhaust(c) ==
    /\ api[c] # "LiveAgents"
    /\ Takes(c)
    /\ UNCHANGED outcome

\* TerminalResponses closes its channel after the one it reads.
ChannelClosed(c) == cpc[c] \in {"early", "closed"} /\ held[c] = Nothing

\* A list of results and one of errors, together.
ExecutableOutcome(all) ==
    IF \E i \in DOMAIN all : all[i][2] = "ERROR" THEN "error" ELSE "results"
\* The zero response does not parse.
LiveAgentsOutcome(all) == "panic"
ListJobsOutcome(all) == IF all = <<>> THEN "error" ELSE ErrorOrResults(all[1])
\* No response reads as success.
AddJobOutcome(all) ==
    IF all # <<>> /\ all[1][2] = "ERROR" THEN "error" ELSE "success"
\* responses[0], without looking at the length.
RemoveJobOutcome(all) == IF all = <<>> THEN "panic" ELSE ErrorOrResults(all[1])

OutcomeOf(f, all) ==
    IF f = "ExecuteExecutable" THEN ExecutableOutcome(all)
    ELSE IF f = "LiveAgents" THEN LiveAgentsOutcome(all)
    ELSE IF f = "SchedulerListJobs" THEN ListJobsOutcome(all)
    ELSE IF f = "SchedulerAddJob" THEN AddJobOutcome(all)
    ELSE RemoveJobOutcome(all)

Conclude(c) ==
    /\ outcome[c] = "none"
    /\ ChannelClosed(c)
    /\ outcome' = [outcome EXCEPT ![c] = OutcomeOf(api[c], answers[c])]
    /\ UNCHANGED <<lifeVars, executeVars, held, answers>>

ApiStep(c) == TakeFirst(c) \/ Exhaust(c) \/ Conclude(c)
-----------------------------------------------------------------------------
\* The controller and the agents, as far as a client can see them.
Environment(c) ==
    /\ Responding(c)
    /\ \A a \in Agents :
         /\ jobresult'[c][a] \in Reported \cup {"QUEUED", NoResponse}
         /\ \A s \in TerminalStates :
              <<c, a, s>> \in doneSignals' => s \in Reported
    /\ \A k \in Keys : Cardinality({s \in TerminalStates :
            <<c, k, s>> \in doneSignals'}) <= MaxSignals
    /\ UNCHANGED <<executeVars, readerVars>>

ClientNext ==
    \E c \in Commands :
        Execute(c) \/ ExecuteStep(c) \/ ApiStep(c) \/ Environment(c)

ClientSpec == ClientInit /\ [][ClientNext]_clientVars

\* The goroutines of a call run when they can; nothing is asked of the
\* controller or of the agents.
FairClientSpec ==
    /\ ClientSpec
    /\ \A c \in Commands :
         WF_clientVars(ExecuteStep(c)) /\ WF_clientVars(ApiStep(c))
=============================================================================
