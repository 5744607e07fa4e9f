----------------------------- MODULE Controller -----------------------------
(***************************************************************************)
(* The controller: dispatcher, poll service and responder on the same      *)
(* agent information and the same Redis, with the clients that push        *)
(* commands and the agents that run them.  Each component keeps its own    *)
(* variables; the actions below join the steps that touch several.         *)
(***************************************************************************)
EXTENDS PollService, Dispatcher

CONSTANTS
    MaxResults,     \* bound on the results an agent posts for a command
    MaxLostPushes   \* bound on the pushes to agents that fail

VARIABLES
    posted,     \* posted[a][c]: results posted so far (environment)
    unpushed,   \* history: <<a, c>> whose push to the agent's list failed
    forgotten,  \* history: the commands lost before they were picked up
    cut         \* history: <<c, k>> whose answer a crash cut short

historyVars == <<unpushed, forgotten, cut>>
tallyVars == <<posted, historyVars>>
vars == <<pollVars, dispatcherVars, responderVars, tallyVars>>

routineOf(ch) == <<"routine", ch>>
resultOf(a, c) == <<"result", <<a, c>>>>

ASSUME ControllerAssumption ==
    /\ Responders = {dispatcher}
                    \cup {internal(c) : c \in Commands}
                    \cup {routineOf(ch) : ch \in Chans}
                    \cup {resultOf(a, c) : a \in Agents, c \in Commands}
    /\ MaxResults \in Nat
    /\ MaxLostPushes \in Nat

ControllerTypeOK ==
    /\ PollTypeOK
    /\ DispatcherTypeOK
    /\ ResponderTypeOK
    /\ posted \in [Agents -> [Commands -> 0..MaxResults]]
    /\ unpushed \subseteq Agents \X Commands
    /\ forgotten \subseteq Commands
    /\ cut \subseteq Commands \X Keys

Init ==
    /\ PollInit
    /\ DispatcherInit
    /\ ResponderInit
    /\ posted = [a \in Agents |-> [c \in Commands |-> 0]]
    /\ unpushed = {}
    /\ forgotten = {}
    /\ cut = {}

-----------------------------------------------------------------------------
(* Joined steps. *)

\* Variant: the push is skipped for an agent that has left meanwhile.
DispatchIfConnected(a) ==
    /\ current = a
    /\ Distributed
    /\ IF IsConnected(a) THEN PushToAgent(a, dcmd) ELSE UNCHANGED pollVars
    /\ UNCHANGED tallyVars

\* The loop pushes the command to its current target's list.
DispatchTo(a) ==
    /\ current = a
    /\ Distributed
    /\ PushToAgent(a, dcmd)
    /\ UNCHANGED tallyVars

\* The push fails; Send swallows the error and the loop goes on.
DispatchLost(a) ==
    /\ current = a
    /\ Distributed
    /\ Cardinality(unpushed) < MaxLostPushes
    /\ unpushed' = unpushed \cup {<<a, dcmd>>}
    /\ UNCHANGED <<pollVars, posted, forgotten, cut>>

\* Variant: RUNNING is reported whether the command was taken or not.
ReportAnyway(ch) ==
    /\ HandOver(ch) \/ OfferRefused(ch)
    /\ RespondToCommand(routineOf(ch), hand[ch], ChanAgent[ch], "RUNNING")
    /\ UNCHANGED <<dispatcherVars, tallyVars>>

\* The hand-over starts the routine's RUNNING response ...
HandOverAndReport(ch) ==
    /\ HandOver(ch)
    /\ RespondToCommand(routineOf(ch), hand[ch], ChanAgent[ch], "RUNNING")
    /\ UNCHANGED <<dispatcherVars, tallyVars>>

\* ... and the routine goes on when that call returned.
FinishReport(ch) ==
    /\ Returned(routineOf(ch))
    /\ ReportedRunning(ch)
    /\ UNCHANGED <<dispatcherVars, responderVars, tallyVars>>

PopCommandLost ==
    /\ PopLost
    /\ forgotten' = forgotten \cup {Head(cmdsQueue)}
    /\ UNCHANGED <<pollVars, posted, unpushed, cut>>

\* POST /gid/nid/result: the agent answers a command it received.  Nothing
\* orders it with the controller's own responses.
PostResult(a, c) ==
    /\ c \in received[a]
    /\ posted[a][c] < MaxResults
    /\ posted' = [posted EXCEPT ![a][c] = @ + 1]
    /\ \E s \in {"SUCCESS", "ERROR"} :
         RespondToCommand(resultOf(a, c), c, a, s)
    /\ UNCHANGED <<pollVars, dispatcherVars, historyVars>>

Responding(call) ==
    /\ CallStep(call)
    /\ UNCHANGED <<pollVars, dispatcherVars, tallyVars>>

\* The commands only the process knows, which have no pick-up signal yet.
InHands == ({dcmd} \ {NoCommand})
           \cup {c \in Commands : internals[c] # "none"}

\* An answer whose done signal is not out.
Unsignalled == {call \in calls : IsTerminalCommandState(call.state)
                                 /\ call.step # "log"}

CrashAll ==
    /\ Crash
    /\ DispatcherCrash
    /\ forgotten' = forgotten \cup InHands
    /\ cut' = cut \cup {<<call.cmd, call.key>> : call \in Unsignalled}
    /\ UNCHANGED <<posted, unpushed>>

-----------------------------------------------------------------------------
(* Steps of one component. *)

SendCommand(c) == Push(c) /\ UNCHANGED <<pollVars, tallyVars>>

Loop == LoopStep /\ UNCHANGED <<pollVars, tallyVars>>

Internal(c) == InternalStep(c) /\ UNCHANGED <<pollVars, tallyVars>>

\* A routine's or a handler's next step, joined with the responses it makes.
Routine(ch) ==
    \/ HandOverAndReport(ch) \/ FinishReport(ch)
    \/ /\ \/ \E p \in Polls : Accept(ch, p)
          \/ RecordRoles(ch) \/ BlockingDequeue(ch) \/ DequeueTimeout(ch)
          \/ OfferRefused(ch) \/ ReportUnexecutedCommand(ch)
          \/ CloseMsgChan(ch) \/ Expire(ch) \/ CleanUp(ch)
       /\ UNCHANGED <<dispatcherVars, responderVars, tallyVars>>

Handler(p) ==
    /\ HandlerStep(p)
    /\ UNCHANGED <<dispatcherVars, responderVars, tallyVars>>

\* New polls and events, the handlers' timers, lost calls of the service.
Disturbance ==
    /\ \/ \E ch \in Chans : DequeueLost(ch) \/ RequeueLost(ch)
       \/ \E p \in Polls :
            StartPoll(p) \/ SendTimeout(p) \/ GiveUp(p) \/ ReplyLost(p)
       \/ \E a \in Agents : Event(a)
    /\ UNCHANGED <<dispatcherVars, responderVars, tallyVars>>

\* All that the controller and the agents do with the commands it is sent.
Work ==
    \/ Loop
    \/ \E c \in Commands : Internal(c)
    \/ \E a \in Agents : DispatchTo(a) \/ DispatchLost(a)
    \/ \E ch \in Chans : Routine(ch)
    \/ \E p \in Polls : Handler(p)
    \/ Disturbance
    \/ \E a \in Agents, c \in Commands : PostResult(a, c)
    \/ \E call \in calls : Responding(call)
    \/ PopCommandLost
    \/ CrashAll

Next == Work \/ \E c \in Commands : SendCommand(c)

Spec == Init /\ [][Next]_vars

\* Goroutines that can run do run, and Redis answers.
Fairness ==
    /\ WF_vars(Loop)
    /\ \A a \in Agents : WF_vars(DispatchTo(a))
    /\ \A c \in Commands : WF_vars(Internal(c))
    /\ \A g \in Responders :
         WF_vars(\E call \in calls : call.by = g /\ Responding(call))
    /\ \A ch \in Chans : WF_vars(Routine(ch))
    /\ \A p \in Polls : WF_vars(Handler(p))

FairSpec == Spec /\ Fairness
=============================================================================
