-------------------------- MODULE CommandLifecycle --------------------------
(***************************************************************************)
(* What a client may rely on: the life of a command as it shows in Redis,  *)
(* whatever dispatcher, routines and goroutines write it.  A command is    *)
(* either answered by the controller itself, under its own key, or         *)
(* announced to agents as QUEUED and then queued for them; its responders  *)
(* are complete, and there is one, when it is signalled as picked up; an   *)
(* agent it was queued for is never QUEUED again; a done signal follows    *)
(* the response it announces.                                              *)
(*                                                                         *)
(* That a command announced to an agent is queued for it, or that an agent *)
(* answers, is not promised here.                                          *)
(***************************************************************************)
EXTENDS Core

VARIABLES
    sent,         \* the commands pushed to cmds.queue
    enqueued,     \* enqueued[a]: the commands ever pushed to the list of a
    jobresult,    \* jobresult[c][k]: field k of the hash jobresult:c
    doneSignals,  \* <<c, k, s>>: the list cmd.c.k of terminal responses
    pickedUp      \* the commands with a signal in cmd.c.queued

lifeVars == <<sent, enqueued, jobresult, doneSignals, pickedUp>>

TerminalStates == {s \in CommandStates : IsTerminalCommandState(s)}

Present(c, k) == jobresult[c][k] # NoResponse
ResponseTo(c) == {k \in Keys : Present(c, k)}

LifecycleTypeOK ==
    /\ sent \subseteq Commands
    /\ enqueued \in [Agents -> SUBSET Commands]
    /\ jobresult \in [Commands -> [Keys -> CommandStates \cup {NoResponse}]]
    /\ doneSignals \subseteq Commands \X Keys \X TerminalStates
    /\ pickedUp \subseteq Commands

LifecycleInit ==
    /\ sent = {}
    /\ enqueued = [a \in Agents |-> {}]
    /\ jobresult = [c \in Commands |-> [k \in Keys |-> NoResponse]]
    /\ doneSignals = {}
    /\ pickedUp = {}

-----------------------------------------------------------------------------
Respond(c, k, s) ==
    /\ jobresult' = [jobresult EXCEPT ![c][k] = s]
    /\ UNCHANGED <<sent, enqueued, doneSignals, pickedUp>>

SendCommand(c) ==
    /\ c \notin sent
    /\ sent' = sent \cup {c}
    /\ UNCHANGED <<enqueued, jobresult, doneSignals, pickedUp>>

\* The controller answers itself: an internal command, or no agent matches.
AnswerStates(c) == IF IsInternal(c) THEN InternalOutcomes(c) ELSE {"ERROR"}

Answer(c) ==
    /\ c \in sent \ pickedUp
    /\ ResponseTo(c) = {}
    /\ \E s \in AnswerStates(c) : Respond(c, CommandKey(c), s)

\* A target is announced, the ones before it being announced or queued.
Announce(c, a) ==
    /\ c \in sent \ pickedUp
    /\ ~ IsInternal(c)
    /\ ~ Present(c, a)
    /\ \A k \in ResponseTo(c) :
         jobresult[c][k] = "QUEUED" \/ (k \in Agents /\ c \in enqueued[k])
    /\ Respond(c, a, "QUEUED")

QueueFor(a, c) ==
    /\ c \in sent \ pickedUp
    /\ c \notin enqueued[a]
    /\ jobresult[c][a] = "QUEUED"
    /\ enqueued' = [enqueued EXCEPT ![a] = @ \cup {c}]
    /\ UNCHANGED <<sent, jobresult, doneSignals, pickedUp>>

\* RUNNING from a routine or a result from the agent, in any order.
Report(c, a) ==
    /\ c \in enqueued[a]
    /\ \E s \in CommandStates \ {"QUEUED"} : Respond(c, a, s)

\* A done signal follows its response, which a later one may have replaced.
SignalDone(c, k) ==
    /\ Present(c, k)
    /\ jobresult[c][k] # "QUEUED"
    /\ \E s \in TerminalStates :
         doneSignals' = doneSignals \cup {<<c, k, s>>}
    /\ UNCHANGED <<sent, enqueued, jobresult, pickedUp>>

PickUp(c) ==
    /\ c \notin pickedUp
    /\ ResponseTo(c) # {}
    /\ pickedUp' = pickedUp \cup {c}
    /\ UNCHANGED <<sent, enqueued, jobresult, doneSignals>>

-----------------------------------------------------------------------------
Responding(c) ==
    \/ Answer(c) \/ PickUp(c)
    \/ \E a \in Agents : Announce(c, a) \/ QueueFor(a, c) \/ Report(c, a)
    \/ \E k \in Keys : SignalDone(c, k)

LifecycleNext == \E c \in Commands : SendCommand(c) \/ Responding(c)

LifecycleSpec == LifecycleInit /\ [][LifecycleNext]_lifeVars
=============================================================================
