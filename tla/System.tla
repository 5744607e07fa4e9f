------------------------------- MODULE System -------------------------------
(***************************************************************************)
(* The whole path of a call: the client library of Client on top of the    *)
(* Redis that the Controller serves.  The two share the commands' queue    *)
(* and responses, and nothing else: a call pushes its command, the         *)
(* controller and the agents do with it what they do, and the library      *)
(* reads what they left in Redis.  Where Client assumes an environment,    *)
(* here is the controller itself, crashes and lost calls included.         *)
(***************************************************************************)
EXTENDS Controller

CONSTANTS
    MaxCalls,   \* bound on the calls made
    NoKey,      \* no agent is waited for
    Nothing     \* no response is held

\* The variables of Client next to Redis.
VARIABLES cpc, api, responses, pending, target, held, answers, outcome, late

callVars == <<cpc, api, responses, pending, target, held, answers, outcome,
              late>>
systemVars == <<vars, callVars>>

\* Nothing bounds the states agents report or the signals they cause.
Lib == INSTANCE ClientProperties
         WITH Reported <- CommandStates \ {"QUEUED"},
              MaxSignals <- Cardinality(CommandStates)

ASSUME SystemAssumption ==
    MaxCalls \in Nat /\ NoKey \notin Keys /\ Nothing \notin Lib!Answers

SystemInit == Init /\ Lib!ClientInit

\* A call starts and pushes its command, or fails to and does not notice.
Execute(c) ==
    /\ SendCommand(c) \/ UNCHANGED vars
    /\ Lib!Execute(c)

\* The goroutines of a call only read Redis.
Library(c) ==
    /\ Lib!ExecuteStep(c) \/ Lib!ApiStep(c)
    /\ UNCHANGED vars

Serve == Work /\ UNCHANGED callVars

SystemNext ==
    \/ \E c \in Commands : Execute(c) \/ Library(c)
    \/ Serve

SystemSpec == SystemInit /\ [][SystemNext]_systemVars
=============================================================================
