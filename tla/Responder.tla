------------------------------ MODULE Responder ------------------------------
(***************************************************************************)
(* Responses to commands as clients see them in Redis.                     *)
(*                                                                         *)
(* RespondToCommand (logged/commandresponder.go over                       *)
(* redisdata/commandresponder.go) is not atomic: it overwrites one field   *)
(* of the command's jobresult hash, pushes a done signal if the state is   *)
(* terminal, and finally appends to the response log.  Several goroutines  *)
(* respond for the same command and field at the same time; each of them   *)
(* waits for its own call to return.                                       *)
(***************************************************************************)
EXTENDS Core

CONSTANT Responders   \* the goroutines that respond to commands

VARIABLES
    jobresult,    \* jobresult[c][k]: field k of the hash jobresult:c
    doneSignals,  \* <<c, k, s>>: the list cmd.c.k of terminal responses
    resultsLog,   \* <<c, k, s>>: what was pushed to results.queue
    pickedUp,     \* the commands with a signal in cmd.c.queued
    calls         \* the RespondToCommand calls in progress

responderVars == <<jobresult, doneSignals, resultsLog, pickedUp, calls>>

Response == Commands \X Keys \X CommandStates

Call == [by: Responders, cmd: Commands, key: Keys, state: CommandStates,
         step: {"set", "done", "log"}]

ResponderTypeOK ==
    /\ jobresult \in [Commands -> [Keys -> CommandStates \cup {NoResponse}]]
    /\ doneSignals \subseteq Response
    /\ resultsLog \subseteq Response
    /\ pickedUp \subseteq Commands
    /\ calls \subseteq Call

ResponderInit ==
    /\ jobresult = [c \in Commands |-> [k \in Keys |-> NoResponse]]
    /\ doneSignals = {}
    /\ resultsLog = {}
    /\ pickedUp = {}
    /\ calls = {}

Content3(call) == <<call.cmd, call.key, call.state>>

\* The goroutine has no call in progress.
Returned(g) == \A call \in calls : call.by # g

\* g calls RespondToCommand.
RespondToCommand(g, c, k, s) ==
    /\ Returned(g)
    /\ calls' = calls \cup
            {[by |-> g, cmd |-> c, key |-> k, state |-> s, step |-> "set"]}
    /\ UNCHANGED <<jobresult, doneSignals, resultsLog, pickedUp>>

Advance(call, step) ==
    calls' = (calls \ {call}) \cup {[call EXCEPT !.step = step]}

\* Variant: only a success is signalled.
SetResultOnly(call) ==
    /\ call.step = "set"
    /\ jobresult' = [jobresult EXCEPT ![call.cmd][call.key] = call.state]
    /\ Advance(call, IF call.state = "SUCCESS" THEN "done" ELSE "log")
    /\ UNCHANGED <<doneSignals, resultsLog, pickedUp>>

\* HSET jobresult:ID gid:nid, whatever the field held before (and EXPIRE).
SetResult(call) ==
    /\ call.step = "set"
    /\ jobresult' = [jobresult EXCEPT ![call.cmd][call.key] = call.state]
    /\ Advance(call, IF IsTerminalCommandState(call.state)
                     THEN "done" ELSE "log")
    /\ UNCHANGED <<doneSignals, resultsLog, pickedUp>>

\* Variant: the signal goes out before the field is written.
signalAsDoneEarly(call) ==
    /\ \/ call.step = "done"
       \/ call.step = "set" /\ IsTerminalCommandState(call.state)
    /\ doneSignals' = doneSignals \cup {Content3(call)}
    /\ Advance(call, IF call.step = "set" THEN "set" ELSE "log")
    /\ UNCHANGED <<jobresult, resultsLog, pickedUp>>

\* RPUSH cmd.ID.gid.nid.
signalAsDone(call) ==
    /\ call.step = "done"
    /\ doneSignals' = doneSignals \cup {Content3(call)}
    /\ Advance(call, "log")
    /\ UNCHANGED <<jobresult, resultsLog, pickedUp>>

\* RPUSH results.queue, and the call returns.
LogResponse(call) ==
    /\ call.step = "log"
    /\ resultsLog' = resultsLog \cup {Content3(call)}
    /\ calls' = calls \ {call}
    /\ UNCHANGED <<jobresult, doneSignals, pickedUp>>

CallStep(call) == SetResult(call) \/ signalAsDone(call) \/ LogResponse(call)

\* Variant: the signal does not wait for the responses.
SignalEarly(g, c) ==
    /\ pickedUp' = pickedUp \cup {c}
    /\ UNCHANGED <<jobresult, doneSignals, resultsLog, calls>>

\* RPUSH cmd.ID.queued, by a goroutine whose responses are all out.
SignalAsPickedUp(g, c) ==
    /\ Returned(g)
    /\ pickedUp' = pickedUp \cup {c}
    /\ UNCHANGED <<jobresult, doneSignals, resultsLog, calls>>

\* A crash cuts every call short; what reached Redis stays.
ResponderCrash ==
    /\ calls' = {}
    /\ UNCHANGED <<jobresult, doneSignals, resultsLog, pickedUp>>
=============================================================================
