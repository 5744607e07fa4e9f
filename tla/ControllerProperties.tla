------------------------ MODULE ControllerProperties ------------------------
(***************************************************************************)
(* Correctness of the controller as its clients see it: the responses of a *)
(* command, its signals, and the commands its agents get.                  *)
(***************************************************************************)
EXTENDS Controller, PollProperties

\* The dispatcher meets the assumption of the poll service: whatever it
\* does, it pushes a command to an agent's list at most once, and every
\* other step of the controller is a step of the poll service
\* (application.go:262-275).
ImplementsPollService == PollSpec

\* A command on its way to an agent has been announced: the QUEUED response
\* of every target is written before the push, whatever crashes in between
\* (application.go:266-270).
EnqueuedIsAnnounced ==
    \A a \in Agents : \A c \in enqueued[a] : jobresult[c][a] # NoResponse

\* The controller writes Redis the way its clients expect: dispatcher,
\* routines, internal goroutines and result handlers together, crashes and
\* lost calls included, take no step that CommandLifecycle does not allow.
Life == INSTANCE CommandLifecycle
ImplementsLifecycle == Life!LifecycleSpec

\* A command that is picked up and was announced to an agent has been queued
\* for it, unless that very push failed, whether the agent is still connected
\* or not (application.go:262-275; clients then wait for it,
\* client/lowlevelclient.go:151).
PickedUpIsDispatched ==
    \A c \in pickedUp, a \in Agents :
        ~ IsInternal(c) /\ jobresult[c][a] \notin {NoResponse, "ERROR"} =>
            c \in enqueued[a] \/ <<a, c>> \in unpushed

\* Nothing comes of a command that has not been pushed to the command log:
\* no agent's list has it, no response, signal or log entry speaks of it,
\* whichever goroutine writes that, unless the very push to the log failed
\* (logged/commandsource.go:13-23 before application.go:246-274).
NothingUnlogged ==
    \A c \in Commands \ (commandLog \cup unlogged) :
        /\ c \notin pickedUp
        /\ \A a \in Agents : c \notin enqueued[a]
        /\ \A k \in Keys : jobresult[c][k] = NoResponse
        /\ \A entry \in doneSignals \cup resultsLog : entry[1] # c

\* No QUEUED of an agent is logged after anything else of that agent, while
\* the other responses may be logged in any order
\* (application.go:266-270, logged/commandresponder.go:18).
QueuedIsLoggedFirst ==
    [][\A entry \in resultsLog' \ resultsLog :
          entry[3] = "QUEUED" =>
             \A s \in CommandStates : <<entry[1], entry[2], s>> \notin resultsLog]_vars

\* When the pick-up signal of a command is out, the set of its responders
\* is final: a client that then reads the hash knows every agent it has to
\* wait for (client/lowlevelclient.go:137-155 relies on it).
RespondersFixedAtPickUp ==
    [][\A c \in pickedUp, k \in Keys :
          jobresult[c][k] = NoResponse => jobresult'[c][k] = NoResponse]_vars

\* A response never goes back to QUEUED: the dispatcher's own response
\* cannot overtake the routine's RUNNING or the agent's result
\* (application.go:266-270, 329-331, rest/result.go:37).
NeverBackToQueued ==
    [][\A c \in Commands, k \in Keys :
          jobresult[c][k] \notin {NoResponse, "QUEUED"} =>
             jobresult'[c][k] # "QUEUED"]_vars

\* Whoever got a done signal finds that the field was written, and the only
\* thing that can have happened to it since is a late RUNNING
\* (redisdata/commandresponder.go:45-58).
DoneIsRecorded ==
    \A sig \in doneSignals :
        \/ IsTerminalCommandState(jobresult[sig[1]][sig[2]])
           /\ jobresult[sig[1]][sig[2]] # NoResponse
        \/ jobresult[sig[1]][sig[2]] = "RUNNING"

\* A command without fanout is queued on one agent at most, however the set
\* of connected agents changes while it is being chosen
\* (application/agentpicking.go:19-24).
OneAgentWithoutFanout ==
    \A c \in Commands :
        ~ Content[c].fanout =>
            Cardinality({a \in Agents : c \in enqueued[a]}) <= 1

\* A command that is not picked up is in the queue or in somebody's hands:
\* the loop's, or those of a goroutine of its own.  A refusal, a failed push
\* or an answer of the controller never leaves it without its signal
\* (application.go:231-275, internals.go:40-58).
SentIsInHand ==
    \A c \in sent :
        c \in pickedUp \cup forgotten \cup ToSet(cmdsQueue) \cup InHands

\* The answer of k to c is out, or on its way.
Answered(c, k) ==
    \/ \E s \in CommandStates : <<c, k, s>> \in doneSignals
    \/ \E call \in Unsignalled : call.cmd = c /\ call.key = k

\* Agent a has c, or will get it, and has not answered.
Owes(a, c) ==
    \/ c \in ToSet(agentQueue[a]) \cup InFlight(a)
    \/ c \in received[a] /\ posted[a][c] = 0

\* The answer of k to c is given or can still come, but for a fault that hit
\* that very command or answer.
Awaited(c, k) ==
    \/ Answered(c, k) \/ <<c, k>> \in cut
    \/ k \in Agents /\ (Owes(k, c) \/ c \in lost[k] \/ <<k, c>> \in unpushed)

\* c was handed to a poll of a, whatever became of it since.
HandedTo(a, c) ==
    \/ c \in received[a] \cup lost[a]
    \/ \E p \in Polls : PollAgent[p] = a /\ payload[p] = c

\* What a response says is so.
Founded(c, k, s) ==
    \/ IsInternal(c) /\ k = CommandKey(c) /\ s \in InternalOutcomes(c)
    \/ s = "QUEUED" /\ k \in Agents
    \/ s = "RUNNING" /\ k \in Agents /\ HandedTo(k, c)
    \/ /\ IsTerminalCommandState(s)
       /\ k \in Agents /\ c \in received[k] /\ posted[k][c] # 0
    \/ s = "ERROR" /\ k = CommandKey(c) /\ \A a \in Agents : c \notin enqueued[a]

\* No response is made up, in the hash, in a signal or in the log: who is
\* said to run a command was handed it, who is said to be done got it and
\* posted a result, and a command the controller refuses goes to nobody, then
\* or later, though an agent may own the field of the refusal
\* (application.go:231-275, 325-336, core/commandresponses.go:63-74).
NoAnswerIsInvented ==
    /\ \A c \in Commands, k \in Keys :
          jobresult[c][k] # NoResponse => Founded(c, k, jobresult[c][k])
    /\ \A r \in doneSignals \cup resultsLog : Founded(r[1], r[2], r[3])

\* A client waits for the done signal of every responder it finds in the
\* hash of a command that is picked up, without end
\* (client/lowlevelclient.go:151).  It never waits in vain: the signal is
\* out, the answer is on its way, or the agent still owes it, unless the
\* command or that very answer was lost to a fault (application.go:262-336,
\* redisdata/commandresponder.go:36-59).
EveryWaitHasAReason ==
    \A c \in pickedUp : \A k \in Life!ResponseTo(c) : Awaited(c, k)

\* Every pushed command is picked up, internal or not, with or without
\* matching agents, unless a crash or a lost pop hit that very command
\* (application.go:231-260, internals.go:40-58).
EveryCommandIsPickedUp ==
    \A c \in Commands : c \in sent ~> c \in pickedUp \cup forgotten

-----------------------------------------------------------------------------
(* What the code says and does not keep. *)

\* "caller consumed this job, it's safe to set it's state to RUNNING now"
\* (application.go:329): a terminal response is never overwritten by a
\* state that is not terminal.
TerminalIsFinal ==
    [][\A c \in Commands, k \in Keys :
          (/\ jobresult[c][k] # NoResponse
           /\ IsTerminalCommandState(jobresult[c][k]))
          => IsTerminalCommandState(jobresult'[c][k])]_vars
=============================================================================
