----------------------------- MODULE Dispatcher -----------------------------
(***************************************************************************)
(* The main loop (Application.processSingleCommand): it pops a command off *)
(* cmds.queue, runs an internal command in a goroutine of its own, and     *)
(* otherwise chooses the target agents among those connected and           *)
(* distributes the command to them, one response and one push at a time.   *)
(*                                                                         *)
(* The push to the agent's list is the variable of PollService that        *)
(* Controller joins to Distributed.                                        *)
(***************************************************************************)
EXTENDS AgentData, Responder, Sequences, FiniteSets

CONSTANTS
    NoAgent,
    MaxSent,      \* bound on the commands that are pushed
    MaxLostPops,  \* bound on the commands lost between Redis and BLPOP
    MaxUnlogged   \* bound on the pushes to cmds.log.queue that fail

ASSUME DispatcherAssumption ==
    /\ NoAgent \notin Agents
    /\ MaxSent \in Nat
    /\ MaxLostPops \in Nat
    /\ MaxUnlogged \in Nat

VARIABLES
    cmdsQueue,   \* the Redis list cmds.queue
    sent,        \* history: the commands ever pushed to it
    dpc,         \* control point of the loop
    dcmd,        \* the command it handles
    unchecked,   \* candidates whose roles are not read yet
    targets,     \* the agents chosen and not yet served
    current,     \* the agent the command is being distributed to
    internals,   \* internals[c]: the goroutine of internal command c
    commandLog,  \* the commands pushed to cmds.log.queue
    unlogged,    \* history: the commands whose push to it failed
    lostPops     \* the number of commands lost so far

dispatcherVars == <<cmdsQueue, sent, dpc, dcmd, unchecked, targets,
                    current, internals, commandLog, unlogged, lostPops>>
logVars == <<commandLog, unlogged, lostPops>>
loopVars == <<dpc, dcmd, unchecked, targets, current>>

dispatcher == <<"dispatcher", 0>>
internal(c) == <<"internal", c>>

DispatcherStates == {"pop", "log", "route", "filter", "refuse", "announce",
                     "distribute", "signal"}

DispatcherTypeOK ==
    /\ cmdsQueue \in Seq(Commands)
    /\ sent \subseteq Commands
    /\ dpc \in DispatcherStates
    /\ dcmd \in Commands \cup {NoCommand}
    /\ unchecked \subseteq Agents
    /\ targets \subseteq Agents
    /\ current \in Agents \cup {NoAgent}
    /\ internals \in [Commands -> {"none", "handler", "signal"}]
    /\ commandLog \subseteq Commands
    /\ unlogged \subseteq Commands
    /\ lostPops \in 0..MaxLostPops

DispatcherInit ==
    /\ cmdsQueue = <<>>
    /\ sent = {}
    /\ dpc = "pop"
    /\ dcmd = NoCommand
    /\ unchecked = {}
    /\ targets = {}
    /\ current = NoAgent
    /\ internals = [c \in Commands |-> "none"]
    /\ commandLog = {}
    /\ unlogged = {}
    /\ lostPops = 0

\* The loop goes on from one control point to the next.
LoopGoes(from, to) == dpc = from /\ dpc' = to

-----------------------------------------------------------------------------
\* A client, the scheduler or a Python extension pushes a command.
Push(c) ==
    /\ c \notin sent
    /\ Cardinality(sent) < MaxSent
    /\ sent' = sent \cup {c}
    /\ cmdsQueue' = Append(cmdsQueue, c)
    /\ UNCHANGED <<loopVars, internals, logVars, responderVars>>

\* Variant: an empty answer of BLPOP is not caught, the loop goes on with it.
PopOrGoOn ==
    /\ LoopGoes("pop", "log")
    /\ dcmd' = IF cmdsQueue = <<>> THEN NoCommand ELSE Head(cmdsQueue)
    /\ cmdsQueue' = IF cmdsQueue = <<>> THEN <<>> ELSE Tail(cmdsQueue)
    /\ UNCHANGED <<sent, unchecked, targets, current, internals, logVars,
                   responderVars>>

\* BLPOP cmds.queue; from here on only the process knows the command.
BlockingPop ==
    /\ LoopGoes("pop", "log")
    /\ cmdsQueue # <<>>
    /\ dcmd' = Head(cmdsQueue)
    /\ cmdsQueue' = Tail(cmdsQueue)
    /\ UNCHANGED <<sent, unchecked, targets, current, internals, logVars,
                   responderVars>>

\* Redis popped the command but its answer lost against the 15 s timeout.
PopLost ==
    /\ dpc = "pop"
    /\ cmdsQueue # <<>>
    /\ cmdsQueue' = Tail(cmdsQueue)
    /\ lostPops < MaxLostPops
    /\ lostPops' = lostPops + 1
    /\ UNCHANGED <<sent, loopVars, internals, commandLog, unlogged,
                   responderVars>>

\* Variant: internal commands are not logged.
LogDispatched ==
    /\ LoopGoes("log", "route")
    /\ commandLog' = IF IsInternal(dcmd) THEN commandLog
                     ELSE commandLog \cup {dcmd}
    /\ UNCHANGED <<cmdsQueue, sent, dcmd, unchecked, targets, current,
                   internals, unlogged, lostPops, responderVars>>

\* RPUSH cmds.log.queue.  When it fails, Send swallows the error and the
\* loop goes on with a command the log does not show.
LogCommand ==
    /\ LoopGoes("log", "route")
    /\ \/ /\ commandLog' = commandLog \cup {dcmd}
          /\ UNCHANGED unlogged
       \/ /\ Cardinality(unlogged) < MaxUnlogged
          /\ unlogged' = unlogged \cup {dcmd}
          /\ UNCHANGED commandLog
    /\ UNCHANGED <<cmdsQueue, sent, dcmd, unchecked, targets, current,
                   internals, lostPops, responderVars>>

\* go ExecuteInternalCommand(command), and on to the next command.
StartInternal ==
    /\ LoopGoes("route", "pop")
    /\ IsInternal(dcmd)
    /\ internals' = [internals EXCEPT ![dcmd] = "handler"]
    /\ dcmd' = NoCommand
    /\ UNCHANGED <<cmdsQueue, sent, unchecked, targets, current,
                   logVars, responderVars>>

-----------------------------------------------------------------------------
(* agentsForCommand. *)

\* By roles: a snapshot of the connected agents of the grid.  With the
\* wildcard they are all taken, otherwise each one's roles are read later.
SnapshotCandidates ==
    LET ids == {a \in ConnectedAgents : MatchesGid(dcmd, a)} IN
    /\ LoopGoes("route", "filter")
    /\ ~ IsInternal(dcmd)
    /\ Content[dcmd].roles # {}
    /\ IF AgentRoleAll \in Content[dcmd].roles
       THEN targets' = ids /\ unchecked' = {}
       ELSE targets' = {} /\ unchecked' = ids
    /\ UNCHANGED <<cmdsQueue, sent, dcmd, current, internals, logVars,
                   responderVars>>

\* One GetRoles: the agent may have left, or declared other roles, since.
CheckRoles(a) ==
    /\ dpc = "filter"
    /\ a \in unchecked
    /\ unchecked' = unchecked \ {a}
    /\ targets' = IF roleSetEquivalent(Content[dcmd].roles, GetRoles(a))
                  THEN targets \cup {a} ELSE targets
    /\ UNCHANGED <<cmdsQueue, sent, dpc, dcmd, current, internals, logVars,
                   responderVars>>

\* Variant: fanout is not looked at.
ChooseAll ==
    /\ dpc = "filter"
    /\ unchecked = {}
    /\ dpc' = IF targets = {} THEN "refuse" ELSE "announce"
    /\ UNCHANGED <<cmdsQueue, sent, dcmd, unchecked, targets, current,
                   internals, logVars, responderVars>>

\* All of the matching agents, or a random one of them.
ChooseTargets ==
    /\ dpc = "filter"
    /\ unchecked = {}
    /\ \/ /\ Content[dcmd].fanout \/ targets = {}
          /\ UNCHANGED targets
       \/ /\ ~ Content[dcmd].fanout
          /\ \E a \in targets : targets' = {a}
    /\ dpc' = IF targets = {} THEN "refuse" ELSE "announce"
    /\ UNCHANGED <<cmdsQueue, sent, dcmd, unchecked, current, internals,
                   logVars, responderVars>>

\* By gid and nid: that node, if it is connected.
ChooseNode ==
    /\ dpc = "route"
    /\ ~ IsInternal(dcmd)
    /\ Content[dcmd].roles = {}
    /\ targets' = {a \in {CommandKey(dcmd)} : IsConnected(a)}
    /\ dpc' = IF targets' = {} THEN "refuse" ELSE "announce"
    /\ UNCHANGED <<cmdsQueue, sent, dcmd, unchecked, current, internals,
                   logVars, responderVars>>

-----------------------------------------------------------------------------
(* Answering and distributing. *)

\* Variant: the refusal returns without the pick-up signal.
RespondAndReturn ==
    /\ LoopGoes("refuse", "pop")
    /\ RespondToCommand(dispatcher, dcmd, CommandKey(dcmd), "ERROR")
    /\ UNCHANGED <<cmdsQueue, sent, dcmd, unchecked, targets, current,
                   internals, logVars>>

\* "No matching connected agents found".
RespondNoAgents ==
    /\ LoopGoes("refuse", "signal")
    /\ RespondToCommand(dispatcher, dcmd, CommandKey(dcmd), "ERROR")
    /\ UNCHANGED <<cmdsQueue, sent, dcmd, unchecked, targets, current,
                   internals, logVars>>

\* The next target is told QUEUED in the command's responses ...
AnnounceQueued(a) ==
    /\ LoopGoes("announce", "distribute")
    /\ a \in targets
    /\ current' = a
    /\ RespondToCommand(dispatcher, dcmd, a, "QUEUED")
    /\ UNCHANGED <<cmdsQueue, sent, dcmd, unchecked, targets, internals,
                   logVars>>

\* Variant: the push does not wait for the response.
DistributedAtOnce ==
    /\ dpc = "distribute"
    /\ targets' = targets \ {current}
    /\ current' = NoAgent
    /\ dpc' = IF targets' = {} THEN "signal" ELSE "announce"
    /\ UNCHANGED <<cmdsQueue, sent, dcmd, unchecked, internals, logVars,
                   responderVars>>

\* Variant: the agent is left among the targets.
DistributedAgain ==
    /\ LoopGoes("distribute", "announce")
    /\ Returned(dispatcher)
    /\ current' = NoAgent
    /\ UNCHANGED <<cmdsQueue, sent, dcmd, unchecked, targets, internals,
                   logVars, responderVars>>

\* ... and once that call returned the command is pushed to its list.
Distributed ==
    /\ dpc = "distribute"
    /\ Returned(dispatcher)
    /\ targets' = targets \ {current}
    /\ current' = NoAgent
    /\ dpc' = IF targets' = {} THEN "signal" ELSE "announce"
    /\ UNCHANGED <<cmdsQueue, sent, dcmd, unchecked, internals, logVars,
                   responderVars>>

\* Variant: the signal goes out with the first target.
SignalFirst ==
    /\ dpc \in {"announce", "signal"}
    /\ SignalAsPickedUp(dispatcher, dcmd)
    /\ IF dpc = "signal" THEN dpc' = "pop" /\ dcmd' = NoCommand
                         ELSE UNCHANGED <<dpc, dcmd>>
    /\ UNCHANGED <<cmdsQueue, sent, unchecked, targets, current, internals,
                   logVars>>

SignalPickedUp ==
    /\ LoopGoes("signal", "pop")
    /\ SignalAsPickedUp(dispatcher, dcmd)
    /\ dcmd' = NoCommand
    /\ UNCHANGED <<cmdsQueue, sent, unchecked, targets, current, internals,
                   logVars>>

-----------------------------------------------------------------------------
(* The goroutine of an internal command. *)

ExecuteInternalCommand(c) ==
    /\ internals[c] = "handler"
    /\ internals' = [internals EXCEPT ![c] = "signal"]
    /\ \E s \in InternalOutcomes(c) :
         RespondToCommand(internal(c), c, CommandKey(c), s)
    /\ UNCHANGED <<cmdsQueue, sent, loopVars, logVars>>

SignalInternal(c) ==
    /\ internals[c] = "signal"
    /\ SignalAsPickedUp(internal(c), c)
    /\ internals' = [internals EXCEPT ![c] = "none"]
    /\ UNCHANGED <<cmdsQueue, sent, loopVars, logVars>>

-----------------------------------------------------------------------------
\* The steps of the loop that touch neither a list of PollService nor the
\* environment.
LoopStep ==
    \/ BlockingPop \/ LogCommand \/ StartInternal
    \/ SnapshotCandidates \/ ChooseTargets \/ ChooseNode
    \/ \E a \in Agents : CheckRoles(a) \/ AnnounceQueued(a)
    \/ RespondNoAgents \/ SignalPickedUp

InternalStep(c) == ExecuteInternalCommand(c) \/ SignalInternal(c)

\* The loop and the goroutines of internal commands die with the process.
DispatcherCrash ==
    /\ dpc' = "pop"
    /\ dcmd' = NoCommand
    /\ unchecked' = {}
    /\ targets' = {}
    /\ current' = NoAgent
    /\ internals' = [c \in Commands |-> "none"]
    /\ ResponderCrash
    /\ UNCHANGED <<cmdsQueue, sent, logVars>>
=============================================================================
