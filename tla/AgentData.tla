------------------------------ MODULE AgentData ------------------------------
(***************************************************************************)
(* Package agentdata: the thread-safe map from connected agents to the     *)
(* roles they declared.  Every method takes the lock for its whole body,   *)
(* so each is one atomic read or update; only FilteredConnectedAgents      *)
(* reads several times (see Dispatcher).                                   *)
(***************************************************************************)
EXTENDS Core

VARIABLE roles   \* data.roles: a function on the connected agents

AgentDataTypeOK ==
    /\ DOMAIN roles \subseteq Agents
    /\ roles \in [DOMAIN roles -> SUBSET Roles]

AgentDataInit == roles = [a \in {} |-> {}]

ConnectedAgents == DOMAIN roles

IsConnected(id) == id \in DOMAIN roles

GetRoles(id) == IF id \in DOMAIN roles THEN roles[id] ELSE {}

SetRoles(id, declared) ==
    roles' = [a \in DOMAIN roles \cup {id} |->
                IF a = id THEN declared ELSE roles[a]]

MarkAsAlive(id) == SetRoles(id, {})

DropAgent(id) == roles' = [a \in DOMAIN roles \ {id} |-> roles[a]]

\* Named after the code, where it tests inclusion of xs in ys.
roleSetEquivalent(xs, ys) == xs \subseteq ys
=============================================================================
