-------------------------------- MODULE Core --------------------------------
(***************************************************************************)
(* Package core: agents, commands and the states of a command response.    *)
(*                                                                         *)
(* A command is an opaque value; Content gives the part of its JSON body   *)
(* the controller's decisions depend on.                                   *)
(***************************************************************************)
EXTENDS Naturals

CONSTANTS
    Agents,        \* the AgentIDs that ever talk to this controller
    Commands,      \* the commands that are ever pushed to cmds.queue
    Content,       \* Content[c]: the decoded body of command c
    Roles,         \* the roles agents declare and commands ask for
    AgentRoleAll,  \* the wildcard role "*"
    NoCommand      \* no command at all (a nil *Command, an empty payload)

AgentID == [gid: Nat, nid: Nat]

(***************************************************************************)
(* "cmd" only matters for being "controller" (an internal command) or not; *)
(* "name" is args.name: a registered internal handler or something else.   *)
(***************************************************************************)
CommandContent ==
    [gid: Nat, nid: Nat, roles: SUBSET (Roles \cup {AgentRoleAll}),
     fanout: BOOLEAN, cmd: {"controller", "job"},
     name: {"list_agents", "scheduler", "other"}]

ASSUME CoreAssumption ==
    /\ Agents \subseteq AgentID
    /\ Content \in [Commands -> CommandContent]
    /\ NoCommand \notin Commands

IsInternal(c) == Content[c].cmd = "controller"

\* The pair "gid:nid" written in the command itself; it names a node only
\* when the command is addressed to one, and is the key under which the
\* controller's own answers (no agent found, internal results) are stored.
CommandKey(c) == [gid |-> Content[c].gid, nid |-> Content[c].nid]

\* Grids a command may run on: gid 0 stands for "no grid attached".
MatchesGid(c, a) == Content[c].gid = 0 \/ a.gid = Content[c].gid

CommandStates == {"QUEUED", "RUNNING", "ERROR", "SUCCESS", "UNKNOWN_CMD"}

IsTerminalCommandState(s) == s \notin {"QUEUED", "RUNNING"}

\* No response is stored.
NoResponse == "NONE"

\* The states the handler of an internal command can answer with: listing
\* agents cannot fail, a scheduler operation can, and other names have no
\* handler.
InternalOutcomes(c) ==
    IF Content[c].name = "list_agents" THEN {"SUCCESS"}
    ELSE IF Content[c].name = "scheduler" THEN {"SUCCESS", "ERROR"}
    ELSE {"UNKNOWN_CMD"}

\* The keys a response can be stored under in a jobresult hash.
Keys == Agents \cup {CommandKey(c) : c \in Commands}
=============================================================================
