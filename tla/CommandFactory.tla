--------------------------- MODULE CommandFactory ---------------------------
(***************************************************************************)
(* Package client/commandfactory: the bodies the client library builds.    *)
(* Of a command only the part that decisions read is kept.                 *)
(***************************************************************************)
EXTENDS Core

Target(gid, nid, wanted, fanout) ==
    [gid |-> gid, nid |-> nid, roles |-> wanted, fanout |-> fanout]

\* A target without roles asks for the wildcard, also one that names a node.
builtRoles(target) ==
    IF target.roles = {} THEN {AgentRoleAll} ELSE target.roles

Build(name, target, argument) ==
    [gid |-> target.gid, nid |-> target.nid, roles |-> builtRoles(target),
     fanout |-> target.fanout, cmd |-> name, name |-> argument]

AnyNode == Target(0, 0, {AgentRoleAll}, FALSE)
AllNodes == Target(0, 0, {}, TRUE)

CommandExecute(target) == Build("job", target, "other")
CommandInternal(argument) ==
    Build("controller", Target(0, 0, {}, FALSE), argument)
=============================================================================
