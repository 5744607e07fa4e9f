------------------------------ MODULE MCClient ------------------------------
(***************************************************************************)
(* The instances of the client library: one call, of each kind, and two    *)
(* agents.                                                                 *)
(***************************************************************************)
EXTENDS ClientProperties, CommandFactory

CONSTANTS c1, c2, c3

TwoAgents == {[gid |-> 1, nid |-> 1], [gid |-> 1, nid |-> 2]}
NoRoles == {}

\* A fan-out, a request for the agents and one to the scheduler.
CallContent ==
    [c \in Commands |->
        IF c = c1 THEN CommandExecute(AllNodes)
        ELSE CommandInternal(IF c = c2 THEN "list_agents" ELSE "scheduler")]
\* Any one node.
AnyNodeContent == [c \in Commands |-> CommandExecute(AnyNode)]
=============================================================================
