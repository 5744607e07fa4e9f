------------------------------- MODULE MCPoll -------------------------------
(***************************************************************************)
(* One agent, several overlapping polls, two channels: enough for a stale  *)
(* channel next to a fresh one.                                            *)
(***************************************************************************)
EXTENDS PollProperties

CONSTANTS p1, p2, p3, k1, k2, c1, c2, r1

MCAgent == [gid |-> 1, nid |-> 1]
MCAgents == {MCAgent}
MCContent ==
    [c \in Commands |-> [gid |-> 1, nid |-> 1, roles |-> {}, fanout |-> FALSE,
                         cmd |-> "job", name |-> "other"]]
MCPollAgent == [p \in Polls |-> MCAgent]
\* p2 is the agent after a restart with other roles.
MCPollRoles == [p \in Polls |-> IF p = p1 THEN {r1} ELSE {}]
MCChanAgent == [ch \in Chans |-> MCAgent]
NoAgents == {}
=============================================================================
