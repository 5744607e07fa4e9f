---------------------------- MODULE MCController ----------------------------
(***************************************************************************)
(* The instances of the controller: two agents of one grid with a poll and *)
(* a channel each, or one agent with two polls; a fan-out command, one for *)
(* any node, or one for a node next to an internal command.                *)
(***************************************************************************)
EXTENDS ControllerProperties

CONSTANTS p1, p2, k1, k2, c1, c2, r1

Agent1 == [gid |-> 1, nid |-> 1]
Agent2 == [gid |-> 1, nid |-> 2]
OneAgent == {Agent1}
TwoAgents == {Agent1, Agent2}
NoAgents == {}

Body(gid, nid, wanted, fanout) ==
    [gid |-> gid, nid |-> nid, roles |-> wanted, fanout |-> fanout,
     cmd |-> "job", name |-> "other"]
InternalBody(name) ==
    [Body(0, 0, {}, FALSE) EXCEPT !.cmd = "controller", !.name = name]

\* c1 for all agents with r1, c2 for the scheduler.
FanoutContent ==
    [c \in Commands |-> IF c = c1 THEN Body(1, 0, {r1}, TRUE)
                        ELSE InternalBody("scheduler")]
\* c1 for all agents with r1, c2 for any one node of grid 1.
FanoutOrAnyContent ==
    [c \in Commands |-> IF c = c1 THEN Body(1, 0, {r1}, TRUE)
                        ELSE Body(1, 0, {AgentRoleAll}, FALSE)]
\* c1 for node 1 of grid 1, c2 lists the agents.
NodeContent ==
    [c \in Commands |-> IF c = c1 THEN Body(1, 1, {}, FALSE)
                        ELSE InternalBody("list_agents")]

\* One poll and one channel for each of two agents, or all for one.
PollOfEach == [p \in Polls |-> IF p = p1 THEN Agent1 ELSE Agent2]
ChanOfEach == [ch \in Chans |-> IF ch = k1 THEN Agent1 ELSE Agent2]
PollOfOne == [p \in Polls |-> Agent1]
ChanOfOne == [ch \in Chans |-> Agent1]
AllWithRole == [p \in Polls |-> {r1}]
MCResponders ==
    {dispatcher} \cup {internal(c) : c \in Commands}
    \cup {routineOf(ch) : ch \in Chans}
    \cup {resultOf(a, c) : a \in Agents, c \in Commands}
=============================================================================
