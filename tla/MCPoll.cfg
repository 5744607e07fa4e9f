\* The poll service: three overlapping polls of one agent that also posts
\* events, two commands, one fault.
SPECIFICATION FairPollSpec
CONSTANTS
    p1 = p1  p2 = p2  p3 = p3
    k1 = k1  k2 = k2
    c1 = c1  c2 = c2
    r1 = r1
    Polls = {p1, p2, p3}
    Chans = {k1, k2}
    Commands = {c1, c2}
    Roles = {r1}
    AgentRoleAll = All
    NoCommand = NoCommand
    NoPoll = NoPoll
    NoChan = NoChan
    MaxFaults = 1
    Agents <- MCAgents
    Content <- MCContent
    PollAgent <- MCPollAgent
    PollRoles <- MCPollRoles
    ChanAgent <- MCChanAgent
    EventAgents <- MCAgents
INVARIANTS
    PollTypeOK
    LiveRoutineIsRegistered
    OnePollServed
    CommandInOnePlace
PROPERTIES
    ImplementsDelivery
    DropsOnlyUnserved
    OnlyEventsStrand
    SilentAgentIsDropped
CHECK_DEADLOCK FALSE
