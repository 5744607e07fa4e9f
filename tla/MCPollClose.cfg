\* A handler may hold the channel its routine closes.
SPECIFICATION PollSpec
CONSTANTS
    p1 = p1  p2 = p2  p3 = p3
    k1 = k1  k2 = k2
    c1 = c1  c2 = c2
    r1 = r1
    Polls = {p1, p2}
    Chans = {k1, k2}
    Commands = {c1}
    Roles = {r1}
    AgentRoleAll = All
    NoCommand = NoCommand
    NoPoll = NoPoll
    NoChan = NoChan
    MaxFaults = 0
    Agents <- MCAgents
    Content <- MCContent
    PollAgent <- MCPollAgent
    PollRoles <- MCPollRoles
    ChanAgent <- MCChanAgent
    EventAgents <- NoAgents
INVARIANTS
    NobodyConnectsAtClose
CHECK_DEADLOCK FALSE
