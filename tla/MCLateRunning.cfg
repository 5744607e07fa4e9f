\* A late RUNNING overwrites the result the agent already posted.
SPECIFICATION Spec
CONSTANTS
    p1 = p1  p2 = p2
    k1 = k1  k2 = k2
    c1 = c1  c2 = c2
    r1 = r1
    Polls = {p1}
    Chans = {k1}
    Commands = {c1}
    Roles = {r1}
    AgentRoleAll = All
    NoCommand = NoCommand
    NoPoll = NoPoll
    NoChan = NoChan
    NoAgent = NoAgent
    MaxFaults = 0
    MaxLostPops = 0
    MaxUnlogged = 0
    MaxResults = 1
    MaxSent = 1
    MaxLostPushes = 0
    Agents <- OneAgent
    Content <- NodeContent
    PollAgent <- PollOfOne
    PollRoles <- AllWithRole
    ChanAgent <- ChanOfOne
    EventAgents <- NoAgents
    Responders <- MCResponders
PROPERTIES
    TerminalIsFinal
CHECK_DEADLOCK FALSE
