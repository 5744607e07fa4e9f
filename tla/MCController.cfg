\* Two agents with role r1 and one command: a fan-out for that role, or one
\* for any node of their grid.
SPECIFICATION Spec
CONSTANTS
    p1 = p1  p2 = p2
    k1 = k1  k2 = k2
    c1 = c1  c2 = c2
    r1 = r1
    Polls = {p1, p2}
    Chans = {k1, k2}
    Commands = {c1, c2}
    MaxSent = 1
    Roles = {r1}
    AgentRoleAll = All
    NoCommand = NoCommand
    NoPoll = NoPoll
    NoChan = NoChan
    NoAgent = NoAgent
    MaxFaults = 0
    MaxLostPops = 0
    MaxUnlogged = 0
    MaxResults = 1
    MaxLostPushes = 0
    Agents <- TwoAgents
    Content <- FanoutOrAnyContent
    PollAgent <- PollOfEach
    PollRoles <- AllWithRole
    ChanAgent <- ChanOfEach
    EventAgents <- NoAgents
    Responders <- MCResponders
INVARIANTS
    ControllerTypeOK
    OneAgentWithoutFanout
PROPERTIES
    ImplementsPollService
    ImplementsLifecycle
    RespondersFixedAtPickUp
CHECK_DEADLOCK FALSE
