\* One agent with one poll, a command for its node and an internal command,
\* one fault of the poll service, one lost pop, one push that fails.
SPECIFICATION SystemSpec
CONSTANTS
    p1 = p1  p2 = p2
    k1 = k1  k2 = k2
    c1 = c1  c2 = c2
    r1 = r1
    Polls = {p1}
    Chans = {k1}
    Commands = {c1, c2}
    Roles = {r1}
    AgentRoleAll = All
    NoCommand = NoCommand
    NoPoll = NoPoll
    NoChan = NoChan
    NoAgent = NoAgent
    MaxFaults = 1
    MaxLostPops = 1
    MaxUnlogged = 0
    MaxResults = 1
    MaxSent = 2
    MaxCalls = 2
    NoKey = NoKey
    Nothing = Nothing
    MaxLostPushes = 1
    Agents <- OneAgent
    Content <- NodeContent
    PollAgent <- PollOfOne
    PollRoles <- AllWithRole
    ChanAgent <- ChanOfOne
    EventAgents <- NoAgents
    Responders <- MCResponders
INVARIANTS
    DoneIsRecorded
    PickedUpIsDispatched
    EveryWaitHasAReason
    NoCallWaitsInVain
    NoAnswerIsInvented
PROPERTIES
    ImplementsClient
    NeverBackToQueued
    QueuedIsLoggedFirst
CHECK_DEADLOCK FALSE
