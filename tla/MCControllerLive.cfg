\* Progress of the whole controller: one agent with two polls and two
\* channels, one command (a fan-out or an internal one), one fault, one lost
\* pop, one push to an agent and one to the command log that fail.
SPECIFICATION FairSpec
CONSTANTS
    p1 = p1  p2 = p2
    k1 = k1  k2 = k2
    c1 = c1  c2 = c2
    r1 = r1
    Polls = {p1, p2}
    Chans = {k1, k2}
    Commands = {c1, c2}
    Roles = {r1}
    AgentRoleAll = All
    NoCommand = NoCommand
    NoPoll = NoPoll
    NoChan = NoChan
    NoAgent = NoAgent
    MaxFaults = 1
    MaxLostPops = 1
    MaxUnlogged = 1
    MaxSent = 1
    MaxLostPushes = 1
    MaxResults = 0
    Agents <- OneAgent
    Content <- FanoutContent
    PollAgent <- PollOfOne
    PollRoles <- AllWithRole
    ChanAgent <- ChanOfOne
    EventAgents <- NoAgents
    Responders <- MCResponders
INVARIANTS
    NothingUnlogged
PROPERTIES
    AcceptedPollIsAnswered
    EveryCommandIsPickedUp
CHECK_DEADLOCK FALSE
