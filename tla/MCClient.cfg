\* One call of each kind.
SPECIFICATION FairClientSpec
CONSTANTS
    c1 = c1  c2 = c2  c3 = c3
    Commands = {c1, c2, c3}
    Roles <- NoRoles
    AgentRoleAll = All
    NoCommand = NoCommand
    MaxCalls = 1
    MaxSignals = 1
    Reported = {"RUNNING", "SUCCESS", "ERROR"}
    NoKey = NoKey
    Nothing = Nothing
    Agents <- TwoAgents
    Content <- CallContent
INVARIANTS
    ClientTypeOK
    EveryResponderIsHeard
    DoneAgentAnswered
    SuccessIsConfirmed
PROPERTIES
    CallReturns
CHECK_DEADLOCK FALSE
