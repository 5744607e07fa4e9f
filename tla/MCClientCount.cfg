\* One call to all nodes: the responses are not as many as the targets.
SPECIFICATION ClientSpec
CONSTANTS
    c1 = c1  c2 = c2  c3 = c3
    Commands = {c1}
    Roles <- NoRoles
    AgentRoleAll = All
    NoCommand = NoCommand
    MaxCalls = 1
    MaxSignals = 1
    Reported = {"RUNNING", "SUCCESS", "ERROR"}
    NoKey = NoKey
    Nothing = Nothing
    Agents <- TwoAgents
    Content <- CallContent
INVARIANTS
    OneResponsePerTarget
CHECK_DEADLOCK FALSE
