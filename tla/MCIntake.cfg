\* Two of three commands, a day of two ticks, three ticks in all, one fault.
SPECIFICATION FairIntakeSpec
CONSTANTS
    c1 = c1
    c2 = c2
    c3 = c3
    s1 = s1
    Commands = {c1, c2, c3}
    NoCommand = NoCommand
    NoEntry = NoEntry
    NoScript = NoScript
    Malformed = Malformed
    Scripts = {s1}
    Script <- MCScript
    Entries <- MCEntries
    TTL = 2
    MaxPushed = 2
    MaxTicks = 3
    MaxFaults = 1
INVARIANTS
    IntakeTypeOK
    ScriptOutlivesItsDay
    ScriptsExpire
    ProcessedAsSent
PROPERTIES
    EveryCommandIsProcessed
CHECK_DEADLOCK FALSE
