\* Two scripts, a buffer of two, three changes, one failing call, one restart.
SPECIFICATION WatcherSpec
CONSTANTS
    minutely = minutely
    hourly = hourly
    off = off
    never = never
    f1 = f1
    f2 = f2
    Files = {f1, f2}
    Contents = {minutely, hourly, off, never}
    Info <- MCInfo
    Absent = Absent
    NoFile = NoFile
    NoJob = NoJob
    BufferSize = 2
    MaxEdits = 3
    MaxFailures = 1
    MaxCrashes = 1
INVARIANTS
    WatcherTypeOK
    ScheduleFollowsFiles
PROPERTIES
    ScheduleSettles
CHECK_DEADLOCK FALSE
