------------------------------- MODULE Watcher -------------------------------
(***************************************************************************)
(* Package jswatcher: keeps a job in the scheduler for every jumpscript of *)
(* a folder that asks for one.  On start it walks the folder, then watches *)
(* it; for each event it unschedules the script and, unless the script was *)
(* removed, reads it again and schedules it.                               *)
(*                                                                         *)
(* Of the scheduler only its hash is kept, which outlives the process:     *)
(* what fires follows it (module Scheduler).  The folder and the events    *)
(* are those of the file system and of package notify, which drops an      *)
(* event when the buffer is full.                                          *)
(***************************************************************************)
EXTENDS Naturals, Sequences

CONSTANTS
    Files,        \* the paths that end in ".py"
    Contents,     \* what such a file can contain
    Info,         \* what get_info returns for the scripts that have attributes
    Absent,       \* there is no such file
    NoFile,       \* a path that does not end in ".py"
    NoJob,        \* nothing is scheduled
    BufferSize,   \* the capacity of the channel of events
    MaxEdits,     \* bound on the changes to the folder
    MaxFailures,  \* bound on the calls to Redis or Python that fail
    MaxCrashes    \* bound on the restarts of the process

ASSUME WatcherAssumption ==
    /\ DOMAIN Info \subseteq Contents
    /\ Absent \notin Contents
    /\ NoFile \notin Files
    /\ BufferSize \in Nat /\ MaxEdits \in Nat
    /\ MaxFailures \in Nat /\ MaxCrashes \in Nat

-----------------------------------------------------------------------------
(* The attributes of a script: key |-> [type, value], where numbers with a *)
(* fraction are given in tenths.                                           *)

Get(attr, key, type, default) ==
    IF key \in DOMAIN attr /\ attr[key].type = type
    THEN attr[key].value ELSE default

\* JSON has floats only: the fraction is cut off.
getInt(attr, key, default) ==
    IF key \in DOMAIN attr /\ attr[key].type = "float"
    THEN attr[key].value \div 10
    ELSE Get(attr, key, "int", default)

Period(attr) == getInt(attr, "period", 0)
Timeout(attr) == getInt(attr, "timeout", 0)
Enable(attr) == Get(attr, "enable", "bool", TRUE)
Queue(attr) == Get(attr, "queue", "string", "")
Category(attr) == Get(attr, "category", "string", "")
AttrRoles(attr) == Get(attr, "roles", "strings", {})

Schedulable(attr) == Enable(attr) /\ Period(attr) > 0

\* The job made of a script, always for all agents of its roles.
Job(attr) ==
    [period |-> Period(attr), queue |-> Queue(attr),
     timeout |-> Timeout(attr), tags |-> Category(attr),
     roles |-> IF AttrRoles(attr) = {} THEN {"*"} ELSE AttrRoles(attr)]

Jobs == {Job(Info[v]) : v \in {w \in DOMAIN Info : Schedulable(Info[w])}}

\* The job a file with this content should have.
Wanted(content) ==
    IF content \in DOMAIN Info /\ Schedulable(Info[content])
    THEN Job(Info[content]) ELSE NoJob

-----------------------------------------------------------------------------
VARIABLES
    files,      \* the content of each path
    schedule,   \* the scheduler's hash: the job stored for each script
    events,     \* the buffered channel of events
    watching,   \* notify.Watch has returned
    wpc,        \* control point of the watcher
    toVisit,    \* what the walk has still to come to
    file,       \* the path that is being processed
    event,      \* the event it is processed for
    content,    \* what get_info was given to read
    stale,      \* history: the last change of a file was lost
    edits, failures, crashes   \* counters for the bounds

walkVars == <<watching, wpc, toVisit, file, event, content>>
countVars == <<edits, failures, crashes>>
watcherVars == <<files, schedule, events, walkVars, stale, countVars>>

Kinds == {"Create", "Write", "Remove"}
Events == [kind: Kinds, file: Files \cup {NoFile}]

WatcherTypeOK ==
    /\ files \in [Files -> Contents \cup {Absent}]
    /\ schedule \in [Files -> Jobs \cup {NoJob}]
    /\ events \in Seq(Events) /\ Len(events) <= BufferSize
    /\ watching \in BOOLEAN
    /\ wpc \in {"walk", "next", "remove", "info", "add"}
    /\ toVisit \subseteq Files
    /\ file \in Files \cup {NoFile}
    /\ event \in Kinds
    /\ content \in Contents \cup {Absent}
    /\ stale \in [Files -> BOOLEAN]
    /\ edits \in 0..MaxEdits
    /\ failures \in 0..MaxFailures
    /\ crashes \in 0..MaxCrashes

WatcherInit ==
    /\ files \in [Files -> Contents \cup {Absent}]
    /\ schedule = [f \in Files |-> NoJob]
    /\ events = <<>>
    /\ watching = FALSE
    /\ wpc = "walk"
    /\ toVisit = Files
    /\ file = NoFile
    /\ event = "Create"
    /\ content = Absent
    /\ stale = [f \in Files |-> FALSE]
    /\ edits = 0 /\ failures = 0 /\ crashes = 0

Processing(f) == file = f /\ wpc \in {"remove", "info", "add"}
Queued(f) == \E i \in DOMAIN events : events[i].file = f

Store(f, jobs) == \E j \in jobs : schedule' = [schedule EXCEPT ![f] = j]

\* The script is dealt with: the walk or the loop over the events goes on.
Done ==
    /\ wpc' = IF watching THEN "next" ELSE "walk"
    /\ file' = NoFile
    /\ content' = Absent
    /\ event' = "Create"
    /\ UNCHANGED <<watching, toVisit>>

-----------------------------------------------------------------------------
(* The walk. *)

Visit(f) ==
    /\ wpc = "walk"
    /\ f \in toVisit
    /\ toVisit' = toVisit \ {f}
    /\ IF files[f] = Absent THEN UNCHANGED <<wpc, file>>
       ELSE wpc' = "info" /\ file' = f
    /\ UNCHANGED <<files, schedule, events, watching, event, content, stale,
                   countVars>>

StartWatching ==
    /\ wpc = "walk"
    /\ toVisit = {}
    /\ watching' = TRUE
    /\ wpc' = "next"
    /\ UNCHANGED <<files, schedule, events, toVisit, file, event, content,
                   stale, countVars>>

-----------------------------------------------------------------------------
(* The loop over the events. *)

NextEvent ==
    /\ wpc = "next"
    /\ events # <<>>
    /\ events' = Tail(events)
    /\ IF Head(events).file = NoFile THEN UNCHANGED <<wpc, file, event>>
       ELSE /\ wpc' = "remove"
            /\ file' = Head(events).file
            /\ event' = Head(events).kind
    /\ UNCHANGED <<files, schedule, watching, toVisit, content, stale,
                   countVars>>

\* Variant: only the scripts that went away are unscheduled.
unscheduleRemoved ==
    /\ wpc = "remove"
    /\ IF event = "Remove" THEN Store(file, {NoJob}) /\ Done
       ELSE wpc' = "info" /\ UNCHANGED <<schedule, watching, toVisit, file,
                                         event, content>>
    /\ UNCHANGED <<files, events, stale, countVars>>

unschedule ==
    /\ wpc = "remove"
    /\ Store(file, {NoJob})
    /\ IF event = "Remove" THEN Done
       ELSE wpc' = "info" /\ UNCHANGED <<watching, toVisit, file, event,
                                         content>>
    /\ UNCHANGED <<files, events, stale, countVars>>

\* Variant: a script that is disabled or has no period is scheduled too.
getInfoUnchecked ==
    /\ wpc = "info"
    /\ IF files[file] \in DOMAIN Info
       THEN /\ wpc' = "add"
            /\ content' = files[file]
            /\ UNCHANGED <<watching, toVisit, file, event>>
       ELSE Done
    /\ UNCHANGED <<files, schedule, events, stale, countVars>>

\* Variant: the loop ends at a script without attributes.
getInfoOrReturn ==
    /\ wpc = "info"
    /\ files[file] \in DOMAIN Info
    /\ IF Schedulable(Info[files[file]])
       THEN /\ wpc' = "add"
            /\ content' = files[file]
            /\ UNCHANGED <<watching, toVisit, file, event>>
       ELSE Done
    /\ UNCHANGED <<files, schedule, events, stale, countVars>>

\* process calls get_info: the file is read now, if it can be; schedule
\* returns early unless its attributes ask for a job.
getInfo ==
    /\ wpc = "info"
    /\ IF files[file] \in DOMAIN Info /\ Schedulable(Info[files[file]])
       THEN /\ wpc' = "add"
            /\ content' = files[file]
            /\ UNCHANGED <<watching, toVisit, file, event>>
       ELSE Done
    /\ UNCHANGED <<files, schedule, events, stale, countVars>>

\* AddJob overrides the job of that script.  It makes up for a lost change
\* if it was read after it and no earlier event is still to come.
addJob ==
    /\ wpc = "add"
    /\ Store(file, {Job(Info[content])})
    /\ stale' = [stale EXCEPT ![file] = 
                  @ /\ (files[file] # content \/ Queued(file))]
    /\ Done
    /\ UNCHANGED <<files, events, countVars>>

\* A call fails, HDEL and HSET with or without effect; the error is logged
\* and the script left.
CallFails ==
    /\ wpc \in {"remove", "info", "add"}
    /\ failures < MaxFailures
    /\ failures' = failures + 1
    /\ Store(file, {schedule[file]}
                   \cup (IF wpc = "remove" THEN {NoJob} ELSE {})
                   \cup (IF wpc = "add" THEN {Job(Info[content])} ELSE {}))
    /\ stale' = [stale EXCEPT ![file] = TRUE]
    /\ Done
    /\ UNCHANGED <<files, events, edits, crashes>>

-----------------------------------------------------------------------------
(* The folder. *)

Buffer(kind, f) ==
    IF watching /\ Len(events) < BufferSize
    THEN Append(events, [kind |-> kind, file |-> f]) ELSE events

\* Nobody will look at the file on account of this change: its event is
\* dropped, or the walk is past it or would leave an old job alone.
Lost(f, value) ==
    IF watching THEN Len(events) >= BufferSize
    ELSE f \notin toVisit \/ Wanted(value) = NoJob

Edit(f, kind, value) ==
    /\ edits < MaxEdits
    /\ edits' = edits + 1
    /\ files' = [files EXCEPT ![f] = value]
    /\ events' = Buffer(kind, f)
    /\ stale' = [stale EXCEPT ![f] = Lost(f, value)]
    /\ UNCHANGED <<schedule, walkVars, failures, crashes>>

CreateFile(f) ==
    files[f] = Absent /\ \E v \in Contents : Edit(f, "Create", v)
WriteFile(f) ==
    files[f] # Absent /\ \E v \in Contents : Edit(f, "Write", v)
RemoveFile(f) == files[f] # Absent /\ Edit(f, "Remove", Absent)

\* Renaming a file out of the folder is not among the events asked for.
MoveAway(f) ==
    /\ files[f] # Absent
    /\ edits < MaxEdits
    /\ edits' = edits + 1
    /\ files' = [files EXCEPT ![f] = Absent]
    /\ stale' = [stale EXCEPT ![f] = TRUE]
    /\ UNCHANGED <<schedule, events, walkVars, failures, crashes>>

\* Other files fill the buffer too.
OtherFile ==
    /\ watching
    /\ edits < MaxEdits
    /\ edits' = edits + 1
    /\ events' = Buffer("Write", NoFile)
    /\ UNCHANGED <<files, schedule, walkVars, stale, failures, crashes>>

\* The process dies and starts again: the events are gone.
WatcherCrash ==
    /\ crashes < MaxCrashes
    /\ crashes' = crashes + 1
    /\ events' = <<>>
    /\ watching' = FALSE
    /\ wpc' = "walk"
    /\ toVisit' = Files
    /\ file' = NoFile
    /\ event' = "Create"
    /\ content' = Absent
    /\ stale' = [f \in Files |->
                    stale[f] \/ f \in toVisit \/ Queued(f) \/ Processing(f)]
    /\ UNCHANGED <<files, schedule, edits, failures>>

-----------------------------------------------------------------------------
WatcherStep ==
    \/ \E f \in Files : Visit(f)
    \/ StartWatching \/ NextEvent \/ unschedule \/ getInfo \/ addJob

Folder ==
    \/ \E f \in Files :
         CreateFile(f) \/ WriteFile(f) \/ RemoveFile(f) \/ MoveAway(f)
    \/ OtherFile

WatcherNext == WatcherStep \/ CallFails \/ Folder \/ WatcherCrash

WatcherSpec ==
    WatcherInit /\ [][WatcherNext]_watcherVars /\ WF_watcherVars(WatcherStep)
=============================================================================
