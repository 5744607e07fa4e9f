------------------------- MODULE WatcherProperties -------------------------
(***************************************************************************)
(* The schedule agrees with the folder.                                    *)
(***************************************************************************)
EXTENDS Watcher

\* The watcher is going to look at the file.
Pending(f) == f \in toVisit \/ Queued(f) \/ Processing(f)

\* Unless the last change of a file was lost, the job stored for it is the
\* one it asks for, or the watcher is still going to look at it: a change
\* between an event and the read it causes, or between that read and AddJob,
\* is not overlooked (jswatcher/watcher.go:165-187, 190-211).
ScheduleFollowsFiles ==
    \A f \in Files :
        ~ stale[f] /\ ~ Pending(f) => schedule[f] = Wanted(files[f])

\* The schedule settles: when the folder is left alone, every file whose
\* last change was not lost ends up with its job, and keeps it
\* (jswatcher/watcher.go:165, 222-223).
ScheduleSettles ==
    \A f \in Files : <>[](stale[f] \/ schedule[f] = Wanted(files[f]))
=============================================================================
