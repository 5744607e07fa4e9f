------------------------ MODULE SchedulerProperties ------------------------
(***************************************************************************)
(* What the scheduler promises about the jobs that fire.                   *)
(***************************************************************************)
EXTENDS Scheduler

SchedulerTypeOK ==
    /\ schedule \in [Jobs -> Versions \cup {NoVersion}]
    /\ current \in Crons
    /\ entries \in [Crons -> SUBSET Entries]
    /\ running \in SUBSET Crons
    /\ pc \in [Callers -> CallerStates]
    /\ unseen \in [Callers -> SUBSET Jobs]
    /\ page \in [Callers -> SUBSET Entries]
    /\ doomed \in [Callers -> SUBSET Jobs]
    /\ restart \in [Callers -> BOOLEAN]
    /\ failures \in 0..MaxFailures

\* However many goroutines add, remove and restart at once: when all of them
\* are done, the cron object in use runs and holds every stored job with the
\* body that is stored (scheduler.go:42-173).  A failed HSCAN excuses it: the
\* jobs it missed wait for the next restart.
NoJobIsForgotten ==
    Quiet /\ failures = 0 =>
        current \in running /\ Stored \subseteq entries[current]

\* History: two goroutines were inside the scheduler at once.
VARIABLE overlapped
historyVars == <<schedVars, overlapped>>
Busy == {c \in Callers : pc[c] # "idle"}
Overlap == \E c, d \in Busy : c # d
HistoryInit == SchedulerInit /\ overlapped = FALSE
HistoryNext ==
    /\ SchedulerNext
    /\ overlapped' = (~Started' /\ (overlapped \/ Overlap'))
HistorySpec == HistoryInit /\ [][HistoryNext]_historyVars

\* As long as calls follow one another, exactly the stored jobs fire: no cron
\* object outlives its restart and no entry outlives its job
\* (scheduler.go:124-128).
FiringIsStored ==
    Quiet /\ ~overlapped /\ failures = 0 => Firing = Stored

\* AddJob "overrides old ones" (scheduler.go:41): at rest, what fires for a
\* stored job is its stored body.  A cron object that is started, or replaced,
\* after another goroutine's Stop keeps the old body; so does a restart that
\* read it and loads it late, into another goroutine's cron object.
OldBodiesAreOverridden ==
    Quiet => \A e \in Firing : schedule[e[1]] \in {e[2], NoVersion}
=============================================================================
