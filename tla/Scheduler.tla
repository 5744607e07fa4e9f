----------------------------- MODULE Scheduler -----------------------------
(***************************************************************************)
(* Package scheduling: the jobs stored in the Redis hash                   *)
(* "controller.schedule", the cron objects that fire them, and goroutines  *)
(* that add and remove jobs at the same time.  Nothing locks the scheduler *)
(* (internal commands run in a goroutine each, application.go:244-247), so *)
(* every Redis call and every use of sched.cron is a step of its own.      *)
(*                                                                         *)
(* A job body is opaque; what fires is the content of the cron objects     *)
(* that run.  A cron neither running nor current is garbage and its name   *)
(* is reused: Crons bounds the objects alive at once.  Library robfig/cron *)
(* is external: Stop, AddJob and Start are atomic; stopping a cron that    *)
(* does not run, or starting one that does, changes nothing.               *)
(***************************************************************************)
EXTENDS Naturals

CONSTANTS
    Jobs,         \* job IDs
    Versions,     \* job bodies that pass validateCronSpec
    NoVersion,    \* the job is not in the hash
    Prefixes,     \* sets of jobs that share an ID prefix
    Callers,      \* goroutines that call the scheduler
    main,         \* the one that starts it, then the jumpscript watcher
    Crons,        \* cron objects
    MaxFailures   \* bound: Redis calls that fail between two starts

ASSUME SchedulerAssumption ==
    /\ main \in Callers
    /\ NoVersion \notin Versions
    /\ Prefixes \subseteq SUBSET Jobs
    /\ MaxFailures \in Nat

VARIABLES
    schedule,     \* the hash
    current,      \* sched.cron
    entries,      \* the jobs each cron holds
    running,      \* the crons whose loop runs
    pc,           \* what a goroutine does next
    unseen,       \* the jobs its HSCAN has not covered yet
    page,         \* what is left of the page HSCAN returned
    doomed,       \* the jobs its RemoveByIdPrefix is after
    restart,      \* local of RemoveByIdPrefix: it met one of them
    failures      \* Redis calls that failed since the start

cronVars == <<current, entries, running>>
localVars == <<unseen, page, doomed, restart>>
schedVars == <<schedule, cronVars, pc, localVars, failures>>

CallerStates == {"idle", "prune", "stop", "new", "load"}
Entries == Jobs \X Versions

\* The jobs in the hash.
Stored == {e \in Entries : schedule[e[1]] = e[2]}

\* What fires (Job.Run): the jobs of every cron that runs.
Firing == UNION {entries[k] : k \in running}

\* No call is in progress.
Quiet == \A c \in Callers : pc[c] = "idle"

Goto(c, s) == pc' = [pc EXCEPT ![c] = s]
Fail == failures < MaxFailures /\ failures' = failures + 1

(***************************************************************************)
(* The process starts: one cron, not running, and main about to load it.   *)
(***************************************************************************)
Started ==
    /\ current \in Crons
    /\ entries = [k \in Crons |-> {}]
    /\ running = {}
    /\ pc = [c \in Callers |-> IF c = main THEN "load" ELSE "idle"]
    /\ unseen = [c \in Callers |-> IF c = main THEN Jobs ELSE {}]
    /\ page = [c \in Callers |-> {}]
    /\ doomed = [c \in Callers |-> {}]
    /\ restart = [c \in Callers |-> FALSE]
    /\ failures = 0

\* The hash may hold jobs of earlier runs of the controller.
SchedulerInit ==
    /\ schedule \in [Jobs -> Versions \cup {NoVersion}]
    /\ Started

-----------------------------------------------------------------------------
\* Variant: only a job that was not stored restarts the cron.
AddJobOnce(c, j, v) ==
    /\ pc[c] = "idle"
    /\ schedule' = [schedule EXCEPT ![j] = v]
    /\ Goto(c, IF schedule[j] = NoVersion THEN "stop" ELSE "idle")
    /\ UNCHANGED <<cronVars, localVars, failures>>

(***************************************************************************)
(* The calls.  AddJob restarts whether its HSET went through or not        *)
(* (deferred; ds.Hash.Set swallows the error).  RemoveByID restarts only   *)
(* when HDEL answered that it deleted: not when the answer is lost.        *)
(***************************************************************************)
AddJob(c, j, v) ==
    /\ pc[c] = "idle"
    /\ \/ schedule' = [schedule EXCEPT ![j] = v] /\ UNCHANGED failures
       \/ Fail /\ UNCHANGED schedule
    /\ Goto(c, "stop")
    /\ UNCHANGED <<cronVars, localVars>>

RemoveByID(c, j) ==
    /\ pc[c] = "idle"
    /\ schedule[j] # NoVersion
    /\ schedule' = [schedule EXCEPT ![j] = NoVersion]
    /\ \/ Goto(c, "stop") /\ UNCHANGED failures
       \/ Fail /\ UNCHANGED pc
    /\ UNCHANGED <<cronVars, localVars>>

RemoveByIdPrefix(c, ids) ==
    /\ pc[c] = "idle"
    /\ doomed' = [doomed EXCEPT ![c] = ids]
    /\ unseen' = [unseen EXCEPT ![c] = Jobs]
    /\ Goto(c, "prune")
    /\ UNCHANGED <<schedule, cronVars, page, restart, failures>>

\* Variant: a job that is not in the hash is read as an empty one.
HScanEmpty(c) ==
    /\ pc[c] \in {"prune", "load"}
    /\ page[c] = {}
    /\ unseen[c] # {}
    /\ unseen' = [unseen EXCEPT ![c] = {}]
    /\ page' = [page EXCEPT ![c] = {<<j, schedule[j]>> : j \in unseen[c]}]
    /\ UNCHANGED <<schedule, cronVars, pc, doomed, restart, failures>>

(***************************************************************************)
(* The HSCAN loops of RemoveByIdPrefix and Start.  A page is any part of   *)
(* what the scan has not covered, as it is in the hash at that moment; an  *)
(* error ends the loop.                                                    *)
(***************************************************************************)
Wanted(c) == IF pc[c] = "prune" THEN doomed[c] ELSE Jobs

HScan(c) ==
    /\ pc[c] \in {"prune", "load"}
    /\ page[c] = {}
    /\ \E ids \in SUBSET unseen[c] \ {{}} :
        /\ unseen' = [unseen EXCEPT ![c] = @ \ ids]
        /\ page' = [page EXCEPT
               ![c] = {e \in Stored : e[1] \in ids \cap Wanted(c)}]
    /\ UNCHANGED <<schedule, cronVars, pc, doomed, restart, failures>>

HScanFails(c) ==
    /\ pc[c] \in {"prune", "load"}
    /\ page[c] = {}
    /\ unseen[c] # {}
    /\ Fail
    /\ unseen' = [unseen EXCEPT ![c] = {}]
    /\ UNCHANGED <<schedule, cronVars, pc, page, doomed, restart>>

\* The loop is over: the page is used up and the cursor is 0.
Scanned(c) == page[c] = {} /\ unseen[c] = {}

\* HDEL of a job of the page, whatever body it has by now; the result is
\* ignored.
DeleteDoomed(c) ==
    /\ pc[c] = "prune"
    /\ \E e \in page[c] :
        /\ page' = [page EXCEPT ![c] = @ \ {e}]
        /\ \/ /\ schedule' = [schedule EXCEPT ![e[1]] = NoVersion]
              /\ UNCHANGED failures
           \/ Fail /\ UNCHANGED schedule
    /\ restart' = [restart EXCEPT ![c] = TRUE]
    /\ UNCHANGED <<cronVars, pc, unseen, doomed>>

EndPrune(c) ==
    /\ pc[c] = "prune"
    /\ Scanned(c)
    /\ Goto(c, IF restart[c] THEN "stop" ELSE "idle")
    /\ restart' = [restart EXCEPT ![c] = FALSE]
    /\ doomed' = [doomed EXCEPT ![c] = {}]
    /\ UNCHANGED <<schedule, cronVars, unseen, page, failures>>

-----------------------------------------------------------------------------
\* Variant: the old cron is replaced and never stopped.
StopNothing(c) ==
    /\ pc[c] = "stop"
    /\ Goto(c, "new")
    /\ UNCHANGED <<schedule, cronVars, localVars, failures>>

(***************************************************************************)
(* Scheduler.restart and Start, with sched.cron read anew at every use.    *)
(***************************************************************************)
StopCron(c) ==
    /\ pc[c] = "stop"
    /\ running' = running \ {current}
    /\ Goto(c, "new")
    /\ UNCHANGED <<schedule, current, entries, localVars, failures>>

NewCron(c) ==
    /\ pc[c] = "new"
    /\ current' \in Crons \ (running \cup {current})
    /\ entries' = [k \in Crons |-> IF k \in running THEN entries[k] ELSE {}]
    /\ unseen' = [unseen EXCEPT ![c] = Jobs]
    /\ Goto(c, "load")
    /\ UNCHANGED <<schedule, running, page, doomed, restart, failures>>

LoadJob(c) ==
    /\ pc[c] = "load"
    /\ \E e \in page[c] :
        /\ entries' = [entries EXCEPT ![current] = @ \cup {e}]
        /\ page' = [page EXCEPT ![c] = @ \ {e}]
    /\ UNCHANGED <<schedule, current, running, pc, unseen, doomed, restart,
                   failures>>

StartCron(c) ==
    /\ pc[c] = "load"
    /\ Scanned(c)
    /\ running' = running \cup {current}
    /\ Goto(c, "idle")
    /\ UNCHANGED <<schedule, current, entries, localVars, failures>>

\* The controller dies and starts again; the hash survives.
Restarted ==
    /\ current' \in Crons
    /\ entries' = [k \in Crons |-> {}]
    /\ running' = {}
    /\ pc' = [c \in Callers |-> IF c = main THEN "load" ELSE "idle"]
    /\ unseen' = [c \in Callers |-> IF c = main THEN Jobs ELSE {}]
    /\ page' = [c \in Callers |-> {}]
    /\ doomed' = [c \in Callers |-> {}]
    /\ restart' = [c \in Callers |-> FALSE]
    /\ failures' = 0
    /\ UNCHANGED schedule

-----------------------------------------------------------------------------
Call(c) ==
    \/ \E j \in Jobs, v \in Versions : AddJob(c, j, v)
    \/ \E j \in Jobs : RemoveByID(c, j)
    \/ \E ids \in Prefixes : RemoveByIdPrefix(c, ids)
CallStep(c) ==
    \/ HScan(c) \/ HScanFails(c)
    \/ DeleteDoomed(c) \/ EndPrune(c)
    \/ StopCron(c) \/ NewCron(c) \/ LoadJob(c) \/ StartCron(c)

SchedulerNext == (\E c \in Callers : Call(c) \/ CallStep(c)) \/ Restarted
SchedulerSpec == SchedulerInit /\ [][SchedulerNext]_schedVars
=============================================================================
