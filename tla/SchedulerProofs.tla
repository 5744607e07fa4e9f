-------------------------- MODULE SchedulerProofs --------------------------
(***************************************************************************)
(* Safety of the scheduler for any number of jobs, goroutines and cron     *)
(* objects.                                                                *)
(***************************************************************************)
EXTENDS SchedulerProperties, TLAPS

(***************************************************************************)
(* A stored job that the current cron lacks is on its way: a goroutine is  *)
(* about to replace the cron, or it is loading and has the job ahead.      *)
(***************************************************************************)
Ahead(c, e) ==
    \/ pc[c] \in {"stop", "new"}
    \/ pc[c] = "load" /\ (e[1] \in unseen[c] \/ e \in page[c])

Covered ==
    failures = 0 =>
        \A e \in Stored : \/ e \in entries[current]
                          \/ \E c \in Callers : Ahead(c, e)

\* Somebody starts the current cron if it does not run.
Attended ==
    \/ current \in running
    \/ \E c \in Callers : pc[c] \in {"stop", "new", "load"}

SchedulerInv == SchedulerTypeOK /\ Covered /\ Attended

\* The initial states satisfy it.
LEMMA SchedulerInitInv == SchedulerInit => SchedulerInv
  BY SchedulerAssumption
  DEF SchedulerInit, Started, SchedulerInv, SchedulerTypeOK, CallerStates,
      Entries, Covered, Attended, Stored, Ahead

\* Every step preserves the types.
LEMMA NextType ==
    ASSUME SchedulerTypeOK, [SchedulerNext]_schedVars PROVE SchedulerTypeOK'
<1> USE SchedulerAssumption
    DEF SchedulerTypeOK, CallerStates, Goto, Fail, cronVars, localVars
<1>1. ASSUME NEW c \in Callers, Call(c) PROVE SchedulerTypeOK'
  BY <1>1 DEF Call, AddJob, RemoveByID, RemoveByIdPrefix
<1>2. ASSUME NEW c \in Callers, HScan(c) PROVE SchedulerTypeOK'
  BY <1>2 DEF HScan, Stored
<1>3. ASSUME NEW c \in Callers, HScanFails(c) PROVE SchedulerTypeOK'
  BY <1>3 DEF HScanFails
<1>4. ASSUME NEW c \in Callers, DeleteDoomed(c) PROVE SchedulerTypeOK'
  BY <1>4 DEF DeleteDoomed, Entries
<1>5. ASSUME NEW c \in Callers, EndPrune(c) \/ StopCron(c) \/ StartCron(c)
      PROVE  SchedulerTypeOK'
  BY <1>5 DEF EndPrune, StopCron, StartCron
<1>6. ASSUME NEW c \in Callers, NewCron(c) PROVE SchedulerTypeOK'
  BY <1>6 DEF NewCron
<1>7. ASSUME NEW c \in Callers, LoadJob(c) PROVE SchedulerTypeOK'
  BY <1>7 DEF LoadJob
<1>8. ASSUME Restarted PROVE SchedulerTypeOK'
  BY <1>8 DEF Restarted
<1>9. ASSUME UNCHANGED schedVars PROVE SchedulerTypeOK'
  BY <1>9 DEF schedVars
<1>10. QED
  BY <1>1, <1>2, <1>3, <1>4, <1>5, <1>6, <1>7, <1>8, <1>9
  DEF SchedulerNext, CallStep

\* Every step keeps the stored jobs covered.
LEMMA NextCovered ==
    ASSUME SchedulerTypeOK, Covered, [SchedulerNext]_schedVars
    PROVE  Covered'
<1> USE DEF SchedulerTypeOK, Covered, Goto, Fail, cronVars, localVars
<1>1. ASSUME NEW c \in Callers, NEW j \in Jobs, NEW v \in Versions,
             AddJob(c, j, v)
      PROVE  Covered'
  BY <1>1 DEF AddJob, Ahead
<1>2. ASSUME NEW c \in Callers, NEW j \in Jobs, RemoveByID(c, j)
      PROVE  Covered'
  <2>1. Stored' \subseteq Stored
    BY <1>2, SchedulerAssumption DEF RemoveByID, Stored, Entries
  <2>2. QED BY <1>2, <2>1 DEF RemoveByID, Ahead
<1>3. ASSUME NEW c \in Callers, NEW ids \in Prefixes, RemoveByIdPrefix(c, ids)
      PROVE  Covered'
  BY <1>3 DEF RemoveByIdPrefix, Ahead, Stored
<1>4. ASSUME NEW c \in Callers, HScan(c) PROVE Covered'
  <2>1. PICK ids \in SUBSET unseen[c] \ {{}} :
            /\ unseen' = [unseen EXCEPT ![c] = @ \ ids]
            /\ page' = [page EXCEPT
                   ![c] = {e \in Stored : e[1] \in ids \cap Wanted(c)}]
    BY <1>4 DEF HScan
  <2>2. Stored' = Stored
    BY <1>4 DEF HScan, Stored
  <2>3. ASSUME NEW e \in Stored, NEW d \in Callers, Ahead(d, e)
        PROVE  Ahead(d, e)'
    <3>1. CASE d = c
      BY <1>4, <2>1, <2>3, <3>1 DEF HScan, Ahead, Wanted, Stored, Entries
    <3>2. CASE d # c
      BY <1>4, <2>1, <2>3, <3>2 DEF HScan, Ahead
    <3>3. QED BY <3>1, <3>2
  <2>4. QED BY <1>4, <2>2, <2>3 DEF HScan
<1>5. ASSUME NEW c \in Callers, HScanFails(c) PROVE Covered'
  BY <1>5 DEF HScanFails
<1>6. ASSUME NEW c \in Callers, DeleteDoomed(c) PROVE Covered'
  <2>1. PICK e \in page[c] :
            /\ page' = [page EXCEPT ![c] = @ \ {e}]
            /\ \/ /\ schedule' = [schedule EXCEPT ![e[1]] = NoVersion]
                  /\ UNCHANGED failures
               \/ Fail /\ UNCHANGED schedule
    BY <1>6 DEF DeleteDoomed
  <2>2. Stored' \subseteq Stored
    BY <2>1, SchedulerAssumption DEF Stored, Entries
  <2>3. ASSUME NEW f \in Stored, NEW d \in Callers, Ahead(d, f)
        PROVE  Ahead(d, f)'
    BY <1>6, <2>1, <2>3 DEF DeleteDoomed, Ahead
  <2>4. QED BY <1>6, <2>1, <2>2, <2>3 DEF DeleteDoomed
<1>7. ASSUME NEW c \in Callers, EndPrune(c) \/ StopCron(c) PROVE Covered'
  BY <1>7 DEF EndPrune, StopCron, Ahead, Stored
<1>8. ASSUME NEW c \in Callers, StartCron(c) PROVE Covered'
  BY <1>8 DEF StartCron, Scanned, Ahead, Stored
<1>9. ASSUME NEW c \in Callers, NewCron(c) PROVE Covered'
  <2>1. \A e \in Stored : Ahead(c, e)'
    BY <1>9 DEF NewCron, Ahead, Stored, Entries
  <2>2. QED BY <1>9, <2>1 DEF NewCron, Stored
<1>10. ASSUME NEW c \in Callers, LoadJob(c) PROVE Covered'
  <2>1. PICK e \in page[c] :
            /\ entries' = [entries EXCEPT ![current] = @ \cup {e}]
            /\ page' = [page EXCEPT ![c] = @ \ {e}]
    BY <1>10 DEF LoadJob
  <2>2. e \in entries'[current] /\ entries[current] \subseteq entries'[current]
    BY <2>1
  <2>3. ASSUME NEW f \in Stored, f # e, NEW d \in Callers, Ahead(d, f)
        PROVE  Ahead(d, f)'
    BY <1>10, <2>1, <2>3 DEF LoadJob, Ahead
  <2>4. QED BY <1>10, <2>2, <2>3 DEF LoadJob, Stored
<1>11. ASSUME Restarted PROVE Covered'
  BY <1>11, SchedulerAssumption DEF Restarted, Ahead, Stored, Entries
<1>12. ASSUME UNCHANGED schedVars PROVE Covered'
  BY <1>12 DEF schedVars, Ahead, Stored
<1>13. QED
  BY <1>1, <1>2, <1>3, <1>4, <1>5, <1>6, <1>7, <1>8, <1>9, <1>10, <1>11,
     <1>12
  DEF SchedulerNext, Call, CallStep

\* Every step keeps the current cron attended.
LEMMA NextAttended ==
    ASSUME SchedulerTypeOK, Attended, [SchedulerNext]_schedVars
    PROVE  Attended'
<1> USE DEF SchedulerTypeOK, Attended, Goto, cronVars
<1>1. ASSUME NEW c \in Callers, Call(c) PROVE Attended'
  BY <1>1 DEF Call, AddJob, RemoveByID, RemoveByIdPrefix
<1>2. ASSUME NEW c \in Callers,
             HScan(c) \/ HScanFails(c) \/ DeleteDoomed(c) \/ LoadJob(c)
      PROVE  Attended'
  BY <1>2 DEF HScan, HScanFails, DeleteDoomed, LoadJob
<1>3. ASSUME NEW c \in Callers, EndPrune(c) PROVE Attended'
  BY <1>3 DEF EndPrune
<1>4. ASSUME NEW c \in Callers, StopCron(c) \/ NewCron(c) PROVE Attended'
  BY <1>4 DEF StopCron, NewCron
<1>5. ASSUME NEW c \in Callers, StartCron(c) PROVE Attended'
  BY <1>5 DEF StartCron
<1>6. ASSUME Restarted PROVE Attended'
  BY <1>6, SchedulerAssumption DEF Restarted
<1>7. ASSUME UNCHANGED schedVars PROVE Attended'
  BY <1>7 DEF schedVars
<1>8. QED
  BY <1>1, <1>2, <1>3, <1>4, <1>5, <1>6, <1>7 DEF SchedulerNext, CallStep

\* The invariant holds in every reachable state.
THEOREM SchedulerInvariance == SchedulerSpec => []SchedulerInv
<1>1. SchedulerInv /\ [SchedulerNext]_schedVars => SchedulerInv'
  BY NextType, NextCovered, NextAttended DEF SchedulerInv
<1>2. QED BY SchedulerInitInv, <1>1, PTL DEF SchedulerSpec

\* Every variable of the scheduler keeps its type: what is loaded and fires
\* is a job with a body (scheduler.go:124-173).
THEOREM SchedulerTypeCorrect == SchedulerSpec => []SchedulerTypeOK
<1>1. SchedulerInv => SchedulerTypeOK
  BY DEF SchedulerInv
<1>2. QED BY SchedulerInvariance, <1>1, PTL

\* Concurrent restarts forget no job, however many goroutines restart at once
\* (scheduler.go:124-173).
THEOREM NothingForgotten == SchedulerSpec => []NoJobIsForgotten
<1>1. SchedulerInv => NoJobIsForgotten
  BY DEF SchedulerInv, Covered, Attended, NoJobIsForgotten, Quiet, Ahead
<1>2. QED BY SchedulerInvariance, <1>1, PTL

-----------------------------------------------------------------------------
(***************************************************************************)
(* Calls that follow one another.  Between calls exactly the stored jobs   *)
(* fire; a call that has not changed the hash leaves it so, and a restart  *)
(* takes the old cron out of service before it loads the new one.          *)
(***************************************************************************)
Settled == running = {current} /\ entries[current] = Stored

InTurn(c) ==
    /\ pc[c] = "prune" /\ ~restart[c] => Settled
    /\ pc[c] \in {"prune", "stop"} => running \subseteq {current}
    /\ pc[c] \in {"new", "load"} => running = {}
    /\ pc[c] = "load" =>
         /\ entries[current] \cup page[c] \subseteq Stored
         /\ \A e \in Stored : e \in entries[current] \/ Ahead(c, e)
    /\ pc[c] \notin {"prune", "load"} => page[c] = {}

TurnInv ==
    ~overlapped /\ failures = 0 =>
        /\ ~Overlap
        /\ Quiet => Settled
        /\ \A c \in Callers : InTurn(c)

HistoryInv == SchedulerTypeOK /\ TurnInv

\* A started controller has one goroutine in the scheduler, loading.
LEMMA StartedInTurn == Started => TurnInv
  BY SchedulerAssumption
  DEF Started, TurnInv, Overlap, Busy, Quiet, InTurn, Settled, Ahead, Stored,
      Entries

\* A step of one goroutine that overlaps no other finds the others idle.
Alone(c) == \A d \in Callers : d # c => pc[d] = "idle"

\* A call that starts alone.
LEMMA CallInTurn ==
    ASSUME SchedulerTypeOK, TurnInv, ~overlapped, failures' = 0,
           NEW c \in Callers, Call(c), Alone(c)
    PROVE  /\ Quiet' => Settled'
           /\ \A d \in Callers : InTurn(d)'
<1> USE DEF SchedulerTypeOK, TurnInv, Alone, Goto, Fail, cronVars, localVars
<1>1. failures = 0 /\ Settled /\ pc[c] = "idle"
  BY DEF Call, AddJob, RemoveByID, RemoveByIdPrefix, Quiet
<1>2. CASE \E j \in Jobs, v \in Versions : AddJob(c, j, v)
  BY <1>1, <1>2 DEF AddJob, InTurn, Settled, Quiet
<1>3. CASE \E j \in Jobs : RemoveByID(c, j)
  BY <1>1, <1>3 DEF RemoveByID, InTurn, Settled, Quiet
<1>4. CASE \E ids \in Prefixes : RemoveByIdPrefix(c, ids)
  <2>1. Settled'
    BY <1>1, <1>4 DEF RemoveByIdPrefix, Settled, Stored
  <2>2. QED BY <1>1, <1>4, <2>1 DEF RemoveByIdPrefix, InTurn, Settled, Quiet
<1>5. QED BY <1>2, <1>3, <1>4 DEF Call

\* A step inside a call that nobody disturbs.
LEMMA StepInTurn ==
    ASSUME SchedulerTypeOK, TurnInv, ~overlapped, failures' = 0,
           NEW c \in Callers, CallStep(c), Alone(c)
    PROVE  /\ Quiet' => Settled'
           /\ \A d \in Callers : InTurn(d)'
<1> USE DEF SchedulerTypeOK, TurnInv, Alone, Goto, Fail, cronVars, localVars
<1>1. failures = 0
  BY DEF CallStep, HScan, HScanFails, DeleteDoomed, EndPrune, StopCron,
         NewCron, LoadJob, StartCron
<1>2. InTurn(c) /\ \A d \in Callers \ {c} : pc[d] = "idle" /\ page[d] = {}
  BY <1>1 DEF InTurn
<1>3. CASE HScan(c)
  <2>1. PICK ids \in SUBSET unseen[c] \ {{}} :
            /\ unseen' = [unseen EXCEPT ![c] = @ \ ids]
            /\ page' = [page EXCEPT
                   ![c] = {e \in Stored : e[1] \in ids \cap Wanted(c)}]
    BY <1>3 DEF HScan
  <2>2. Stored' = Stored
    BY <1>3 DEF HScan, Stored
  <2>3. ASSUME pc[c] = "load", NEW e \in Stored, Ahead(c, e)
        PROVE  Ahead(c, e)'
    BY <1>3, <2>1, <2>3 DEF HScan, Ahead, Wanted, Stored, Entries
  <2>4. InTurn(c)'
    BY <1>2, <1>3, <2>1, <2>2, <2>3 DEF HScan, InTurn, Settled
  <2>5. ASSUME NEW d \in Callers, d # c PROVE InTurn(d)'
    BY <1>2, <1>3, <2>1, <2>5 DEF HScan, InTurn
  <2>6. QED BY <1>3, <2>4, <2>5 DEF HScan, Quiet
<1>4. CASE HScanFails(c)
  BY <1>1, <1>4 DEF HScanFails
<1>5. CASE DeleteDoomed(c)
  BY <1>2, <1>5 DEF DeleteDoomed, InTurn, Quiet
<1>6. CASE EndPrune(c)
  <2>1. Settled' <=> Settled
    BY <1>6 DEF EndPrune, Settled, Stored
  <2>2. QED BY <1>2, <1>6, <2>1 DEF EndPrune, Scanned, InTurn, Quiet
<1>7. CASE StopCron(c)
  BY <1>2, <1>7 DEF StopCron, InTurn, Quiet
<1>8. CASE NewCron(c)
  <2>1. \A e \in Stored' : Ahead(c, e)'
    BY <1>8 DEF NewCron, Ahead, Stored, Entries
  <2>2. QED BY <1>2, <1>8, <2>1 DEF NewCron, InTurn, Quiet
<1>9. CASE LoadJob(c)
  <2>1. PICK e \in page[c] :
            /\ entries' = [entries EXCEPT ![current] = @ \cup {e}]
            /\ page' = [page EXCEPT ![c] = @ \ {e}]
    BY <1>9 DEF LoadJob
  <2>2. Stored' = Stored /\ e \in Stored
    BY <1>2, <1>9, <2>1 DEF LoadJob, Stored, InTurn
  <2>3. entries'[current] = entries[current] \cup {e}
    BY <2>1
  <2>4. ASSUME NEW f \in Stored, f # e, Ahead(c, f) PROVE Ahead(c, f)'
    BY <1>9, <2>1, <2>4 DEF LoadJob, Ahead
  <2>5. InTurn(c)'
    BY <1>2, <1>9, <2>1, <2>2, <2>3, <2>4 DEF LoadJob, InTurn
  <2>6. ASSUME NEW d \in Callers, d # c PROVE InTurn(d)'
    BY <1>2, <1>9, <2>1, <2>6 DEF LoadJob, InTurn
  <2>7. QED BY <1>9, <2>5, <2>6 DEF LoadJob, Quiet
<1>10. CASE StartCron(c)
  <2>1. Settled'
    BY <1>2, <1>10 DEF StartCron, Scanned, InTurn, Settled, Ahead, Stored
  <2>2. QED BY <1>2, <1>10, <2>1 DEF StartCron, Scanned, InTurn, Quiet
<1>11. QED
  BY <1>3, <1>4, <1>5, <1>6, <1>7, <1>8, <1>9, <1>10 DEF CallStep

\* Every step preserves the invariant.
LEMMA NextTurn ==
    ASSUME SchedulerTypeOK, TurnInv, [HistoryNext]_historyVars
    PROVE  TurnInv'
<1> USE DEF SchedulerTypeOK
<1>1. CASE UNCHANGED historyVars
  BY <1>1
  DEF historyVars, schedVars, cronVars, localVars, TurnInv, Overlap, Busy,
      Quiet, InTurn, Settled, Ahead, Stored
<1>2. CASE HistoryNext /\ Started'
  BY <1>2, StartedInTurn, PTL DEF HistoryNext
<1>3. CASE HistoryNext /\ ~Started'
  <2> SUFFICES ASSUME ~overlapped', failures' = 0 PROVE TurnInv'
    BY DEF TurnInv
  <2>1. ~overlapped /\ ~Overlap'
    BY <1>3 DEF HistoryNext
  <2>2. PICK c \in Callers : Call(c) \/ CallStep(c)
    BY <1>3 DEF HistoryNext, SchedulerNext, Restarted, Started
  <2>3. failures = 0 /\ (\A d \in Callers : d # c => pc'[d] = pc[d])
    BY <2>2
    DEF Call, AddJob, RemoveByID, RemoveByIdPrefix, CallStep, HScan,
        HScanFails, DeleteDoomed, EndPrune, StopCron, NewCron, LoadJob,
        StartCron, Goto, Fail, cronVars, localVars
  <2>4. pc[c] # "idle" \/ pc'[c] # "idle"
    BY <2>2, <2>3
    DEF Call, AddJob, RemoveByID, RemoveByIdPrefix, CallStep, HScan,
        HScanFails, DeleteDoomed, EndPrune, StopCron, NewCron, LoadJob,
        StartCron, Goto, Fail
  <2>5. Alone(c)
    BY <2>1, <2>3, <2>4 DEF Alone, TurnInv, Overlap, Busy
  <2>6. (Quiet' => Settled') /\ \A d \in Callers : InTurn(d)'
    BY <2>1, <2>2, <2>5, CallInTurn, StepInTurn
  <2>7. QED BY <2>1, <2>6 DEF TurnInv
<1>4. QED BY <1>1, <1>2, <1>3

\* While calls follow one another, exactly the stored jobs fire
\* (scheduler.go:42-173).
THEOREM ExactInTurn == HistorySpec => []FiringIsStored
<1>1. HistoryInit => HistoryInv
  BY SchedulerInitInv, StartedInTurn
  DEF HistoryInit, HistoryInv, SchedulerInit, SchedulerInv
<1>2. HistoryInv /\ [HistoryNext]_historyVars => HistoryInv'
  <2>1. [HistoryNext]_historyVars => [SchedulerNext]_schedVars
    BY DEF HistoryNext, historyVars
  <2>2. QED BY <2>1, NextType, NextTurn DEF HistoryInv
<1>3. HistoryInv => FiringIsStored
  BY DEF HistoryInv, TurnInv, FiringIsStored, Settled, Firing
<1>4. QED BY <1>1, <1>2, <1>3, PTL DEF HistorySpec
=============================================================================
