---------------------------- MODULE WatcherProofs ----------------------------
(***************************************************************************)
(* Safety of the watcher for any number of files, contents, events and     *)
(* failures.                                                               *)
(***************************************************************************)
EXTENDS WatcherProperties, TLAPS

\* No event about f is queued behind the i-th, which is one.
LastAbout(f, i) ==
    /\ events[i].file = f
    /\ \A j \in DOMAIN events : j > i => events[j].file # f

\* A file is being processed at the control points past the channel, and the
\* walk is over when the watch begins.
PhasesMatch ==
    /\ watching => toVisit = {}
    /\ wpc \in {"remove", "info", "add"} => file \in Files \ toVisit
    /\ wpc \in {"next", "remove"} => watching
    /\ wpc = "walk" => ~ watching /\ events = <<>>
    /\ ~ watching => events = <<>>

\* The newest event about a file tells whether it is there.
LastEventIsTrue ==
    \A f \in Files :
        ~ stale[f] =>
            /\ \A i \in DOMAIN events :
                 LastAbout(f, i) /\ events[i].kind = "Remove"
                     => files[f] = Absent
            /\ (wpc = "remove" /\ file = f /\ ~ Queued(f) /\ event = "Remove")
                   => files[f] = Absent

\* The walk adds jobs and removes none: a file it has still to read asks for
\* one, or has what it asks for.
WalkIsEnough ==
    \A f \in Files :
        (~ stale[f] /\ (f \in toVisit \/ (~ watching /\ wpc = "info" /\ file = f)))
            => Wanted(files[f]) # NoJob \/ schedule[f] = NoJob

\* A file of the event loop is read with its job taken away.
ReadUnscheduled == wpc = "info" /\ watching => schedule[file] = NoJob

\* What is about to be scheduled is what the file asks for now, or the file
\* is coming up again.
ReadIsNewest ==
    wpc = "add" =>
        /\ content \in DOMAIN Info /\ Schedulable(Info[content])
        /\ ~ stale[file] /\ ~ Queued(file) => content = files[file]

FollowInv ==
    /\ WatcherTypeOK
    /\ PhasesMatch
    /\ LastEventIsTrue
    /\ WalkIsEnough
    /\ ReadUnscheduled
    /\ ReadIsNewest
    /\ ScheduleFollowsFiles

-----------------------------------------------------------------------------
\* Taking the first event.
LEMMA TailOfEvents ==
    ASSUME NEW q \in Seq(Events), q # <<>>
    PROVE  /\ Tail(q) \in Seq(Events) /\ Len(Tail(q)) <= Len(q)
           /\ Head(q) = q[1] /\ 1 \in DOMAIN q /\ q[1] \in Events
           /\ DOMAIN q = 1..Len(q) /\ DOMAIN Tail(q) = 1..(Len(q) - 1)
           /\ \A i \in 1..(Len(q) - 1) : Tail(q)[i] = q[i + 1]
           /\ Len(q) \in Nat \ {0}
  OBVIOUS

\* Adding one.
LEMMA AppendToEvents ==
    ASSUME NEW q \in Seq(Events), NEW e \in Events
    PROVE  /\ Append(q, e) \in Seq(Events) /\ Len(Append(q, e)) = Len(q) + 1
           /\ DOMAIN q = 1..Len(q) /\ DOMAIN Append(q, e) = 1..(Len(q) + 1)
           /\ \A i \in 1..Len(q) : Append(q, e)[i] = q[i]
           /\ Append(q, e)[Len(q) + 1] = e
           /\ Len(q) \in Nat
  OBVIOUS

\* What is stored for a script is one of the jobs.
LEMMA JobsAreTyped ==
    ASSUME NEW v \in DOMAIN Info, Schedulable(Info[v])
    PROVE  Job(Info[v]) \in Jobs /\ Wanted(v) = Job(Info[v])
  BY DEF Jobs, Wanted

\* The initial states satisfy it.
LEMMA WatcherInitInv == WatcherInit => FollowInv
<1> SUFFICES ASSUME WatcherInit PROVE FollowInv
  OBVIOUS
<1>1. WatcherTypeOK
  <2>1. events \in Seq(Events) /\ Len(events) = 0
    BY DEF WatcherInit
  <2>2. BufferSize >= 0 /\ 0 \in 0..MaxEdits /\ 0 \in 0..MaxFailures
        /\ 0 \in 0..MaxCrashes
    BY WatcherAssumption
  <2>3. QED BY <2>1, <2>2 DEF WatcherInit, WatcherTypeOK, Kinds
<1>2. DOMAIN events = {}
  BY DEF WatcherInit
<1>3. PhasesMatch /\ LastEventIsTrue /\ WalkIsEnough
  BY <1>2, WatcherAssumption
  DEF WatcherInit, PhasesMatch, LastEventIsTrue, WalkIsEnough, Wanted
<1>4. ReadUnscheduled /\ ReadIsNewest /\ ScheduleFollowsFiles
  BY DEF WatcherInit, ReadUnscheduled, ReadIsNewest, ScheduleFollowsFiles,
         Pending
<1>5. QED BY <1>1, <1>3, <1>4 DEF FollowInv

\* Every step preserves it.
LEMMA NextWatcher ==
    ASSUME FollowInv, [WatcherNext]_watcherVars PROVE FollowInv'
<1> USE WatcherAssumption
    DEF FollowInv, WatcherTypeOK, Kinds, walkVars, countVars
<1> DEFINE Order == PhasesMatch /\ LastEventIsTrue
           Job4 == /\ WalkIsEnough /\ ReadUnscheduled /\ ReadIsNewest
                   /\ ScheduleFollowsFiles
<1>1. ASSUME NEW f \in Files, Visit(f) PROVE FollowInv'
  <2>1. WatcherTypeOK'
    BY <1>1 DEF Visit
  <2>2. Order'
    BY <1>1 DEF Visit, PhasesMatch, LastEventIsTrue, LastAbout, Queued
  <2>3. Job4'
    BY <1>1 DEF Visit, PhasesMatch, WalkIsEnough, ReadUnscheduled,
                ReadIsNewest, ScheduleFollowsFiles, Pending, Queued,
                Processing, Wanted
  <2>4. QED BY <2>1, <2>2, <2>3
<1>2. ASSUME StartWatching PROVE FollowInv'
  <2>1. WatcherTypeOK'
    BY <1>2 DEF StartWatching
  <2>2. Order'
    BY <1>2 DEF StartWatching, PhasesMatch, LastEventIsTrue, LastAbout, Queued
  <2>3. Job4'
    BY <1>2 DEF StartWatching, PhasesMatch, WalkIsEnough, ReadUnscheduled,
                ReadIsNewest, ScheduleFollowsFiles, Pending, Queued,
                Processing
  <2>4. QED BY <2>1, <2>2, <2>3
<1>3. ASSUME NextEvent PROVE FollowInv'
  <2> DEFINE n == Len(events)
  <2>1. /\ events' = Tail(events) /\ n \in Nat \ {0}
        /\ DOMAIN events = 1..n /\ DOMAIN events' = 1..(n - 1)
        /\ \A i \in 1..(n - 1) : events'[i] = events[i + 1]
        /\ Head(events) = events[1] /\ events[1] \in Events
    BY <1>3, TailOfEvents DEF NextEvent
  <2> HIDE DEF n
  <2>2. WatcherTypeOK'
    BY <1>3, <2>1, TailOfEvents DEF NextEvent, Events
  <2>3. PhasesMatch'
    BY <1>3, <2>1 DEF NextEvent, PhasesMatch, Events
  <2>4. ASSUME NEW f \in Files, NEW i \in DOMAIN events', LastAbout(f, i)'
        PROVE  i + 1 \in DOMAIN events /\ LastAbout(f, i + 1)
               /\ events'[i] = events[i + 1]
    <3>1. i + 1 \in DOMAIN events /\ events'[i] = events[i + 1]
      BY <2>1
    <3>2. ASSUME NEW j \in DOMAIN events, j > i + 1 PROVE events[j].file # f
      <4>1. j - 1 \in DOMAIN events' /\ events'[j - 1] = events[j]
            /\ j - 1 > i
        BY <2>1, <3>2
      <4>2. QED BY <2>4, <4>1 DEF LastAbout
    <3>3. QED BY <2>4, <3>1, <3>2 DEF LastAbout
  <2>5. ASSUME NEW f \in Files, events[1].file = f, ~ Queued(f)'
        PROVE  1 \in DOMAIN events /\ LastAbout(f, 1)
    <3>1. ASSUME NEW j \in DOMAIN events, j > 1 PROVE events[j].file # f
      <4>1. j - 1 \in DOMAIN events' /\ events'[j - 1] = events[j]
        BY <2>1, <3>1
      <4>2. QED BY <2>5, <4>1 DEF Queued
    <3>2. QED BY <2>1, <2>5, <3>1 DEF LastAbout
  <2>6. LastEventIsTrue'
    BY <1>3, <2>1, <2>4, <2>5 DEF NextEvent, LastEventIsTrue, Queued
  <2>7. ASSUME NEW f \in Files, Pending(f) PROVE Pending(f)'
    <3>1. CASE Queued(f)
      <4>1. PICK i \in 1..n : events[i].file = f
        BY <2>1, <3>1 DEF Queued
      <4>2. CASE i = 1
        BY <1>3, <2>1, <4>1, <4>2 DEF NextEvent, Pending, Processing
      <4>3. CASE i # 1
        <5>1. i - 1 \in DOMAIN events' /\ events'[i - 1] = events[i]
          BY <2>1, <4>3
        <5>2. QED BY <4>1, <5>1 DEF Pending, Queued
      <4>4. QED BY <4>2, <4>3
    <3>2. CASE f \in toVisit \/ Processing(f)
      BY <1>3, <3>2 DEF NextEvent, Pending, Processing
    <3>3. QED BY <2>7, <3>1, <3>2 DEF Pending
  <2>8. Job4'
    BY <1>3, <2>7 DEF NextEvent, PhasesMatch, WalkIsEnough, ReadUnscheduled,
                ReadIsNewest, ScheduleFollowsFiles
  <2>9. QED BY <2>2, <2>3, <2>6, <2>8
<1>4. ASSUME unschedule PROVE FollowInv'
  <2>1. WatcherTypeOK'
    BY <1>4 DEF unschedule, Store, Done, PhasesMatch
  <2>2. PhasesMatch'
    BY <1>4 DEF unschedule, Done, PhasesMatch
  <2>3. LastEventIsTrue'
    BY <1>4 DEF unschedule, Done, LastEventIsTrue, LastAbout, Queued
  <2>4. Job4'
    BY <1>4 DEF unschedule, Store, Done, PhasesMatch, WalkIsEnough,
                ReadUnscheduled, ReadIsNewest, ScheduleFollowsFiles, Pending,
                Queued, Processing, LastEventIsTrue, Wanted
  <2>5. QED BY <2>1, <2>2, <2>3, <2>4
<1>5. ASSUME getInfo PROVE FollowInv'
  <2>1. WatcherTypeOK'
    BY <1>5 DEF getInfo, Done, PhasesMatch
  <2>2. Order'
    BY <1>5 DEF getInfo, Done, PhasesMatch, LastEventIsTrue, LastAbout, Queued
  <2>3. Job4'
    BY <1>5 DEF getInfo, Done, PhasesMatch, WalkIsEnough, ReadUnscheduled,
                ReadIsNewest, ScheduleFollowsFiles, Pending, Queued,
                Processing, Wanted
  <2>4. QED BY <2>1, <2>2, <2>3
<1>6. ASSUME addJob PROVE FollowInv'
  <2>1. /\ schedule' = [schedule EXCEPT ![file] = Wanted(content)]
        /\ Wanted(content) \in Jobs
        /\ stale' = [stale EXCEPT ![file] =
                        @ /\ (files[file] # content \/ Queued(file))]
        /\ Done /\ wpc = "add" /\ file \in Files \ toVisit
        /\ UNCHANGED <<files, events, countVars>>
    BY <1>6, JobsAreTyped DEF addJob, Store, ReadIsNewest, PhasesMatch
  <2>2. WatcherTypeOK'
    BY <2>1 DEF Done
  <2>3. Order'
    BY <2>1 DEF Done, PhasesMatch, LastEventIsTrue, LastAbout, Queued
  <2>4. Job4'
    BY <2>1 DEF Done, PhasesMatch, WalkIsEnough, ReadUnscheduled, ReadIsNewest,
                ScheduleFollowsFiles, Pending, Queued, Processing
  <2>5. QED BY <2>2, <2>3, <2>4
<1>7. ASSUME CallFails PROVE FollowInv'
  <2>1. /\ file \in Files /\ schedule' \in [Files -> Jobs \cup {NoJob}]
        /\ \A f \in Files \ {file} : schedule'[f] = schedule[f]
    BY <1>7, JobsAreTyped
    DEF CallFails, Store, PhasesMatch, ReadIsNewest
  <2>2. WatcherTypeOK'
    <3>1. failures' \in 0..MaxFailures
      BY <1>7 DEF CallFails
    <3>2. stale' \in [Files -> BOOLEAN]
      BY <1>7, Zenon DEF CallFails
    <3>3. wpc' \in {"next", "walk"} /\ file' = NoFile /\ content' = Absent
          /\ event' = "Create"
          /\ UNCHANGED <<watching, toVisit, files, events, edits, crashes>>
      BY <1>7 DEF CallFails, Done
    <3>4. QED BY <2>1, <3>1, <3>2, <3>3
  <2>3. Order'
    BY <1>7 DEF CallFails, Done, PhasesMatch, LastEventIsTrue, LastAbout,
                Queued
  <2>4. Job4'
    BY <1>7, <2>1 DEF CallFails, Done, PhasesMatch, WalkIsEnough,
                ReadUnscheduled, ReadIsNewest, ScheduleFollowsFiles, Pending,
                Queued, Processing
  <2>5. QED BY <2>2, <2>3, <2>4
<1>8. ASSUME NEW f \in Files, NEW kind \in Kinds,
             NEW value \in Contents \cup {Absent}, Edit(f, kind, value),
             kind = "Remove" => value = Absent
      PROVE  FollowInv'
  <2> DEFINE e == [kind |-> kind, file |-> f]
  <2>1. /\ files' = [files EXCEPT ![f] = value]
        /\ stale' = [stale EXCEPT ![f] = Lost(f, value)]
        /\ edits' \in 0..MaxEdits
        /\ UNCHANGED <<schedule, walkVars, failures, crashes>>
    BY <1>8 DEF Edit
  <2>2. Lost(f, value) \in BOOLEAN /\ e \in Events
    <3>1. Lost(f, value) \in BOOLEAN
      <4>1. (Len(events) >= BufferSize) \in BOOLEAN
        OBVIOUS
      <4>2. (f \notin toVisit \/ Wanted(value) = NoJob) \in BOOLEAN
        BY Zenon
      <4>3. QED BY <4>1, <4>2, Zenon DEF Lost
    <3>2. QED BY <3>1 DEF Events
  <2>3. CASE watching /\ Len(events) < BufferSize
    <3>1. /\ events' = Append(events, e) /\ ~ Lost(f, value)
          /\ events' \in Seq(Events) /\ Len(events') <= BufferSize
      BY <1>8, <2>2, <2>3, AppendToEvents DEF Edit, Buffer, Lost
    <3>2. /\ DOMAIN events = 1..Len(events) /\ Len(events) \in Nat
          /\ DOMAIN events' = 1..(Len(events) + 1)
          /\ \A i \in 1..Len(events) : events'[i] = events[i]
          /\ events'[Len(events) + 1] = e
      BY <2>2, <3>1, AppendToEvents
    <3>3. WatcherTypeOK'
      BY <2>1, <2>2, <3>1
    <3>4. Queued(f)' /\ \A g \in Files : Queued(g) => Queued(g)'
      <4>1. Len(events) + 1 \in DOMAIN events'
            /\ events'[Len(events) + 1].file = f
        BY <3>2
      <4>2. \A i \in DOMAIN events : i \in DOMAIN events'
                                    /\ events'[i] = events[i]
        BY <3>2
      <4>3. QED BY <4>1, <4>2 DEF Queued
    <3>5. \A g \in Files \ {f} : Queued(g)' => Queued(g)
      BY <3>2 DEF Queued
    <3>6. \A g \in Files \ {f}, i \in DOMAIN events' :
            LastAbout(g, i)' => i \in DOMAIN events /\ LastAbout(g, i)
      BY <3>2 DEF LastAbout
    <3>7. \A i \in DOMAIN events' : LastAbout(f, i)' => i = Len(events) + 1
      BY <3>2 DEF LastAbout
    <3>8. PhasesMatch'
      BY <2>1, <2>3 DEF PhasesMatch
    <3>9. LastEventIsTrue'
      BY <1>8, <2>1, <3>2, <3>4, <3>5, <3>6, <3>7 DEF LastEventIsTrue
    <3>10. Job4'
      BY <2>1, <2>3, <3>1, <3>4, <3>5
      DEF PhasesMatch, WalkIsEnough, ReadUnscheduled, ReadIsNewest,
          ScheduleFollowsFiles, Pending, Processing
    <3>11. QED BY <3>3, <3>8, <3>9, <3>10
  <2>4. CASE ~ (watching /\ Len(events) < BufferSize)
    <3>1. events' = events
      BY <1>8, <2>4 DEF Edit, Buffer
    <3>2. WatcherTypeOK' /\ Order'
      BY <2>1, <2>2, <2>4, <3>1
      DEF PhasesMatch, LastEventIsTrue, LastAbout, Queued, Lost
    <3>3. ~ Lost(f, value) => f \in toVisit /\ Wanted(value) # NoJob
      BY <2>4 DEF Lost
    <3>4. Job4'
      BY <2>1, <2>2, <3>1, <3>3
      DEF PhasesMatch, WalkIsEnough, ReadUnscheduled, ReadIsNewest,
          ScheduleFollowsFiles, Pending, Processing, Queued
    <3>5. QED BY <3>2, <3>4
  <2>5. QED BY <2>3, <2>4
<1>9. ASSUME NEW f \in Files, MoveAway(f) PROVE FollowInv'
  BY <1>9 DEF MoveAway, PhasesMatch, LastEventIsTrue, LastAbout, Queued,
     WalkIsEnough, ReadUnscheduled, ReadIsNewest, ScheduleFollowsFiles,
     Pending, Processing
<1>10. ASSUME OtherFile PROVE FollowInv'
  <2> DEFINE e == [kind |-> "Write", file |-> NoFile]
  <2>1. CASE Len(events) < BufferSize
    <3>1. events' = Append(events, e) /\ e \in Events
      BY <1>10, <2>1 DEF OtherFile, Buffer, Events
    <3>2. /\ DOMAIN events = 1..Len(events) /\ Len(events) \in Nat
          /\ DOMAIN events' = 1..(Len(events) + 1)
          /\ \A i \in 1..Len(events) : events'[i] = events[i]
          /\ events'[Len(events) + 1] = e
      BY <3>1, AppendToEvents
    <3>3. WatcherTypeOK'
      BY <1>10, <2>1, <3>1, AppendToEvents DEF OtherFile
    <3>4. \A f \in Files : Queued(f)' <=> Queued(f)
      BY <3>2 DEF Queued
    <3>5. \A f \in Files, i \in DOMAIN events' :
            LastAbout(f, i)' => i \in DOMAIN events /\ LastAbout(f, i)
      BY <3>2 DEF LastAbout
    <3>6. Order'
      BY <1>10, <3>2, <3>4, <3>5 DEF OtherFile, PhasesMatch, LastEventIsTrue
    <3>7. Job4'
      BY <1>10, <3>4
      DEF OtherFile, PhasesMatch, WalkIsEnough, ReadUnscheduled, ReadIsNewest,
          ScheduleFollowsFiles, Pending, Processing
    <3>8. QED BY <3>3, <3>6, <3>7
  <2>2. CASE ~ (Len(events) < BufferSize)
    <3>1. UNCHANGED <<files, schedule, events, walkVars, stale>>
          /\ WatcherTypeOK'
      BY <1>10, <2>2 DEF OtherFile, Buffer
    <3>2. QED
      BY <3>1 DEF PhasesMatch, LastEventIsTrue, LastAbout, Queued,
         WalkIsEnough, ReadUnscheduled, ReadIsNewest, ScheduleFollowsFiles,
         Pending, Processing
  <2>3. QED BY <2>1, <2>2
<1>11. ASSUME WatcherCrash PROVE FollowInv'
  <2>1. DOMAIN events' = {}
    BY <1>11 DEF WatcherCrash
  <2>2. \A f \in Files :
          ~ stale'[f] => ~ stale[f] /\ ~ Pending(f)
    BY <1>11 DEF WatcherCrash, Pending
  <2>3. WatcherTypeOK'
    <3>1. stale' \in [Files -> BOOLEAN]
      BY <1>11, Zenon DEF WatcherCrash
    <3>2. crashes' \in 0..MaxCrashes /\ events' \in Seq(Events)
          /\ Len(events') <= BufferSize
      BY <1>11 DEF WatcherCrash
    <3>3. QED BY <1>11, <3>1, <3>2 DEF WatcherCrash
  <2>4. Order'
    BY <1>11, <2>1 DEF WatcherCrash, PhasesMatch, LastEventIsTrue
  <2>5. Job4'
    BY <1>11, <2>2
    DEF WatcherCrash, WalkIsEnough, ReadUnscheduled, ReadIsNewest,
        ScheduleFollowsFiles, Pending
  <2>6. QED BY <2>3, <2>4, <2>5
<1>12. CASE UNCHANGED watcherVars
  BY <1>12 DEF watcherVars, PhasesMatch, LastEventIsTrue, LastAbout, Queued,
     WalkIsEnough, ReadUnscheduled, ReadIsNewest, ScheduleFollowsFiles,
     Pending, Processing
<1>13. QED
  BY <1>1, <1>2, <1>3, <1>4, <1>5, <1>6, <1>7, <1>8, <1>9, <1>10, <1>11,
     <1>12
  DEF WatcherNext, WatcherStep, Folder, CreateFile, WriteFile, RemoveFile

\* It holds in every reachable state.
THEOREM WatcherInvariance == WatcherSpec => []FollowInv
<1>1. FollowInv /\ [WatcherNext]_watcherVars => FollowInv'
  BY NextWatcher
<1>2. QED BY WatcherInitInv, <1>1, PTL DEF WatcherSpec

-----------------------------------------------------------------------------
\* No job is made of a script that is disabled, has no period or none that
\* counts, and no more events are held than the channel can
\* (jswatcher/watcher.go:88-125, 153).
THEOREM WatcherTypeCorrect == WatcherSpec => []WatcherTypeOK
<1>1. FollowInv => WatcherTypeOK
  BY DEF FollowInv
<1>2. QED BY WatcherInvariance, <1>1, PTL

\* For any number of files that change at any moment, the schedule agrees
\* with the folder, but for what the watcher is still going to look at and
\* for changes it was never told of (jswatcher/watcher.go:165-211).
THEOREM FollowsFiles == WatcherSpec => []ScheduleFollowsFiles
<1>1. FollowInv => ScheduleFollowsFiles
  BY DEF FollowInv
<1>2. QED BY WatcherInvariance, <1>1, PTL
=============================================================================
