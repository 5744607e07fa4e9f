# AgentController8 in TLA+

AgentController8 sits between clients and agents. Clients push commands to
Redis; the controller pops them, chooses agents, and queues the command for
each of them; agents long-poll the controller over HTTP, run what they get and
post results; the controller writes the responses back to Redis, where the
clients wait for them. A scheduler pushes commands of its own, for the
jumpscripts a watcher finds in a folder. This directory models these parts from
the client library to the processor of the logs, model-checks them with TLC and
proves their most important properties with TLAPS.

Paths below are relative to the repository (`src/`).

## 1. Inventory

Everything runs in one process, as goroutines that share two locked maps, and
meets the rest of the world in Redis lists and hashes.

| component | code | state | operations |
|---|---|---|---|
| agent information | `agentdata/agentdata.go` | `roles`: connected agent -> declared roles, under an RWMutex | `SetRoles`, `MarkAsAlive`, `DropAgent`, `ConnectedAgents`, `IsConnected`, `GetRoles`, `FilteredConnectedAgents` |
| agent polling | `application/application.go:277-349`, `rest/cmd.go`, `redisdata/agentcommands.go` | `producers`: agent -> channel, under `producersLock`; one routine per channel with the poll it serves and the command it popped; one handler per request; the lists `cmds:gid:nid` | get or create the channel, send the poll, record the roles, pop, offer, re-push, report RUNNING, expire |
| dispatch loop | `application/application.go:231-275`, `application/agentpicking.go`, `redisdata/commandsource.go`, `logged/commandsource.go` | `cmds.queue`, `cmds.log.queue`, the command in hand and its targets | pop, log, choose agents, announce QUEUED, push, signal |
| responses | `redisdata/commandresponder.go`, `logged/commandresponder.go`, `rest/result.go` | hash `jobresult:ID`, lists `cmd.ID.gid.nid`, `cmd.ID.queued`, `results.queue` | `RespondToCommand` (set, done signal, log), `SignalAsPickedUp` |
| internal commands | `internals/` | a goroutine per command | run the handler, respond, signal |
| events | `events/events.go` | none of its own | `MarkAsAlive`, then a Python call |
| scheduler | `scheduling/` | hash `controller.schedule`, the current cron object | add, list, remove, remove by prefix, restart; a job pushes a command |
| client library | `client/` | per call: a goroutine that executes it, one that filters the responses, one that makes a result of them; two unbuffered channels | push, wait for pick-up, read the hash, wait for each done signal |
| jumpscripts | `interceptors/`, `redisdata/jumpscriptstore.go`, `rest/script.go` | keys `jumpscript:hash`, expiring after a day | replace content by its hash, store it, fetch it |
| watcher | `jswatcher/` | a channel of four file events, the jobs of the scheduler's hash | walk, watch, unschedule, read attributes, schedule |
| processor | `commandprocessing/` | two consumers | pop from the two log lists, call Python |

Interactions: the dispatch loop reads the agent information that routines,
events and clean-ups write, and pushes to the lists the routines pop; handlers
and routines meet on two channels (`producer`, unbuffered, of the agent, and
`MsgChan`, unbuffered, of the poll); dispatcher, routines, internal goroutines
and result handlers all respond through the same hash fields, unordered with
each other.

What is hard, and what makes each component correct:

* *Agent polling.* Overlapping polls of an agent, an idle routine leaving while
  a poll arrives, an offer that races the handler's timers, pops whose reply is
  lost, crashes. Correct: one routine per agent, one poll in service, each
  command in exactly one place, every accepted poll answered, silent agents
  unlisted.
* *Dispatch.* The set of agents changes while it is being read. Correct: at
  most one agent without fan-out, announced before queued, pushed once, always
  ending in the pick-up signal.
* *Responses.* Concurrent non-atomic writes to the same field. Correct: no
  return to QUEUED, the done signal after its result, the responders of a
  command final once it is picked up.
* *Scheduler.* Goroutines add, remove and restart at the same time, nothing is
  locked, a schedule is read in pages. Correct: the jobs in the hash fire, all
  of them and no others.
* *Client.* It takes the responders from the hash once, when the command is
  picked up, and reads a response once, after its done signal. Correct: no
  responder is missed, and the call returns.
* *Jumpscripts.* SET and EXPIRE are two buffered calls, and scripts are shared
  by commands. Correct: a hash can be resolved for a day, and nothing stays for
  ever.
* *Watcher.* Files change at any moment, events are dropped, the process
  restarts. Correct: the schedule agrees with the folder.
* *Processor.* Correct: what was sent, in order, once.

`PROJECT.json` lists every hazard with its line.

## 2. Modules

| module | models |
|---|---|
| `Core` | agents, the part of a command decisions read, response states |
| `AgentData` | the agent information; each method is one critical section |
| `PollService` | channel registry, routines, handlers, per-agent lists, crash |
| `Delivery` | abstract: at-most-once delivery of commands to agents |
| `Responder` | responses as a call in progress per goroutine, signals |
| `Dispatcher` | main loop, agent picking, goroutines of internal commands |
| `Controller` | `PollService` + `Dispatcher` + `Responder` + agents that post results |
| `CommandLifecycle` | abstract: what the controller shows of a command in Redis |
| `Client` | the calls of the client library, over `CommandLifecycle` |
| `System` | `Controller` + `Client`: calls of the library on the controller itself |
| `CommandFactory` | the commands the client library builds |
| `Scheduler` | the schedule hash, the cron objects, goroutines that add, remove and restart |
| `Watcher` | the watcher, its events, the folder |
| `Jumpscripts` | the chain of command sources, the store of scripts, time |
| `Processor` | the two loops over the logs |
| `Intake` | `Jumpscripts` + `Processor` + agents that fetch scripts |
| `PollProperties`, `ControllerProperties`, `ClientProperties`, `SystemProperties`, `SchedulerProperties`, `WatcherProperties`, `IntakeProperties` | properties of those, with the histories and refinement mappings they need |
| `MCPoll`, `MCController`, `MCClient`, `MCSystem`, `MCScheduler`, `MCWatcher`, `MCIntake` | instances for TLC |
| `QueueLemmas`, `PollServiceProofs`, `ControllerProofs`, `ClientProofs`, `SystemProofs`, `SchedulerProofs`, `WatcherProofs`, `IntakeProofs` | proofs |

```
Core <- AgentData <- PollService <- PollProperties
                  <- Dispatcher (also Responder)
PollProperties + QueueLemmas <- PollServiceProofs
PollService + Dispatcher <- Controller <- ControllerProperties
ControllerProperties + PollServiceProofs <- ControllerProofs
Core <- CommandLifecycle <- Client <- ClientProperties <- ClientProofs
Controller + ClientProperties (an instance) <- System <- SystemProperties
SystemProperties + ControllerProofs + ClientProofs (an instance) <- SystemProofs
Scheduler <- SchedulerProperties <- SchedulerProofs
Watcher <- WatcherProperties <- WatcherProofs
Jumpscripts + Processor <- Intake <- IntakeProperties <- IntakeProofs
```

The parts meet in abstract specifications. `PollService` implements `Delivery`.
`Controller` implements `PollService` and `CommandLifecycle`, and `Client` is
built on `CommandLifecycle`: what is shown of the client library holds with
every controller that writes Redis as `CommandLifecycle` says. `System` puts
the two together, and there this is a theorem: the library over this controller
implements `Client`. `Watcher` has of the scheduler its hash only; that what
fires follows the hash is the subject of `Scheduler`. `Jumpscripts` details the
source the dispatch loop of `Dispatcher` pops from.

Definitions called "Variant" in a comment are plausible bugs next to the code
they replace; they are used by no specification and serve to see that a
property notices them.

### How state and steps correspond to the code

*PollService.* A goroutine is a control point. `routine[ch]` is the routine
that reads producer channel `ch` (`select`: at its select; `setroles`,
`dequeue`, `offer`, `requeue`, `running`, `closemsg`: the statements of one
turn; `expired`: the channel is closed, the lock not yet taken; `none`: gone).
`pollPc[p]` is a handler (`send`: about to send its poll; `accepted`: taken but
not yet blocked in its second select; `wait`; `reply`). `accepted` matters: the
routine's offer does not block, so it is refused if the handler is not yet at
its select. `Accept` and `HandOver` are the two channel rendezvous. A finished
handler and a channel nobody refers to are reused, which stands for new ones.
An MsgChan is open exactly as long as some routine serves its poll (`Served`).
The critical sections (`getProducerChan`, the second half of the deferred
clean-up) are one step each, as is each Redis call. `SendTimeout` is possible
only while the routine is busy: with an idle routine, or a closed channel, the
send proceeds at once and 60 s cannot pass.

*Faults* (`PollFault`): a pop whose reply is lost against the connection's 15 s
read timeout, a re-push whose error `Send` swallows, a response that never
reaches the agent, and a crash of the whole process after which only the Redis
lists and what agents received remain. `lost` records what a fault destroyed:
the properties then say that nothing else gets lost.

*Dispatcher.* `dpc` is the main loop's control point. The two ways to choose
agents are separate: by node one read, by roles a snapshot (`SnapshotCandidates`)
followed by one `GetRoles` per agent (`CheckRoles`), each under the lock, with
any step of others in between. `log.Fatal` on a Redis error ends the process,
which is a crash at that point. The push to the command log can fail unnoticed;
`unlogged` is the history of the commands it failed for. A scheduled job is a `Push`.

*Responder.* `RespondToCommand` is a record in `calls` that goes through `set`
(HSET), `done` (RPUSH of the done signal, terminal states only) and `log`. The
caller is blocked while its record exists (`Returned`).

*Controller* joins the steps that touch several components: the push of the
dispatcher is a push to a list of `PollService`, a hand-over starts the RUNNING
response, an agent posts a result (at most `MaxResults` for a command) at any
time after it received the command. Three histories say what a fault destroyed:
`unpushed` the pushes to agents that failed, `forgotten` the commands a crash or
a lost pop took before they were picked up, `cut` the answers a crash stopped
before their done signal. They change in those steps only and no guard reads
them, but for the bound on `unpushed`.

*Scheduler.* `pc[c]` is where a goroutine stands: `prune` in the loop of
`RemoveByIdPrefix`, `stop`, `new` and `load` in `restart`; `main` starts in
`load`, for `Start`, and serves as the watcher's goroutine afterwards. The body
of a job is a model value, the hash maps a job to one or to `NoVersion`. Each
Redis call is a step: an HSCAN page is any part of what the scan has not
covered, read from the hash at that moment. `sched.cron` is read anew for every
job loaded, as in the code. `entries[k]` and `running` are what the cron library
keeps; it is not in the repository, and its calls are taken as atomic (its Stop
and Start do nothing the second time). `Firing` is what may run: `Job.Run` reads
it and pushes an ordinary command. Failures are a lost HSET (the error is
swallowed and the restart happens), an HDEL whose answer is lost (nothing is
restarted), a failing HSCAN (the rest is skipped). `Restarted` ends the process
at any point.

*CommandLifecycle.* Its variables are the Redis keys a client looks at. A step
is one write. `Answer` is the controller's own response (refusal, internal
result), `Announce` QUEUED, `Report` everything an agent's routine or the agent
says afterwards. It promises that a command has a responder when it is picked
up, and nothing about whether agents answer.

*Client.* `cpc[c]` is where the goroutine of `Execute` stands, one state per
Redis call or channel operation; its loops over Go maps visit keys in any
order. `held` is the response the goroutine of `TerminalResponses` has read and
not passed on, which is why `Send` waits for it to be empty. `ApiStep` is the
goroutine of a high-level call: `TakeFirst` for `LiveAgents`, `Exhaust` and
`Conclude` for the others, with an outcome for each way it makes a result of
what it got. BRPOPLPUSH moves a signal from a list to the same list, so
`isPickedUp` and `isDone` only read. `late` is a history of agents found
RUNNING again after their done signal: the late RUNNING of `late_running`.

*System.* A call's `Execute` is joined with the push of its command
(`SendCommand`), or with nothing, when the push fails and the library does not
notice. The other steps of a call only read what is in Redis (`Library`), and
everything else, crashes and lost calls included, is the controller's and the
agents' (`Serve`). The environment actions of `Client` are not used: that they
allow what the controller does is what `ImplementsClient` says.

*Watcher.* `wpc` is the one goroutine's control point: in the walk, at the
channel, before HDEL, before `get_info`, before HSET. `events` is the buffered
channel; `Buffer` is the non-blocking send of package notify. `content` is what
`get_info` read, so that a file can change between the read and `AddJob`.
Attributes are typed values, because a value of the wrong type counts as
missing and a number with a fraction is cut off. `stale[f]` is a history: the
last change of `f` was told to nobody. It is set by exactly those steps the
code can do nothing about (`Lost`, `MoveAway`, a failing call, a crash while the
file is pending) and cleared by the next change that is told, or by a
successful `AddJob` of the newest content.

*Jumpscripts, Processor, Intake.* `spc` is the control point inside
`BlockingPop` of the intercepted source: pop, log, intercept, SET, EXPIRE, hand
over. `store[s]` is the time left to a key, `Gone` and `Forever` being its ends;
`Tick` is the passing of time. A buffered command that Redis never sees
(`StoreLost`) goes unnoticed, a call without a connection (`AddFails`) leaves the
command as it is. Both loops of the processor are the same definitions with
another list. The order of commands with their entries in `results.queue` is
left to `Controller`.

## 3. Runs

| run | question | instance | result |
|---|---|---|---|
| `poll_safety` | is polling exclusive and delivery at most once, across expiry and faults? is a silent agent unlisted, and what keeps it listed? | 1 agent that posts events, 3 polls, 2 channels, 2 commands, 1 fault, under fairness | holds, 288,538 states |
| `close_race` | does nobody connect while a routine closes its channel? | 2 polls, 2 channels | violated |
| `progress` | are accepted polls answered and commands picked up? does anything come of a command that is not logged? | 1 agent, 2 polls, 2 channels, a fan-out or an internal command, 1 fault, 1 lost pop, 1 lost push to the agent and 1 to the command log, under fairness | holds, 132,136 states |
| `fanout` | is one agent chosen without fan-out, are the responders final at pick-up? does the controller implement `CommandLifecycle`, which announces a command before it is queued? | 2 agents, a poll and a channel each, a fan-out command or one for any node, results | holds, 1,104,100 states |
| `system` | does the library get from this controller what it expects, and does each call wait for something, with faults? are responses and signals in order, is QUEUED logged first, and is none of them made up? | 1 agent, 1 poll, a call for a node and an internal one, 1 fault, 1 lost pop, 1 lost push | holds, 946,014 states |
| `late_running` | is a terminal response final? | 1 agent, 1 command, 1 result | violated |
| `client` | does a call hear every responder, invent nothing, and return? | 1 call of each kind, 2 agents that report in any order | holds, 45,003 states |
| `one_response` | one response for each target? | the same | violated |
| `scheduler` | does what fires agree with what is stored? | 2 goroutines, 2 jobs, 2 bodies, 3 crons, 1 failed call, any number of calls and restarts | holds, 1,571,905 states |
| `old_body` | ... also when calls overlap? | the same without failures | violated |
| `watcher` | does the schedule follow the folder? | 2 files, 4 contents, buffer of 2, 3 changes, 1 failing call, 1 restart | holds, 257,135 states |
| `intake` | do scripts live a day, does the processor see what was sent? | 2 of 3 commands, 1 script, a day of 2 ticks, 3 ticks, 1 fault | holds, 244,494 states |

### What the properties say

* `LiveRoutineIsRegistered`: a routine is alive exactly while its channel is
  the registered one of its agent. `OnePollServed`: at most one poll of an agent
  is in a routine's hands, which is what the comment at `rest/cmd.go:43` relies on.
* `CommandInOnePlace`: an enqueued command is in the list, in one hand, in one
  unsent response, received or lost, and in one of them only.
  `ImplementsDelivery`: every step is a step of `Delivery`, so nothing received
  or lost comes back.
* `DropsOnlyUnserved`, `OnlyEventsStrand`: registry and agent information
  agree. No agent in service is dropped; and of the steps of all goroutines,
  expiry, clean-up, overlapping polls and crashes included, none but an event
  of its own leaves an agent listed without a routine (`Stranded`).
* `AcceptedPollIsAnswered`, `SilentAgentIsDropped`: progress. An agent that
  stops polling and posting is unlisted for good, whatever its list holds, or
  an event stranded it.
* `ImplementsPollService`: the controller meets the assumption `PollService`
  makes of its environment (a command is enqueued at most once per agent), so
  everything shown of `PollService` holds of the controller.
* `NeverBackToQueued`, `DoneIsRecorded`,
  `RespondersFixedAtPickUp`, `OneAgentWithoutFanout`, `PickedUpIsDispatched`,
  `EveryCommandIsPickedUp`: what a client may rely on. `ImplementsLifecycle`
  says all of it that `CommandLifecycle` has, at once: dispatcher, routines,
  internal goroutines and result handlers together take no other step.
  `EveryCommandIsPickedUp` excuses only a command that a crash or a lost pop
  itself took (`forgotten`). `EnqueuedIsAnnounced` is part of
  `ImplementsLifecycle` (`QueueFor` needs the QUEUED response) and is proved
  as `AnnouncedFirst`; no run repeats it.
* `NoAnswerIsInvented`: what hash, signals and log say of a responder is so. Who
  is RUNNING was handed the command, who is done got it and posted, and a
  refusal of the controller means that no agent gets the command, then or
  later. The routine hands over before it knows that the handler still listens,
  and the refusal may share its field with an agent, so this takes the order of
  several goroutines. `NoCallerIsDeceived` is the same of what a call of the
  library returns; it is proved, and no run repeats it.
* `EveryWaitHasAReason`: for each response a client finds at pick-up, the done
  signal is out, or about to be written, or its agent has the command, or will
  get it, and has not answered; a fault is an excuse only if it hit that very
  command or answer. It relates all the places a command and its answer can be
  in. `NoCallWaitsInVain` says it of what a call waits for at each moment, its
  pick-up signal included, since neither wait has a time limit.
* `ImplementsClient`: under the real controller the library takes only steps
  `Client` allows, its environment included. What `Client` shows of calls holds
  here too.
* `NothingUnlogged`: the push to the command log comes before everything else
  that is done with a command, by whichever goroutine. It may fail: `Send`
  swallows the error (`redisdata/ds/list.go:43`), the loop goes on, and
  `unlogged` says of which commands (`LogCommand`). Such a command can have
  responses in `results.queue` and none in `cmds.log.queue`, and no other can.
  `QueuedIsLoggedFirst`: within the response log, QUEUED comes first; the other
  responses may be logged in any order.
* `EveryResponderIsHeard`, `DoneAgentAnswered`, `SuccessIsConfirmed`,
  `CallReturns`: of a call to the client library. `SuccessIsConfirmed` matters
  because `SchedulerAddJob` reads no response as success and
  `SchedulerRemoveJob` indexes the first one: both rest on the internal
  goroutine responding before it signals.
* `ScheduleFollowsFiles`: between event, HDEL, read and HSET, a file that
  changes is looked at again. `ScheduleSettles`: so the schedule ends up right.
* `ScriptOutlivesItsDay`: also when a second command stores the same script
  again and its EXPIRE, or its SET, is lost. `ScriptsExpire`: SET takes the
  expiry off a key, so a script without one is either between the two calls or
  had its last EXPIRE fail. `ProcessedAsSent`, `EveryCommandIsProcessed`: the
  logger wraps the Redis source and the interceptor the logger, so the
  extension sees contents, not hashes.
* `NoJobIsForgotten`: when the last of any number of overlapping restarts is
  done, the current cron runs and holds every stored job with its stored body.
  `FiringIsStored`: if no two calls overlapped since the start, nothing else
  fires either. Both are claimed for a start without a failed Redis call: after
  one the code waits for the next restart.

### What does not hold

* A late RUNNING (`late_running`). The routine hands the command to the HTTP
  handler and then writes RUNNING; a fast agent's result can be written in
  between, and the hash says RUNNING for ever. `application.go:329` calls this
  safe. The done signal survives, so `DoneIsRecorded` allows for it.
* A send on a closed channel (`close_race`). The routine closes its channel
  before it takes the lock to unregister it (`application.go:294-297`); a
  handler holding it panics, and the agent sees a 500.
* One response for each target (`one_response`, `client/README.md:50-51`).
  After the initial responses, `Execute` takes the state of an arbitrary one of
  them for that of the command (`lowlevelclient.go:137-149`). If it is terminal
  the channel is closed although others are still running; if it is not, an
  agent whose terminal response was sent already is waited for and sent again.
* Phantom agents. `MarkAsAlive` (`events.go:73`) lists an agent without a
  routine that would drop it, so an agent that posts an event after its routine
  expired stays "live" (`client/client.go:26`), and commands for it are queued
  instead of refused, until the agent polls again or the process ends. No
  document excludes it, so no run claims that it cannot happen:
  `OnlyEventsStrand` shows that this is the only way to it, and
  `SilentAgentIsDropped` excuses an agent it happened to, and no other.
* A target that names a node (`client/README.md:31-33`). `builtRoles`
  (`commandfactory.go:63-75`) gives every target without roles the wildcard, and
  `agentsForCommand` looks at the node only for commands without roles: a
  command the library builds for node 23 of grid 7 goes to any agent of grid 7.
  `ChooseNode` is reached by clients that build their own commands.
* "Ensure no event is dropped" (`watcher.go:151`). A buffer of four does not: a
  burst of changes while a script is read is cut off (`Lost`). Nor are events
  asked for when a file is renamed away (`MoveAway`), changes between the walk
  and the watch are told to nobody, and the walk removes no job: that of a
  script deleted while the controller was down stays. All these are histories
  in `stale`, which `ScheduleFollowsFiles` excuses.
* Old bodies that go on firing (`old_body`). `restart` (`scheduler.go:124-128`)
  is not locked and runs in several goroutines. A cron object started or
  replaced between another goroutine's Stop and its replacement keeps running
  with nobody referring to it, and a job read before a change is loaded into
  the cron made after it. Either way `AddJob` does not override
  (`scheduler.go:41`); a removed job can survive in the same ways.

### Bounds

`Polls` and `Chans` bound simultaneity, not history: identifiers are reused.
Two channels of an agent are a stale one and its successor; a third would need
two routines leaving at once, which the registry excludes as long as
`LiveRoutineIsRegistered` holds (and that is proved for any number). Three polls
are one served, one holding a stale channel and one waiting. Two commands show
reordering and a crash with one in hand and one in a response. `MaxFaults` = 1
places one fault anywhere; the proofs cover any number. `MaxResults` = 1
already races a RUNNING. `MaxLostPops` = `MaxLostPushes` = 1 place one such loss
anywhere, and so does `MaxUnlogged` = 1 of `progress`; it is 0 in the other
runs of the controller, whose properties do not ask what the command log holds
(`system` with 1 has more than 2.3 million states). A command is pushed once, since clients and scheduler give it a fresh
id; `MaxSent` = 1 lets a run choose among several kinds of command. Agents of
`poll_safety` are one because agents share nothing in `PollService` but the
maps; `fanout` has two. `MCScheduler` does not bound the number of calls: `Crons` bounds the cron
objects alive at once (the current one, one that leaked and its successor), and
`NewCron` waits when they are used up. Two goroutines interleave in
every way two restarts can; more are covered by the proofs. Cron objects and
bodies are symmetric (no property or action names one). `MaxFailures` = 1
places one failed call anywhere between two starts.

Calls of the client library share nothing, since each has an id of its own:
`MaxCalls` = 1 loses no behaviour; `system` has a call of each kind, since
there they share the controller. Two agents are enough for one that is
terminal at pick-up next to one that is not. `Reported` leaves out UNKNOWN_CMD,
which the library treats as SUCCESS. `MaxSignals` = 1: reading a signal leaves
it in place, so a second one changes nothing. `BufferSize` is 2 instead of 4 and
`MaxEdits` 3, so that the buffer overflows, also with an earlier event of the
same file in it. `TTL` 2 and `MaxTicks` 3 let a script be stored, stored again
halfway, and expire.

Runs do not check deadlock: every command may have been delivered and every
poll be over, and then the system rightly waits.

### Fairness

`PollFairness`: every goroutine that can take a step eventually does
(Go's scheduler), Redis answers or the read timeout fires, and an idle routine's
30 s timer fires. It is weak fairness of each routine's and each handler's own
step as a whole. `poll_safety` (`FairPollSpec`) and `progress` (`FairSpec`) run
under it. The handlers' 60 s timers, clients that disconnect, new polls,
events and faults get none, so progress does not lean on them. `Fairness` of
`Controller` is the same for the main loop, the goroutines of internal commands
and each goroutine's response in progress.

`FairClientSpec`: the two goroutines of a call run when they can. Nothing is
assumed of the controller or the agents: `CallReturns` is claimed for a command
that is picked up and whose responders have signalled. `WatcherSpec`: the
watcher's goroutine goes on; the changes to the folder, being bounded, come to
an end. `FairIntakeSpec`: the loop over the command source and each loop of the
processor. Time, faults and agents get none.

## 4. Proofs

All proofs are for arbitrary constants: any number of agents, polls, commands,
calls, files and faults, under the assumptions the modules state of their
constants (`CoreAssumption`, `PollServiceAssumption`, `DispatcherAssumption`,
`ControllerAssumption`, `ClientAssumption`, `SystemAssumption`,
`SchedulerAssumption`,
`WatcherAssumption`, `JumpscriptsAssumption`, `ProcessorAssumption`,
`IntakeAssumption`). These give types and say that "nothing" values such as
`NoPoll`, `NoCommand` or `NoEntry` are not members.

*`PollServiceProofs`.* `PollTypeOK` and `LiveRoutineIsRegistered` are not
inductive: that `CleanUp` unregisters only its own channel needs the registry
to point to it. `PollInv` strengthens them with what a control point implies (a
routine serves a poll exactly during a turn and has a command exactly while it
holds or reports one; a routine's and its poll's agent agree; a served poll is
accepted, waiting, or on its way out).
`InitInv` and `NextInv` show it inductive, one step per action;
`PollTypeCorrect`, `RegistrySafe`, `ExclusiveService` and the action property
`DropsAreSafe` follow. So does `OnlyEventsStrand` (`ListedAgentsAreServed`),
whichever agents post events: but for events an agent is listed only by its
routine, which `PollInv` says is registered then, and the routine that ends
drops the agent in the critical section in which it unregisters.

`CommandInOnePlace` counts positions in lists and sets of
handlers; `DeliveryInv` is its inductive form: a command is enqueued iff it is
in a list, a hand, an unsent response, received or lost (`Accounted`), in no two
of these (`Exclusive`), once in a list (`ListDistinct`, from `QueueLemmas`), in
one response (`UnsentOnce`). Steps that move no command are dispatched by one
lemma (`Quiet`); each step that moves one has a lemma that says from where to
where. `NoCommandTwice` concludes.

The same steps give the refinement of `Delivery`. Under `DeliveryInv` the
mapping `Place` of a pair agent/command is `Stands`, a chain of conditions. A
step leaves all of them alone (`Still`), moves one pair along an edge `Delivery`
allows (`SomeMove`) or loses everything held at once, as closing the service
does (`HeldAreLost`): `NextDelivery` says so, next to the invariant, and
`DeliveryRefined` is `PollSpec => ImplementsDelivery`.

*`SchedulerProofs`.* `NoJobIsForgotten` speaks of states in which all calls are
over. Its inductive form `Covered` says that a stored job the current cron lacks
is ahead of some goroutine: one about to replace the cron, which will read all
of the hash again, or one that is loading and has the job in its page or not
yet scanned. Whoever changes the hash restarts afterwards, and whoever replaces
the cron scans it from the start: that is why no lock is needed for this half.
`Attended` says the same of starting it. For `ExactInTurn`, `TurnInv` follows
the one goroutine in the scheduler through its call.

`SchedulerTypeCorrect` is the type invariant these need.

*`ControllerProofs`.* One inductive invariant, `ControllerInv`, joins `PollInv`
and `DeliveryInv` to `LifeInv`, which follows a command through the controller:

* `StageInv`: a command is not sent, in the queue, in the loop's hands, with a
  goroutine of its own, or past all this, and in one of these only; before the
  loop has it, nothing is written of it (`Untouched`).
* `LoopInv`, `TargetsInv`, `CurrentInv`: what the loop has done with its
  command, by its control point. The targets left are not announced; those
  before are announced and queued, or their push was lost.
* `SignalInv`, `RecordInv`: what the signals and the logs say is in the hash.
* `CallsInv`: whose call may write which field when. `RespondToCommand` runs in
  many goroutines at once, and each property about responses comes down to who
  is at work: the loop writes QUEUED before it pushes, so nobody else can write
  the field yet (`WritesAnnouncement`); routines and agents write what they got
  (`WritesReport`), the controller itself answers commands no agent gets
  (`WritesRefusal`, `WritesAnswer`).
* `FanoutInv`: without fan-out there is one target, and it is new.

The steps of the poll service keep `PollInv` and `DeliveryInv` by the lemmas of
that module, because each step of the controller is one of its steps or leaves
them alone; that is also `PollServiceImplemented`, which carries everything
proved of `PollService` over to the controller (`ServedInController`,
`NoCommandTwiceHere`, `ListedAgentsHere`). The invariants of
`ControllerProperties` follow from `ControllerInv`, the action properties
(`RespondersFixed`, `ForwardFromQueued`, `QueuedLoggedFirst`) from one step
under it. `LifecycleRefined` is the whole of it: under `ControllerInv` every
step of dispatcher, routines, goroutines, result handlers and faults is a step
of `CommandLifecycle` or changes nothing a client can see. The invariants are
needed for the guards: that a response written by a routine is of a queued
command, that a refusal is the first response, that the pick-up signal comes
after every announcement.

`NothingUnlogged` (`LoggedBeforeAnswered`) is carried by the same invariant:
`LoopInv`, `SignalInv` and `RecordInv` say of a command past the loop's push to
the log that it is in `commandLog` or in `unlogged`, at every control point from
there on. `MarksInv` adds the hash and the pick-up signal, and is inductive next
to `ControllerInv`: whoever has a call in progress (`Owned`) or gives a signal
(`SignalStep`) has such a command, and the two sets only grow (`LogsGrow`).

`NothingSentIsLost` (a command that is sent and not picked up is in the queue
or in somebody's hands, or a fault took it) follows from `StageInv`.
`EveryWaitHasAReason` does not follow from `ControllerInv`, because nothing
there says that an answer that was begun ends in its signal. `AnswersInv` adds
it: every response is settled (its signal is out, under way, or cut by a
crash), or it is the QUEUED of an agent, or of an agent that has the command
and did not post; and who posted has settled. `Settled` is stable
(`SettledStays`): a call in progress goes on to its signal or a crash records
it in `cut`. The rest is `Accounted`: a command the agent was given and did not
answer is in its list, in flight, received, or lost (`WaitsHaveReasons`).

`NoAnswerIsInvented` is not inductive either: a refusal is right as long as
nobody has the command, which a later push could change, and a response is
written after the step that justifies it. `FoundedInv` says `Firm` for
`Founded`, of the responses under way as well as of those written. `Firm` asks of
a refused command that it is past the loop (`Refused`), so that nobody pushes it
any more; the rest of `Firm` is about histories that only grow (`HandedStays`,
`PostedStays`). `FirmStays` says that no step takes a reason away,
`NextCallsFirm` that a response is begun only with one, and
`NothingIsInvented` follows.

*`ClientProofs`.* The other side of `CommandLifecycle`. `RedisInv` says what it
keeps true: whoever has a command has a response, a done signal is about a
response past QUEUED, an internal command has one answer. `CallInv` follows a
call: each responder is ahead of its loop, the one it waits for, held by the
filter, heard, or was found RUNNING (`NobodyIsForgotten`), which needs the
responders fixed once the command is picked up (`Settled`); and an internal
call never gets past the initial responses without its answer (`InternalCall`).
`NobodyIsMissed`, `DoneMeansAnswered` and `SilenceIsNoSuccess` follow. `AwaitsResponders`
says that a call waits only for agents that responded (`OnlyRespondersAwaited`).

*`SystemProofs`.* The library over this controller implements `Client`
(`ClientImplemented`). A step of the controller other than a client's push
leaves `sent` alone (`WorkSendsNothing`), so the step of `CommandLifecycle`
that `LifecycleRefined` makes of it is a response or a signal
(`WorkIsResponding`), which is what `Client` allows its environment. `Client`
also bounds its environment; `System` instantiates it with bounds that exclude
nothing (`ReportsAreBounded`): any state but QUEUED may be reported, and a
responder has at most one signal for each state. `Client` is instantiated a
second time, with its proofs, and the `Same...` lemmas identify the two
instances; the assumptions of that instance are proved (`LibraryAssumed`), not
made. Then the theorems about `Client` are theorems about the whole:
`CallersHearEveryone`, `CallersAreConfirmed`. Both sides together give
`NobodyWaitsInVain`: a call waits for a responder of a picked-up command
(`AwaitsResponders`), and such a wait has a reason (`EveryWaitHasAReason`).
`OrderInSystem` restates the controller's own invariants for the system.
`CallersAreToldTheTruth` follows an answer into the call: `ToldInv` says of the
responses read at pick-up, of the one the filter holds and of those returned
that they are `Firm`. A response read is one of the hash, which `FoundedInv`
covers, a signal one that was given; and what a call has kept stays true
because `FirmStays`.

*`WatcherProofs`.* `ScheduleFollowsFiles` speaks of an idle watcher. `FollowInv`
adds what holds at each control point: the newest event about a file tells
whether it is there, a file is read with its job taken away, what is about to be
scheduled is what the file asks for now or the file comes up again, and the
walk, which removes nothing, meets no job it would have to remove.

*`IntakeProofs`.* `StoreInv`: a script has at least as long to live as is left
of the day of each command that carries it (`DayIsCovered`), however the SETs
and EXPIREs of other commands interleave with lost calls. `LogInv`, for
`LoggedAsSent`: the commands processed, in hand, logged, about to be logged and
queued are, in this order, commands of `pushed` in its order (`SentInOrder`). A
step appends to one of these lists, moves an entry to the next, or takes one
out; the lemmas on joined lists say what that does to positions.

Only model-checked: what depends on fairness (`AcceptedPollIsAnswered`,
`SilentAgentIsDropped`, `EveryCommandIsPickedUp`, `CallReturns`,
`ScheduleSettles`, `EveryCommandIsProcessed`): the prover handles neither
fairness nor ENABLED. Every invariant and every action property of a passing
run is proved.

## 5. Not modelled

* Expiry of the response hash and the done lists after 24 h.
* Failures of the HSETs and signals on the response path, and of the push to
  `cmds.queue`: pushes fail on the way to an agent, on the re-push, in the
  command log and in the client's call. The push to `results.queue` fails in
  `Intake` only; the properties of `Controller` speak of entries that are there,
  and one less breaks none of them. A Redis that is down makes the client library panic
  and the controller exit (`log.Fatal`), which is a crash.
* Agents that post anything else than results. `rest/result.go:27-37` takes
  state, id, grid and node from the JSON without a check; `PostResult` assumes
  an agent that answers a command it received, under its own name, with SUCCESS
  or ERROR.
* How often a job fires: the entries of a cron are a set in `Scheduler`, while a
  job that two overlapping `Start`s load into one cron (`scheduler.go:160`) fires
  twice at each of its times.
* JSON, argument parsing, response payloads, log lines: no decision depends on
  them. Python extensions, InfluxDB statistics, Hubble, TLS, configuration and
  the endpoints that only forward to them: external or pure I/O.
* The interior of the cron library: a second Stop of a cron, or an AddJob to one
  being stopped, may block its caller there. When a job fires, and the id
  `Job.Run` gives its command.
* Scripts whose parent folders and names agree share a job id
  (`watcher.go:72-80`); files of `Watcher` have ids of their own.
* `GetProcessStats` and `SchedulerGetJob`: the first goes as
  `ExecuteExecutable`, the second filters what `SchedulerListJobs` returns.

## 6. Plan

Done: the path of a command from the client to the agent and back, end to end,
the scheduler, the watcher, jumpscripts and the processor; all invariants, action
properties and refinements of the runs proved.

Left, in the order of what it would add:

1. Failing HSETs and signals on the response path, and the expiry of the hash
   and the done lists: `Responder` and `Client` would both get them, and
   `CommandLifecycle` a weaker promise.
2. `Job.Run` with two firings of one entry at once (`scheduling/job.go:26`).
3. An abstract specification of the scheduler (a set of jobs that fire) and the
   refinement by `Scheduler` for calls that do not overlap, next to `Watcher`
   over that specification instead of over the hash.
4. Events in `fanout`, once an instance that has them is small enough for a run
   that is repeated.
