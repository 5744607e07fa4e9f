----------------------------- MODULE PollService -----------------------------
(***************************************************************************)
(* How a queued command reaches an agent.                                  *)
(*                                                                         *)
(* An agent long-polls GET /gid/nid/cmd (rest/cmd.go).  The handler gets   *)
(* the producer channel of its agent (Application.getProducerChan), sends  *)
(* its poll on it and waits for a command on the poll's own MsgChan.  The  *)
(* goroutine that reads the producer channel, the agent's routine, takes   *)
(* one poll at a time: it records the agent's roles, pops one command from *)
(* the agent's Redis list and offers it to the handler; a refused command  *)
(* goes back to the tail of the list.  A routine that saw no poll for 30 s *)
(* closes its channel, forgets it and drops the agent.                     *)
(*                                                                         *)
(* Goroutines interleave at every channel operation, lock and Redis call.  *)
(***************************************************************************)
EXTENDS AgentData, Sequences, SequencesExt

CONSTANTS
    Polls,        \* handler executions; a finished one is reused
    PollAgent,    \* the agent a poll comes from
    PollRoles,    \* the roles it declares in its query string
    Chans,        \* producer channels; one nobody can refer to is reused
    ChanAgent,    \* the agent a channel is made for
    EventAgents,  \* the agents that post to /gid/nid/event
    NoPoll, NoChan,
    MaxFaults     \* bound on crashes, lost Redis calls and lost replies

ASSUME PollServiceAssumption ==
    /\ PollAgent \in [Polls -> Agents]
    /\ PollRoles \in [Polls -> SUBSET Roles]
    /\ ChanAgent \in [Chans -> Agents]
    /\ EventAgents \subseteq Agents
    /\ NoPoll \notin Polls
    /\ NoChan \notin Chans
    /\ MaxFaults \in Nat

VARIABLES
    producers,   \* app.producers, guarded by producersLock
    routine,     \* control point of the routine that reads a channel
    serving,     \* the poll a routine took and whose MsgChan is still open
    hand,        \* the pendingCommand of a routine
    pollPc,      \* control point of a handler
    pollChan,    \* the producer channel a handler is about to send on
    payload,     \* the command a handler writes to its HTTP response
    agentQueue,  \* the Redis lists cmds:gid:nid
    enqueued,    \* history: the commands ever enqueued for an agent
    received,    \* history: the commands an agent got from a response
    lost,        \* history: the commands of an agent lost by a fault
    faults       \* faults so far

routineVars == <<producers, routine, serving, hand>>
handlerVars == <<pollPc, pollChan, payload>>
goVars == <<routineVars, handlerVars>>
queueVars == <<agentQueue, enqueued>>
fateVars == <<received, lost, faults>>
pollVars == <<roles, goVars, queueVars, fateVars>>

RoutineStates == {"none", "select", "setroles", "dequeue", "offer",
                  "requeue", "running", "closemsg", "expired"}
PollStates == {"idle", "send", "accepted", "wait", "reply"}

PollTypeOK ==
    /\ AgentDataTypeOK
    /\ producers \in [Agents -> Chans \cup {NoChan}]
    /\ routine \in [Chans -> RoutineStates]
    /\ serving \in [Chans -> Polls \cup {NoPoll}]
    /\ hand \in [Chans -> Commands \cup {NoCommand}]
    /\ pollPc \in [Polls -> PollStates]
    /\ pollChan \in [Polls -> Chans \cup {NoChan}]
    /\ payload \in [Polls -> Commands \cup {NoCommand}]
    /\ agentQueue \in [Agents -> Seq(Commands)]
    /\ enqueued \in [Agents -> SUBSET Commands]
    /\ received \in [Agents -> SUBSET Commands]
    /\ lost \in [Agents -> SUBSET Commands]
    /\ faults \in 0..MaxFaults

PollInit ==
    /\ AgentDataInit
    /\ producers = [a \in Agents |-> NoChan]
    /\ routine = [ch \in Chans |-> "none"]
    /\ serving = [ch \in Chans |-> NoPoll]
    /\ hand = [ch \in Chans |-> NoCommand]
    /\ pollPc = [p \in Polls |-> "idle"]
    /\ pollChan = [p \in Polls |-> NoChan]
    /\ payload = [p \in Polls |-> NoCommand]
    /\ agentQueue = [a \in Agents |-> <<>>]
    /\ enqueued = [a \in Agents |-> {}]
    /\ received = [a \in Agents |-> {}]
    /\ lost = [a \in Agents |-> {}]
    /\ faults = 0

-----------------------------------------------------------------------------
(* Derived notions. *)

\* close(msgChan) is deferred to the end of the routine's turn, so a poll's
\* MsgChan is open exactly as long as some routine serves it.
Served(p) == \E ch \in Chans : serving[ch] = p

\* close(producer) happened: a send on the channel panics from now on.
Closed(ch) == routine[ch] \in {"expired", "none"}

\* A channel nobody can refer to any more stands for a newly made one.
Fresh(ch) ==
    /\ routine[ch] = "none"
    /\ \A p \in Polls : pollChan[p] # ch

\* A routine holds a command it took from the list.
Holds(ch) == routine[ch] \in {"offer", "requeue"}

Fault == faults < MaxFaults /\ faults' = faults + 1

\* A command of an agent is gone for good.
Lose(a, c) ==
    /\ lost' = [lost EXCEPT ![a] = @ \cup {c}]
    /\ Fault
    /\ UNCHANGED received

\* A goroutine goes on from one control point to the next.
RoutineGoes(ch, from, to) ==
    routine[ch] = from /\ routine' = [routine EXCEPT ![ch] = to]

HandlerGoes(p, from, to) ==
    pollPc[p] = from /\ pollPc' = [pollPc EXCEPT ![p] = to]

-----------------------------------------------------------------------------
(* The HTTP handler of GET /gid/nid/cmd. *)

\* Variant: two handlers both find no producer, without the lock.
getProducerChanUnlocked(p) ==
    \E ch \in Chans :
        /\ ChanAgent[ch] = PollAgent[p]
        /\ Fresh(ch)
        /\ producers' = [producers EXCEPT ![PollAgent[p]] = ch]
        /\ routine' = [routine EXCEPT ![ch] = "select"]
        /\ pollChan' = [pollChan EXCEPT ![p] = ch]

\* getProducerChan, one critical section of producersLock: the registered
\* channel of the agent, or a new one and a new routine.
getProducerChan(p) ==
    LET a == PollAgent[p] IN
    \/ /\ producers[a] # NoChan
       /\ pollChan' = [pollChan EXCEPT ![p] = producers[a]]
       /\ UNCHANGED <<producers, routine>>
    \/ /\ producers[a] = NoChan
       /\ \E ch \in Chans :
            /\ ChanAgent[ch] = a
            /\ Fresh(ch)
            /\ producers' = [producers EXCEPT ![a] = ch]
            /\ routine' = [routine EXCEPT ![ch] = "select"]
            /\ pollChan' = [pollChan EXCEPT ![p] = ch]

StartPoll(p) ==
    /\ HandlerGoes(p, "idle", "send")
    /\ ~ Served(p)
    /\ getProducerChan(p)
    /\ UNCHANGED <<roles, serving, hand, payload, queueVars, fateVars>>

\* producer <- data meets <-producer.
Accept(ch, p) ==
    /\ RoutineGoes(ch, "select", "setroles")
    /\ HandlerGoes(p, "send", "accepted")
    /\ pollChan[p] = ch
    /\ serving' = [serving EXCEPT ![ch] = p]
    /\ pollChan' = [pollChan EXCEPT ![p] = NoChan]
    /\ UNCHANGED <<roles, producers, hand, payload, queueVars, fateVars>>

\* The handler's 60 s are over while the routine is busy with other polls.
\* A routine in its select takes a waiting poll at once, a closed channel
\* panics at once: in neither case can the timer win.
SendTimeout(p) ==
    /\ HandlerGoes(p, "send", "idle")
    /\ routine[pollChan[p]] # "select" /\ ~ Closed(pollChan[p])
    /\ pollChan' = [pollChan EXCEPT ![p] = NoChan]
    /\ UNCHANGED <<roles, routineVars, payload, queueVars, fateVars>>

\* The send panics on a closed channel; gin's recovery answers 500.
SendPanics(p) ==
    /\ HandlerGoes(p, "send", "idle")
    /\ Closed(pollChan[p])
    /\ pollChan' = [pollChan EXCEPT ![p] = NoChan]
    /\ UNCHANGED <<roles, routineVars, payload, queueVars, fateVars>>

\* The handler blocks in its second select: only now can it be handed a
\* command.
EnterWait(p) ==
    /\ HandlerGoes(p, "accepted", "wait")
    /\ UNCHANGED <<roles, routineVars, pollChan, payload, queueVars, fateVars>>

\* The select ends without a command: MsgChan was closed ...
ReceiveClosed(p) ==
    /\ HandlerGoes(p, "wait", "reply")
    /\ ~ Served(p)
    /\ UNCHANGED <<roles, routineVars, pollChan, payload, queueVars, fateVars>>

\* ... or the client went away or 60 s passed, and the routine still serves.
GiveUp(p) ==
    /\ HandlerGoes(p, "wait", "reply")
    /\ Served(p)
    /\ UNCHANGED <<roles, routineVars, pollChan, payload, queueVars, fateVars>>

\* Variant: the empty answer is taken for a command.
ReplyAlwaysCommand(p) ==
    /\ HandlerGoes(p, "reply", "idle")
    /\ payload' = [payload EXCEPT ![p] = NoCommand]
    /\ received' = [received EXCEPT ![PollAgent[p]] = @ \cup {payload[p]}]
    /\ UNCHANGED <<roles, routineVars, pollChan, queueVars, lost, faults>>

\* c.String(200, payload) reaches the agent.
Reply(p) ==
    /\ HandlerGoes(p, "reply", "idle")
    /\ payload' = [payload EXCEPT ![p] = NoCommand]
    /\ received' = [received EXCEPT ![PollAgent[p]] =
                        @ \cup ({payload[p]} \ {NoCommand})]
    /\ UNCHANGED <<roles, routineVars, pollChan, queueVars, lost, faults>>

\* The connection is gone: nobody learns that the command was not received.
ReplyLost(p) ==
    /\ HandlerGoes(p, "reply", "idle")
    /\ payload[p] # NoCommand
    /\ payload' = [payload EXCEPT ![p] = NoCommand]
    /\ Lose(PollAgent[p], payload[p])
    /\ UNCHANGED <<roles, routineVars, pollChan, queueVars>>

-----------------------------------------------------------------------------
(* The routine of an agent. *)

RecordRoles(ch) ==
    /\ RoutineGoes(ch, "setroles", "dequeue")
    /\ SetRoles(ChanAgent[ch], PollRoles[serving[ch]])
    /\ UNCHANGED <<producers, serving, hand, handlerVars, queueVars, fateVars>>

\* Variant: the head is read and left in the list.
PeekOnly(ch) ==
    LET a == ChanAgent[ch] IN
    /\ RoutineGoes(ch, "dequeue", "offer")
    /\ agentQueue[a] # <<>>
    /\ hand' = [hand EXCEPT ![ch] = Head(agentQueue[a])]
    /\ UNCHANGED <<roles, producers, serving, handlerVars, queueVars,
                   fateVars>>

\* BLPOP returns the head of the agent's list.
BlockingDequeue(ch) ==
    LET a == ChanAgent[ch] IN
    /\ RoutineGoes(ch, "dequeue", "offer")
    /\ agentQueue[a] # <<>>
    /\ hand' = [hand EXCEPT ![ch] = Head(agentQueue[a])]
    /\ agentQueue' = [agentQueue EXCEPT ![a] = Tail(@)]
    /\ UNCHANGED <<roles, producers, serving, handlerVars, enqueued, fateVars>>

\* The connection's 15 s read timeout: nothing arrived.
DequeueTimeout(ch) ==
    /\ RoutineGoes(ch, "dequeue", "closemsg")
    /\ agentQueue[ChanAgent[ch]] = <<>>
    /\ UNCHANGED <<roles, producers, serving, hand, handlerVars, queueVars,
                   fateVars>>

\* Redis popped the element but its answer lost against the timeout or the
\* connection: the routine sees only an error.
DequeueLost(ch) ==
    LET a == ChanAgent[ch] IN
    /\ RoutineGoes(ch, "dequeue", "closemsg")
    /\ agentQueue[a] # <<>>
    /\ agentQueue' = [agentQueue EXCEPT ![a] = Tail(@)]
    /\ Lose(a, Head(agentQueue[a]))
    /\ UNCHANGED <<roles, producers, serving, hand, handlerVars, enqueued>>

\* The non-blocking send on MsgChan finds the handler waiting.
HandOver(ch) ==
    LET p == serving[ch] IN
    /\ RoutineGoes(ch, "offer", "running")
    /\ HandlerGoes(p, "wait", "reply")
    /\ payload' = [payload EXCEPT ![p] = hand[ch]]
    /\ UNCHANGED <<roles, producers, serving, hand, pollChan, queueVars,
                   fateVars>>

\* Variant: no default branch that pushes the command back.
OfferDropped(ch) ==
    /\ RoutineGoes(ch, "offer", "closemsg")
    /\ pollPc[serving[ch]] # "wait"
    /\ UNCHANGED <<roles, producers, serving, hand, handlerVars, queueVars,
                   fateVars>>

\* It does not: the handler gave up, or is not yet at its select.
OfferRefused(ch) ==
    /\ RoutineGoes(ch, "offer", "requeue")
    /\ pollPc[serving[ch]] # "wait"
    /\ UNCHANGED <<roles, producers, serving, hand, handlerVars, queueVars,
                   fateVars>>

ReportUnexecutedCommand(ch) ==
    LET a == ChanAgent[ch] IN
    /\ RoutineGoes(ch, "requeue", "closemsg")
    /\ hand' = [hand EXCEPT ![ch] = NoCommand]
    /\ agentQueue' = [agentQueue EXCEPT ![a] = Append(@, hand[ch])]
    /\ UNCHANGED <<roles, producers, serving, handlerVars, enqueued, fateVars>>

\* The RPUSH is buffered by Send and its failure is never looked at.
RequeueLost(ch) ==
    /\ RoutineGoes(ch, "requeue", "closemsg")
    /\ hand' = [hand EXCEPT ![ch] = NoCommand]
    /\ Lose(ChanAgent[ch], hand[ch])
    /\ UNCHANGED <<roles, producers, serving, handlerVars, queueVars>>

\* The RUNNING response is written (see Controller for its steps).
ReportedRunning(ch) ==
    /\ RoutineGoes(ch, "running", "closemsg")
    /\ hand' = [hand EXCEPT ![ch] = NoCommand]
    /\ UNCHANGED <<roles, producers, serving, handlerVars, queueVars,
                   fateVars>>

\* Variant: the close is forgotten.
KeepMsgChan(ch) ==
    /\ RoutineGoes(ch, "closemsg", "select")
    /\ UNCHANGED <<roles, producers, serving, hand, handlerVars, queueVars,
                   fateVars>>

\* The deferred close(msgChan), and back to the select.
CloseMsgChan(ch) ==
    /\ RoutineGoes(ch, "closemsg", "select")
    /\ serving' = [serving EXCEPT ![ch] = NoPoll]
    /\ UNCHANGED <<roles, producers, hand, handlerVars, queueVars, fateVars>>

\* Variant: the channel is unregistered and its routine goes on.
ExpireAndGoOn(ch) ==
    /\ routine[ch] = "select"
    /\ producers' = [producers EXCEPT ![ChanAgent[ch]] = NoChan]
    /\ UNCHANGED <<roles, routine, serving, hand, handlerVars, queueVars,
                   fateVars>>

\* Variant: the channel is unregistered before the lock is taken.
ExpireUnregistered(ch) ==
    /\ RoutineGoes(ch, "select", "expired")
    /\ producers' = [producers EXCEPT ![ChanAgent[ch]] = NoChan]
    /\ UNCHANGED <<roles, serving, hand, handlerVars, queueVars, fateVars>>

\* Variant: a routine stays as long as its agent has commands.
ExpireWhenEmpty(ch) ==
    /\ RoutineGoes(ch, "select", "expired")
    /\ agentQueue[ChanAgent[ch]] = <<>>
    /\ UNCHANGED <<roles, producers, serving, hand, handlerVars, queueVars,
                   fateVars>>

\* 30 s without a poll: the deferred function closes the channel, while the
\* channel is still registered ...
Expire(ch) ==
    /\ RoutineGoes(ch, "select", "expired")
    /\ UNCHANGED <<roles, producers, serving, hand, handlerVars, queueVars,
                   fateVars>>

\* Variant: the agent is not dropped.
CleanUpOnly(ch) ==
    /\ RoutineGoes(ch, "expired", "none")
    /\ producers' = [producers EXCEPT ![ChanAgent[ch]] = NoChan]
    /\ UNCHANGED <<roles, serving, hand, handlerVars, queueVars, fateVars>>

\* ... and then, holding producersLock, forgets it and drops the agent.
CleanUp(ch) ==
    LET a == ChanAgent[ch] IN
    /\ RoutineGoes(ch, "expired", "none")
    /\ producers' = [producers EXCEPT ![a] = NoChan]
    /\ DropAgent(a)
    /\ UNCHANGED <<serving, hand, handlerVars, queueVars, fateVars>>

-----------------------------------------------------------------------------
(* The rest of the program and the world. *)

\* POST /gid/nid/event: alive, and no roles until the next poll.
Event(a) ==
    /\ a \in EventAgents
    /\ MarkAsAlive(a)
    /\ UNCHANGED <<goVars, queueVars, fateVars>>

\* RPUSH on the agent's list.
PushToAgent(a, c) ==
    /\ agentQueue' = [agentQueue EXCEPT ![a] = Append(@, c)]
    /\ enqueued' = [enqueued EXCEPT ![a] = @ \cup {c}]
    /\ UNCHANGED <<roles, goVars, fateVars>>

\* The dispatcher enqueues a command, at most once per agent: an assumption
\* of this module, which Controller is checked to meet.
Enqueue(a, c) == c \notin enqueued[a] /\ PushToAgent(a, c)

\* What a crash of the process destroys: commands in a routine's hand or in
\* a handler's unsent response.
InFlight(a) ==
    LET held == {ch \in Chans : ChanAgent[ch] = a /\ Holds(ch)}
        unsent == {p \in Polls : PollAgent[p] = a /\ payload[p] # NoCommand}
    IN  {hand[ch] : ch \in held} \cup {payload[p] : p \in unsent}

\* The process dies and is restarted; only Redis remembers.
Crash ==
    /\ Fault
    /\ roles' = [a \in {} |-> {}]
    /\ producers' = [a \in Agents |-> NoChan]
    /\ routine' = [ch \in Chans |-> "none"]
    /\ serving' = [ch \in Chans |-> NoPoll]
    /\ hand' = [ch \in Chans |-> NoCommand]
    /\ pollPc' = [p \in Polls |-> "idle"]
    /\ pollChan' = [p \in Polls |-> NoChan]
    /\ payload' = [p \in Polls |-> NoCommand]
    /\ lost' = [a \in Agents |-> lost[a] \cup InFlight(a)]
    /\ UNCHANGED <<queueVars, received>>

-----------------------------------------------------------------------------
\* A routine's own steps; faults aside it always has one.
RoutineStep(ch) ==
    \/ \E p \in Polls : Accept(ch, p)
    \/ RecordRoles(ch)
    \/ BlockingDequeue(ch)
    \/ DequeueTimeout(ch)
    \/ HandOver(ch)
    \/ OfferRefused(ch)
    \/ ReportUnexecutedCommand(ch)
    \/ ReportedRunning(ch)
    \/ CloseMsgChan(ch)
    \/ Expire(ch)
    \/ CleanUp(ch)

\* A handler's own steps, those of its 60 s timers left aside.
HandlerStep(p) ==
    \/ SendPanics(p)
    \/ EnterWait(p)
    \/ ReceiveClosed(p)
    \/ Reply(p)

PollFault ==
    \/ \E ch \in Chans : DequeueLost(ch) \/ RequeueLost(ch)
    \/ \E p \in Polls : ReplyLost(p)
    \/ Crash

PollNext ==
    \/ \E ch \in Chans : RoutineStep(ch)
    \/ \E p \in Polls : StartPoll(p) \/ HandlerStep(p)
                          \/ SendTimeout(p) \/ GiveUp(p)
    \/ \E a \in Agents : Event(a) \/ \E c \in Commands : Enqueue(a, c)
    \/ PollFault

PollSpec == PollInit /\ [][PollNext]_pollVars

\* The Go scheduler runs every goroutine that can run; Redis answers or
\* times out; the 30 s timer fires.
PollFairness ==
    /\ \A ch \in Chans : WF_pollVars(RoutineStep(ch))
    /\ \A p \in Polls : WF_pollVars(HandlerStep(p))

FairPollSpec == PollSpec /\ PollFairness
=============================================================================
