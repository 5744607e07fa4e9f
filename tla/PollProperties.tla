--------------------------- MODULE PollProperties ---------------------------
(***************************************************************************)
(* Correctness of PollService: exclusive service, no command in two        *)
(* places, agreement between the registry of routines and the agent        *)
(* information, progress.                                                  *)
(***************************************************************************)
EXTENDS PollService

-----------------------------------------------------------------------------
(* Exclusive service. *)

\* A routine lives exactly as long as its channel is the one registered for
\* its agent: getProducerChan never starts a second routine next to a live
\* one, and a routine on its way out never unregisters its successor
\* (application.go:281-299, producersLock).
LiveRoutineIsRegistered ==
    \A ch \in Chans :
        (routine[ch] # "none") <=> (producers[ChanAgent[ch]] = ch)

\* "we are sure this is the ONLY agent polling on /gid/nid/cmd"
\* (rest/cmd.go:43, core/polldata.go:7): of all the handlers of an agent at
\* most one is in a routine's hands, across expiry and re-creation of the
\* channel, abandoned polls and restarts.
OnePollServed ==
    \A p, q \in Polls :
        Served(p) /\ Served(q) /\ PollAgent[p] = PollAgent[q] => p = q

-----------------------------------------------------------------------------
(* Delivery. *)

\* Every place where command c of agent a can be found.
Spots(a, c) ==
    {<<"queue", i>> : i \in {j \in DOMAIN agentQueue[a] :
                                agentQueue[a][j] = c}}
    \cup {<<"hand", ch>> : ch \in {k \in Chans :
                    ChanAgent[k] = a /\ Holds(k) /\ hand[k] = c}}
    \cup {<<"payload", p>> : p \in {q \in Polls :
                    PollAgent[q] = a /\ payload[q] = c}}
    \cup (IF c \in received[a] THEN {<<"received", 0>>} ELSE {})
    \cup (IF c \in lost[a] THEN {<<"lost", 0>>} ELSE {})

\* A command enqueued for an agent is in exactly one place: the pop, the
\* hand-over, the refusal and the re-push never duplicate it, and it only
\* disappears where a fault made it disappear (application.go:318-336).
CommandInOnePlace ==
    \A a \in Agents, c \in Commands :
        /\ c \in enqueued[a] <=> Spots(a, c) # {}
        /\ \A s, t \in Spots(a, c) : s = t

\* The abstract place of every command, for the refinement below.
Place ==
    [a \in Agents |-> [c \in Commands |->
        IF c \in received[a] THEN "received"
        ELSE IF c \in lost[a] THEN "lost"
        ELSE IF c \in ToSet(agentQueue[a]) THEN "queued"
        ELSE IF c \in InFlight(a) THEN "held"
        ELSE "new"]]

AtMostOnce == INSTANCE Delivery WITH place <- Place

\* The routines and handlers implement at-most-once delivery: every step is
\* a move that Delivery allows (application.go:277-349 and rest/cmd.go).
ImplementsDelivery == AtMostOnce!Spec

-----------------------------------------------------------------------------
(* Agent information. *)

\* An agent is dropped only when no handler of it is being served: the
\* clean-up of an expired routine never hits an agent that already polls on
\* a new channel (application.go:294-298).
DropsOnlyUnserved ==
    [][\A a \in Agents :
          a \in ConnectedAgents /\ a \notin ConnectedAgents' =>
             \A p \in Polls : PollAgent[p] = a => ~ Served(p)']_pollVars

\* A listed agent without a routine, which is what would drop it.
Stranded(a) == a \in ConnectedAgents /\ producers[a] = NoChan

\* Nothing but an event of its own leaves an agent listed without a routine:
\* the routine that lists an agent is the registered one when it does, and it
\* drops the agent in the critical section in which it unregisters
\* (application.go:294-298, 316; events/events.go:71-73).
OnlyEventsStrand ==
    [][\A a \in Agents : Stranded(a)' /\ ~ Stranded(a) => Event(a)]_pollVars

-----------------------------------------------------------------------------
(* Progress, under FairPollSpec. *)

\* A handler a routine has taken is always answered, without the help of
\* its own 60 s timer (core/polldata.go:4-7, application.go:313-338).
AcceptedPollIsAnswered ==
    \A p \in Polls : pollPc[p] = "accepted" ~> pollPc[p] = "idle"

Silent(a) ==
    /\ <>[](\A p \in Polls : PollAgent[p] = a => pollPc[p] = "idle")
    /\ <>[][~ Event(a)]_pollVars

\* An agent that neither polls nor posts events any more is eventually
\* unlisted for good (agents are "live", client/client.go:26; the routine's
\* timeout, application.go:307-310), unless an event stranded it.
SilentAgentIsDropped ==
    \A a \in Agents :
        Silent(a) => <>[](a \notin ConnectedAgents \/ Stranded(a))

-----------------------------------------------------------------------------
(* What the code says and does not keep. *)

\* "no agent tried to connect" when the channel is closed
\* (application.go:293).
NobodyConnectsAtClose ==
    \A p \in Polls : pollPc[p] = "send" => ~ Closed(pollChan[p])
=============================================================================
