-------------------------- MODULE ClientProperties --------------------------
(***************************************************************************)
(* What a caller of the client library gets, given a controller that does  *)
(* what CommandLifecycle says.                                             *)
(***************************************************************************)
EXTENDS Client

Heard(c) == {answers[c][i][1] : i \in DOMAIN answers[c]}

\* A call that waited for its agents has the terminal response of each one
\* that ever responds, except those found RUNNING again after their done
\* signal; it rests on the responders being complete at the pick-up signal
\* and on each done signal following its response
\* (client/lowlevelclient.go:126-157).
EveryResponderIsHeard ==
    \A c \in Commands :
        (cpc[c] = "closed" /\ held[c] = Nothing) =>
            ResponseTo(c) \subseteq Heard(c) \cup late[c]

\* A call never waits in vain for nor reports a responder nobody announced:
\* what it reads after a done signal is a response of that agent and no
\* longer QUEUED (client/lowlevelclient.go:152-153).
DoneAgentAnswered ==
    \A c \in Commands :
        cpc[c] = "deliver" => responses[c][target[c]] \notin {NoResponse, "QUEUED"}

\* No call panics for want of a response, and SchedulerAddJob, which takes
\* silence for success, reports success only of an operation the controller
\* answered and did not refuse (client/client.go:37-43, 181-205, 221).
SuccessIsConfirmed ==
    \A c \in Commands :
        /\ outcome[c] # "panic"
        /\ outcome[c] = "success" =>
              \E k \in Keys : jobresult[c][k] \in TerminalStates \ {"ERROR"}

\* Once a command is picked up and each of its responders has signalled that
\* it is done, the call returns and leaves no goroutine waiting
\* (client/lowlevelclient.go:124-158, responsefilters.go:11-24).
CallReturns ==
    \A c \in Commands :
        (/\ cpc[c] # "idle"
         /\ c \in pickedUp
         /\ \A k \in ResponseTo(c) :
              \E s \in TerminalStates : <<c, k, s>> \in doneSignals)
        ~> (outcome[c] # "none" /\ ChannelClosed(c))

-----------------------------------------------------------------------------
(* What the documentation says and the code does not keep. *)

\* "we should expect as many responses out of the response channels as there
\* are targeted nodes" (client/README.md:50-51), even when no agent is found
\* RUNNING after it was done.
OneResponsePerTarget ==
    \A c \in Commands :
        (outcome[c] # "none" /\ late[c] = {}) =>
            Len(answers[c]) = Cardinality(ResponseTo(c))
=============================================================================
