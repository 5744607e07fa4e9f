-------------------------- MODULE SystemProperties --------------------------
(***************************************************************************)
(* What a caller of the library gets from the whole system.                *)
(***************************************************************************)
EXTENDS System, ControllerProperties

\* The controller is an environment the client library can live with: all
\* that was shown of Client under its assumptions holds with the real one
\* (client/lowlevelclient.go:124-158 on redisdata/commandresponder.go:36-59).
ImplementsClient == Lib!ClientSpec

\* A call waits without end, first for its pick-up signal and then for each
\* responder in turn, and has no way to ask what became of them.  Whatever
\* signal it is at has been given, is on its way, or is still owed by somebody
\* who has the command, unless a fault hit that very command or answer; a
\* push that failed is one, which Execute does not notice
\* (client/lowlevelclient.go:124-151 on application.go:231-336).
NoCallWaitsInVain ==
    \A c \in Commands :
        /\ cpc[c] = "pickup" =>
              \/ c \notin sent
              \/ c \in pickedUp \cup forgotten \cup ToSet(cmdsQueue) \cup InHands
        /\ cpc[c] = "done" => Awaited(c, target[c])

\* No caller is told what is not so: who it hears to have run its command
\* received it and posted a result, and if it hears a refusal, then nobody has
\* the command or will get it (client/lowlevelclient.go:124-158 on
\* application.go:231-336).
NoCallerIsDeceived ==
    \A c \in Commands : \A i \in DOMAIN answers[c] :
        Founded(c, answers[c][i][1], answers[c][i][2])
=============================================================================
