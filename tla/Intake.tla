------------------------------- MODULE Intake -------------------------------
(***************************************************************************)
(* The command sources with the logs they and the agents write, and the    *)
(* processor that reads these.                                             *)
(***************************************************************************)
EXTENDS Jumpscripts, Processor

VARIABLE answered   \* answered[c]: what the agent got for the hash of c

intakeVars == <<jumpscriptVars, processorVars, answered>>

Replies == {"none", "200", "404"}

ASSUME IntakeAssumption == Entries = Commands \X (Bodies \cup Replies)

IntakeTypeOK ==
    /\ JumpscriptsTypeOK
    /\ ProcessorTypeOK
    /\ answered \in [Commands -> Replies]

IntakeInit ==
    /\ JumpscriptsInit
    /\ ProcessorInit
    /\ answered = [c \in Commands |-> "none"]

\* Variant: the command is logged as the agents get it.
LogIntercepted ==
    /\ Logged
    /\ Log("commands", IF HeldScript \in Scripts THEN <<Held, "hash">> ELSE scmd)
    /\ UNCHANGED answered

\* The logger sees the command as it was popped.
LogPopped ==
    /\ Logged
    /\ Log("commands", scmd)
    /\ UNCHANGED answered

\* The push to the log is buffered and lost.
LogLost ==
    /\ spc = "log" /\ spc' = "intercept"
    /\ Fault
    /\ UNCHANGED <<pushed, queue, scmd, onTheWay, storeVars, ticks,
                   processorVars, answered>>

\* An agent runs a command it got: it fetches the script a hash stands for,
\* and its result is logged.
Run(c) ==
    /\ answered[c] = "none"
    /\ \E way \in onTheWay :
         /\ way[1] = c
         /\ answered' = [answered EXCEPT ![c] =
                IF way[2] = "hash" THEN script(Script[c]) ELSE "200"]
    /\ Log("results", <<c, answered'[c]>>)
    /\ UNCHANGED jumpscriptVars

Source ==
    /\ Pop \/ Intercept \/ SetScript \/ ExpireScript \/ Forward
    /\ UNCHANGED <<processorVars, answered>>

Processing(l) ==
    /\ PopEntry(l) \/ Process(l)
    /\ UNCHANGED <<jumpscriptVars, answered>>

Losses ==
    \/ /\ StoreLost \/ AddFails \/ SourcePopLost
       /\ UNCHANGED <<processorVars, answered>>
    \/ LogLost
    \/ /\ Fault
       /\ \E l \in Loops : EntryLost(l)
       /\ UNCHANGED <<pushed, sourceVars, storeVars, ticks, answered>>
    \/ SourceCrash /\ ProcessorCrash /\ UNCHANGED answered

IntakeNext ==
    \/ \E c \in Commands : Run(c)
    \/ /\ Tick \/ \E c \in Commands : PushCommand(c)
       /\ UNCHANGED <<processorVars, answered>>
    \/ Source \/ LogPopped \/ Losses
    \/ \E l \in Loops : Processing(l)

IntakeSpec == IntakeInit /\ [][IntakeNext]_intakeVars

FairIntakeSpec ==
    /\ IntakeSpec
    /\ WF_intakeVars(Source \/ LogPopped)
    /\ \A l \in Loops : WF_intakeVars(Processing(l))
=============================================================================
