------------------------------ MODULE Processor ------------------------------
(***************************************************************************)
(* Package commandprocessing: two loops, one for the commands logged in    *)
(* cmds.log.queue and one for the responses logged in results.queue; each  *)
(* pops an entry and calls a Python extension with it, or discards it when *)
(* the extension is disabled.                                              *)
(***************************************************************************)
EXTENDS Naturals, Sequences

CONSTANTS
    Entries,   \* what is logged
    NoEntry

Loops == {"commands", "results"}

ASSUME ProcessorAssumption == NoEntry \notin Entries

VARIABLES
    enabled,    \* the extension is configured
    logQueue,   \* the list each loop pops from
    inHand,     \* the entry each loop processes
    processed   \* the entries the extension was called with, in order

processorVars == <<enabled, logQueue, inHand, processed>>

ProcessorTypeOK ==
    /\ enabled \in BOOLEAN
    /\ logQueue \in [Loops -> Seq(Entries)]
    /\ inHand \in [Loops -> Entries \cup {NoEntry}]
    /\ processed \in [Loops -> Seq(Entries)]

ProcessorInit ==
    /\ enabled \in BOOLEAN
    /\ logQueue = [l \in Loops |-> <<>>]
    /\ inHand = [l \in Loops |-> NoEntry]
    /\ processed = [l \in Loops |-> <<>>]

\* RPUSH by whoever logs.
Log(l, entry) ==
    /\ logQueue' = [logQueue EXCEPT ![l] = Append(@, entry)]
    /\ UNCHANGED <<enabled, inHand, processed>>

\* Variant: the entry stays in the list until it is processed.
PeekEntry(l) ==
    /\ inHand[l] = NoEntry
    /\ logQueue[l] # <<>>
    /\ inHand' = [inHand EXCEPT ![l] = Head(logQueue[l])]
    /\ UNCHANGED <<enabled, logQueue, processed>>

PopEntry(l) ==
    /\ inHand[l] = NoEntry
    /\ logQueue[l] # <<>>
    /\ inHand' = [inHand EXCEPT ![l] = Head(logQueue[l])]
    /\ logQueue' = [logQueue EXCEPT ![l] = Tail(@)]
    /\ UNCHANGED <<enabled, processed>>

\* Variant: the extension is called after a timeout too, with nothing.
ProcessNothing(l) ==
    /\ processed' = [processed EXCEPT ![l] =
                        IF enabled THEN Append(@, inHand[l]) ELSE @]
    /\ inHand' = [inHand EXCEPT ![l] = NoEntry]
    /\ UNCHANGED <<enabled, logQueue>>

\* A failing call is logged and not repeated.
Process(l) ==
    /\ inHand[l] # NoEntry
    /\ processed' = [processed EXCEPT ![l] =
                        IF enabled THEN Append(@, inHand[l]) ELSE @]
    /\ inHand' = [inHand EXCEPT ![l] = NoEntry]
    /\ UNCHANGED <<enabled, logQueue>>

\* Redis popped an entry, but its answer came too late: a timeout, after
\* which the loop goes on.
EntryLost(l) ==
    /\ inHand[l] = NoEntry
    /\ logQueue[l] # <<>>
    /\ logQueue' = [logQueue EXCEPT ![l] = Tail(@)]
    /\ UNCHANGED <<enabled, inHand, processed>>

ProcessorCrash ==
    /\ inHand' = [l \in Loops |-> NoEntry]
    /\ UNCHANGED <<enabled, logQueue, processed>>
=============================================================================
