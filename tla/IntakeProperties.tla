-------------------------- MODULE IntakeProperties --------------------------
(***************************************************************************)
(* Scripts are there as long as they are promised, and the processor sees  *)
(* what happened.                                                          *)
(***************************************************************************)
EXTENDS Intake

\* A hash on its way to an agent can be resolved for a day after its command
\* was intercepted, also when other commands with the same script store it
\* again, and fail to, meanwhile (redisdata/jumpscriptstore.go:23-40).
ScriptOutlivesItsDay ==
    \A c \in Commands :
        (<<c, "hash">> \in onTheWay /\ c \notin unsaved /\ age[c] < TTL) =>
            store[Script[c]] >= TTL - age[c]

\* No script stays in Redis for ever, but for the moment between the SET and
\* the EXPIRE and for an EXPIRE that was lost and not repeated since
\* (redisdata/jumpscriptstore.go:29-34).
ScriptsExpire ==
    \A s \in Scripts :
        store[s] = Forever => s \in unarmed \/ (spc = "expire" /\ HeldScript = s)

InLog(l) == processed[l]
            \o (IF inHand[l] = NoEntry THEN <<>> ELSE <<inHand[l]>>)
            \o logQueue[l]

Before(c, d) ==
    \E i, j \in DOMAIN pushed : i < j /\ pushed[i] = c /\ pushed[j] = d

\* The extension gets the commands as their clients sent them, with the
\* content and not its hash, in the order they were pushed and none of them
\* twice, and no result twice (commandprocessing/processor.go:59-103,
\* application.go:69-77).
ProcessedAsSent ==
    /\ \A i \in DOMAIN InLog("commands") :
         LET entry == InLog("commands")[i] IN
         /\ entry[2] = SentBody(entry[1])
         /\ \A j \in 1..(i - 1) : Before(InLog("commands")[j][1], entry[1])
    /\ \A i, j \in DOMAIN InLog("results") :
         i # j => InLog("results")[i] # InLog("results")[j]

\* Every command gets to the agents and, if the extension is enabled, to the
\* extension, unless a call was lost or the process died
\* (application.go:124-130, processor.go:105-126).
EveryCommandIsProcessed ==
    \A c \in Commands :
        (\E i \in DOMAIN pushed : pushed[i] = c) ~>
            \/ faults > 0
            \/ /\ \E b \in Bodies : <<c, b>> \in onTheWay
               /\ enabled => \E i \in DOMAIN processed["commands"] :
                                processed["commands"][i][1] = c
=============================================================================
