----------------------------- MODULE Jumpscripts -----------------------------
(***************************************************************************)
(* The chain of command sources the dispatch loop pops from: the Redis     *)
(* list cmds.queue, the logger around it, and around that the interceptor  *)
(* which stores the content of a jumpscript under its hash, for a day, and *)
(* puts the hash in the command; the agent that gets the command fetches   *)
(* the content later.                                                      *)
(*                                                                         *)
(* Where a command goes from here is the subject of Dispatcher and         *)
(* PollService: here it is just on its way to an agent.  Time counts in    *)
(* fractions of the day a script is kept.                                  *)
(***************************************************************************)
EXTENDS Naturals, Sequences

CONSTANTS
    Commands,
    NoCommand,
    Scripts,    \* the contents of jumpscripts, each with a hash of its own
    Script,     \* Script[c]: the content c carries, or one of the next two
    NoScript,   \* c is not a jumpscript_content command
    Malformed,  \* c is one without a string as content
    TTL,        \* the time a script is kept
    MaxPushed,  \* bound on the commands pushed
    MaxTicks,   \* bound on the time that passes
    MaxFaults   \* bound on lost or failing Redis calls and on crashes

ASSUME JumpscriptsAssumption ==
    /\ NoCommand \notin Commands
    /\ Script \in [Commands -> Scripts \cup {NoScript, Malformed}]
    /\ TTL \in Nat \ {0}
    /\ MaxPushed \in Nat /\ MaxTicks \in Nat /\ MaxFaults \in Nat

VARIABLES
    pushed,     \* history: the commands in the order clients pushed them
    queue,      \* cmds.queue
    spc,        \* control point of the loop inside BlockingPop
    scmd,       \* the command it holds
    store,      \* store[s]: the time left to the value jumpscript:hash(s)
    onTheWay,   \* <<c, body>>: commands that went on to agents
    age,        \* history: the time since c's script was stored
    unsaved,    \* history: commands whose script may not have been stored
    unarmed,    \* history: scripts whose last EXPIRE did not happen
    ticks, faults

sourceVars == <<queue, spc, scmd, onTheWay>>
storeVars == <<store, age, unsaved, unarmed>>
jumpscriptVars == <<pushed, sourceVars, storeVars, ticks, faults>>

Gone == 0              \* no such key
Forever == TTL + 1     \* a key without expiry

Bodies == {"plain", "content", "hash"}

\* A script that is not intercepted travels like any other data.
SentBody(c) == IF Script[c] \in Scripts THEN "content" ELSE "plain"

JumpscriptsTypeOK ==
    /\ pushed \in Seq(Commands)
    /\ queue \in Seq(Commands)
    /\ spc \in {"pop", "log", "intercept", "set", "expire", "forward"}
    /\ scmd \in (Commands \X Bodies) \cup {NoCommand}
    /\ store \in [Scripts -> Gone..Forever]
    /\ onTheWay \subseteq Commands \X Bodies
    /\ age \in [Commands -> 0..TTL]
    /\ unsaved \subseteq Commands
    /\ unarmed \subseteq Scripts
    /\ ticks \in 0..MaxTicks
    /\ faults \in 0..MaxFaults

JumpscriptsInit ==
    /\ pushed = <<>>
    /\ queue = <<>>
    /\ spc = "pop"
    /\ scmd = NoCommand
    /\ store = [s \in Scripts |-> Gone]
    /\ onTheWay = {}
    /\ age = [c \in Commands |-> TTL]
    /\ unsaved = {}
    /\ unarmed = {}
    /\ ticks = 0
    /\ faults = 0

\* The command the loop holds, its script, and the key of it.
Held == scmd[1]
HeldScript == Script[scmd[1]]

SourceGoes(from, to) == spc = from /\ spc' = to

Fault == faults < MaxFaults /\ faults' = faults + 1

-----------------------------------------------------------------------------
PushCommand(c) ==
    /\ Len(pushed) < MaxPushed
    /\ \A i \in DOMAIN pushed : pushed[i] # c
    /\ pushed' = Append(pushed, c)
    /\ queue' = Append(queue, c)
    /\ UNCHANGED <<spc, scmd, onTheWay, storeVars, ticks, faults>>

Pop ==
    /\ SourceGoes("pop", "log")
    /\ queue # <<>>
    /\ queue' = Tail(queue)
    /\ scmd' = <<Head(queue), SentBody(Head(queue))>>
    /\ UNCHANGED <<pushed, onTheWay, storeVars, ticks, faults>>

\* The logger is done with the command.
Logged ==
    /\ SourceGoes("log", "intercept")
    /\ UNCHANGED <<pushed, queue, scmd, onTheWay, storeVars, ticks, faults>>

\* Variant: a jumpscript without content is dropped.
InterceptOrDrop ==
    /\ SourceGoes("intercept",
                  IF HeldScript \in Scripts THEN "set"
                  ELSE IF HeldScript = Malformed THEN "pop" ELSE "forward")
    /\ UNCHANGED <<pushed, queue, scmd, onTheWay, storeVars, ticks, faults>>

\* Only jumpscript_content commands with a content are intercepted.
Intercept ==
    /\ SourceGoes("intercept",
                  IF HeldScript \in Scripts THEN "set" ELSE "forward")
    /\ UNCHANGED <<pushed, queue, scmd, onTheWay, storeVars, ticks, faults>>

\* Variant: a script that is there is not stored again.
SetIfGone ==
    /\ SourceGoes("set", IF store[HeldScript] = Gone THEN "expire" ELSE "forward")
    /\ store' = [store EXCEPT ![HeldScript] = IF @ = Gone THEN Forever ELSE @]
    /\ scmd' = <<Held, "hash">>
    /\ age' = [age EXCEPT ![Held] = 0]
    /\ UNCHANGED <<pushed, queue, onTheWay, unsaved, unarmed, ticks, faults>>

\* SET, which also takes the expiry off a value that is there.
SetScript ==
    /\ SourceGoes("set", "expire")
    /\ store' = [store EXCEPT ![HeldScript] = Forever]
    /\ age' = [age EXCEPT ![Held] = 0]
    /\ UNCHANGED <<pushed, queue, scmd, onTheWay, unsaved, unarmed, ticks,
                   faults>>

\* Variant: EXPIRE precedes SET, which takes the expiry off again.
ExpireBeforeSet ==
    /\ SourceGoes("expire", "forward")
    /\ unarmed' = unarmed \ {HeldScript}
    /\ scmd' = <<Held, "hash">>
    /\ UNCHANGED <<pushed, queue, onTheWay, store, age, unsaved, ticks, faults>>

\* EXPIRE, and the hash takes the place of the content.
ExpireScript ==
    /\ SourceGoes("expire", "forward")
    /\ store' = [store EXCEPT ![HeldScript] = IF @ = Gone THEN Gone ELSE TTL]
    /\ unarmed' = unarmed \ {HeldScript}
    /\ scmd' = <<Held, "hash">>
    /\ UNCHANGED <<pushed, queue, onTheWay, age, unsaved, ticks, faults>>

\* Redis never gets the buffered SET or EXPIRE, and nobody notices.
StoreLost ==
    /\ Fault
    /\ \/ /\ SourceGoes("set", "expire")
          /\ unsaved' = unsaved \cup {Held}
          /\ UNCHANGED <<scmd, unarmed>>
       \/ /\ SourceGoes("expire", "forward")
          /\ unarmed' = unarmed \cup {HeldScript}
          /\ scmd' = <<Held, "hash">>
          /\ UNCHANGED unsaved
    /\ UNCHANGED <<pushed, queue, onTheWay, store, age, ticks>>

\* Without a connection Add fails: the command goes on with its content.
AddFails ==
    /\ Fault
    /\ spc \in {"set", "expire"}
    /\ spc' = "forward"
    /\ unarmed' = IF spc = "expire" THEN unarmed \cup {HeldScript} ELSE unarmed
    /\ UNCHANGED <<pushed, queue, scmd, onTheWay, store, age, unsaved, ticks>>

\* The loop has the command, and sends it on.
Forward ==
    /\ SourceGoes("forward", "pop")
    /\ onTheWay' = onTheWay \cup {scmd}
    /\ scmd' = NoCommand
    /\ UNCHANGED <<pushed, queue, storeVars, ticks, faults>>

\* Redis popped a command, but its answer came too late.
SourcePopLost ==
    /\ Fault
    /\ spc = "pop"
    /\ queue # <<>>
    /\ queue' = Tail(queue)
    /\ UNCHANGED <<pushed, spc, scmd, onTheWay, storeVars, ticks>>

\* GET /gid/nid/script?hash=...: found, or 404.
script(s) == IF store[s] = Gone THEN "404" ELSE "200"

Tick ==
    /\ ticks < MaxTicks
    /\ ticks' = ticks + 1
    /\ store' = [s \in Scripts |-> IF store[s] \in 1..TTL
                                   THEN store[s] - 1 ELSE store[s]]
    /\ age' = [c \in Commands |-> IF age[c] < TTL THEN age[c] + 1 ELSE TTL]
    /\ UNCHANGED <<pushed, sourceVars, unsaved, unarmed, faults>>

\* The process dies with the command the loop holds.
SourceCrash ==
    /\ Fault
    /\ spc' = "pop"
    /\ scmd' = NoCommand
    /\ unarmed' = IF spc = "expire" THEN unarmed \cup {HeldScript} ELSE unarmed
    /\ UNCHANGED <<pushed, queue, onTheWay, store, age, unsaved, ticks>>
=============================================================================
