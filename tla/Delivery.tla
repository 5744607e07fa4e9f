------------------------------ MODULE Delivery ------------------------------
(***************************************************************************)
(* What the path from an agent's list to the agent promises, whatever the  *)
(* routines and handlers do: a command is submitted to an agent once, is   *)
(* then either queued or held by the controller, and ends received or      *)
(* lost.  It is received at most once, is never in two places, and neither *)
(* a received nor a lost command ever comes back.  It promises no order:   *)
(* a command that is given back goes behind later ones.                    *)
(***************************************************************************)
CONSTANTS Agents, Commands

VARIABLE place   \* place[a][c]: where command c stands for agent a

Places == {"new", "queued", "held", "received", "lost"}

TypeOK == place \in [Agents -> [Commands -> Places]]

Init == place = [a \in Agents |-> [c \in Commands |-> "new"]]

Move(a, c, from, to) ==
    /\ place[a][c] = from
    /\ place' = [place EXCEPT ![a][c] = to]

Submit(a, c) == Move(a, c, "new", "queued")
Take(a, c) == Move(a, c, "queued", "held")
GiveBack(a, c) == Move(a, c, "held", "queued")
Deliver(a, c) == Move(a, c, "held", "received")
LoseQueued(a, c) == Move(a, c, "queued", "lost")
LoseHeld(a, c) == Move(a, c, "held", "lost")

\* A crash loses everything that is held, of every agent.
LoseAllHeld ==
    place' = [a \in Agents |-> [c \in Commands |->
                IF place[a][c] = "held" THEN "lost" ELSE place[a][c]]]

Next ==
    \/ \E a \in Agents, c \in Commands :
         \/ Submit(a, c) \/ Take(a, c) \/ GiveBack(a, c)
         \/ Deliver(a, c) \/ LoseQueued(a, c) \/ LoseHeld(a, c)
    \/ LoseAllHeld

Spec == Init /\ [][Next]_place
=============================================================================
