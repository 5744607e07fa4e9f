------------------------------ MODULE MCIntake ------------------------------
(***************************************************************************)
(* Two commands with the same script and one without.                      *)
(***************************************************************************)
EXTENDS IntakeProperties

CONSTANTS c1, c2, c3, s1

MCScript == [c \in Commands |-> IF c = c3 THEN Malformed ELSE s1]
MCEntries == Commands \X (Bodies \cup Replies)
=============================================================================
