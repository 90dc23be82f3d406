---------------------------- MODULE MCOptional ----------------------------
(* An instance of Optional for TLC. *)
EXTENDS Optional

CONSTANTS castle

MCBoxes == {castle}

\* One mode at a time.
MCModes == {[uptime |-> FALSE, persists |-> TRUE], [uptime |-> TRUE, persists |-> FALSE]}
=============================================================================
