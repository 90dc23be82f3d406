------------------------------- MODULE MCPcr -------------------------------
(* Instances of Pcr for TLC. *)
EXTENDS Pcr

CONSTANTS ssh, web, joe

MCTwoTargets == {ssh, web}
MCOneDelayed == {web}
MCOneUser == {joe}

\* A second request comes only to a run of two rounds with one upset.
Bounded == saved <= 1 \/ (rounds <= 2 /\ edits + resets + crashes <= 1)
=============================================================================
