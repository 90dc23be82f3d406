---------------------------- MODULE MCCheckRound ----------------------------
(* An instance of CheckRound for TLC. *)
EXTENDS CheckRound

CONSTANTS t1, t2, imap

MCTeams == {t1, t2}
MCChecks == {imap}
=============================================================================
