------------------------------ MODULE MCLedger ------------------------------
(* Instances of Ledger for TLC. *)
EXTENDS Ledger, TLC

CONSTANTS t1, t2, c1, c2

MCOneTeam == {t1}
MCTwoTeams == {t1, t2}
MCOneCheck == {c1}
MCTwoChecks == {c1, c2}
MCAdjustments == {-2, 3}
MCNoAdjustments == {}
=============================================================================
