---------------------------- MODULE MCScoreLoop ----------------------------
(* Instances of ScoreLoop for TLC. *)
EXTENDS ScoreLoop, TLC

CONSTANTS t1, t2, v1, v2

MCTeams == {t1, t2}
MCOneView == {v1}
MCTwoViews == {v1, v2}
MCNoViews == {}

MCSymmetry == Permutations(MCTeams) \cup Permutations(MCTwoViews)
=============================================================================
