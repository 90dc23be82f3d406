----------------------------- MODULE MCInjects -----------------------------
(* Instances of Injects for TLC. *)
EXTENDS Injects, TLC

CONSTANTS t1, t2

MCTeams == {t1, t2}
MCOneTeam == {t1}

\* An inject of injects.conf that is open from the start and closes two ticks after it.
MCConfigInjects == <<[time |-> 0, closes |-> 2, points |-> 10]>>

\* Two injects that are open when they are configured (Closes is an instant).
MCTwoInjects == <<[time |-> 0, closes |-> MaxClock, points |-> 10],
                  [time |-> GoZero, closes |-> MaxClock, points |-> 20]>>

\* POST /injects with an absolute closing time, as submitInject wants it.
MCApiInjects == {[closes |-> MaxClock, points |-> 20]}
MCNoApiInjects == {}

\* A failed query and a reset or pause are taken one at a time.
OneUpset == resets + failures <= 1

TeamSymmetry == Permutations(MCTeams)
=============================================================================
