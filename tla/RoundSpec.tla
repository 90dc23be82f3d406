------------------------------ MODULE RoundSpec ------------------------------
(***************************************************************************)
(* What one scoring round promises to the code that turns it into points   *)
(* (score.go:167-170), whatever goroutines and channels it is built from:  *)
(* every team contributes one record, the record holds exactly one result  *)
(* for every check, and that result was produced by this round's own run   *)
(* of the check.  CheckRound is shown to implement this specification.     *)
(***************************************************************************)
EXTENDS Naturals, Sequences

CONSTANTS
    Teams,        \* m.Team
    Checks,       \* the checks of all boxes (m.Box[..].CheckList)
    MaxRounds     \* bound on the number of rounds explored

VARIABLES
    round,        \* how many rounds have been started
    phase,        \* "idle" between rounds, "open" while one is running
    staging,      \* recordsStaging
    scored        \* the records the last completed round was scored from

vars == <<round, phase, staging, scored>>

\* "timeout" is the result RunCheck makes up when the check does not answer.
Verdict == {"up", "down", "timeout"}

\* The results a record of round n may hold: one per check, produced in round n.
Outcome(n) == [Checks -> {<<x>> : x \in [status : Verdict, from : {n}]}]

Init ==
    /\ round = 0
    /\ phase = "idle"
    /\ staging = {}
    /\ scored = {}

Begin ==
    /\ phase = "idle"
    /\ round < MaxRounds
    /\ round' = round + 1
    /\ phase' = "open"
    /\ UNCHANGED <<staging, scored>>

Contribute(t) ==
    /\ phase = "open"
    /\ \A r \in staging : r.team # t
    /\ \E o \in Outcome(round) :
          staging' = staging \cup {[team |-> t, round |-> round, result |-> o]}
    /\ UNCHANGED <<round, phase, scored>>

Conclude ==
    /\ phase = "open"
    /\ {r.team : r \in staging} = Teams
    /\ scored' = staging
    /\ staging' = {}
    /\ phase' = "idle"
    /\ UNCHANGED round

Next == Begin \/ Conclude \/ \E t \in Teams : Contribute(t)

Spec == Init /\ [][Next]_vars
=============================================================================
