----------------------------- MODULE CheckRound -----------------------------
(***************************************************************************)
(* One round of service checks: the Score loop spawns a goroutine per team *)
(* (score.go:54-118), which spawns a RunCheck goroutine per check, which   *)
(* spawns check.Run (checks.go:101-116).  They meet on unbuffered          *)
(* channels: check.Run sends its verdict to RunCheck on `res`, RunCheck    *)
(* sends it on to the team on `resChan` and only then calls wg.Done, a     *)
(* closer goroutine turns wg.Wait into a closed `done` channel, and the    *)
(* team selects between the two.                                           *)
(*                                                                         *)
(* A check.Run goroutine belongs to the round that spawned it and may      *)
(* outlive it: nothing cancels it when RunCheck times out.                 *)
(***************************************************************************)
EXTENDS Naturals, Sequences

CONSTANTS
    Teams,         \* m.Team
    Checks,        \* the checks of all boxes, as m.Box stands in every round
    DoubleSenders, \* checks whose Run may send twice (imap.go:68-73, irc.go:59-74,
                   \* winrm.go:38-43)
    MaxRounds      \* bound on the number of rounds explored

ASSUME ConstantsAssumption ==
    /\ MaxRounds \in Nat
    /\ DoubleSenders \subseteq Checks

VARIABLES
    round,     \* how many rounds have been started
    phase,     \* the Score loop: "open" from the spawns until allTeamsWg.Wait returns
    team,      \* where each team's goroutine is
    wg,        \* the WaitGroup of a team, as the set of checks that still owe a Done
    closed,    \* whether the closer goroutine of a team has closed `done`
    rc,        \* where each RunCheck goroutine is
    local,     \* RunCheck's variable `result`
    run,       \* run[n][t][c]: where the check.Run goroutine of round n is
    results,   \* newRecord.Results of a team, by the name of the check
    staging,   \* recordsStaging
    scored     \* the records the loop went on with when the last round ended

vars == <<round, phase, team, wg, closed, rc, local, run, results, staging, scored>>

Verdict == {"up", "down", "timeout"}

Result == [status : Verdict, from : 1..MaxRounds]

\* Result{}: neither a success nor an error yet.
NoResult == [status |-> "none", from |-> 0]

Record == [team : Teams, round : 1..MaxRounds, result : [Checks -> Seq(Result)]]

TypeOK ==
    /\ round \in 0..MaxRounds
    /\ phase \in {"idle", "open"}
    /\ team \in [Teams -> {"idle", "spawning", "collecting", "staging", "done"}]
    /\ wg \in [Teams -> SUBSET Checks]
    /\ closed \in [Teams -> BOOLEAN]
    /\ rc \in [Teams -> [Checks -> {"none", "waiting", "have", "sent", "gone"}]]
    /\ local \in [Teams -> [Checks -> Result \cup {NoResult}]]
    /\ run \in [1..MaxRounds ->
                  [Teams -> [Checks -> {"none", "busy", "up", "down", "again", "gone"}]]]
    /\ results \in [Teams -> [Checks -> Seq(Result)]]
    /\ staging \subseteq Record
    /\ scored \subseteq Record

Init ==
    /\ round = 0
    /\ phase = "idle"
    /\ team = [t \in Teams |-> "idle"]
    /\ wg = [t \in Teams |-> {}]
    /\ closed = [t \in Teams |-> FALSE]
    /\ rc = [t \in Teams |-> [c \in Checks |-> "none"]]
    /\ local = [t \in Teams |-> [c \in Checks |-> NoResult]]
    /\ run = [n \in 1..MaxRounds |-> [t \in Teams |-> [c \in Checks |-> "none"]]]
    /\ results = [t \in Teams |-> [c \in Checks |-> <<>>]]
    /\ staging = {}
    /\ scored = {}

-----------------------------------------------------------------------------
(* The Score loop *)

\* allTeamsWg.Add and a goroutine for every team, each with a fresh wait group,
\* channels and record.
StartRound ==
    /\ phase = "idle"
    /\ round < MaxRounds
    /\ round' = round + 1
    /\ phase' = "open"
    /\ team' = [t \in Teams |-> "spawning"]
    /\ wg' = [t \in Teams |-> {}]
    /\ closed' = [t \in Teams |-> FALSE]
    /\ rc' = [t \in Teams |-> [c \in Checks |-> "none"]]
    /\ local' = [t \in Teams |-> [c \in Checks |-> NoResult]]
    /\ results' = [t \in Teams |-> [c \in Checks |-> <<>>]]
    /\ UNCHANGED <<run, staging, scored>>

\* allTeamsWg.Wait returns once every team has called Done; the staged records are
\* what the loop goes on with, and staging is emptied whether they are saved or not.
CloseRound ==
    /\ phase = "open"
    /\ \A t \in Teams : team[t] = "done"
    /\ phase' = "idle"
    /\ team' = [t \in Teams |-> "idle"]
    /\ scored' = staging
    /\ staging' = {}
    /\ UNCHANGED <<round, wg, closed, rc, local, run, results>>

-----------------------------------------------------------------------------
(* A team's goroutine *)

\* wg.Add(1) and `go RunCheck`, which at once does `go check.Run`.
SpawnCheck(t, c) ==
    /\ team[t] = "spawning"
    /\ rc[t][c] = "none"
    /\ wg' = [wg EXCEPT ![t] = @ \cup {c}]
    /\ rc' = [rc EXCEPT ![t][c] = "waiting"]
    /\ run' = [run EXCEPT ![round][t][c] = "busy"]
    /\ UNCHANGED <<round, phase, team, closed, local, results, staging, scored>>

\* After the loop over all boxes: the closer is spawned and the select loop entered.
SpawnCloser(t) ==
    /\ team[t] = "spawning"
    /\ \A c \in Checks : rc[t][c] # "none"
    /\ team' = [team EXCEPT ![t] = "collecting"]
    /\ UNCHANGED <<round, phase, wg, closed, rc, local, run, results, staging, scored>>

\* wg.Wait returns in the closer, which closes `done`.
CloseDone(t) ==
    /\ team[t] = "collecting"
    /\ ~closed[t]
    /\ wg[t] = {}
    /\ closed' = [closed EXCEPT ![t] = TRUE]
    /\ UNCHANGED <<round, phase, team, wg, rc, local, run, results, staging, scored>>

\* `case res := <-resChan`: RunCheck's send and the team's receive are one rendezvous.
Deliver(t, c) ==
    /\ team[t] = "collecting"
    /\ rc[t][c] = "have"
    /\ results' = [results EXCEPT ![t][c] = Append(@, local[t][c])]
    /\ rc' = [rc EXCEPT ![t][c] = "sent"]
    /\ UNCHANGED <<round, phase, team, wg, closed, local, run, staging, scored>>

\* `case <-done`: the select loop ends.
SeeDone(t) ==
    /\ team[t] = "collecting"
    /\ closed[t]
    /\ team' = [team EXCEPT ![t] = "staging"]
    /\ UNCHANGED <<round, phase, wg, closed, rc, local, run, results, staging, scored>>

\* Under teamMutex, the record is appended to recordsStaging; then allTeamsWg.Done.
Stage(t) ==
    /\ team[t] = "staging"
    /\ staging' = staging \cup {[team |-> t, round |-> round, result |-> results[t]]}
    /\ team' = [team EXCEPT ![t] = "done"]
    /\ UNCHANGED <<round, phase, wg, closed, rc, local, run, results, scored>>

-----------------------------------------------------------------------------
(* RunCheck and check.Run *)

\* The service answered (or refused, or the protocol failed): check.Run is at its first
\* send.  Nothing says that this ever happens, nor in which round.
Answer(n, t, c) ==
    /\ run[n][t][c] = "busy"
    /\ \E v \in {"up", "down"} : run' = [run EXCEPT ![n][t][c] = v]
    /\ UNCHANGED <<round, phase, team, wg, closed, rc, local, results, staging, scored>>

\* Where check.Run is after its first send was received.
AfterSend(c) == {"gone"} \cup (IF c \in DoubleSenders THEN {"again"} ELSE {})

\* Mutant: the channel `res` is shared by the runs of a check in all rounds.
ReceiveShared(t, c) ==
    /\ rc[t][c] = "waiting"
    /\ \E n \in 1..round :
          /\ run[n][t][c] \in {"up", "down"}
          /\ local' = [local EXCEPT ![t][c] = [status |-> run[n][t][c], from |-> n]]
          /\ \E s \in AfterSend(c) : run' = [run EXCEPT ![n][t][c] = s]
    /\ rc' = [rc EXCEPT ![t][c] = "have"]
    /\ UNCHANGED <<round, phase, team, wg, closed, results, staging, scored>>

\* `case result = <-res`: the rendezvous of check.Run and RunCheck on their own channel.
Receive(t, c) ==
    /\ rc[t][c] = "waiting"
    /\ run[round][t][c] \in {"up", "down"}
    /\ local' = [local EXCEPT ![t][c] = [status |-> run[round][t][c], from |-> round]]
    /\ \E s \in AfterSend(c) : run' = [run EXCEPT ![round][t][c] = s]
    /\ rc' = [rc EXCEPT ![t][c] = "have"]
    /\ UNCHANGED <<round, phase, team, wg, closed, results, staging, scored>>

\* Mutant: no deadline on the check.
TimeoutNever(t, c) ==
    /\ FALSE
    /\ UNCHANGED vars

\* Mutant: the deadline leaves the result as it was.
TimeoutSilent(t, c) ==
    /\ rc[t][c] = "waiting"
    /\ local' = [local EXCEPT ![t][c] = NoResult]
    /\ rc' = [rc EXCEPT ![t][c] = "have"]
    /\ UNCHANGED <<round, phase, team, wg, closed, run, results, staging, scored>>

\* `case <-time.After(GlobalTimeout)`: RunCheck gives up; check.Run is left running.
Timeout(t, c) ==
    /\ rc[t][c] = "waiting"
    /\ local' = [local EXCEPT ![t][c] = [status |-> "timeout", from |-> round]]
    /\ rc' = [rc EXCEPT ![t][c] = "have"]
    /\ UNCHANGED <<round, phase, team, wg, closed, run, results, staging, scored>>

\* Mutant: wg.Done is called before the result is sent.
WgDoneEarly(t, c) ==
    /\ rc[t][c] \in {"have", "sent"}
    /\ c \in wg[t]
    /\ wg' = [wg EXCEPT ![t] = @ \ {c}]
    /\ rc' = [rc EXCEPT ![t][c] = IF @ = "have" THEN "have" ELSE "gone"]
    /\ UNCHANGED <<round, phase, team, closed, local, run, results, staging, scored>>

\* wg.Done(), after the result has been received by the team.
WgDone(t, c) ==
    /\ rc[t][c] = "sent"
    /\ wg' = [wg EXCEPT ![t] = @ \ {c}]
    /\ rc' = [rc EXCEPT ![t][c] = "gone"]
    /\ UNCHANGED <<round, phase, team, closed, local, run, results, staging, scored>>

-----------------------------------------------------------------------------
TeamStep(t) == SpawnCloser(t) \/ CloseDone(t) \/ SeeDone(t) \/ Stage(t)

CheckStep(t, c) ==
    SpawnCheck(t, c) \/ Receive(t, c) \/ Timeout(t, c) \/ Deliver(t, c) \/ WgDone(t, c)

\* The bound on rounds is reached; goroutines left behind may still be blocked.
BoundReached ==
    /\ phase = "idle"
    /\ round = MaxRounds
    /\ UNCHANGED vars

Next ==
    \/ StartRound
    \/ CloseRound
    \/ BoundReached
    \/ \E t \in Teams : TeamStep(t)
    \/ \E t \in Teams, c \in Checks : CheckStep(t, c)
    \/ \E n \in 1..MaxRounds, t \in Teams, c \in Checks : Answer(n, t, c)

Spec == Init /\ [][Next]_vars

\* The Go scheduler runs every runnable goroutine and the runtime fires every timer; a
\* send or receive whose partner is ready is eventually done.  Services owe no answer,
\* and nothing obliges the loop to start another round (it may be paused).
Fairness ==
    /\ WF_vars(CloseRound)
    /\ \A t \in Teams :
          /\ WF_vars(TeamStep(t))
          /\ \A c \in Checks :
                /\ WF_vars(SpawnCheck(t, c))
                /\ WF_vars(Receive(t, c) \/ Timeout(t, c))
                /\ WF_vars(Deliver(t, c))
                /\ WF_vars(WgDone(t, c))

FairSpec == Spec /\ Fairness

-----------------------------------------------------------------------------
(* Properties *)

\* The select loop may pick `done` only when there is nothing left to pick from resChan:
\* once `done` is closed, the team has received one result for every check, and each of
\* them stems from this round.  It is what the order send, wg.Done in RunCheck is for.
NoResultLost ==
    \A t \in Teams : closed[t] =>
        \A c \in Checks : /\ Len(results[t][c]) = 1
                          /\ results[t][c][1].from = round

\* A check.Run goroutine is left blocked on a send that nobody will receive only if its
\* RunCheck had given up on it, and the team was told so, or if it sends a second time.
BlockedSenders ==
    \A t \in Teams, c \in Checks :
        (rc[t][c] \in {"have", "sent", "gone"} /\ run[round][t][c] \in {"up", "down", "again"}) =>
            \/ local[t][c].status = "timeout"
            \/ c \in DoubleSenders /\ run[round][t][c] = "again"

\* The rounds of the goroutines implement the round the scoring code relies on.
Abstract == INSTANCE RoundSpec WITH Teams <- Teams, Checks <- Checks, MaxRounds <- MaxRounds,
                                    round <- round, phase <- phase,
                                    staging <- staging, scored <- scored
RoundRefinement == Abstract!Spec

\* A round that was started ends, whether services answer or not.
RoundEnds == (phase = "open") ~> (phase = "idle")
=============================================================================
