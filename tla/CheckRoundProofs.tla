-------------------------- MODULE CheckRoundProofs --------------------------
(***************************************************************************)
(* TLAPS proofs about CheckRound, for every set of teams and checks and    *)
(* every number of rounds.                                                 *)
(***************************************************************************)
EXTENDS CheckRound, TLAPS

\* The record that team t would stage now.
RecordOf(t) == [team |-> t, round |-> round, result |-> results[t]]

\* Between rounds nothing is staged and no RunCheck is alive.
IdleInv ==
    phase = "idle" =>
        /\ staging = {}
        /\ \A t \in Teams : team[t] = "idle"
        /\ \A t \in Teams, c \in Checks : rc[t][c] \in {"none", "gone"}

\* During a round, the teams that are done are those that have staged, and what they
\* have staged is what they have received.
StagedInv ==
    phase = "open" =>
        /\ round \in 1..MaxRounds
        /\ \A t \in Teams : team[t] # "idle"
        /\ staging = {RecordOf(t) : t \in {u \in Teams : team[u] = "done"}}

\* Each RunCheck has its result exactly when it has left its select, the result stems from
\* this round, and it has been received exactly when RunCheck is past its send.
ResultInv ==
    \A t \in Teams, c \in Checks :
        /\ rc[t][c] \in {"have", "sent", "gone"} =>
              local[t][c] \in [status : Verdict, from : {round}]
        /\ rc[t][c] \in {"none", "waiting", "have"} => results[t][c] = <<>>
        /\ rc[t][c] \in {"sent", "gone"} => results[t][c] = <<local[t][c]>>

\* The wait group counts the RunChecks that were spawned and have not called Done, all
\* are spawned before the team collects, and `done` is closed only when they all have.
WaitInv ==
    \A t \in Teams :
        /\ wg[t] = {c \in Checks : rc[t][c] \in {"waiting", "have", "sent"}}
        /\ team[t] \notin {"idle", "spawning"} => \A c \in Checks : rc[t][c] # "none"
        /\ closed[t] => team[t] # "spawning" /\ \A c \in Checks : rc[t][c] = "gone"
        /\ team[t] \in {"staging", "done"} => closed[t]

IInv == TypeOK /\ IdleInv /\ StagedInv /\ ResultInv /\ WaitInv

\* What the steps of a round rely on.
OpenInv == StagedInv /\ ResultInv /\ WaitInv

-----------------------------------------------------------------------------
\* The initial state satisfies the inductive invariant.
LEMMA InitIInv == Init => IInv
<1> SUFFICES ASSUME Init PROVE IInv
    OBVIOUS
<1> USE ConstantsAssumption
<1>1. TypeOK
    BY DEF Init, TypeOK, NoResult
<1>2. IdleInv /\ OpenInv
    BY DEF Init, IdleInv, OpenInv, StagedInv, ResultInv, WaitInv
<1> QED
    BY <1>1, <1>2 DEF IInv, OpenInv

\* A live RunCheck or team goroutine means that a round is open.
LEMMA OpenRound ==
    ASSUME IInv, NEW t \in Teams,
           team[t] # "idle" \/ \E c \in Checks : rc[t][c] \in {"waiting", "have", "sent"}
    PROVE  phase = "open" /\ round \in 1..MaxRounds /\ OpenInv
<1>1. phase = "open"
    BY DEF IInv, IdleInv, TypeOK
<1> QED
    BY <1>1 DEF IInv, OpenInv, StagedInv

\* Every step keeps every variable in its type.
LEMMA TypeStep == IInv /\ [Next]_vars => TypeOK'
<1> SUFFICES ASSUME IInv, [Next]_vars PROVE TypeOK'
    OBVIOUS
<1> USE ConstantsAssumption
<1>a. TypeOK
    BY DEF IInv
<1>1. CASE StartRound
    BY <1>a, <1>1 DEF StartRound, TypeOK
<1>2. CASE CloseRound
    BY <1>a, <1>2 DEF CloseRound, TypeOK
<1>3. CASE BoundReached \/ UNCHANGED vars
    BY <1>a, <1>3 DEF BoundReached, vars, TypeOK
<1>4. ASSUME NEW t \in Teams, TeamStep(t) PROVE TypeOK'
    <2>1. CASE SpawnCloser(t) \/ CloseDone(t) \/ SeeDone(t)
        BY <1>a, <2>1 DEF SpawnCloser, CloseDone, SeeDone, TypeOK
    <2>2. CASE Stage(t)
        <3>1. round \in 1..MaxRounds
            BY <2>2, OpenRound DEF Stage
        <3>2. [team |-> t, round |-> round, result |-> results[t]] \in Record
            BY <1>a, <3>1 DEF TypeOK, Record
        <3> QED BY <1>a, <2>2, <3>2 DEF Stage, TypeOK
    <2> QED BY <1>4, <2>1, <2>2 DEF TeamStep
<1>5. ASSUME NEW t \in Teams, NEW c \in Checks, CheckStep(t, c) PROVE TypeOK'
    <2>1. CASE SpawnCheck(t, c)
        BY <1>a, <2>1 DEF SpawnCheck, TypeOK
    <2>2. CASE Receive(t, c)
        <3>1. round \in 1..MaxRounds
            BY <2>2, OpenRound DEF Receive
        <3>2. [status |-> run[round][t][c], from |-> round] \in Result
            BY <2>2, <3>1 DEF Receive, Result, Verdict
        <3>3. local' \in [Teams -> [Checks -> Result \cup {NoResult}]]
            BY <1>a, <2>2, <3>2 DEF Receive, TypeOK
        <3>4. run' \in [1..MaxRounds ->
                    [Teams -> [Checks -> {"none", "busy", "up", "down", "again", "gone"}]]]
            <4>1. PICK s \in AfterSend(c) : run' = [run EXCEPT ![round][t][c] = s]
                BY <2>2 DEF Receive
            <4>2. s \in {"none", "busy", "up", "down", "again", "gone"}
                BY DEF AfterSend
            <4> QED BY <1>a, <4>1, <4>2 DEF TypeOK
        <3> QED BY <1>a, <2>2, <3>3, <3>4 DEF Receive, TypeOK
    <2>3. CASE Timeout(t, c)
        <3>1. round \in 1..MaxRounds
            BY <2>3, OpenRound DEF Timeout
        <3>2. [status |-> "timeout", from |-> round] \in Result
            BY <3>1 DEF Result, Verdict
        <3> QED BY <1>a, <2>3, <3>2 DEF Timeout, TypeOK
    <2>4. CASE Deliver(t, c)
        <3>1. local[t][c] \in Result
            BY <2>4, OpenRound DEF Deliver, OpenInv, ResultInv, Result
        <3>2. Append(results[t][c], local[t][c]) \in Seq(Result)
            BY <1>a, <3>1 DEF TypeOK
        <3> QED BY <1>a, <2>4, <3>2 DEF Deliver, TypeOK
    <2>5. CASE WgDone(t, c)
        BY <1>a, <2>5 DEF WgDone, TypeOK
    <2> QED BY <1>5, <2>1, <2>2, <2>3, <2>4, <2>5 DEF CheckStep
<1>6. ASSUME NEW n \in 1..MaxRounds, NEW t \in Teams, NEW c \in Checks, Answer(n, t, c)
      PROVE  TypeOK'
    BY <1>a, <1>6 DEF Answer, TypeOK
<1> QED
    BY <1>1, <1>2, <1>3, <1>4, <1>5, <1>6 DEF Next

\* A step of a RunCheck goroutine keeps the other parts of the invariant.
LEMMA CheckStepInv ==
    ASSUME IInv, NEW t \in Teams, NEW c \in Checks, CheckStep(t, c)
    PROVE  (IdleInv /\ StagedInv /\ ResultInv /\ WaitInv)'
<1>a. TypeOK
    BY DEF IInv
<1>b. phase = "open" /\ round \in 1..MaxRounds /\ OpenInv
    BY OpenRound DEF CheckStep, SpawnCheck, Receive, Timeout, Deliver, WgDone
<1>c. UNCHANGED <<round, phase, team, closed, staging, scored>>
    BY DEF CheckStep, SpawnCheck, Receive, Timeout, Deliver, WgDone
<1>d. team[t] # "idle" /\ (team[t] \in {"staging", "done"} => rc[t][c] = "gone")
      /\ (rc[t][c] # "none" \/ team[t] = "spawning")
    BY <1>b DEF CheckStep, SpawnCheck, Receive, Timeout, Deliver, WgDone, OpenInv,
                StagedInv, WaitInv
<1>1. IdleInv'
    BY <1>b, <1>c DEF IdleInv
<1>2. StagedInv'
    <2>1. \A u \in Teams : team[u] = "done" => results'[u] = results[u]
        BY <1>a, <1>d DEF CheckStep, SpawnCheck, Receive, Timeout, Deliver, WgDone, TypeOK
    <2>2. staging = {RecordOf(u) : u \in {w \in Teams : team[w] = "done"}}
        BY <1>b DEF OpenInv, StagedInv
    <2>3. \A u \in {w \in Teams : team[w] = "done"} : RecordOf(u)' = RecordOf(u)
        BY <1>c, <2>1 DEF RecordOf
    <2>4. staging' = {RecordOf(u)' : u \in {w \in Teams : team'[w] = "done"}}
        BY <1>c, <2>2, <2>3
    <2> QED
        BY <1>b, <1>c, <2>4 DEF OpenInv, StagedInv, RecordOf
<1>3. ResultInv'
    <2>1. CASE SpawnCheck(t, c)
        BY <1>a, <1>b, <2>1 DEF SpawnCheck, ResultInv, OpenInv, TypeOK
    <2>5. CASE WgDone(t, c)
        BY <1>a, <1>b, <2>5 DEF WgDone, ResultInv, OpenInv, TypeOK
    <2>2. CASE Receive(t, c)
        BY <1>a, <1>b, <2>2 DEF Receive, ResultInv, OpenInv, TypeOK, Verdict
    <2>3. CASE Timeout(t, c)
        BY <1>a, <1>b, <2>3 DEF Timeout, ResultInv, OpenInv, TypeOK, Verdict
    <2>4. CASE Deliver(t, c)
        <3>1. Append(results[t][c], local[t][c]) = <<local[t][c]>>
            <4>1. results[t][c] = <<>> /\ local[t][c] \in [status : Verdict, from : {round}]
                BY <1>b, <2>4 DEF Deliver, ResultInv, OpenInv
            <4> QED BY <4>1
        <3> QED BY <1>a, <1>b, <2>4, <3>1 DEF Deliver, ResultInv, OpenInv, TypeOK
    <2> QED BY <2>1, <2>2, <2>3, <2>4, <2>5 DEF CheckStep
<1>4. WaitInv'
    <2>1. CASE SpawnCheck(t, c)
        BY <1>a, <1>b, <2>1 DEF SpawnCheck, WaitInv, OpenInv, TypeOK
    <2>2. CASE Receive(t, c)
        BY <1>a, <1>b, <2>2 DEF Receive, WaitInv, OpenInv, TypeOK
    <2>3. CASE Timeout(t, c)
        BY <1>a, <1>b, <2>3 DEF Timeout, WaitInv, OpenInv, TypeOK
    <2>4. CASE Deliver(t, c)
        BY <1>a, <1>b, <2>4 DEF Deliver, WaitInv, OpenInv, TypeOK
    <2>5. CASE WgDone(t, c)
        BY <1>a, <1>b, <2>5 DEF WgDone, WaitInv, OpenInv, TypeOK
    <2> QED BY <2>1, <2>2, <2>3, <2>4, <2>5 DEF CheckStep
<1> QED
    BY <1>1, <1>2, <1>3, <1>4

\* A step of a team's goroutine keeps the other parts of the invariant.
LEMMA TeamStepInv ==
    ASSUME IInv, NEW t \in Teams, TeamStep(t)
    PROVE  (IdleInv /\ StagedInv /\ ResultInv /\ WaitInv)'
<1>a. TypeOK
    BY DEF IInv
<1>b. phase = "open" /\ round \in 1..MaxRounds /\ OpenInv
    BY OpenRound DEF TeamStep, SpawnCloser, CloseDone, SeeDone, Stage
<1>c. UNCHANGED <<round, phase, wg, rc, local, run, results, scored>>
    BY DEF TeamStep, SpawnCloser, CloseDone, SeeDone, Stage
<1>1. IdleInv' /\ ResultInv'
    BY <1>b, <1>c DEF IdleInv, OpenInv, ResultInv
<1>2. StagedInv'
    <2>1. CASE SpawnCloser(t) \/ CloseDone(t) \/ SeeDone(t)
        <3>1. \A u \in Teams : (team'[u] = "done" <=> team[u] = "done") /\ team'[u] # "idle"
            BY <1>a, <1>b, <2>1
               DEF SpawnCloser, CloseDone, SeeDone, TypeOK, OpenInv, StagedInv
        <3>2. staging' = staging
            BY <2>1 DEF SpawnCloser, CloseDone, SeeDone
        <3> QED BY <1>b, <1>c, <3>1, <3>2 DEF OpenInv, StagedInv, RecordOf
    <2>2. CASE Stage(t)
        <3>1. {w \in Teams : team'[w] = "done"} = {w \in Teams : team[w] = "done"} \cup {t}
            BY <1>a, <2>2 DEF Stage, TypeOK
        <3>2. staging' = staging \cup {RecordOf(t)}
            BY <2>2 DEF Stage, RecordOf
        <3>3. \A u \in Teams : team'[u] # "idle"
            BY <1>a, <1>b, <2>2 DEF Stage, TypeOK, OpenInv, StagedInv
        <3> QED BY <1>b, <1>c, <3>1, <3>2, <3>3 DEF OpenInv, StagedInv, RecordOf
    <2> QED BY <2>1, <2>2 DEF TeamStep
<1>3. WaitInv'
    <2>1. CASE SpawnCloser(t)
        BY <1>a, <1>b, <2>1 DEF SpawnCloser, WaitInv, OpenInv, TypeOK
    <2>2. CASE CloseDone(t)
        BY <1>a, <1>b, <2>2 DEF CloseDone, WaitInv, OpenInv, TypeOK
    <2>3. CASE SeeDone(t)
        BY <1>a, <1>b, <2>3 DEF SeeDone, WaitInv, OpenInv, TypeOK
    <2>4. CASE Stage(t)
        BY <1>a, <1>b, <2>4 DEF Stage, WaitInv, OpenInv, TypeOK
    <2> QED BY <2>1, <2>2, <2>3, <2>4 DEF TeamStep
<1> QED
    BY <1>1, <1>2, <1>3

\* The inductive invariant is kept by every step.
LEMMA StepIInv == IInv /\ [Next]_vars => IInv'
<1> SUFFICES ASSUME IInv, [Next]_vars PROVE IInv'
    OBVIOUS
<1>a. TypeOK /\ TypeOK'
    BY TypeStep DEF IInv
<1>1. CASE StartRound
    <2>1. round' \in 1..MaxRounds
        BY <1>a, <1>1, ConstantsAssumption DEF StartRound, TypeOK
    <2>2. staging' = {} /\ \A t \in Teams : team'[t] = "spawning"
        BY <1>a, <1>1 DEF StartRound, IInv, IdleInv
    <2>3. StagedInv' /\ IdleInv'
        BY <1>1, <2>1, <2>2 DEF StartRound, StagedInv, IdleInv
    <2>4. ResultInv' /\ WaitInv'
        BY <1>1 DEF StartRound, ResultInv, WaitInv
    <2> QED BY <1>a, <2>3, <2>4 DEF IInv
<1>2. CASE CloseRound
    <2>1. \A t \in Teams, c \in Checks : rc[t][c] = "gone"
        BY <1>2 DEF CloseRound, IInv, WaitInv
    <2> QED BY <1>a, <1>2, <2>1 DEF CloseRound, IInv, IdleInv, StagedInv, ResultInv, WaitInv
<1>3. CASE BoundReached \/ UNCHANGED vars
    BY <1>a, <1>3 DEF BoundReached, vars, IInv, IdleInv, StagedInv, ResultInv, WaitInv,
                      RecordOf
<1>4. ASSUME NEW t \in Teams, TeamStep(t) PROVE IInv'
    BY <1>a, <1>4, TeamStepInv DEF IInv
<1>5. ASSUME NEW t \in Teams, NEW c \in Checks, CheckStep(t, c) PROVE IInv'
    BY <1>a, <1>5, CheckStepInv DEF IInv
<1>6. ASSUME NEW n \in 1..MaxRounds, NEW t \in Teams, NEW c \in Checks, Answer(n, t, c)
      PROVE  IInv'
    BY <1>a, <1>6 DEF Answer, IInv, IdleInv, StagedInv, ResultInv, WaitInv, RecordOf
<1> QED
    BY <1>1, <1>2, <1>3, <1>4, <1>5, <1>6 DEF Next

\* IInv is an invariant of every behaviour.
LEMMA Invariance == Spec => []IInv
<1> QED
    BY InitIInv, StepIInv, PTL DEF Spec

-----------------------------------------------------------------------------
\* Every variable keeps its type: a staged record maps every check to results that a
\* RunCheck produced, never to the empty Result{} it starts from.
THEOREM TypeCorrect == Spec => []TypeOK
<1>1. IInv => TypeOK
    BY DEF IInv
<1> QED
    BY <1>1, Invariance, PTL

\* When a team's `done` channel is closed, one result of this round has been received for
\* every check: no interleaving of RunCheck, closer and select loop loses a result.
THEOREM NoResultIsLost == Spec => []NoResultLost
<1>1. IInv => NoResultLost
    <2> SUFFICES ASSUME IInv, NEW t \in Teams, closed[t], NEW c \in Checks
                 PROVE  Len(results[t][c]) = 1 /\ results[t][c][1].from = round
        BY DEF NoResultLost
    <2>1. results[t][c] = <<local[t][c]>>
        BY DEF IInv, WaitInv, ResultInv
    <2>2. local[t][c] \in [status : Verdict, from : {round}]
        BY DEF IInv, WaitInv, ResultInv
    <2> QED
        BY <2>1, <2>2
<1> QED
    BY <1>1, Invariance, PTL

\* The goroutines and channels of score.go and checks.go implement the round that the
\* scoring code relies on: one record per team, one fresh result per check.
THEOREM Refinement == Spec => RoundRefinement
<1>1. Init => Abstract!Init
    BY DEF Init, Abstract!Init
<1>2. IInv /\ [Next]_vars => [Abstract!Next]_(Abstract!vars)
    <2> SUFFICES ASSUME IInv, [Next]_vars
                 PROVE  Abstract!Next \/ UNCHANGED Abstract!vars
        OBVIOUS
    <2>1. CASE StartRound
        BY <2>1 DEF StartRound, Abstract!Next, Abstract!Begin
    <2>2. CASE CloseRound
        <3>1. staging = {RecordOf(t) : t \in Teams}
            BY <2>2 DEF CloseRound, IInv, StagedInv
        <3>2. {r.team : r \in staging} = Teams
            <4>1. \A r \in staging : r.team \in Teams
                BY <3>1 DEF RecordOf
            <4>2. \A t \in Teams : RecordOf(t) \in staging /\ RecordOf(t).team = t
                BY <3>1 DEF RecordOf
            <4> QED BY <4>1, <4>2
        <3> QED BY <2>2, <3>2 DEF CloseRound, Abstract!Next, Abstract!Conclude
    <2>3. ASSUME NEW t \in Teams, Stage(t) PROVE Abstract!Contribute(t)
        <3>1. phase = "open" /\ OpenInv
            BY <2>3, OpenRound DEF Stage
        <3>2. \A r \in staging : r.team # t
            BY <2>3, <3>1 DEF Stage, OpenInv, StagedInv, RecordOf
        <3>3. \A c \in Checks : results[t][c] = <<local[t][c]>>
                             /\ local[t][c] \in [status : Verdict, from : {round}]
            BY <2>3, <3>1 DEF Stage, OpenInv, WaitInv, ResultInv
        <3>4. results[t] \in Abstract!Outcome(round)
            <4>1. results[t] \in [Checks -> Seq(Result)]
                BY DEF IInv, TypeOK
            <4>2. \A c \in Checks :
                     results[t][c] \in {<<x>> : x \in [status : Verdict, from : {round}]}
                BY <3>3
            <4> QED BY <4>1, <4>2 DEF Abstract!Outcome, Abstract!Verdict, Verdict
        <3> QED BY <2>3, <3>1, <3>2, <3>4 DEF Stage, Abstract!Contribute
    <2>4. ASSUME NEW t \in Teams, SpawnCloser(t) \/ CloseDone(t) \/ SeeDone(t)
          PROVE  UNCHANGED Abstract!vars
        BY <2>4 DEF SpawnCloser, CloseDone, SeeDone, Abstract!vars
    <2>5. ASSUME NEW t \in Teams, NEW c \in Checks, CheckStep(t, c)
          PROVE  UNCHANGED Abstract!vars
        BY <2>5 DEF CheckStep, SpawnCheck, Receive, Timeout, Deliver, WgDone, Abstract!vars
    <2>6. ASSUME NEW n \in 1..MaxRounds, NEW t \in Teams, NEW c \in Checks, Answer(n, t, c)
          PROVE  UNCHANGED Abstract!vars
        BY <2>6 DEF Answer, Abstract!vars
    <2>7. CASE BoundReached \/ UNCHANGED vars
        BY <2>7 DEF BoundReached, vars, Abstract!vars
    <2> QED
        BY <2>1, <2>2, <2>3, <2>4, <2>5, <2>6, <2>7 DEF Next, TeamStep, Abstract!Next
<1> QED
    BY <1>1, <1>2, Invariance, PTL DEF Spec, RoundRefinement, Abstract!Spec

-----------------------------------------------------------------------------
\* Once RunCheck has left its select, either it gave up, or this round's check.Run has
\* got rid of its first result.  Unlike BlockedSenders it also speaks of a check.Run that
\* is still busy, which may answer later.
LeakInv ==
    \A t \in Teams, c \in Checks :
        rc[t][c] \in {"have", "sent", "gone"} =>
            \/ local[t][c].status = "timeout"
            \/ run[round][t][c] = "gone"
            \/ run[round][t][c] = "again" /\ c \in DoubleSenders

\* An update of one check.Run changes that one and no other.
LEMMA UpdateRun ==
    ASSUME NEW A, NEW B, NEW C, NEW S, NEW f \in [A -> [B -> [C -> S]]],
           NEW a \in A, NEW b \in B, NEW c \in C, NEW v
    PROVE  LET g == [f EXCEPT ![a][b][c] = v]
           IN  /\ g[a][b][c] = v
               /\ \A y \in B, z \in C : y # b \/ z # c => g[a][y][z] = f[a][y][z]
<1> DEFINE g == [f EXCEPT ![a][b][c] = v]
<1>1. g[a] = [f[a] EXCEPT ![b][c] = v]
    OBVIOUS
<1>2. f[a] \in [B -> [C -> S]]
    OBVIOUS
<1> HIDE DEF g
<1> QED
    BY <1>1, <1>2 DEF g

\* LeakInv is kept by every step.
LEMMA LeakStep == IInv /\ LeakInv /\ [Next]_vars => LeakInv'
<1> SUFFICES ASSUME IInv, LeakInv, [Next]_vars PROVE LeakInv'
    OBVIOUS
<1>a. TypeOK
    BY DEF IInv
<1>1. CASE StartRound
    BY <1>1 DEF StartRound, LeakInv
<1>2. CASE CloseRound \/ BoundReached \/ UNCHANGED vars
    BY <1>2 DEF CloseRound, BoundReached, vars, LeakInv
<1>3. ASSUME NEW t \in Teams, TeamStep(t) PROVE LeakInv'
    BY <1>3 DEF TeamStep, SpawnCloser, CloseDone, SeeDone, Stage, LeakInv
<1>4. ASSUME NEW t \in Teams, NEW c \in Checks, CheckStep(t, c) PROVE LeakInv'
    <2>a. round \in 1..MaxRounds
        BY <1>4, OpenRound DEF CheckStep, SpawnCheck, Receive, Timeout, Deliver, WgDone
    <2>1. CASE SpawnCheck(t, c)
        BY <1>a, <2>a, <2>1 DEF SpawnCheck, LeakInv, TypeOK
    <2>2. CASE Receive(t, c)
        <3>1. PICK s \in AfterSend(c) : run' = [run EXCEPT ![round][t][c] = s]
            BY <2>2 DEF Receive
        <3>2. s = "gone" \/ (s = "again" /\ c \in DoubleSenders)
            BY DEF AfterSend
        <3>3. run \in [1..MaxRounds ->
                    [Teams -> [Checks -> {"none", "busy", "up", "down", "again", "gone"}]]]
            BY <1>a DEF TypeOK
        <3>4. /\ run'[round][t][c] = s
              /\ \A u \in Teams, d \in Checks :
                    u # t \/ d # c => run'[round][u][d] = run[round][u][d]
            BY <2>a, <3>1, <3>3, UpdateRun
        <3>6. \A u \in Teams, d \in Checks :
                 u # t \/ d # c => rc'[u][d] = rc[u][d] /\ local'[u][d] = local[u][d]
            BY <1>a, <2>2 DEF Receive, TypeOK
        <3>5. round' = round
            BY <2>2 DEF Receive
        <3> QED BY <3>2, <3>4, <3>5, <3>6 DEF LeakInv
    <2>3. CASE Timeout(t, c)
        BY <1>a, <2>3 DEF Timeout, LeakInv, TypeOK
    <2>4. CASE Deliver(t, c)
        BY <1>a, <2>4 DEF Deliver, LeakInv, TypeOK
    <2>5. CASE WgDone(t, c)
        BY <1>a, <2>5 DEF WgDone, LeakInv, TypeOK
    <2> QED BY <1>4, <2>1, <2>2, <2>3, <2>4, <2>5 DEF CheckStep
<1>5. ASSUME NEW n \in 1..MaxRounds, NEW t \in Teams, NEW c \in Checks, Answer(n, t, c)
      PROVE  LeakInv'
    BY <1>a, <1>5 DEF Answer, LeakInv, TypeOK
<1> QED
    BY <1>1, <1>2, <1>3, <1>4, <1>5 DEF Next

\* A check.Run is blocked on a send for good only if its check was reported as timed out,
\* or if it sends a second time: there is no third way to leak a goroutine.
THEOREM OnlyKnownLeaks == Spec => []BlockedSenders
<1>1. Init => LeakInv
    BY DEF Init, LeakInv
<1>2. LeakInv => BlockedSenders
    BY DEF LeakInv, BlockedSenders
<1> QED
    BY <1>1, <1>2, LeakStep, Invariance, PTL DEF Spec
=============================================================================
