---------------------------- MODULE InjectsProofs ----------------------------
(***************************************************************************)
(* TLAPS proofs about Injects, for any teams, injects, grades and times:   *)
(* what a submission's score is after its row has been read and saved by   *)
(* handlers that know nothing of each other, what the rounds make of the   *)
(* scores once they stay as they are, and when the event is said to have   *)
(* started after restarts and resets.                                      *)
(***************************************************************************)
EXTENDS Injects, SetLemmas, SequenceTheorems, TLAPS

\* TypeOK in four parts, which the provers take one at a time.
RowsOK ==
    /\ injects \in [Ids -> Inject]
    /\ subs \in [SubIds -> Sub]
    /\ grading \in Handler /\ invalidating \in Handler
    /\ given \in [SubIds -> Scores \cup {0}]
    /\ clobbered \subseteq SubIds

TimesOK ==
    /\ startTime \in 0..MaxClock /\ clock \in Epoch..MaxClock
    /\ firstRecord \in 0..MaxClock /\ roundTime \in 0..MaxClock
    /\ loaded \in 0..MaxClock /\ formerStart \in 0..MaxClock
    /\ lpc \in Places
    /\ rpc \in {"none", "records", "submissions", "startTime"}
    /\ reads \in Nat /\ resets \in Nat /\ failures \in Nat /\ crashes \in Nat /\ moves \in Nat
    /\ quiet \in 0..2

FlagsOK == resetIssued \in BOOLEAN /\ astray \in BOOLEAN

WorkOK ==
    /\ latest \in [Teams -> [saved : BOOLEAN, points : Nat]]
    /\ todo \subseteq Teams
    /\ work \in [team : Teams \cup {NoTeam}, left : SUBSET Ids, best : 0..MaxSubmissions,
                 score : Scores \cup {0}, sum : Nat]

\* Nothing has happened later than now, only the scoring part of a round has teams left to
\* score, and it shares teamMutex with no reset.
NowInv ==
    /\ startTime <= clock /\ firstRecord <= clock /\ roundTime <= clock /\ loaded <= clock
    /\ lpc # "scoring" => todo = {} /\ work = NoWork
    /\ lpc = "scoring" => rpc = "none"

\* The start of the event moves when a start-up takes it up from the first record, where it
\* stays then.
MovesInv ==
    /\ moves = 0 \/ (moves = 1 /\ (firstRecord = 0 \/ formerStart = firstRecord))
    /\ (firstRecord = 0 /\ lpc \notin StartUp /\ rpc = "none") => moves = 0
    /\ lpc = "set" => loaded = 0 \/ firstRecord \in {0, loaded}

\* Unless it is astray: a round that began before it is dropped, a reset that is at work or done
\* has left no record, and a start-up that has found no record is right.
StartInv ==
    ~astray =>
        /\ rpc # "none" => resetIssued
        /\ rpc \in {"submissions", "startTime"} => firstRecord = 0
        /\ (lpc = "set" /\ loaded = 0 /\ rpc = "none") => firstRecord = 0
        /\ (lpc = "scoring" \/ (lpc = "checks" /\ ~resetIssued)) => startTime <= roundTime
        /\ (lpc \notin StartUp /\ rpc = "none" /\ firstRecord # 0) => startTime <= firstRecord

\* A row that is not in the table has been given no grade, a row that is and was not
\* overwritten has the grade given to it, and the copy that is going to be saved as invalid
\* is of a row that was found.
GradeInv ==
    /\ \A s \in SubIds : ~subs[s].present => given[s] = 0
    /\ invalidating # Idle => invalidating.id \in SubIds /\ invalidating.row.present
    /\ GradeStands

\* When no row changes any more, the round that is being scored gives each team its best
\* grade on every inject: what a team is due, part of which is still to come.
Best(t) == Max(UNION {Scored(t, j) : j \in 0..MaxInjects})
Due(t) == SumOf([i \in Ids |-> Worth(Best(t), i)])
ToCome == SumOf([i \in Ids |-> IF i \in work.left THEN Worth(Best(work.team), i) ELSE 0])

\* Every team has a record once a round has ended since the last change.
SavedInv ==
    /\ lpc \in StartUp => quiet = 0
    /\ work # NoWork => work.team \in Teams /\ work.team \notin todo
    /\ quiet # 0 => \A t \in Teams : latest[t].saved

\* What calculateInjects has found is the team's best grade, or nothing yet.
WorkInv ==
    /\ work.left \subseteq {i \in Ids : injects[i].present}
    /\ work.best = 0 => work.score = 0
    /\ work.best # 0 => /\ subs[work.best].present /\ subs[work.best].team = work.team
                        /\ work.score = Best(work.team) /\ subs[work.best].score = work.score
    /\ work.sum + ToCome = Due(work.team)

SettledInv ==
    quiet # 0 =>
        /\ work # NoWork => WorkInv
        /\ lpc = "scoring" =>
              \A t \in Teams \ todo : t # work.team => latest[t].points = Due(t)
        /\ quiet = 2 => \A t \in Teams : latest[t].points = Due(t)

IInv ==
    /\ RowsOK /\ TimesOK /\ FlagsOK /\ WorkOK
    /\ NowInv /\ MovesInv /\ StartInv
    /\ GradeInv /\ SavedInv /\ SettledInv

-----------------------------------------------------------------------------
\* The bounds of the instance and the instants are numbers.
LEMMA Bounds ==
    /\ MaxSubmissions \in Nat /\ MaxInjects \in Nat /\ MaxClock \in Nat /\ Epoch \in Nat
    /\ MaxDuration \in Nat /\ GoZero \in Nat /\ MaxDuration < Epoch /\ Epoch <= MaxClock
    /\ Epoch > 0 /\ GoZero < MaxDuration /\ Scores \subseteq Nat /\ NoTeam \notin Teams
<1>1. /\ MaxSubmissions \in Nat /\ MaxInjects \in Nat /\ MaxClock \in Nat /\ Epoch \in Nat
      /\ MaxDuration \in Nat /\ GoZero \in Nat /\ MaxDuration < Epoch /\ Epoch <= MaxClock
      /\ GoZero < MaxDuration
    BY ConstantsAssumption
<1>2. Scores \subseteq Nat /\ NoTeam \notin Teams
    BY ConstantsAssumption
<1> QED BY <1>1, <1>2

LEMMA GradesAreNumbers == \A x \in Scores \cup {0} : x \in Nat
BY ConstantsAssumption

LEMMA TypeParts == TypeOK <=> RowsOK /\ TimesOK /\ FlagsOK /\ WorkOK
<1>1. {reads, resets, failures, crashes, moves} \subseteq Nat <=>
          /\ reads \in Nat /\ resets \in Nat /\ failures \in Nat /\ crashes \in Nat
          /\ moves \in Nat
    OBVIOUS
<1>2. {firstRecord, loaded, formerStart} \subseteq 0..MaxClock <=>
          /\ firstRecord \in 0..MaxClock /\ loaded \in 0..MaxClock
          /\ formerStart \in 0..MaxClock
    OBVIOUS
<1> QED BY <1>1, <1>2, Zenon DEF TypeOK, RowsOK, TimesOK, FlagsOK, WorkOK

\* The rowid that a new row gets is a positive number, and no row has it.
LEMMA NextIdIsFree ==
    ASSUME NEW n \in Nat, NEW table, DOMAIN table = 1..n
    PROVE  /\ NextId(table) \in Nat \ {0}
           /\ NextId(table) \in 1..n => ~table[NextId(table)].present
<1> DEFINE taken == {0} \cup {i \in DOMAIN table : table[i].present}
<1>1. taken \subseteq 0..n /\ taken # {}
    OBVIOUS
<1>2. Max(taken) \in taken /\ \A y \in taken : Max(taken) >= y
    BY <1>1, MaxOfNaturals, Zenon
<1>3. NextId(table) = Max(taken) + 1
    BY Zenon DEF NextId
<1> HIDE DEF taken
<1>4. PICK m : m = Max(taken)
    OBVIOUS
<1>5. m \in 0..n /\ \A y \in taken : m >= y
    BY <1>1, <1>2, <1>4
<1>6. NextId(table) \in Nat \ {0} /\ NextId(table) \notin taken
    BY <1>3, <1>4, <1>5
<1> USE DEF taken
<1> QED BY <1>6

\* The time a handler gives an inject is the distance from the start of the event.
LEMMA DifferenceType ==
    ASSUME NEW a \in Nat, NEW b \in Nat, b <= a
    PROVE  Difference(a, b) \in Nat
BY Bounds DEF Difference

\* The injects of injects.conf, and the one of password changes, are injects.
LEMMA ConfiguredType ==
    ASSUME clock \in Nat, NEW i \in DOMAIN Configured
    PROVE  Row(i) \in Inject
<1> DEFINE C == [time : Nat, closes : Nat, points : Nat]
           First == IF NoPasswords THEN <<>> ELSE <<[time |-> clock, closes |-> GoZero,
           points |-> 0]>>
<1>1. First \in Seq(C)
    <2>1. [time |-> clock, closes |-> GoZero, points |-> 0] \in C
        BY Bounds
    <2>2. CASE NoPasswords
        BY <2>2
    <2>3. CASE ~NoPasswords
        BY <2>1, <2>3
    <2> QED BY <2>2, <2>3
<1>2. ConfigInjects \in Seq(C)
    BY ConstantsAssumption
<1>3. Configured = First \o ConfigInjects
    BY Zenon DEF Configured
<1> HIDE DEF First
<1>4. Configured \in Seq(C)
    BY <1>1, <1>2, <1>3, ConcatProperties, Zenon
<1>5. i \in 1..Len(Configured)
    BY <1>4, LenProperties
<1>6. Configured[i] \in C
    BY <1>4, <1>5, ElementOfSeq
<1> QED BY <1>6 DEF Row, Inject

\* The initial state satisfies the inductive invariant.
LEMMA InitIInv == Init => IInv
<1> SUFFICES ASSUME Init PROVE IInv
    OBVIOUS
<1> USE Bounds DEF Init
<1>1. RowsOK
    BY DEF RowsOK, NoInject, Inject, NoSub, Sub, Idle, Handler
<1>2. TimesOK /\ FlagsOK
    <2>1. GoZero \in 0..MaxClock /\ Epoch \in Epoch..MaxClock /\ 0 \in 0..MaxClock
        BY Bounds
    <2>2. "main" \in Places
        BY DEF Places, StartUp
    <2>3. FlagsOK
        BY Zenon DEF FlagsOK
    <2> QED BY <2>1, <2>2, <2>3 DEF TimesOK
<1>3. WorkOK
    BY DEF WorkOK, NoRecord, NoWork
<1>4. NowInv /\ MovesInv /\ StartInv
    BY DEF NowInv, MovesInv, StartInv, StartUp
<1>5. GradeInv
    BY DEF GradeInv, GradeStands, NoSub, Idle
<1>6. SavedInv /\ SettledInv
    BY DEF SavedInv, SettledInv
<1> QED BY <1>1, <1>2, <1>3, <1>4, <1>5, <1>6 DEF IInv

\* What a turn of calculateInjects leaves alone.
LEMMA ScoreFrame ==
    ScoreInject => /\ work # NoWork /\ work.left # {}
                   /\ UNCHANGED <<tables, event, clock, records, lpc, roundTime, todo,
                                  handlers, bounds, quiet, startHistory, rowHistory>>
BY Zenon DEF ScoreInject

\* What the handlers read and save are rows.
LEMMA RowsStep == IInv /\ [Next]_vars => RowsOK'
<1> SUFFICES ASSUME IInv, [Next]_vars PROVE RowsOK'
    OBVIOUS
<1>a. RowsOK
    BY DEF IInv
<1>b. startTime \in Nat /\ clock \in Nat /\ startTime <= clock
    BY Bounds DEF IInv, TimesOK, NowInv
<1> USE <1>a, Bounds DEF RowsOK, tables, handlers, rowHistory
<1>1. CASE Main
    <2>1. \A i \in Ids : NoInject \in Inject
        BY DEF NoInject, Inject
    <2>2. \A i \in DOMAIN Configured : Row(i) \in Inject
        BY <1>b, ConfiguredType
    <2> QED BY <1>1, <2>1, <2>2 DEF Main
<1>2. CASE CreateInject
    <2>1. Difference(clock, startTime) \in Nat
        BY <1>b, DifferenceType
    <2>2. \A a \in ApiInjects : a.closes \in Nat /\ a.points \in Nat
        BY ConstantsAssumption
    <2> QED BY <1>2, <2>1, <2>2 DEF CreateInject, Inject
<1>3. ASSUME NEW i \in Ids, DeleteInject(i) PROVE RowsOK'
    BY <1>3 DEF DeleteInject, NoInject, Inject
<1>4. ASSUME NEW t \in Teams, NEW i \in Ids, SubmitInject(t, i) PROVE RowsOK'
    <2> DEFINE id == NextId(subs)
               row == [NoSub EXCEPT !.present = TRUE, !.team = t, !.inject = i]
    <2>1. row \in Sub
        <3>1. NoSub \in Sub
            BY DEF NoSub, Sub
        <3>2. i \in 0..MaxInjects
            BY DEF Ids
        <3> QED BY <3>1, <3>2 DEF Sub
    <2>2. id \in SubIds /\ subs' = [subs EXCEPT ![id] = row]
        BY <1>4 DEF SubmitInject
    <2>3. UNCHANGED <<injects, handlers, rowHistory>>
        BY <1>4 DEF SubmitInject
    <2> HIDE DEF id, row
    <2> QED BY <2>1, <2>2, <2>3
<1>5. ASSUME NEW s \in SubIds, GradeRead(s) \/ InvalidateRead(s) PROVE RowsOK'
    <2>1. Found(s) \in Handler
        BY DEF Found, Handler, NoSub, Sub, SubIds
    <2> QED BY <1>5, <2>1 DEF GradeRead, InvalidateRead
<1>6. ASSUME NEW v \in Scores, GradeSave(v) PROVE RowsOK'
    <2> DEFINE id == IF grading.id = 0 THEN NextId(subs) ELSE grading.id
               row == [grading.row EXCEPT !.present = TRUE, !.score = v, !.graded = TRUE]
    <2>1. row \in Sub
        BY DEF Handler, Sub
    <2>2. /\ id \in SubIds /\ subs' = [subs EXCEPT ![id] = row]
          /\ given' = [given EXCEPT ![id] = v] /\ clobbered' = clobbered \ {id}
          /\ grading' = Idle /\ UNCHANGED <<injects, invalidating>>
        BY <1>6 DEF GradeSave
    <2> HIDE DEF id, row
    <2> QED BY <2>1, <2>2 DEF Idle, Handler, NoSub, Sub
<1>7. CASE InvalidateSave
    <2>1. [invalidating.row EXCEPT !.invalid = TRUE] \in Sub
        BY DEF Handler, Sub
    <2>2. Idle \in Handler
        BY DEF Idle, Handler, NoSub, Sub
    <2>3. clobbered' \subseteq SubIds
        BY <1>7 DEF InvalidateSave, IInv, GradeInv
    <2> QED BY <1>7, <2>1, <2>2, <2>3 DEF InvalidateSave
<1>8. CASE BeginRound \/ BeginScoring \/ ScoreInject \/ CreateRecord \/ EndScoring \/ Tick
    BY <1>8, ScoreFrame DEF BeginRound, BeginScoring, CreateRecord, EndScoring, Tick
<1>9. ASSUME NEW t \in Teams, BeginTeam(t) PROVE RowsOK'
    BY <1>9 DEF BeginTeam
<1>10. CASE ResetSubmissions
    BY <1>10 DEF ResetSubmissions, NoSub, Sub
<1>11. CASE Crash
    BY <1>11 DEF Crash, Idle, Handler, NoSub, Sub
<1>12. CASE UNCHANGED vars
    BY <1>12 DEF vars
<1>13. CASE LoadStart \/ LoadStartFails \/ SetStart
    BY <1>13 DEF LoadStart, LoadStartFails, SetStart
<1>14. CASE SkipRound \/ DropRound \/ ScoreInjectFails \/ RecordFails \/ Wake \/ Pause
    BY <1>14 DEF SkipRound, DropRound, ScoreInjectFails, RecordFails, Wake, Pause
<1>15. CASE ResetLock \/ ResetRecords \/ ResetFails \/ ResetStart
    BY <1>15 DEF ResetLock, ResetRecords, ResetFails, ResetStart
<1> QED BY <1>1, <1>2, <1>3, <1>4, <1>5, <1>6, <1>7, <1>8, <1>9, <1>10, <1>11, <1>12, <1>13,
           <1>14, <1>15
        DEF Next, Starting, Handling, Scoring, Resetting

\* No instant is later than the clock's bound.
LEMMA TimesStep == IInv /\ [Next]_vars => TimesOK'
<1> SUFFICES ASSUME IInv, [Next]_vars PROVE TimesOK'
    OBVIOUS
<1>a. TimesOK
    BY DEF IInv
<1> USE <1>a, Bounds DEF TimesOK, event, records, round, bounds, startHistory, Fail
<1>1. CASE Main
    BY <1>1 DEF Main, StartUp, Places
<1>2. CASE CreateInject \/ InvalidateSave
    BY <1>2 DEF CreateInject, InvalidateSave
<1>3. ASSUME NEW i \in Ids, DeleteInject(i) PROVE TimesOK'
    BY <1>3 DEF DeleteInject
<1>4. ASSUME NEW t \in Teams, NEW i \in Ids, SubmitInject(t, i) PROVE TimesOK'
    BY <1>4 DEF SubmitInject
<1>5. ASSUME NEW s \in SubIds, GradeRead(s) \/ InvalidateRead(s) PROVE TimesOK'
    BY <1>5 DEF GradeRead, InvalidateRead
<1>6. ASSUME NEW v \in Scores, GradeSave(v) PROVE TimesOK'
    BY <1>6 DEF GradeSave
<1>7. CASE BeginRound \/ BeginScoring
    BY <1>7 DEF BeginRound, BeginScoring, Places
<1>8. CASE ScoreInject
    BY <1>8, ScoreFrame
<1>9. CASE CreateRecord \/ EndScoring \/ Tick
    BY <1>9 DEF CreateRecord, EndScoring, Tick, Places
<1>10. ASSUME NEW t \in Teams, BeginTeam(t) PROVE TimesOK'
    BY <1>10 DEF BeginTeam
<1>11. CASE ResetSubmissions \/ Crash
    <2>1. GoZero \in 0..MaxClock
        BY Bounds
    <2>2. CASE ResetSubmissions
        BY <2>2 DEF ResetSubmissions
    <2>3. CASE Crash
        BY <2>1, <2>3 DEF Crash, Places, StartUp
    <2> QED BY <1>11, <2>2, <2>3
<1>12. CASE UNCHANGED vars
    BY <1>12 DEF vars
<1>13. CASE LoadStart \/ LoadStartFails \/ SetStart
    <2>1. "set" \in Places /\ "idle" \in Places
        BY DEF Places, StartUp
    <2>2. CASE LoadStart
        BY <2>1, <2>2 DEF LoadStart
    <2>3. CASE LoadStartFails
        BY <2>1, <2>3 DEF LoadStartFails
    <2>4. CASE SetStart
        <3>1. clock \in 0..MaxClock /\ moves + 1 \in Nat
            OBVIOUS
        <3>2. startTime' \in 0..MaxClock /\ formerStart' = startTime' /\ moves' \in Nat
            BY <2>4, <3>1 DEF SetStart
        <3> QED BY <2>1, <2>4, <3>2 DEF SetStart
    <2> QED BY <1>13, <2>2, <2>3, <2>4
<1>14. CASE SkipRound \/ DropRound \/ ScoreInjectFails \/ RecordFails \/ Wake \/ Pause
    <2>1. "asleep" \in Places /\ "idle" \in Places
        BY DEF Places
    <2>2. CASE SkipRound \/ DropRound \/ Wake
        BY <2>1, <2>2 DEF SkipRound, DropRound, Wake
    <2>3. CASE ScoreInjectFails \/ RecordFails
        BY <2>3 DEF ScoreInjectFails, RecordFails
    <2>4. CASE Pause
        BY <2>4 DEF Pause
    <2> QED BY <1>14, <2>2, <2>3, <2>4
<1>15. CASE ResetLock \/ ResetRecords \/ ResetFails \/ ResetStart
    <2>1. CASE ResetLock \/ ResetRecords
        BY <2>1 DEF ResetLock, ResetRecords
    <2>2. CASE ResetFails
        BY <2>2 DEF ResetFails
    <2>3. CASE ResetStart
        BY <2>3 DEF ResetStart
    <2> QED BY <1>15, <2>1, <2>2, <2>3
<1> QED BY <1>1, <1>2, <1>3, <1>4, <1>5, <1>6, <1>7, <1>8, <1>9, <1>10, <1>11, <1>12, <1>13,
           <1>14, <1>15
        DEF Next, Starting, Handling, Scoring, Resetting

\* A flag is set or cleared, and that is all.
LEMMA FlagsStep == IInv /\ [Next]_vars => FlagsOK'
<1> SUFFICES ASSUME IInv, [Next]_vars PROVE FlagsOK'
    OBVIOUS
<1>a. FlagsOK
    BY DEF IInv
<1> USE <1>a DEF FlagsOK, event, startHistory
<1>1. CASE Main \/ CreateInject \/ InvalidateSave
    BY <1>1, Zenon DEF Main, CreateInject, InvalidateSave
<1>2. ASSUME NEW i \in Ids, DeleteInject(i) PROVE FlagsOK'
    BY <1>2, Zenon DEF DeleteInject
<1>3. ASSUME NEW t \in Teams, NEW i \in Ids, SubmitInject(t, i) PROVE FlagsOK'
    BY <1>3, Zenon DEF SubmitInject
<1>4. ASSUME NEW s \in SubIds, GradeRead(s) \/ InvalidateRead(s) PROVE FlagsOK'
    BY <1>4, Zenon DEF GradeRead, InvalidateRead
<1>5. ASSUME NEW v \in Scores, GradeSave(v) PROVE FlagsOK'
    BY <1>5, Zenon DEF GradeSave
<1>6. CASE LoadStart \/ LoadStartFails \/ SetStart
    BY <1>6, Zenon DEF LoadStart, LoadStartFails, SetStart
<1>7. CASE BeginRound \/ SkipRound \/ DropRound \/ BeginScoring
    BY <1>7, Zenon DEF BeginRound, SkipRound, DropRound, BeginScoring
<1>8. ASSUME NEW t \in Teams, BeginTeam(t) PROVE FlagsOK'
    BY <1>8, Zenon DEF BeginTeam
<1>9. CASE ScoreInject \/ ScoreInjectFails \/ CreateRecord \/ RecordFails \/ EndScoring
    BY <1>9, ScoreFrame, Zenon DEF ScoreInjectFails, CreateRecord, RecordFails, EndScoring
<1>10. CASE Wake \/ Tick \/ Pause
    BY <1>10, Zenon DEF Wake, Tick, Pause
<1>11. CASE ResetLock \/ ResetRecords \/ ResetSubmissions \/ ResetFails \/ ResetStart
    BY <1>11, Zenon DEF ResetLock, ResetRecords, ResetSubmissions, ResetFails, ResetStart
<1>12. CASE Crash
    BY <1>12, Zenon DEF Crash
<1>13. CASE UNCHANGED vars
    BY <1>13, Zenon DEF vars
<1> QED BY <1>1, <1>2, <1>3, <1>4, <1>5, <1>6, <1>7, <1>8, <1>9, <1>10, <1>11, <1>12, <1>13
        DEF Next, Starting, Handling, Scoring, Resetting

\* One turn of calculateInjects with inject i and the row s, or none, found for it.
BestRows == {s \in Candidates : \A q \in Candidates : subs[q].score <= subs[s].score}

Turn(s, score, i) ==
    /\ s = 0 => BestRows = {} /\ score = work.score
    /\ s # 0 => s \in BestRows /\ score = subs[s].score
    /\ (score * injects[i].points) \div 100 \in Nat
    /\ work' = [team |-> work.team, left |-> work.left \ {i},
                best |-> IF s = 0 THEN work.best ELSE s, score |-> score,
                sum |-> work.sum + (score * injects[i].points) \div 100]

LEMMA ScoreEffect ==
    ASSUME WorkOK, RowsOK, ScoreInject
    PROVE  \E s \in 0..MaxSubmissions, score \in Scores \cup {0}, i \in work.left : Turn(s, score, i)
<1> USE Bounds
<1> DEFINE i == Min(work.left)
<1>1. PICK s \in IF BestRows = {} THEN {0} ELSE BestRows :
         LET score == IF s = 0 THEN work.score ELSE subs[s].score
         IN  work' = [work EXCEPT !.left = @ \ {i}, !.best = IF s = 0 THEN @ ELSE s,
                                  !.score = score,
                                  !.sum = @ + (score * injects[i].points) \div 100]
    BY Zenon DEF ScoreInject, BestRows
<1>2. s \in 0..MaxSubmissions /\ (s = 0 => BestRows = {}) /\ (s # 0 => s \in BestRows /\ s \in SubIds)
    BY <1>1 DEF BestRows, Candidates, SubIds
<1>3. i \in work.left /\ i \in Ids
    <2>1. work.left \subseteq Ids /\ work.left # {}
        BY ScoreFrame DEF WorkOK
    <2>2. work.left \subseteq Nat
        BY <2>1 DEF Ids
    <2> QED BY <2>1, <2>2, MinOfNaturals
<1>4. PICK score \in Scores \cup {0} : score = IF s = 0 THEN work.score ELSE subs[s].score
    BY <1>2 DEF RowsOK, WorkOK, Sub
<1>5. PICK points \in Nat : points = injects[i].points
    BY <1>3 DEF RowsOK, Inject
<1> HIDE DEF i
<1>6. score \in Nat
    BY <1>4, GradesAreNumbers
<1>7. (score * points) \div 100 \in Nat
    <2>1. score * points \in Nat
        BY <1>6
    <2> QED BY <2>1
<1>8. work' = [work EXCEPT !.left = @ \ {i}, !.best = IF s = 0 THEN @ ELSE s,
                           !.score = score, !.sum = @ + (score * points) \div 100]
    BY <1>1, <1>4, <1>5
<1>9. work' = [team |-> work.team, left |-> work.left \ {i},
               best |-> IF s = 0 THEN work.best ELSE s, score |-> score,
               sum |-> work.sum + (score * points) \div 100]
    BY <1>8 DEF WorkOK
<1>10. Turn(s, score, i)
    BY <1>2, <1>4, <1>5, <1>7, <1>9 DEF Turn
<1> QED BY <1>2, <1>3, <1>10

\* calculateInjects at its beginning.
LEMMA BeginEffect ==
    ASSUME NEW t \in Teams, BeginTeam(t)
    PROVE  /\ lpc = "scoring" /\ lpc' = "scoring" /\ work = NoWork /\ t \in todo
           /\ todo' = todo \ {t}
           /\ work' = [team |-> t, left |-> {i \in Ids : injects[i].present}, best |-> 0,
                       score |-> 0, sum |-> 0]
           /\ injects' = injects /\ subs' = subs /\ latest' = latest /\ quiet' = quiet
           /\ startTime' = startTime /\ clock' = clock /\ firstRecord' = firstRecord
           /\ rpc' = rpc /\ loaded' = loaded
           /\ roundTime' = roundTime /\ {i \in Ids : injects[i].present} \in SUBSET Ids
<1>1. work' = [NoWork EXCEPT !.team = t, !.left = {i \in Ids : injects[i].present}]
    BY Zenon DEF BeginTeam
<1>2. work' = [team |-> t, left |-> {i \in Ids : injects[i].present}, best |-> 0,
               score |-> 0, sum |-> 0]
    BY <1>1 DEF NoWork
<1>3. /\ lpc = "scoring" /\ work = NoWork /\ t \in todo /\ todo' = todo \ {t}
      /\ UNCHANGED <<tables, event, clock, records, lpc, roundTime, quiet>>
    BY Zenon DEF BeginTeam
<1>4. {i \in Ids : injects[i].present} \in SUBSET Ids
    OBVIOUS
<1> QED BY <1>2, <1>3, <1>4 DEF tables, event, records

\* The points of a submission are a number, whatever row was picked.
LEMMA WorkStep == IInv /\ [Next]_vars => WorkOK'
<1> SUFFICES ASSUME IInv, [Next]_vars PROVE WorkOK'
    OBVIOUS
<1>a. WorkOK /\ RowsOK
    BY DEF IInv
<1>b. ASSUME NEW t \in Teams, BeginTeam(t)
      PROVE  /\ latest' = latest /\ todo' = todo \ {t}
             /\ work' = [team |-> t, left |-> {i \in Ids : injects[i].present}, best |-> 0,
                         score |-> 0, sum |-> 0]
             /\ {i \in Ids : injects[i].present} \in SUBSET Ids
    BY <1>b, BeginEffect
<1> USE <1>a, Bounds DEF WorkOK, records, round
<1>1. CASE Main \/ CreateInject \/ InvalidateSave
    BY <1>1 DEF Main, CreateInject, InvalidateSave
<1>2. ASSUME NEW i \in Ids, DeleteInject(i) PROVE WorkOK'
    BY <1>2 DEF DeleteInject
<1>3. ASSUME NEW t \in Teams, NEW i \in Ids, SubmitInject(t, i) PROVE WorkOK'
    BY <1>3 DEF SubmitInject
<1>4. ASSUME NEW s \in SubIds, GradeRead(s) \/ InvalidateRead(s) PROVE WorkOK'
    BY <1>4 DEF GradeRead, InvalidateRead
<1>5. ASSUME NEW v \in Scores, GradeSave(v) PROVE WorkOK'
    BY <1>5 DEF GradeSave
<1>6. CASE BeginRound \/ BeginScoring \/ EndScoring \/ Tick
    BY <1>6 DEF BeginRound, BeginScoring, EndScoring, Tick
<1>7. ASSUME NEW t \in Teams, BeginTeam(t) PROVE WorkOK'
    BY <1>7, <1>b
<1>8. CASE ScoreInject
    <2>1. PICK s \in 0..MaxSubmissions, score \in Scores \cup {0}, i \in work.left : Turn(s, score, i)
        BY <1>8, ScoreEffect
    <2>2. work.left \ {i} \in SUBSET Ids
        OBVIOUS
    <2>3. work.sum + (score * injects[i].points) \div 100 \in Nat
        BY <2>1 DEF Turn
    <2>4. (IF s = 0 THEN work.best ELSE s) \in 0..MaxSubmissions
        OBVIOUS
    <2>5. work' \in [team : Teams \cup {NoTeam}, left : SUBSET Ids, best : 0..MaxSubmissions,
                     score : Scores \cup {0}, sum : Nat]
        BY <2>1, <2>2, <2>3, <2>4 DEF Turn
    <2> QED BY <1>8, <2>5, ScoreFrame
<1>9. CASE CreateRecord
    <2>1. [saved |-> TRUE, points |-> work.sum] \in [saved : BOOLEAN, points : Nat]
        OBVIOUS
    <2>2. NoWork \in [team : Teams \cup {NoTeam}, left : SUBSET Ids, best : 0..MaxSubmissions,
                      score : Scores \cup {0}, sum : Nat]
        BY DEF NoWork
    <2> QED BY <1>9, <2>1, <2>2 DEF CreateRecord
<1>10. CASE ResetRecords
    BY <1>10 DEF ResetRecords, NoRecord
<1>11. CASE Crash
    BY <1>11 DEF Crash, NoWork
<1>12. CASE UNCHANGED vars
    BY <1>12 DEF vars
<1>13. CASE LoadStart \/ LoadStartFails \/ SetStart
    BY <1>13 DEF LoadStart, LoadStartFails, SetStart
<1>14. CASE SkipRound \/ DropRound \/ Wake \/ Pause
    BY <1>14 DEF SkipRound, DropRound, Wake, Pause
<1>15. CASE ScoreInjectFails \/ RecordFails
    <2> DEFINE W == [team : Teams \cup {NoTeam}, left : SUBSET Ids, best : 0..MaxSubmissions,
                     score : Scores \cup {0}, sum : Nat]
    <2>1. [work EXCEPT !.left = {}, !.sum = 0] \in W
        OBVIOUS
    <2>2. NoWork \in W
        BY DEF NoWork
    <2>3. work' \in W
        BY <1>15, <2>1, <2>2 DEF ScoreInjectFails, RecordFails
    <2> QED BY <1>15, <2>3 DEF ScoreInjectFails, RecordFails
<1>16. CASE ResetLock \/ ResetSubmissions \/ ResetFails \/ ResetStart
    BY <1>16 DEF ResetLock, ResetSubmissions, ResetFails, ResetStart
<1> QED BY <1>1, <1>2, <1>3, <1>4, <1>5, <1>6, <1>7, <1>8, <1>9, <1>10, <1>11, <1>12, <1>13,
           <1>14, <1>15, <1>16
        DEF Next, Starting, Handling, Scoring, Resetting

\* The clock does not go back.
LEMMA NowStep == IInv /\ [Next]_vars => NowInv'
<1> SUFFICES ASSUME IInv, [Next]_vars PROVE NowInv'
    OBVIOUS
<1>a. NowInv /\ TimesOK
    BY DEF IInv
<1>b. ASSUME NEW t \in Teams, BeginTeam(t)
      PROVE  /\ lpc = "scoring" /\ lpc' = "scoring" /\ startTime' = startTime /\ clock' = clock
             /\ firstRecord' = firstRecord /\ roundTime' = roundTime /\ rpc' = rpc
             /\ loaded' = loaded
    BY <1>b, BeginEffect
<1> USE <1>a, Bounds DEF NowInv, TimesOK, event, records, round
<1>1. CASE Main \/ CreateInject \/ InvalidateSave
    BY <1>1 DEF Main, CreateInject, InvalidateSave
<1>2. ASSUME NEW i \in Ids, DeleteInject(i) PROVE NowInv'
    BY <1>2 DEF DeleteInject
<1>3. ASSUME NEW t \in Teams, NEW i \in Ids, SubmitInject(t, i) PROVE NowInv'
    BY <1>3 DEF SubmitInject
<1>4. ASSUME NEW s \in SubIds, GradeRead(s) \/ InvalidateRead(s) PROVE NowInv'
    BY <1>4 DEF GradeRead, InvalidateRead
<1>5. ASSUME NEW v \in Scores, GradeSave(v) PROVE NowInv'
    BY <1>5 DEF GradeSave
<1>6. CASE BeginRound \/ BeginScoring \/ EndScoring \/ Tick
    BY <1>6 DEF BeginRound, BeginScoring, EndScoring, Tick
<1>7. ASSUME NEW t \in Teams, BeginTeam(t) PROVE NowInv'
    BY <1>7, <1>b
<1>8. CASE ScoreInject \/ CreateRecord
    BY <1>8, ScoreFrame DEF CreateRecord
<1>9. CASE ResetSubmissions \/ Crash
    BY <1>9 DEF ResetSubmissions, Crash
<1>10. CASE UNCHANGED vars
    BY <1>10 DEF vars
<1>11. CASE LoadStart \/ LoadStartFails \/ SetStart
    BY <1>11 DEF LoadStart, LoadStartFails, SetStart
<1>12. CASE SkipRound \/ DropRound \/ ScoreInjectFails \/ RecordFails \/ Wake \/ Pause
    BY <1>12 DEF SkipRound, DropRound, ScoreInjectFails, RecordFails, Wake, Pause
<1>13. CASE ResetLock \/ ResetRecords \/ ResetFails \/ ResetStart
    BY <1>13 DEF ResetLock, ResetRecords, ResetFails, ResetStart
<1> QED BY <1>1, <1>2, <1>3, <1>4, <1>5, <1>6, <1>7, <1>8, <1>9, <1>10, <1>11, <1>12, <1>13
        DEF Next, Starting, Handling, Scoring, Resetting

\* Only a start-up after the first record moves the start of the event, and only once.
LEMMA MovesStep == IInv /\ [Next]_vars => MovesInv'
<1> SUFFICES ASSUME IInv, [Next]_vars PROVE MovesInv'
    OBVIOUS
<1>a. MovesInv /\ NowInv /\ TimesOK
    BY DEF IInv
<1> USE <1>a, Bounds DEF MovesInv, TimesOK, StartUp, Places, event, records, round, startHistory
<1>1. CASE Main
    BY <1>1 DEF Main
<1>2. CASE CreateInject \/ InvalidateSave
    BY <1>2 DEF CreateInject, InvalidateSave
<1>3. ASSUME NEW i \in Ids, DeleteInject(i) PROVE MovesInv'
    BY <1>3 DEF DeleteInject
<1>4. ASSUME NEW t \in Teams, NEW i \in Ids, SubmitInject(t, i) PROVE MovesInv'
    BY <1>4 DEF SubmitInject
<1>5. ASSUME NEW s \in SubIds, GradeRead(s) \/ InvalidateRead(s) PROVE MovesInv'
    BY <1>5 DEF GradeRead, InvalidateRead
<1>6. ASSUME NEW v \in Scores, GradeSave(v) PROVE MovesInv'
    BY <1>6 DEF GradeSave
<1>7. CASE BeginRound \/ SkipRound
    BY <1>7 DEF BeginRound, SkipRound, NowInv
<1>8. CASE DropRound \/ BeginScoring
    BY <1>8 DEF DropRound, BeginScoring
<1>9. ASSUME NEW t \in Teams, BeginTeam(t) PROVE MovesInv'
    BY <1>9 DEF BeginTeam
<1>10. CASE ScoreInject
    BY <1>10, ScoreFrame
<1>11. CASE CreateRecord
    BY <1>11 DEF CreateRecord, NowInv
<1>12. CASE ScoreInjectFails \/ RecordFails
    BY <1>12 DEF ScoreInjectFails, RecordFails
<1>13. CASE EndScoring \/ Tick
    BY <1>13 DEF EndScoring, Tick
<1>14. CASE Wake \/ Pause
    BY <1>14 DEF Wake, Pause
<1>15. CASE LoadStart \/ LoadStartFails
    BY <1>15 DEF LoadStart, LoadStartFails
<1>16. CASE SetStart
    BY <1>16 DEF SetStart
<1>17. CASE ResetLock \/ ResetRecords
    BY <1>17 DEF ResetLock, ResetRecords
<1>18. CASE ResetSubmissions \/ ResetFails
    BY <1>18 DEF ResetSubmissions, ResetFails
<1>19. CASE ResetStart
    BY <1>19 DEF ResetStart, NowInv
<1>20. CASE Crash
    BY <1>20 DEF Crash
<1>21. CASE UNCHANGED vars
    BY <1>21 DEF vars
<1> QED BY <1>1, <1>2, <1>3, <1>4, <1>5, <1>6, <1>7, <1>8, <1>9, <1>10, <1>11, <1>12, <1>13, <1>14,
           <1>15, <1>16, <1>17, <1>18, <1>19, <1>20, <1>21
        DEF Next, Starting, Handling, Scoring, Resetting

\* A round that is saved has not begun before the start of the event, unless that is astray.
LEMMA StartStep == IInv /\ [Next]_vars => StartInv'
<1> SUFFICES ASSUME IInv, [Next]_vars PROVE StartInv'
    OBVIOUS
<1>a. StartInv /\ MovesInv /\ NowInv /\ TimesOK
    BY DEF IInv
<1> USE <1>a, Bounds DEF StartInv, TimesOK, StartUp, Places, event, records, round, startHistory
<1>1. CASE Main
    BY <1>1 DEF Main
<1>2. CASE CreateInject \/ InvalidateSave
    BY <1>2 DEF CreateInject, InvalidateSave
<1>3. ASSUME NEW i \in Ids, DeleteInject(i) PROVE StartInv'
    BY <1>3 DEF DeleteInject
<1>4. ASSUME NEW t \in Teams, NEW i \in Ids, SubmitInject(t, i) PROVE StartInv'
    BY <1>4 DEF SubmitInject
<1>5. ASSUME NEW s \in SubIds, GradeRead(s) \/ InvalidateRead(s) PROVE StartInv'
    BY <1>5 DEF GradeRead, InvalidateRead
<1>6. ASSUME NEW v \in Scores, GradeSave(v) PROVE StartInv'
    BY <1>6 DEF GradeSave
<1>7. CASE BeginRound \/ SkipRound
    BY <1>7 DEF BeginRound, SkipRound, NowInv
<1>8. CASE DropRound \/ BeginScoring
    BY <1>8 DEF DropRound, BeginScoring
<1>9. ASSUME NEW t \in Teams, BeginTeam(t) PROVE StartInv'
    BY <1>9 DEF BeginTeam
<1>10. CASE ScoreInject
    BY <1>10, ScoreFrame
<1>11. CASE CreateRecord
    BY <1>11 DEF CreateRecord, NowInv
<1>12. CASE ScoreInjectFails \/ RecordFails
    BY <1>12 DEF ScoreInjectFails, RecordFails
<1>13. CASE EndScoring \/ Tick
    BY <1>13 DEF EndScoring, Tick
<1>14. CASE Wake \/ Pause
    BY <1>14 DEF Wake, Pause
<1>15. CASE LoadStart \/ LoadStartFails
    BY <1>15 DEF LoadStart, LoadStartFails
<1>16. CASE SetStart
    BY <1>16 DEF SetStart, MovesInv
<1>17. CASE ResetLock \/ ResetRecords
    BY <1>17 DEF ResetLock, ResetRecords
<1>18. CASE ResetSubmissions \/ ResetFails
    BY <1>18 DEF ResetSubmissions, ResetFails
<1>19. CASE ResetStart
    BY <1>19 DEF ResetStart, NowInv
<1>20. CASE Crash
    BY <1>20 DEF Crash
<1>21. CASE UNCHANGED vars
    BY <1>21 DEF vars
<1> QED BY <1>1, <1>2, <1>3, <1>4, <1>5, <1>6, <1>7, <1>8, <1>9, <1>10, <1>11, <1>12, <1>13, <1>14,
           <1>15, <1>16, <1>17, <1>18, <1>19, <1>20, <1>21
        DEF Next, Starting, Handling, Scoring, Resetting

\* A grade gets into the row it was given to, a new row has none, and a copy saved over a row
\* that has changed marks it as clobbered.
LEMMA GradeStep == IInv /\ [Next]_vars => GradeInv'
<1> SUFFICES ASSUME IInv, [Next]_vars PROVE GradeInv'
    OBVIOUS
<1>a. GradeInv /\ RowsOK
    BY DEF IInv
<1> USE <1>a, Bounds DEF GradeInv, GradeStands, RowsOK, tables, handlers, rowHistory
<1>1. CASE Main \/ CreateInject
    BY <1>1 DEF Main, CreateInject
<1>2. ASSUME NEW i \in Ids, DeleteInject(i) PROVE GradeInv'
    BY <1>2 DEF DeleteInject
<1>3. ASSUME NEW t \in Teams, NEW i \in Ids, SubmitInject(t, i) PROVE GradeInv'
    <2> DEFINE id == NextId(subs)
               row == [NoSub EXCEPT !.present = TRUE, !.team = t, !.inject = i]
    <2>1. /\ id \in SubIds /\ subs' = [subs EXCEPT ![id] = row]
          /\ UNCHANGED <<given, clobbered, invalidating>>
        BY <1>3 DEF SubmitInject
    <2>2. ~subs[id].present
        BY <2>1, NextIdIsFree DEF SubIds
    <2>3. row.present /\ row.score = 0
        BY DEF NoSub
    <2> HIDE DEF id, row
    <2> QED BY <2>1, <2>2, <2>3
<1>4. ASSUME NEW s \in SubIds, GradeRead(s) PROVE GradeInv'
    BY <1>4 DEF GradeRead
<1>5. ASSUME NEW s \in SubIds, InvalidateRead(s) PROVE GradeInv'
    BY <1>5 DEF InvalidateRead, Found
<1>6. ASSUME NEW v \in Scores, GradeSave(v) PROVE GradeInv'
    <2> DEFINE id == IF grading.id = 0 THEN NextId(subs) ELSE grading.id
               row == [grading.row EXCEPT !.present = TRUE, !.score = v, !.graded = TRUE]
    <2>1. /\ id \in SubIds /\ subs' = [subs EXCEPT ![id] = row]
          /\ given' = [given EXCEPT ![id] = v] /\ clobbered' = clobbered \ {id}
          /\ UNCHANGED invalidating
        BY <1>6 DEF GradeSave
    <2>2. row.present /\ row.score = v
        BY DEF Handler, Sub
    <2> HIDE DEF id, row
    <2> QED BY <2>1, <2>2
<1>7. CASE InvalidateSave
    <2> DEFINE id == invalidating.id
               row == [invalidating.row EXCEPT !.invalid = TRUE]
    <2>1. /\ id \in SubIds /\ invalidating.row.present
          /\ subs' = [subs EXCEPT ![id] = row]
          /\ clobbered' = IF subs[id] = invalidating.row THEN clobbered ELSE clobbered \cup {id}
          /\ UNCHANGED given /\ invalidating' = Idle
        BY <1>7 DEF InvalidateSave
    <2>2. row.present /\ row.score = invalidating.row.score
        BY <2>1 DEF Handler, Sub
    <2>3. id \notin clobbered' => subs[id] = invalidating.row
        BY <2>1
    <2> HIDE DEF id, row
    <2>4. \A s \in SubIds : subs'[s] = IF s = id THEN row ELSE subs[s]
        BY <2>1
    <2>5. ASSUME NEW s \in SubIds, ~subs'[s].present PROVE given'[s] = 0
        BY <2>1, <2>2, <2>4, <2>5
    <2>6. ASSUME NEW s \in SubIds, subs'[s].present, s \notin clobbered'
          PROVE  subs'[s].score = given'[s]
        <3>1. CASE s = id
            <4>1. id \notin clobbered /\ subs[id] = invalidating.row
                BY <2>1, <2>6, <3>1
            <4> QED BY <2>1, <2>2, <2>4, <3>1, <4>1
        <3>2. CASE s # id
            <4>1. subs'[s] = subs[s]
                BY <2>4, <3>2
            <4>2. given' = given
                BY <2>1
            <4>3. clobbered \subseteq clobbered'
                BY <2>1
            <4> QED BY <2>6, <4>1, <4>2, <4>3
        <3> QED BY <3>1, <3>2
    <2> QED BY <2>1, <2>5, <2>6
<1>8. CASE BeginRound \/ BeginScoring \/ ScoreInject \/ CreateRecord \/ EndScoring \/ Tick
    BY <1>8, ScoreFrame DEF BeginRound, BeginScoring, CreateRecord, EndScoring, Tick
<1>9. ASSUME NEW t \in Teams, BeginTeam(t) PROVE GradeInv'
    BY <1>9 DEF BeginTeam
<1>10. CASE ResetSubmissions
    BY <1>10 DEF ResetSubmissions, NoSub
<1>11. CASE Crash
    BY <1>11 DEF Crash
<1>12. CASE UNCHANGED vars
    BY <1>12 DEF vars
<1>13. CASE LoadStart \/ LoadStartFails \/ SetStart
    BY <1>13 DEF LoadStart, LoadStartFails, SetStart
<1>14. CASE SkipRound \/ DropRound \/ ScoreInjectFails \/ RecordFails \/ Wake \/ Pause
    BY <1>14 DEF SkipRound, DropRound, ScoreInjectFails, RecordFails, Wake, Pause
<1>15. CASE ResetLock \/ ResetRecords \/ ResetFails \/ ResetStart
    BY <1>15 DEF ResetLock, ResetRecords, ResetFails, ResetStart
<1> QED BY <1>1, <1>2, <1>3, <1>4, <1>5, <1>6, <1>7, <1>8, <1>9, <1>10, <1>11, <1>12, <1>13,
           <1>14, <1>15
        DEF Next, Starting, Handling, Scoring, Resetting

-----------------------------------------------------------------------------
(* Points *)

LEMMA IdsAreFinite == IsFiniteSet(Ids) /\ IsFiniteSet(SubIds)
BY Bounds, FS_Interval DEF Ids, SubIds

LEMMA SubType ==
    ASSUME RowsOK
    PROVE  \A s \in SubIds : subs[s].score \in Nat /\ subs[s].inject \in 0..MaxInjects
<1> TAKE s \in SubIds
<1>1. subs[s] \in Sub
    BY DEF RowsOK
<1>2. subs[s].score \in Scores \cup {0} /\ subs[s].inject \in 0..MaxInjects
    BY <1>1 DEF Sub
<1> QED BY <1>2, GradesAreNumbers

\* The best grade of a team is one of its rows', or zero.
LEMMA BestIs ==
    ASSUME RowsOK, NEW t \in Teams
    PROVE  /\ Best(t) \in Nat
           /\ \A s \in SubIds : subs[s].present /\ subs[s].team = t => subs[s].score <= Best(t)
           /\ \/ Best(t) = 0
              \/ \E s \in SubIds : subs[s].present /\ subs[s].team = t /\ subs[s].score = Best(t)
<1> DEFINE all == UNION {Scored(t, j) : j \in 0..MaxInjects}
           grades == {subs[s].score : s \in SubIds}
<1>1. \A s \in SubIds : subs[s].score \in Nat /\ subs[s].inject \in 0..MaxInjects
    BY SubType
<1>2. \A x \in all : x = 0 \/ \E s \in SubIds : /\ subs[s].present /\ subs[s].team = t
                                                /\ x = subs[s].score
    BY DEF Scored
<1>3. 0 \in all
    <2>1. 0 \in 0..MaxInjects /\ 0 \in Scored(t, 0)
        BY Bounds DEF Scored
    <2> QED BY <2>1
<1>4. \A s \in SubIds : subs[s].present /\ subs[s].team = t => subs[s].score \in all
    <2> SUFFICES ASSUME NEW s \in SubIds, subs[s].present, subs[s].team = t
                 PROVE  subs[s].score \in all
        OBVIOUS
    <2>1. subs[s].score \in Scored(t, subs[s].inject)
        BY DEF Scored
    <2> QED BY <1>1, <2>1
<1>5. IsFiniteSet(grades \cup {0})
    <2> DEFINE f == [s \in SubIds |-> subs[s].score]
    <2>1. grades = Range(f) /\ f \in [SubIds -> Range(f)]
        BY DEF Range
    <2> HIDE DEF f
    <2>2. IsFiniteSet(grades)
        BY <2>1, IdsAreFinite, ImageIsSmaller
    <2> QED BY <2>2, FS_AddElement
<1> HIDE DEF all
<1>6. all \subseteq Nat /\ all \in SUBSET (grades \cup {0})
    BY <1>1, <1>2
<1> HIDE DEF grades
<1>7. IsFiniteSet(all) /\ all # {}
    BY <1>3, <1>5, <1>6, FS_Subset
<1>8. Max(all) \in all /\ \A y \in all : Max(all) >= y
    BY <1>6, <1>7, MaxOfFinite
<1>9. Best(t) = Max(all)
    BY DEF Best, all
<1>10. Best(t) \in all /\ Best(t) \in Nat /\ \A y \in all : y <= Best(t)
    BY <1>6, <1>8, <1>9
<1> QED BY <1>2, <1>4, <1>10

LEMMA WorthType == ASSUME RowsOK, NEW n \in Nat, NEW i \in Ids PROVE Worth(n, i) \in Nat
<1>1. PICK points \in Nat : points = injects[i].points
    BY DEF RowsOK, Inject
<1>2. n * points \in Nat
    OBVIOUS
<1>3. (n * points) \div 100 \in Nat
    BY <1>2, Remainder
<1> QED BY <1>1, <1>3 DEF Worth

\* A sum of the model is a sum over the domain of the function.
LEMMA SumOfDomain ==
    ASSUME NEW S, NEW f, DOMAIN f = S
    PROVE  SumOf(f) = SumOver(f, S)
BY DEF SumOf, FoldFunction, FoldFunctionOnSet, SumOver, MapThenFoldSet, AnElement

\* What a team is due, and what is still to come of it, are sums.
LEMMA SumsAre ==
    ASSUME RowsOK, NEW t \in Teams, NEW left \in SUBSET Ids
    PROVE  LET f == [i \in Ids |-> IF i \in left THEN Worth(Best(t), i) ELSE 0]
           IN  /\ f \in [Ids -> Int] /\ SumOf(f) = SumOver(f, Ids) /\ SumOf(f) \in Int
               /\ left = {} => SumOf(f) = 0
               /\ {i \in Ids : injects[i].present} \subseteq left => SumOf(f) = Due(t)
<1> DEFINE f == [i \in Ids |-> IF i \in left THEN Worth(Best(t), i) ELSE 0]
<1>1. f \in [Ids -> Int]
    BY BestIs, WorthType
<1>2. SumOf(f) = SumOver(f, Ids)
    <2>1. DOMAIN f = Ids
        OBVIOUS
    <2> HIDE DEF f
    <2> QED BY <2>1, SumOfDomain
<1>3. SumOver(f, Ids) \in Int
    <2> HIDE DEF f
    <2> QED BY <1>1, SumType, IdsAreFinite
<1>4. ASSUME left = {} PROVE SumOf(f) = 0
    <2>1. f = [i \in Ids |-> 0]
        BY <1>4
    <2>2. SumOver([i \in Ids |-> 0], Ids) = 0
        BY SumOfZeroes, IdsAreFinite
    <2> HIDE DEF f
    <2> QED BY <1>2, <2>1, <2>2
<1>5. ASSUME {i \in Ids : injects[i].present} \subseteq left PROVE SumOf(f) = Due(t)
    <2>1. \A i \in Ids : (IF i \in left THEN Worth(Best(t), i) ELSE 0) = Worth(Best(t), i)
        BY <1>5 DEF Worth
    <2>2. f = [i \in Ids |-> Worth(Best(t), i)]
        BY <2>1
    <2> QED BY <2>2, Zenon DEF Due
<1> HIDE DEF f
<1>6. /\ f \in [Ids -> Int] /\ SumOf(f) = SumOver(f, Ids) /\ SumOf(f) \in Int
      /\ left = {} => SumOf(f) = 0
      /\ {i \in Ids : injects[i].present} \subseteq left => SumOf(f) = Due(t)
    BY <1>1, <1>2, <1>3, <1>4, <1>5
<1> QED BY <1>6 DEF f

\* With the tables, what a team is due stays as it is.
LEMMA DueStays ==
    ASSUME UNCHANGED tables
    PROVE  \A t \in Teams : Best(t)' = Best(t) /\ Due(t)' = Due(t)
<1>1. injects' = injects /\ subs' = subs
    BY DEF tables
<1>2. \A t \in Teams : Best(t)' = Best(t)
    BY <1>1 DEF Best, Scored
<1> QED BY <1>1, <1>2 DEF Due, Worth

-----------------------------------------------------------------------------
(* When no row changes, two rounds settle the points *)

\* A round saves a record for every team, in the order it takes the teams up.
LEMMA SavedStep == IInv /\ [Next]_vars => SavedInv'
<1> SUFFICES ASSUME IInv, [Next]_vars PROVE SavedInv'
    OBVIOUS
<1>a. SavedInv /\ NowInv /\ WorkOK
    BY DEF IInv
<1>b. ScoreInject => work'.team = work.team
    BY ScoreEffect DEF IInv, Turn
<1> USE <1>a, Bounds DEF SavedInv, NowInv, StartUp, records, round
<1>1. CASE Main
    BY <1>1 DEF Main
<1>2. CASE CreateInject \/ InvalidateSave
    BY <1>2 DEF CreateInject, InvalidateSave
<1>3. ASSUME NEW i \in Ids, DeleteInject(i) PROVE SavedInv'
    BY <1>3 DEF DeleteInject
<1>4. ASSUME NEW t \in Teams, NEW i \in Ids, SubmitInject(t, i) PROVE SavedInv'
    BY <1>4 DEF SubmitInject
<1>5. ASSUME NEW s \in SubIds, GradeRead(s) \/ InvalidateRead(s) PROVE SavedInv'
    BY <1>5 DEF GradeRead, InvalidateRead
<1>6. ASSUME NEW v \in Scores, GradeSave(v) PROVE SavedInv'
    BY <1>6 DEF GradeSave
<1>7. CASE BeginRound \/ Tick
    BY <1>7 DEF BeginRound, Tick
<1>8. CASE BeginScoring
    BY <1>8 DEF BeginScoring
<1>9. ASSUME NEW t \in Teams, BeginTeam(t) PROVE SavedInv'
    <2>1. /\ lpc = "scoring" /\ lpc' = lpc /\ quiet' = quiet /\ latest' = latest
          /\ work = NoWork /\ todo' = todo \ {t} /\ work'.team = t
        BY <1>9, BeginEffect
    <2>2. NoWork.team = NoTeam
        BY DEF NoWork
    <2> QED BY <2>1, <2>2
<1>10. CASE ScoreInject
    <2>1. work # NoWork /\ UNCHANGED <<lpc, quiet, latest, todo>>
        BY <1>10, ScoreFrame
    <2>2. work'.team = work.team
        BY <1>10, <1>b
    <2> QED BY <2>1, <2>2
<1>11. CASE CreateRecord
    <2>1. /\ work # NoWork /\ work' = NoWork /\ UNCHANGED <<lpc, quiet, todo>>
          /\ latest' = [latest EXCEPT ![work.team] = [saved |-> TRUE, points |-> work.sum]]
        BY <1>11 DEF CreateRecord
    <2>2. \A t \in Teams : latest'[t].saved <=> (t = work.team \/ latest[t].saved)
        BY <2>1 DEF WorkOK
    <2> QED BY <2>1, <2>2
<1>12. CASE EndScoring
    <2>1. NoWork.team = NoTeam
        BY DEF NoWork
    <2> QED BY <1>12, <2>1 DEF EndScoring
<1>13. CASE ResetRecords \/ ResetSubmissions \/ Crash
    BY <1>13 DEF ResetRecords, ResetSubmissions, Crash
<1>14. CASE UNCHANGED vars
    BY <1>14 DEF vars
<1>15. CASE LoadStart \/ LoadStartFails \/ SetStart
    BY <1>15 DEF LoadStart, LoadStartFails, SetStart
<1>16. CASE SkipRound \/ DropRound \/ Wake \/ Pause
    BY <1>16 DEF SkipRound, DropRound, Wake, Pause
<1>17. CASE ScoreInjectFails
    BY <1>17 DEF ScoreInjectFails, WorkOK
<1>18. CASE RecordFails
    BY <1>18 DEF RecordFails
<1>19. CASE ResetLock \/ ResetFails \/ ResetStart
    BY <1>19 DEF ResetLock, ResetFails, ResetStart
<1> QED BY <1>1, <1>2, <1>3, <1>4, <1>5, <1>6, <1>7, <1>8, <1>9, <1>10, <1>11, <1>12, <1>13,
           <1>14, <1>15, <1>16, <1>17, <1>18, <1>19
        DEF Next, Starting, Handling, Scoring, Resetting

\* The first row found for a team is its best; no other is found after it.
LEMMA TurnFindsBest ==
    ASSUME RowsOK, WorkOK, WorkInv, work.team \in Teams, latest[work.team].saved,
           NEW s \in 0..MaxSubmissions, NEW score, NEW i \in work.left, Turn(s, score, i)
    PROVE  /\ score = Best(work.team)
           /\ s # 0 => /\ subs[s].present /\ subs[s].team = work.team
                       /\ subs[s].score = score
           /\ s = 0 => work.best = 0
<1> DEFINE t == work.team
<1>1. Candidates = {q \in SubIds : /\ subs[q].present /\ subs[q].team = t
                                   /\ work.best \in {0, q}}
    BY DEF Candidates
<1>2. \A q \in SubIds : subs[q].score \in Nat
    BY SubType
<1>3. /\ s = 0 => BestRows = {} /\ score = work.score
      /\ s # 0 => s \in BestRows /\ score = subs[s].score
    BY DEF Turn
<1>4. work.best \in 0..MaxSubmissions /\ (work.best # 0 => work.best \in SubIds)
    BY Bounds DEF WorkOK, SubIds
<1>5. /\ Best(t) \in Nat
      /\ \A q \in SubIds : subs[q].present /\ subs[q].team = t => subs[q].score <= Best(t)
      /\ Best(t) = 0 \/ \E q \in SubIds : /\ subs[q].present /\ subs[q].team = t
                                           /\ subs[q].score = Best(t)
    BY BestIs
<1>6. CASE work.best # 0
    <2>1. Candidates = {work.best}
        BY <1>1, <1>4, <1>6 DEF WorkInv
    <2>2. BestRows = {work.best}
        BY <1>2, <1>4, <1>6, <2>1 DEF BestRows
    <2> QED BY <1>3, <1>6, <2>2 DEF WorkInv
<1>7. CASE work.best = 0
    <2>1. Candidates = {q \in SubIds : subs[q].present /\ subs[q].team = t}
        BY <1>1, <1>7
    <2>2. \A q \in SubIds : (subs[q].present /\ subs[q].team = t /\ subs[q].score = Best(t))
                             => q \in BestRows
        BY <1>5, <2>1 DEF BestRows
    <2>3. CASE s = 0
        <3>1. Best(t) = 0
            BY <1>3, <1>5, <2>2, <2>3
        <3> QED BY <1>3, <1>7, <2>3, <3>1 DEF WorkInv
    <2>4. CASE s # 0
        <3>1. /\ s \in SubIds /\ subs[s].present /\ subs[s].team = t /\ score = subs[s].score
              /\ \A q \in SubIds : subs[q].present /\ subs[q].team = t
                                         => subs[q].score <= subs[s].score
            BY <1>3, <2>1, <2>4 DEF BestRows
        <3>2. subs[s].score <= Best(t) /\ Best(t) <= subs[s].score
            BY <1>2, <1>5, <3>1
        <3>3. subs[s].score = Best(t)
            BY <1>2, <1>5, <3>1, <3>2
        <3> QED BY <2>4, <3>1, <3>3
    <2> QED BY <2>3, <2>4
<1> QED BY <1>6, <1>7

\* What is still to come of a team's due, if these rows stay and the work is this.
Rest(t, left) == SumOf([j \in Ids |-> IF j \in left THEN Worth(Best(t), j) ELSE 0])

LEMMA ToComeIs ==
    /\ ToCome = Rest(work.team, work.left)
    /\ UNCHANGED tables => ToCome' = Rest(work'.team, work'.left)
<1>1. ToCome = Rest(work.team, work.left)
    BY Zenon DEF ToCome, Rest
<1>2. ASSUME UNCHANGED tables PROVE ToCome' = Rest(work'.team, work'.left)
    <2>1. injects' = injects /\ subs' = subs
        BY <1>2 DEF tables
    <2> QED BY <2>1 DEF ToCome, Rest, Worth, Best, Scored
<1> QED BY <1>1, <1>2

\* One inject less is still to come.
LEMMA RestWithout ==
    ASSUME RowsOK, NEW t \in Teams, NEW left \in SUBSET Ids, NEW i \in left
    PROVE  /\ Rest(t, left) \in Int /\ Rest(t, left \ {i}) \in Int
           /\ Rest(t, left) = Rest(t, left \ {i}) + Worth(Best(t), i)
<1> DEFINE f == [j \in Ids |-> IF j \in left THEN Worth(Best(t), j) ELSE 0]
           h == [j \in Ids |-> IF j \in left \ {i} THEN Worth(Best(t), j) ELSE 0]
<1>1. f \in [Ids -> Int] /\ Rest(t, left) = SumOver(f, Ids) /\ Rest(t, left) \in Int
    BY SumsAre DEF Rest
<1>2. left \ {i} \in SUBSET Ids
    OBVIOUS
<1>3. h \in [Ids -> Int] /\ Rest(t, left \ {i}) = SumOver(h, Ids) /\ Rest(t, left \ {i}) \in Int
    BY <1>2, SumsAre DEF Rest
<1>4. i \in Ids /\ (\A x \in Ids \ {i} : f[x] = h[x]) /\ h[i] = 0 /\ f[i] = Worth(Best(t), i)
    OBVIOUS
<1>5. Worth(Best(t), i) \in Nat
    BY <1>4, BestIs, WorthType
<1> HIDE DEF f, h
<1>6. SumOver(f, Ids) = SumOver(h, Ids) + (f[i] - h[i])
    BY <1>1, <1>3, <1>4, IdsAreFinite, SumOfChange
<1> QED BY <1>1, <1>3, <1>4, <1>5, <1>6

\* calculateInjects adds what is due for one inject after the other.
LEMMA TurnKeepsWork ==
    ASSUME RowsOK, WorkOK, WorkInv, work.team \in Teams, latest[work.team].saved, UNCHANGED tables,
           NEW s \in 0..MaxSubmissions, NEW score, NEW i \in work.left, Turn(s, score, i)
    PROVE  WorkInv'
<1> DEFINE t == work.team
<1>1. injects' = injects /\ subs' = subs
    BY DEF tables
<1>2. /\ score = Best(t)
      /\ s # 0 => subs[s].present /\ subs[s].team = t /\ subs[s].score = score
      /\ s = 0 => work.best = 0
    BY TurnFindsBest
<1>3. /\ s = 0 => score = work.score
      /\ work'.team = t /\ work'.left = work.left \ {i} /\ work'.score = score
      /\ work'.best = IF s = 0 THEN work.best ELSE s
      /\ work'.sum = work.sum + (score * injects[i].points) \div 100
    BY DEF Turn
<1>4. work'.left \subseteq {j \in Ids : injects'[j].present}
    BY <1>1, <1>3 DEF WorkInv
<1>5. work'.best = 0 => work'.score = 0
    BY <1>2, <1>3 DEF WorkInv
<1>6. work'.best # 0 => /\ subs'[work'.best].present /\ subs'[work'.best].team = work'.team
                        /\ work'.score = Best(t) /\ subs'[work'.best].score = work'.score
    BY <1>1, <1>2, <1>3
<1>7. work'.sum + ToCome' = Due(t)
    <2>1. i \in Ids /\ injects[i].present /\ work.left \in SUBSET Ids
        BY DEF WorkInv, WorkOK
    <2>2. Worth(Best(t), i) = (score * injects[i].points) \div 100
        BY <1>2, <2>1 DEF Worth
    <2>3. Worth(Best(t), i) \in Nat
        BY <2>1, BestIs, WorthType
    <2>4. /\ Rest(t, work.left) \in Int /\ Rest(t, work.left \ {i}) \in Int
          /\ Rest(t, work.left) = Rest(t, work.left \ {i}) + Worth(Best(t), i)
        BY <2>1, RestWithout
    <2>5. ToCome = Rest(t, work.left) /\ ToCome' = Rest(t, work.left \ {i})
        BY <1>3, ToComeIs
    <2>6. work.sum \in Nat /\ work.sum + ToCome = Due(t)
        BY DEF WorkInv, WorkOK
    <2> QED BY <1>3, <2>2, <2>3, <2>4, <2>5, <2>6
<1>8. Best(work.team)' = Best(t) /\ Due(work.team)' = Due(t)
    BY <1>1, <1>3 DEF Best, Scored, Due, Worth
<1> QED BY <1>4, <1>5, <1>6, <1>7, <1>8 DEF WorkInv

\* With the rows, what is known of the work stays.
LEMMA WorkStays ==
    ASSUME UNCHANGED tables, work' = work, WorkInv
    PROVE  WorkInv'
<1>1. injects' = injects /\ subs' = subs
    BY DEF tables
<1> QED BY <1>1 DEF WorkInv, ToCome, Due, Worth, Best, Scored

\* A team's work begins with all its due still to come.
LEMMA FirstWork ==
    ASSUME RowsOK, UNCHANGED tables, NEW t \in Teams,
           work' = [team |-> t, left |-> {i \in Ids : injects[i].present}, best |-> 0,
                    score |-> 0, sum |-> 0]
    PROVE  WorkInv'
<1>1. injects' = injects /\ subs' = subs
    BY DEF tables
<1>2. /\ work'.team = t /\ work'.left = {i \in Ids : injects[i].present}
      /\ work'.best = 0 /\ work'.score = 0 /\ work'.sum = 0
    OBVIOUS
<1>3. {i \in Ids : injects[i].present} \in SUBSET Ids
    OBVIOUS
<1>4. Rest(t, {i \in Ids : injects[i].present}) = Due(t) /\ Due(t) \in Int
    BY <1>3, SumsAre DEF Rest
<1>5. ToCome' = Due(t)
    BY <1>2, <1>4, ToComeIs
<1>6. Due(work.team)' = Due(t)
    BY <1>1, <1>2 DEF Best, Scored, Due, Worth
<1>7. work'.sum + ToCome' = Due(work.team)'
    BY <1>2, <1>4, <1>5, <1>6
<1> QED BY <1>1, <1>2, <1>7 DEF WorkInv

\* When nothing is left, the sum is what the team was due.
LEMMA LastWork ==
    ASSUME RowsOK, WorkOK, WorkInv, work.team \in Teams, work.left = {}
    PROVE  work.sum = Due(work.team)
<1>1. {} \in SUBSET Ids
    OBVIOUS
<1>2. Rest(work.team, {}) = 0
    BY <1>1, SumsAre DEF Rest
<1>3. ToCome = 0 /\ work.sum \in Nat /\ work.sum + ToCome = Due(work.team)
    BY <1>2, ToComeIs DEF WorkInv, WorkOK
<1> QED BY <1>3

\* A round in which no row changes gives every team what it is due.
LEMMA SettledStep == IInv /\ [Next]_vars => SettledInv'
<1> SUFFICES ASSUME IInv, [Next]_vars PROVE SettledInv'
    OBVIOUS
<1>a. SettledInv /\ SavedInv /\ NowInv /\ WorkOK /\ RowsOK /\ quiet \in 0..2
    BY DEF IInv, TimesOK
<1>b. ASSUME UNCHANGED tables
      PROVE  \A t \in Teams : Due(t)' = Due(t)
    BY <1>b, DueStays
<1>1. ASSUME quiet' = 0 PROVE SettledInv'
    BY <1>1 DEF SettledInv
<1>2. ASSUME UNCHANGED <<tables, work, todo, latest, quiet>>, lpc' = "scoring" => lpc = "scoring"
      PROVE  SettledInv'
    <2>1. work # NoWork /\ WorkInv => WorkInv'
        BY <1>2, WorkStays
    <2> QED BY <1>2, <1>a, <1>b, <2>1 DEF SettledInv
<1>3. CASE Main
    BY <1>1, <1>3, <1>a DEF Main, SavedInv, StartUp
<1>4. CASE CreateInject \/ InvalidateSave \/ Crash
    BY <1>1, <1>4 DEF CreateInject, InvalidateSave, Crash
<1>5. ASSUME NEW i \in Ids, DeleteInject(i) PROVE SettledInv'
    BY <1>1, <1>5 DEF DeleteInject
<1>6. ASSUME NEW t \in Teams, NEW i \in Ids, SubmitInject(t, i) PROVE SettledInv'
    BY <1>1, <1>6 DEF SubmitInject
<1>7. ASSUME NEW v \in Scores, GradeSave(v) PROVE SettledInv'
    BY <1>1, <1>7 DEF GradeSave
<1>8. ASSUME NEW s \in SubIds, GradeRead(s) \/ InvalidateRead(s) PROVE SettledInv'
    BY <1>2, <1>8 DEF GradeRead, InvalidateRead, round, records
<1>9. CASE BeginRound \/ Tick
    BY <1>2, <1>9 DEF BeginRound, Tick, round, records
<1>10. CASE BeginScoring
    <2>1. /\ UNCHANGED <<tables, work, latest, quiet>> /\ lpc = "checks" /\ todo' = Teams
        BY <1>10 DEF BeginScoring, records
    <2>2. work' = NoWork
        BY <2>1, <1>a DEF NowInv
    <2> QED BY <2>1, <2>2, <1>a, <1>b DEF SettledInv
<1>11. ASSUME NEW t \in Teams, BeginTeam(t) PROVE SettledInv'
    <2>1. /\ UNCHANGED <<tables, latest, quiet, lpc>> /\ todo' = todo \ {t} /\ work = NoWork
          /\ lpc = "scoring"
          /\ work' = [team |-> t, left |-> {i \in Ids : injects[i].present}, best |-> 0,
                      score |-> 0, sum |-> 0]
        BY <1>11, BeginEffect DEF tables
    <2>2. WorkInv'
        BY <2>1, <1>a, FirstWork
    <2>3. work'.team = t /\ NoWork.team = NoTeam
        BY <2>1 DEF NoWork
    <2>4. \A u \in Teams \ todo' : u # work'.team => u \in Teams \ todo /\ u # work.team
        BY <2>1, <2>3, Bounds
    <2> QED BY <2>1, <2>2, <2>4, <1>a, <1>b DEF SettledInv
<1>12. CASE ScoreInject
    <2>1. UNCHANGED <<tables, latest, quiet, lpc, todo>> /\ work # NoWork
        BY <1>12, ScoreFrame DEF records
    <2>2. PICK s \in 0..MaxSubmissions, score \in Scores \cup {0}, i \in work.left : Turn(s, score, i)
        BY <1>12, <1>a, ScoreEffect
    <2>3. work'.team = work.team /\ work.team \in Teams
        BY <2>1, <2>2, <1>a DEF Turn, SavedInv
    <2>4. ASSUME quiet # 0 PROVE WorkInv'
        BY <2>1, <2>2, <2>3, <2>4, <1>a, TurnKeepsWork DEF SavedInv, SettledInv
    <2> QED BY <2>1, <2>3, <2>4, <1>a, <1>b DEF SettledInv
<1>13. CASE CreateRecord
    <2>1. /\ UNCHANGED <<tables, quiet, lpc, todo>> /\ work # NoWork /\ work.left = {}
          /\ latest' = [latest EXCEPT ![work.team] = [saved |-> TRUE, points |-> work.sum]]
          /\ work' = NoWork
        BY <1>13 DEF CreateRecord
    <2>2. work.team \in Teams /\ lpc = "scoring"
        BY <2>1, <1>a DEF SavedInv, NowInv
    <2>3. \A u \in Teams : latest'[u].points = IF u = work.team THEN work.sum ELSE latest[u].points
        BY <2>1, <1>a DEF WorkOK
    <2>4. ASSUME quiet # 0 PROVE work.sum = Due(work.team)
        BY <2>1, <2>2, <2>4, <1>a, LastWork DEF SettledInv
    <2> QED BY <2>1, <2>2, <2>3, <2>4, <1>a, <1>b DEF SettledInv
<1>14. CASE EndScoring
    <2>1. /\ UNCHANGED <<tables, work, todo, latest>> /\ lpc = "scoring" /\ lpc' = "asleep"
          /\ todo = {} /\ work = NoWork
          /\ quiet' \in {0, IF quiet < 2 THEN quiet + 1 ELSE 2}
        BY <1>14 DEF EndScoring, records
    <2>2. NoWork.team = NoTeam
        BY DEF NoWork
    <2>3. quiet' = 2 => quiet # 0
        BY <2>1, <1>a
    <2>4. ASSUME quiet # 0 PROVE \A u \in Teams : latest[u].points = Due(u)
        BY <2>1, <2>2, <2>4, <1>a, Bounds DEF SettledInv
    <2> QED BY <2>1, <2>3, <2>4, <1>b DEF SettledInv
<1>15. CASE UNCHANGED vars
    BY <1>2, <1>15 DEF vars, round, records
<1>16. CASE ResetRecords \/ ResetSubmissions \/ ScoreInjectFails \/ RecordFails
    BY <1>1, <1>16 DEF ResetRecords, ResetSubmissions, ScoreInjectFails, RecordFails
<1>17. CASE LoadStart \/ LoadStartFails \/ SetStart
    BY <1>2, <1>17 DEF LoadStart, LoadStartFails, SetStart, round, records
<1>18. CASE SkipRound \/ DropRound \/ Wake \/ Pause
    BY <1>2, <1>18 DEF SkipRound, DropRound, Wake, Pause, round, records
<1>19. CASE ResetLock \/ ResetFails \/ ResetStart
    BY <1>2, <1>19 DEF ResetLock, ResetFails, ResetStart, round, records
<1> QED BY <1>3, <1>4, <1>5, <1>6, <1>7, <1>8, <1>9, <1>10, <1>11, <1>12, <1>13, <1>14, <1>15,
           <1>16, <1>17, <1>18, <1>19, Zenon
        DEF Next, Starting, Handling, Scoring, Resetting

-----------------------------------------------------------------------------
\* Every reachable state satisfies the inductive invariant.
LEMMA Inductive == Spec => []IInv
<1>1. IInv /\ [Next]_vars => IInv'
    BY RowsStep, TimesStep, FlagsStep, WorkStep, NowStep, MovesStep, StartStep, GradeStep,
       SavedStep, SettledStep
       DEF IInv
<1> QED BY InitIInv, <1>1, PTL DEF Spec

\* The tables hold injects and submissions only, in particular no inject that opens before
\* ZeroTime (createInject, routes.go:453), and the sum of a team's points is always a number,
\* whatever rows calculateInjects meets (score.go:285-308).
THEOREM TypeCorrect == Spec => []TypeOK
<1>1. IInv => TypeOK
    BY TypeParts DEF IInv
<1> QED BY Inductive, <1>1, PTL

\* A submission's score is the last grade given to it, unless its invalidation has saved an
\* outdated copy of the row since (routes.go:594-696).
THEOREM GradeStandsAlways == Spec => []GradeStands
<1>1. IInv => GradeStands
    BY DEF IInv, GradeInv
<1> QED BY Inductive, <1>1, PTL

\* Once nobody has changed an inject or a submission, and no query failed, for two rounds, each team's inject points
\* are its own best grade on every inject there is (calculateInjects, score.go:285-308),
\* whatever rounds, handlers and restarts have overlapped before.
THEOREM PointsSettleAlways == Spec => []PointsSettle
<1>1. IInv => PointsSettle
    BY DEF IInv, SettledInv, PointsSettle, Due, Best
<1> QED BY Inductive, <1>1, PTL

\* However often the process is killed, the start of the event moves at most once after it was
\* set to the time of a start-up or of a reset; and it is never later than the first record
\* (score.go:28-35, util.go:201-226), but for the three cases named with StartSettles: a record
\* that cannot be read, one that cannot be deleted, a resetIssued cleared in the midst of a reset.
THEOREM StartSettlesAlways == Spec => []StartSettles
<1>1. IInv => StartSettles
    BY DEF IInv, MovesInv, StartInv, StartSettles
<1> QED BY Inductive, <1>1, PTL
=============================================================================
