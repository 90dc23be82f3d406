------------------------------ MODULE Injects ------------------------------
(***************************************************************************)
(* Injects and their submissions: how they come into the database          *)
(* (dwayne.go:256-307, routes.go:440-461), when they can be seen and       *)
(* answered (db.go:117-131, routes.go:463-592), how submissions are graded *)
(* and invalidated by handlers that read a row and save it later as a      *)
(* whole (routes.go:594-696), and how a round turns them into points       *)
(* (calculateInjects, score.go:285-308).  All of it hangs on startTime,    *)
(* which a start-up takes from the records or the clock (score.go:28-35)   *)
(* and a reset sets anew (util.go:201-226), one statement at a time, while *)
(* Score starts up, sleeps or has its checks run.                          *)
(*                                                                         *)
(* An instant is a number; ZeroTime, the instant the times of injects.conf *)
(* are relative to, is 0.  A difference of two instants is a               *)
(* time.Duration, which saturates at MaxDuration (292 years).              *)
(***************************************************************************)
EXTENDS Integers, Sequences, FiniteSetsExt, Functions

CONSTANTS
    Teams,         \* dwConf.Team
    ConfigInjects, \* injects.conf, as a sequence of [time, closes, points]
    ApiInjects,    \* the [closes, points] that POST /injects may ask for
    Scores,        \* the grades an admin may give, in percent
    NoPasswords,   \* dwConf.NoPasswords
    MaxDuration,   \* the greatest time.Duration
    GoZero,        \* time.Time{}: what an omitted time is decoded to
    Epoch,         \* the instant the first process is started at
    MaxClock, MaxInjects, MaxSubmissions, MaxReads, MaxResets, MaxFailures,
    MaxCrashes     \* bounds

NoTeam == "team 0"    \* the TeamID of a zero TeamRecord or InjectSubmission

\* The IDs of teams begin with 1.  Any real instant is further from ZeroTime, in year 0, than
\* a Duration can say.  Nobody gives negative points or grades.
ASSUME ConstantsAssumption ==
    /\ NoTeam \notin Teams
    /\ ConfigInjects \in Seq([time : Nat, closes : Nat, points : Nat])
    /\ ApiInjects \subseteq [closes : Nat, points : Nat]
    /\ Scores \subseteq Nat
    /\ NoPasswords \in BOOLEAN
    /\ {MaxDuration, GoZero, Epoch, MaxClock} \subseteq Nat
    /\ {MaxInjects, MaxSubmissions, MaxReads, MaxResets, MaxFailures, MaxCrashes} \subseteq Nat
    /\ GoZero < MaxDuration /\ MaxDuration < Epoch /\ Epoch <= MaxClock

Ids == 1..MaxInjects
SubIds == 1..MaxSubmissions

VARIABLES
    injects,       \* the table injects
    subs,          \* the table inject_submissions
    startTime, clock,
    firstRecord,   \* the Time of the first row of team_records, 0 if there is none
    latest,        \* the newest row of team_records of each team
    loaded,        \* the Time that Score's start-up has read (score.go:30), 0 if none
    lpc,           \* main, Score's start-up and its loop: one of Places
    rpc,           \* resetEvent, which holds teamMutex: the statement that is next, or "none"
    resetIssued,   \* set by resets and pauses: the round is not to be saved
    roundTime,     \* the Time of the records of the round under way
    todo,          \* recordsStaging: the teams whose record is still to be processed
    work,          \* calculateInjects, while it is at work for a team
    grading, invalidating,  \* the row a handler has read, and is going to save
    reads, resets, failures, crashes, \* bounded events; resets: and pauses
    quiet,         \* history: rounds scored, no team without a record, since anything they
                   \*    depend on has changed or a query of theirs has failed
    formerStart,   \* history: what startTime was last set to, by this process or the one before
    moves,         \* history: how often it has been moved to the first record's Time since it was
                   \*    last set to the clock's or there was no record
    astray,        \* history: it was set to the clock's in spite of a record older than that, or
                   \*    of a round older than that which may be saved
    given,         \* history: the last grade given to a submission
    clobbered      \* history: submissions an outdated copy was saved over since the last grade

tables == <<injects, subs>>
event == <<startTime, loaded, rpc, resetIssued>>
records == <<firstRecord, latest>>
round == <<roundTime, todo, work>>
handlers == <<grading, invalidating>>
bounds == <<reads, resets, failures, crashes>>
startHistory == <<formerStart, moves, astray>>
rowHistory == <<given, clobbered>>
vars == <<tables, event, clock, records, lpc, round, handlers, bounds, quiet, startHistory,
          rowHistory>>

\* "main": no server yet; "load" and "set": Score is about to read the first record, and to
\* set startTime; "idle": at the head of its loop; "checks" and "scoring": in a round.
StartUp == {"main", "load", "set"}
Places == StartUp \cup {"idle", "checks", "scoring", "asleep"}

NoInject == [present |-> FALSE, time |-> 0, closes |-> 0, points |-> 0]
Inject == [present : BOOLEAN, time : Nat, closes : Nat, points : Nat]

NoSub == [present |-> FALSE, team |-> NoTeam, inject |-> 0, score |-> 0, graded |-> FALSE,
          invalid |-> FALSE]
Sub == [present : BOOLEAN, team : Teams \cup {NoTeam}, inject : 0..MaxInjects,
        score : Scores \cup {0}, graded : BOOLEAN, invalid : BOOLEAN]

NoRecord == [saved |-> FALSE, points |-> 0]

\* left: the injects still to be gone through; best: the id of bestSubmission, 0 if no row
\* was found yet; score: its Score; sum: totalInjectPoints.
NoWork == [team |-> NoTeam, left |-> {}, best |-> 0, score |-> 0, sum |-> 0]

\* A handler that has read no row, or a row that it did not find.
Idle == [id |-> -1, row |-> NoSub]
Handler == [id : {-1} \cup 0..MaxSubmissions, row : Sub]

TypeOK ==
    /\ injects \in [Ids -> Inject]
    /\ subs \in [SubIds -> Sub]
    /\ startTime \in 0..MaxClock /\ clock \in Epoch..MaxClock
    /\ {firstRecord, loaded, formerStart} \subseteq 0..MaxClock
    /\ latest \in [Teams -> [saved : BOOLEAN, points : Nat]]
    /\ lpc \in Places
    /\ rpc \in {"none", "records", "submissions", "startTime"}
    /\ resetIssued \in BOOLEAN /\ astray \in BOOLEAN
    /\ roundTime \in 0..MaxClock
    /\ todo \subseteq Teams
    /\ work \in [team : Teams \cup {NoTeam}, left : SUBSET Ids, best : 0..MaxSubmissions,
                 score : Scores \cup {0}, sum : Nat]
    /\ grading \in Handler /\ invalidating \in Handler
    /\ {reads, resets, failures, crashes, moves} \subseteq Nat
    /\ quiet \in 0..2
    /\ given \in [SubIds -> Scores \cup {0}]
    /\ clobbered \subseteq SubIds

Init ==
    /\ injects = [i \in Ids |-> NoInject]
    /\ subs = [s \in SubIds |-> NoSub]
    /\ startTime = GoZero /\ clock = Epoch
    /\ firstRecord = 0
    /\ latest = [t \in Teams |-> NoRecord]
    /\ loaded = 0 /\ lpc = "main" /\ rpc = "none" /\ resetIssued = FALSE
    /\ roundTime = 0 /\ todo = {} /\ work = NoWork
    /\ grading = Idle /\ invalidating = Idle
    /\ reads = 0 /\ resets = 0 /\ failures = 0 /\ crashes = 0
    /\ quiet = 0 /\ formerStart = GoZero /\ moves = 0 /\ astray = FALSE
    /\ given = [s \in SubIds |-> 0]
    /\ clobbered = {}

-----------------------------------------------------------------------------
(* Times *)

\* a.Sub(b): a time.Duration does not overflow, it saturates.
Difference(a, b) ==
    IF a - b > MaxDuration THEN MaxDuration
    ELSE IF a - b < -MaxDuration THEN -MaxDuration ELSE a - b

OpenTime(i) ==
    IF injects[i].time = GoZero THEN startTime ELSE startTime + Difference(injects[i].time, 0)

CloseTime(i) == startTime + Difference(injects[i].closes, 0)

\* viewInject: whether a team is shown the inject.
CanView(i) == injects[i].present /\ clock >= OpenTime(i)

\* submitInject: whether a file for the inject is taken; the time compared with is
\* inject.Closes as it is in the table.
Accepts(i) == injects[i].present /\ clock <= injects[i].closes

-----------------------------------------------------------------------------
(* Start-up *)

\* The injects a start-up finds missing: the password change inject, which opens when the
\* process was started, and those of injects.conf.
Configured ==
    (IF NoPasswords THEN <<>> ELSE <<[time |-> clock, closes |-> GoZero, points |-> 0]>>)
        \o ConfigInjects

Row(i) == [present |-> TRUE, time |-> Configured[i].time, closes |-> Configured[i].closes,
           points |-> Configured[i].points]

\* main fills the table if it is empty, then starts Score and the server.
Main ==
    /\ lpc = "main"
    /\ lpc' = "load"
    /\ injects' = IF \E i \in Ids : injects[i].present
                  THEN injects
                  ELSE [i \in Ids |-> IF i \in DOMAIN Configured THEN Row(i) ELSE NoInject]
    /\ UNCHANGED <<subs, event, clock, records, round, handlers, bounds, quiet, startHistory,
                   rowHistory>>

Fail ==
    /\ failures < MaxFailures
    /\ failures' = failures + 1
    /\ UNCHANGED <<reads, resets, crashes>>

\* The start of Score holds no lock while it reads the first record.
LoadStart ==
    /\ lpc = "load"
    /\ lpc' = "set"
    /\ loaded' = firstRecord
    /\ UNCHANGED <<tables, startTime, rpc, resetIssued, clock, records, round, handlers, bounds,
                   quiet, startHistory, rowHistory>>

\* An error is taken for there being no record.
LoadStartFails ==
    /\ lpc = "load"
    /\ lpc' = "set"
    /\ Fail
    /\ loaded' = 0
    /\ astray' = TRUE
    /\ UNCHANGED <<tables, startTime, rpc, resetIssued, clock, records, round, handlers, quiet,
                   formerStart, moves, rowHistory>>

\* Mutant: the start of the event is the start of the process.
SetStartNow ==
    /\ lpc = "set"
    /\ lpc' = "idle"
    /\ startTime' = clock
    /\ loaded' = 0
    /\ formerStart' = startTime'
    /\ moves' = IF 0 \in {loaded, firstRecord} THEN 0
              ELSE IF formerStart = loaded THEN moves ELSE moves + 1
    /\ UNCHANGED <<tables, rpc, resetIssued, clock, records, round, handlers, bounds, quiet,
                   astray, rowHistory>>

\* The start of the event is the time of the record that was read, or now.
SetStart ==
    /\ lpc = "set"
    /\ lpc' = "idle"
    /\ startTime' = IF loaded # 0 THEN loaded ELSE clock
    /\ loaded' = 0
    /\ formerStart' = startTime'
    /\ moves' = IF 0 \in {loaded, firstRecord} THEN 0
              ELSE IF formerStart = loaded THEN moves ELSE moves + 1
    /\ UNCHANGED <<tables, rpc, resetIssued, clock, records, round, handlers, bounds, quiet,
                   astray, rowHistory>>

-----------------------------------------------------------------------------
(* The handlers of injects and submissions *)

\* The id SQLite gives a row: one more than the greatest in the table.
NextId(table) == Max({0} \cup {i \in DOMAIN table : table[i].present}) + 1

\* POST /injects: the inject opens now, whatever time was asked for.
CreateInject ==
    LET id == NextId(injects)
    IN  /\ lpc # "main"
        /\ id \in Ids
        /\ \E a \in ApiInjects :
              injects' = [injects EXCEPT ![id] =
                  [present |-> TRUE, time |-> Difference(clock, startTime),
                   closes |-> a.closes, points |-> a.points]]
        /\ quiet' = 0
        /\ UNCHANGED <<subs, event, clock, records, lpc, round, handlers, bounds,
                       startHistory, rowHistory>>

\* The submissions stay.
DeleteInject(i) ==
    /\ lpc # "main"
    /\ injects[i].present
    /\ injects' = [injects EXCEPT ![i] = NoInject]
    /\ quiet' = 0
    /\ UNCHANGED <<subs, event, clock, records, lpc, round, handlers, bounds, startHistory,
                   rowHistory>>

\* The file of an accepted submission is written first, then its row.  Nothing asks
\* whether the inject is open yet.
SubmitInject(t, i) ==
    LET id == NextId(subs)
    IN  /\ lpc # "main"
        /\ Accepts(i)
        /\ id \in SubIds
        /\ subs' = [subs EXCEPT ![id] =
                      [NoSub EXCEPT !.present = TRUE, !.team = t, !.inject = i]]
        /\ quiet' = 0
        /\ UNCHANGED <<injects, event, clock, records, lpc, round, handlers, bounds, startHistory,
                       rowHistory>>

\* What db.Find reads for a submission that was there when the page was made, or never was.
Found(s) == IF subs[s].present THEN [id |-> s, row |-> subs[s]] ELSE [id |-> 0, row |-> NoSub]

\* submitInjectGrade reads the row; it does not notice that there is none.
GradeRead(s) ==
    /\ lpc # "main"
    /\ grading = Idle
    /\ reads < MaxReads
    /\ reads' = reads + 1
    /\ grading' = Found(s)
    /\ UNCHANGED <<tables, event, clock, records, lpc, round, invalidating, resets, failures,
                   crashes, quiet, startHistory, rowHistory>>

\* db.Save: the row is updated, inserted again if it is gone, or a new one is inserted if
\* none had been found.
GradeSave(v) ==
    LET id == IF grading.id = 0 THEN NextId(subs) ELSE grading.id
    IN  /\ grading # Idle
        /\ id \in SubIds
        /\ subs' = [subs EXCEPT ![id] =
                      [grading.row EXCEPT !.present = TRUE, !.score = v, !.graded = TRUE]]
        /\ given' = [given EXCEPT ![id] = v]
        /\ clobbered' = clobbered \ {id}
        /\ grading' = Idle
        /\ quiet' = 0
        /\ UNCHANGED <<injects, event, clock, records, lpc, round, invalidating, bounds,
                       startHistory>>

InvalidateRead(s) ==
    /\ lpc # "main"
    /\ invalidating = Idle
    /\ subs[s].present
    /\ reads < MaxReads
    /\ reads' = reads + 1
    /\ invalidating' = Found(s)
    /\ UNCHANGED <<tables, event, clock, records, lpc, round, grading, resets, failures, crashes,
                   quiet, startHistory, rowHistory>>

\* Mutant: an invalid submission is worth nothing.
InvalidateSaveScore ==
    LET id == invalidating.id
    IN  /\ invalidating # Idle
        /\ subs' = [subs EXCEPT ![id] =
                      [invalidating.row EXCEPT !.invalid = TRUE, !.score = 0]]
        /\ clobbered' = IF subs[id] = invalidating.row THEN clobbered
                        ELSE clobbered \cup {id}
        /\ invalidating' = Idle
        /\ quiet' = 0
        /\ UNCHANGED <<injects, event, clock, records, lpc, round, grading, bounds,
                       startHistory, given>>

\* The whole row is saved, the score it had when it was read included.
InvalidateSave ==
    LET id == invalidating.id
    IN  /\ invalidating # Idle
        /\ subs' = [subs EXCEPT ![id] = [invalidating.row EXCEPT !.invalid = TRUE]]
        /\ clobbered' = IF subs[id] = invalidating.row THEN clobbered
                        ELSE clobbered \cup {id}
        /\ invalidating' = Idle
        /\ quiet' = 0
        /\ UNCHANGED <<injects, event, clock, records, lpc, round, grading, bounds,
                       startHistory, given>>

-----------------------------------------------------------------------------
(* Rounds *)

\* The records of a round bear the time at which the round was started.
BeginRound ==
    /\ lpc = "idle"
    /\ lpc' = "checks"
    /\ roundTime' = clock
    /\ UNCHANGED <<tables, event, clock, records, todo, work, handlers, bounds, quiet,
                   startHistory, rowHistory>>

\* A paused loop has no round.
SkipRound ==
    /\ lpc = "idle"
    /\ lpc' = "asleep"
    /\ UNCHANGED <<tables, event, clock, records, round, handlers, bounds, quiet, startHistory,
                   rowHistory>>

\* The checks are over, and teamMutex is taken; the round is not saved if a reset or a pause
\* was issued.
DropRound ==
    /\ lpc = "checks" /\ rpc = "none"
    /\ resetIssued
    /\ resetIssued' = FALSE
    /\ lpc' = "asleep" /\ roundTime' = 0
    /\ UNCHANGED <<tables, startTime, loaded, rpc, clock, records, todo, work, handlers, bounds,
                   quiet, startHistory, rowHistory>>

\* Otherwise teamMutex is held until the round is saved.
BeginScoring ==
    /\ lpc = "checks" /\ rpc = "none"
    /\ ~resetIssued
    /\ lpc' = "scoring"
    /\ todo' = Teams
    /\ UNCHANGED <<tables, event, clock, records, roundTime, work, handlers, bounds, quiet,
                   startHistory, rowHistory>>

\* calculateInjects reads the injects.
BeginTeam(t) ==
    /\ lpc = "scoring"
    /\ work = NoWork
    /\ t \in todo
    /\ todo' = todo \ {t}
    /\ work' = [NoWork EXCEPT !.team = t, !.left = {i \in Ids : injects[i].present}]
    /\ UNCHANGED <<tables, event, clock, records, lpc, roundTime, handlers, bounds, quiet,
                   startHistory, rowHistory>>

\* The rows the query for bestSubmission is about.  The team is that of the newest record,
\* which is zero if there is none; and once bestSubmission holds a row, gorm asks for its id.
Candidates ==
    LET owner == IF latest[work.team].saved THEN work.team ELSE NoTeam
    IN  {s \in SubIds : /\ subs[s].present
                        /\ subs[s].team = owner
                        /\ work.best \in {0, s}}

\* Mutant: any row of the team will do.
ScoreInjectAny ==
    /\ work # NoWork /\ work.left # {}
    /\ LET i == Min(work.left)
       IN  \E s \in IF Candidates = {} THEN {0} ELSE Candidates :
              LET score == IF s = 0 THEN work.score ELSE subs[s].score
              IN  work' = [work EXCEPT
                             !.left  = @ \ {i},
                             !.best  = IF s = 0 THEN @ ELSE s,
                             !.score = score,
                             !.sum   = @ + (score * injects[i].points) \div 100]
    /\ UNCHANGED <<tables, event, clock, records, lpc, roundTime, todo, handlers, bounds,
                   quiet, startHistory, rowHistory>>

\* Mutant: the scores of the injects gone through are added up in bestSubmission.
ScoreInjectTotal ==
    /\ work # NoWork /\ work.left # {}
    /\ LET i == Min(work.left)
           best == {s \in Candidates : \A q \in Candidates : subs[q].score <= subs[s].score}
       IN  \E s \in IF best = {} THEN {0} ELSE best :
              LET score == work.score + (IF s = 0 THEN 0 ELSE subs[s].score)
              IN  work' = [work EXCEPT
                             !.left  = @ \ {i},
                             !.best  = IF s = 0 THEN @ ELSE s,
                             !.score = score,
                             !.sum   = @ + (score * injects[i].points) \div 100]
    /\ UNCHANGED <<tables, event, clock, records, lpc, roundTime, todo, handlers, bounds,
                   quiet, startHistory, rowHistory>>

\* One turn of the loop over the injects: the candidate with the highest score is taken,
\* whichever inject it is for; if there is none, bestSubmission stays as it is.
ScoreInject ==
    /\ work # NoWork /\ work.left # {}
    /\ LET i == Min(work.left)
           best == {s \in Candidates : \A q \in Candidates : subs[q].score <= subs[s].score}
       IN  \E s \in IF best = {} THEN {0} ELSE best :
              LET score == IF s = 0 THEN work.score ELSE subs[s].score
              IN  work' = [work EXCEPT
                             !.left  = @ \ {i},
                             !.best  = IF s = 0 THEN @ ELSE s,
                             !.score = score,
                             !.sum   = @ + (score * injects[i].points) \div 100]
    /\ UNCHANGED <<tables, event, clock, records, lpc, roundTime, todo, handlers, bounds,
                   quiet, startHistory, rowHistory>>

\* The record is created; the first one ever says when the event has started.
CreateRecord ==
    /\ work # NoWork /\ work.left = {}
    /\ latest' = [latest EXCEPT ![work.team] = [saved |-> TRUE, points |-> work.sum]]
    /\ firstRecord' = IF firstRecord = 0 THEN roundTime ELSE firstRecord
    /\ work' = NoWork
    /\ UNCHANGED <<tables, event, clock, lpc, roundTime, todo, handlers, bounds, quiet,
                   startHistory, rowHistory>>

\* A query for the injects or for a submission fails: the team has no inject points at all.
ScoreInjectFails ==
    /\ work # NoWork /\ work.left # {}
    /\ Fail
    /\ work' = [work EXCEPT !.left = {}, !.sum = 0]
    /\ quiet' = 0
    /\ UNCHANGED <<tables, event, clock, records, lpc, roundTime, todo, handlers, startHistory,
                   rowHistory>>

\* processNewRecord gives up on an error, or the row cannot be created: the team goes without.
RecordFails ==
    /\ work # NoWork
    /\ Fail
    /\ work' = NoWork
    /\ quiet' = 0
    /\ UNCHANGED <<tables, event, clock, records, lpc, roundTime, todo, handlers, startHistory,
                   rowHistory>>

EndScoring ==
    /\ lpc = "scoring"
    /\ todo = {} /\ work = NoWork
    /\ lpc' = "asleep" /\ roundTime' = 0
    /\ quiet' = IF \A t \in Teams : latest[t].saved
                THEN IF quiet < 2 THEN quiet + 1 ELSE 2
                ELSE 0
    /\ UNCHANGED <<tables, event, clock, records, todo, work, handlers, bounds, startHistory,
                   rowHistory>>

\* After its sleep the loop clears resetIssued, and holds no lock: the reset that has set it
\* may still be at work.
Wake ==
    /\ lpc = "asleep"
    /\ lpc' = "idle"
    /\ resetIssued' = FALSE
    /\ astray' = (astray \/ rpc # "none")
    /\ UNCHANGED <<tables, startTime, loaded, rpc, clock, records, round, handlers, bounds, quiet,
                   formerStart, moves, rowHistory>>

-----------------------------------------------------------------------------
(* Time, pauses, resets and restarts *)

Tick ==
    /\ clock < MaxClock
    /\ clock' = clock + 1
    /\ UNCHANGED <<tables, event, records, lpc, round, handlers, bounds, quiet, startHistory,
                   rowHistory>>

\* What a pause has to do with rounds that are under way (that none is begun then is SkipRound).
Pause ==
    /\ lpc # "main"
    /\ resets < MaxResets
    /\ resets' = resets + 1
    /\ resetIssued' = TRUE
    /\ UNCHANGED <<tables, startTime, loaded, rpc, clock, records, lpc, round, handlers, reads,
                   failures, crashes, quiet, startHistory, rowHistory>>

\* resetEvent takes teamMutex, which Score holds while it scores a round only.
ResetLock ==
    /\ lpc \notin {"main", "scoring"} /\ rpc = "none"
    /\ resets < MaxResets
    /\ resets' = resets + 1
    /\ rpc' = "records"
    /\ resetIssued' = TRUE
    /\ astray' = FALSE
    /\ UNCHANGED <<tables, startTime, loaded, clock, records, lpc, round, handlers, reads,
                   failures, crashes, quiet, formerStart, moves, rowHistory>>

ResetRecords ==
    /\ rpc = "records"
    /\ rpc' = "submissions"
    /\ firstRecord' = 0
    /\ latest' = [t \in Teams |-> NoRecord]
    /\ quiet' = 0
    /\ UNCHANGED <<tables, startTime, loaded, resetIssued, clock, lpc, round, handlers, bounds,
                   startHistory, rowHistory>>

\* The injects stay.
ResetSubmissions ==
    /\ rpc = "submissions"
    /\ rpc' = "startTime"
    /\ subs' = [s \in SubIds |-> NoSub]
    /\ given' = [s \in SubIds |-> 0] /\ clobbered' = {}
    /\ quiet' = 0
    /\ UNCHANGED <<injects, startTime, loaded, resetIssued, clock, records, lpc, round, handlers,
                   bounds, startHistory>>

\* The error of a DELETE is ignored.
ResetFails ==
    /\ rpc \in {"records", "submissions"}
    /\ Fail
    /\ rpc' = IF rpc = "records" THEN "submissions" ELSE "startTime"
    /\ astray' = (astray \/ rpc = "records")
    /\ UNCHANGED <<tables, startTime, loaded, resetIssued, clock, records, lpc, round, handlers,
                   quiet, formerStart, moves, rowHistory>>

\* The event starts now, and teamMutex is given back.
ResetStart ==
    /\ rpc = "startTime"
    /\ rpc' = "none"
    /\ startTime' = clock
    /\ formerStart' = clock /\ moves' = 0
    /\ UNCHANGED <<tables, loaded, resetIssued, clock, records, lpc, round, handlers, bounds,
                   quiet, astray, rowHistory>>

\* The process is killed and started again.
Crash ==
    /\ lpc # "main"
    /\ crashes < MaxCrashes
    /\ crashes' = crashes + 1
    /\ lpc' = "main" /\ rpc' = "none"
    /\ startTime' = GoZero /\ loaded' = 0 /\ resetIssued' = FALSE
    /\ roundTime' = 0 /\ todo' = {} /\ work' = NoWork
    /\ grading' = Idle /\ invalidating' = Idle
    /\ quiet' = 0 /\ astray' = FALSE
    /\ UNCHANGED <<tables, clock, records, reads, resets, failures, formerStart, moves,
                   rowHistory>>

Starting == Main \/ LoadStart \/ LoadStartFails \/ SetStart

Handling ==
    \/ CreateInject
    \/ \E i \in Ids : DeleteInject(i)
    \/ \E t \in Teams, i \in Ids : SubmitInject(t, i)
    \/ \E s \in SubIds : GradeRead(s) \/ InvalidateRead(s)
    \/ \E v \in Scores : GradeSave(v)
    \/ InvalidateSave

Scoring ==
    \/ BeginRound \/ SkipRound \/ DropRound \/ BeginScoring
    \/ \E t \in Teams : BeginTeam(t)
    \/ ScoreInject \/ ScoreInjectFails \/ CreateRecord \/ RecordFails
    \/ EndScoring \/ Wake

Resetting == ResetLock \/ ResetRecords \/ ResetSubmissions \/ ResetFails \/ ResetStart

Next == Starting \/ Handling \/ Scoring \/ Tick \/ Pause \/ Resetting \/ Crash

Spec == Init /\ [][Next]_vars

-----------------------------------------------------------------------------
(* Properties *)

Scored(t, i) == {0} \cup {subs[s].score : s \in {q \in SubIds : /\ subs[q].present
                                                               /\ subs[q].team = t
                                                               /\ subs[q].inject = i}}

Worth(score, i) == IF injects[i].present THEN (score * injects[i].points) \div 100 ELSE 0

SumOf(f) == FoldFunction(LAMBDA x, y : x + y, 0, f)

\* Two rounds after the last change or failed query, whatever handlers and rounds have
\* overlapped before, a team's inject points are its own best grade, on every inject there is:
\* no grade of another team, of a deleted submission or of the zero team is left in them.
PointsSettle ==
    quiet = 2 =>
        \A t \in Teams :
            LET best == Max(UNION {Scored(t, j) : j \in 0..MaxInjects})
            IN  latest[t].points = SumOf([i \in Ids |-> Worth(best, i)])

\* Said of the code and not so: "For each inject, get best submission, multiply by points,
\* and add them up" (score.go:296), even if every submission's inject is still there.
BestOfEachInject ==
    (quiet = 2 /\ \A s \in SubIds : subs[s].present => \E i \in Ids : /\ injects[i].present
                                                                    /\ subs[s].inject = i) =>
        \A t \in Teams :
            latest[t].points = SumOf([i \in Ids |-> Worth(Max(Scored(t, i)), i)])

\* The score of a submission is the last grade an admin has given it, unless its
\* invalidation has since saved a copy of the row that was read before it was graded
\* (routes.go:607-623).
GradeStands ==
    \A s \in SubIds :
        (subs[s].present /\ s \notin clobbered) => subs[s].score = given[s]

\* However often the process is restarted, the start of the event, and with it the time
\* every inject opens, moves at most once after it was set to the time of a first start-up
\* or of a reset; and it never is later than the first record, unless it is astray: a start-up
\* could not read that record (score.go:31), a reset could not delete it (util.go:212), or Score
\* has cleared resetIssued before the reset was done (score.go:207), so that a round begun
\* before the new start can be saved.  A later reset that fares better puts it right.
StartSettles ==
    /\ moves <= 1
    /\ (lpc \notin StartUp /\ rpc = "none" /\ ~astray /\ firstRecord # 0)
           => startTime <= firstRecord

\* Said of the code and not so: an inject takes submissions from its opening until it
\* closes, "Times in the config are given in HH:MM:SS from the start of the competition"
\* (README.md:276).
OpenUntilClosed ==
    \A i \in Ids :
        (lpc \notin StartUp /\ CanView(i) /\ injects[i].closes # GoZero /\ clock <= CloseTime(i))
            => Accepts(i)
=============================================================================
