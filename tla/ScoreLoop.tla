----------------------------- MODULE ScoreLoop -----------------------------
(***************************************************************************)
(* The Score loop (score.go:14-211) and the handlers that share its        *)
(* variables: the status pages with their cache (routes.go:35-125), reset  *)
(* and pause (util.go:201-238), start (dwayne.go:239-247).  Each handler   *)
(* runs in a goroutine of its own; only some of them take teamMutex, and   *)
(* none of them takes it for every variable it touches, so the shared      *)
(* variables change one at a time here wherever the lock does not prevent  *)
(* it.  The process may be killed at any step and started again: the       *)
(* database survives, everything else is lost.  Where the code goes on     *)
(* although the database fails a statement, the failure is an action of    *)
(* its own beside the step.                                                *)
(*                                                                         *)
(* How a round's checks are run is CheckRound's subject; here a team's     *)
(* goroutine reads the round number when it starts and stages one record   *)
(* when it ends.  What the records are worth is Ledger's subject.          *)
(***************************************************************************)
EXTENDS Naturals, FiniteSets

CONSTANTS
    Teams,        \* dwConf.Team
    Views,        \* concurrent requests for / or /scoreboard
    StartPaused,  \* dwConf.StartPaused
    MaxTime,      \* bound on the rounds started
    MaxResets,    \* bound on reset requests
    MaxPauses,    \* bound on pause requests
    MaxCrashes,   \* bound on crashes
    MaxFailures   \* bound on the statements the database fails

ASSUME ConstantsAssumption ==
    /\ IsFiniteSet(Teams) /\ Teams # {}
    /\ StartPaused \in BOOLEAN
    /\ {MaxTime, MaxResets, MaxPauses, MaxCrashes, MaxFailures} \subseteq Nat

VARIABLES
    records,      \* the table team_records
    running,      \* dwConf.Running
    resetIssued,
    roundNumber,
    recordsStaging,
    unsaved,      \* the staged records that the saving has not come to yet
    teamMutex,    \* who holds it: "free", "loop" or "reset"
    cachedStatus,
    cachedRound,
    lpc,          \* where the Score loop is
    tpc, label,   \* where each team's goroutine is, and newRecord.Round
    rpc,          \* where the reset handler is
    ppc,          \* where the pause handler is
    vpc, fetched, \* where each view is, and the rows it has read
    clock,        \* the wall clock, as the number of rounds started
    resets, pauses, crashes, failures,
    horizon, lockedAt, interrupted, dropped, torn,
    refused, numberLost, spoiled   \* history, see below

shared == <<running, resetIssued, roundNumber, recordsStaging, unsaved, teamMutex>>
cache == <<cachedStatus, cachedRound>>
pages == <<vpc, fetched>>
bounds == <<resets, pauses, crashes, failures>>
history == <<horizon, lockedAt, interrupted, dropped, torn, refused, numberLost, spoiled>>
teams == <<tpc, label>>
vars == <<records, shared, cache, lpc, teams, rpc, ppc, pages, clock, bounds, history>>

Record == [team : Teams, round : 0..(MaxTime + 1), time : 1..MaxTime]

\* History variables.
\*   horizon      no round started up to this time may be in the table: the time at which
\*                the last reset that reached its DELETE took the lock (lockedAt)
\*   interrupted  a pause or reset was issued since the running round started
\*   dropped      the rounds that were not saved because of a pause or reset
\*   torn         the rounds a crash interrupted while they were being saved
\*   refused      the teams and rounds whose record the database refused
\*   numberLost   the loop has cleared resetIssued while a reset was still at work, a reset
\*                could not empty the table, or a start could not read it
\*   spoiled      since the process started, a view has refreshed the cache while the loop or a
\*                reset held teamMutex, or could not read the table, or a reset could not
\*                empty it

TypeOK ==
    /\ records \subseteq Record
    /\ running \in BOOLEAN /\ resetIssued \in BOOLEAN
    /\ roundNumber \in 0..(MaxTime + 1)
    /\ recordsStaging \subseteq Record /\ unsaved \subseteq Record
    /\ teamMutex \in {"free", "loop", "reset"}
    /\ cachedStatus \subseteq Record
    /\ cachedRound \in 0..(MaxTime + 1)
    /\ lpc \in {"boot", "top", "checks", "decide", "saving", "sleep"}
    /\ tpc \in [Teams -> {"spawned", "running", "staged"}]
    /\ label \in [Teams -> 0..(MaxTime + 1)]
    /\ rpc \in {"idle", "delete", "status", "cached", "number"}
    /\ ppc \in {"idle", "flag"}
    /\ vpc \in [Views -> {"idle", "read", "fill", "stamp", "copy"}]
    /\ fetched \in [Views -> SUBSET Record]
    /\ clock \in 0..MaxTime
    /\ resets \in 0..MaxResets /\ pauses \in 0..MaxPauses /\ crashes \in 0..MaxCrashes
    /\ failures \in 0..MaxFailures
    /\ horizon \in 0..MaxTime /\ lockedAt \in 0..MaxTime
    /\ interrupted \in BOOLEAN /\ numberLost \in BOOLEAN /\ spoiled \in BOOLEAN
    /\ dropped \subseteq 1..MaxTime /\ torn \subseteq 1..MaxTime
    /\ refused \subseteq Teams \X (1..MaxTime)

\* What the process starts with, whatever was in memory before.
FreshProcess ==
    /\ running' = ~StartPaused
    /\ resetIssued' = FALSE
    /\ roundNumber' = 0
    /\ recordsStaging' = {} /\ unsaved' = {}
    /\ teamMutex' = "free"
    /\ cachedStatus' = {} /\ cachedRound' = 0
    /\ lpc' = "boot"
    /\ tpc' = [t \in Teams |-> "staged"] /\ label' = [t \in Teams |-> 0]
    /\ rpc' = "idle" /\ ppc' = "idle"
    /\ vpc' = [v \in Views |-> "idle"]
    /\ fetched' = [v \in Views |-> {}]

Init ==
    /\ records = {}
    /\ running = ~StartPaused
    /\ resetIssued = FALSE
    /\ roundNumber = 0
    /\ recordsStaging = {} /\ unsaved = {}
    /\ teamMutex = "free"
    /\ cachedStatus = {} /\ cachedRound = 0
    /\ lpc = "boot"
    /\ tpc = [t \in Teams |-> "staged"] /\ label = [t \in Teams |-> 0]
    /\ rpc = "idle" /\ ppc = "idle"
    /\ vpc = [v \in Views |-> "idle"]
    /\ fetched = [v \in Views |-> {}]
    /\ clock = 0
    /\ resets = 0 /\ pauses = 0 /\ crashes = 0 /\ failures = 0
    /\ horizon = 0 /\ lockedAt = 0
    /\ interrupted = FALSE /\ numberLost = FALSE /\ spoiled = FALSE
    /\ dropped = {} /\ torn = {} /\ refused = {}

-----------------------------------------------------------------------------
(* The database *)

\* Order("time desc").Limit(n): the n newest rows.  Rows of one round carry times so close
\* that any order among them is possible.
Newest(n) ==
    {s \in SUBSET records :
        /\ Cardinality(s) = (IF Cardinality(records) < n THEN Cardinality(records) ELSE n)
        /\ \A r \in records \ s, q \in s : r.time <= q.time}

\* Whether a view is between finding the cache outdated and stamping it.
Refreshing == \E v \in Views : vpc[v] \in {"read", "fill", "stamp"}

-----------------------------------------------------------------------------
(* The Score loop *)

\* roundNumber is taken up from the newest row; an empty table yields the zero TeamRecord.
Boot ==
    /\ lpc = "boot"
    /\ \E s \in Newest(1) :
          roundNumber' = IF s = {} THEN 1 ELSE (CHOOSE r \in s : TRUE).round + 1
    /\ lpc' = "top"
    /\ UNCHANGED <<records, running, resetIssued, recordsStaging, unsaved, teamMutex, cache,
                   teams, rpc, ppc, pages, clock, bounds, history>>

\* The query fails, which is taken for an empty table.
BootFails ==
    /\ lpc = "boot"
    /\ failures < MaxFailures
    /\ failures' = failures + 1
    /\ roundNumber' = 1
    /\ numberLost' = TRUE
    /\ lpc' = "top"
    /\ UNCHANGED <<records, running, resetIssued, recordsStaging, unsaved, teamMutex, cache,
                   teams, rpc, ppc, pages, clock, resets, pauses, crashes, horizon,
                   lockedAt, interrupted, dropped, torn, refused, spoiled>>

\* `if m.Running`: a goroutine is spawned for every team.
StartRound ==
    /\ lpc = "top"
    /\ running
    /\ clock < MaxTime
    /\ clock' = clock + 1
    /\ tpc' = [t \in Teams |-> "spawned"] /\ label' = [t \in Teams |-> 0]
    /\ interrupted' = FALSE
    /\ lpc' = "checks"
    /\ UNCHANGED <<records, shared, cache, rpc, ppc, pages, bounds, horizon, lockedAt, dropped,
                   torn, refused, numberLost, spoiled>>

\* Not running (or the bound is reached): on to the sleep.
SkipRound ==
    /\ lpc = "top"
    /\ ~running \/ clock = MaxTime
    /\ lpc' = "sleep"
    /\ UNCHANGED <<records, shared, cache, teams, rpc, ppc, pages, clock, bounds, history>>

\* A team's goroutine starts: newRecord takes the value of roundNumber, unlocked.
TeamStarts(t) ==
    /\ lpc = "checks"
    /\ tpc[t] = "spawned"
    /\ label' = [label EXCEPT ![t] = roundNumber]
    /\ tpc' = [tpc EXCEPT ![t] = "running"]
    /\ UNCHANGED <<records, shared, cache, lpc, rpc, ppc, pages, clock, bounds, history>>

\* Its checks are done: under teamMutex the record is staged, and allTeamsWg.Done called.
TeamStages(t) ==
    /\ lpc = "checks"
    /\ tpc[t] = "running"
    /\ teamMutex = "free"
    /\ recordsStaging' = recordsStaging \cup {[team |-> t, round |-> label[t], time |-> clock]}
    /\ tpc' = [tpc EXCEPT ![t] = "staged"]
    /\ UNCHANGED <<records, running, resetIssued, roundNumber, unsaved, teamMutex, cache, lpc,
                   label, rpc, ppc, pages, clock, bounds, history>>

\* allTeamsWg.Wait returns.
RoundDone ==
    /\ lpc = "checks"
    /\ \A t \in Teams : tpc[t] = "staged"
    /\ lpc' = "decide"
    /\ UNCHANGED <<records, shared, cache, teams, rpc, ppc, pages, clock, bounds, history>>

\* Mutant: a round that may not be saved is done again at once.
DropRoundRepeat ==
    /\ lpc = "decide"
    /\ teamMutex = "free"
    /\ resetIssued
    /\ recordsStaging' = {}
    /\ dropped' = dropped \cup {clock}
    /\ tpc' = [t \in Teams |-> "spawned"]
    /\ lpc' = "checks"
    /\ UNCHANGED <<records, unsaved, running, resetIssued, roundNumber, teamMutex, cache, label,
                   rpc, ppc, pages, clock, bounds, horizon, lockedAt, interrupted, torn, refused,
                   numberLost, spoiled>>

\* teamMutex is taken and resetIssued found set: the round is not saved.
DropRound ==
    /\ lpc = "decide"
    /\ teamMutex = "free"
    /\ resetIssued
    /\ recordsStaging' = {}
    /\ resetIssued' = FALSE
    /\ dropped' = dropped \cup {clock}
    /\ lpc' = "sleep"
    /\ UNCHANGED <<records, unsaved, running, roundNumber, teamMutex, cache, teams, rpc, ppc,
                   pages, clock, bounds, horizon, lockedAt, interrupted, torn, refused,
                   numberLost, spoiled>>

\* teamMutex is taken and resetIssued found clear: it is held until the round is saved.
KeepRound ==
    /\ lpc = "decide"
    /\ teamMutex = "free"
    /\ ~resetIssued
    /\ teamMutex' = "loop"
    /\ unsaved' = recordsStaging
    /\ spoiled' = (spoiled \/ Refreshing)
    /\ lpc' = "saving"
    /\ UNCHANGED <<records, running, resetIssued, roundNumber, recordsStaging, cache,
                   teams, rpc, ppc, pages, clock, bounds, horizon, lockedAt, interrupted, dropped,
                   torn, refused, numberLost>>

\* processNewRecord for one of the staged records: a row is created.
SaveRecord(t) ==
    /\ lpc = "saving"
    /\ \E r \in unsaved :
          /\ r.team = t
          /\ records' = records \cup {r}
          /\ unsaved' = unsaved \ {r}
    /\ UNCHANGED <<running, resetIssued, roundNumber, recordsStaging, teamMutex, cache, lpc,
                   teams, rpc, ppc, pages, clock, bounds, history>>

\* processNewRecord returns early because the database fails a query or a Save, or the error of
\* its Create is ignored: no row is created, and the round goes on.
RecordFails(t) ==
    /\ lpc = "saving"
    /\ failures < MaxFailures
    /\ failures' = failures + 1
    /\ \E r \in unsaved :
          /\ r.team = t
          /\ unsaved' = unsaved \ {r}
          /\ refused' = refused \cup {<<t, clock>>}
    /\ UNCHANGED <<records, running, resetIssued, roundNumber, recordsStaging, teamMutex, cache,
                   lpc, teams, rpc, ppc, pages, clock, resets, pauses, crashes, horizon, lockedAt,
                   interrupted, dropped, torn, numberLost, spoiled>>

\* Mutant: the loop goes on when the first record is saved.
NextRoundEarly ==
    /\ lpc = "saving"
    /\ unsaved # recordsStaging
    /\ recordsStaging' = {} /\ unsaved' = {}
    /\ roundNumber' = roundNumber + 1
    /\ teamMutex' = "free"
    /\ lpc' = "sleep"
    /\ UNCHANGED <<records, running, resetIssued, cache, teams, rpc, ppc, pages, clock, bounds,
                   history>>

\* Mutant: the round number is not advanced.
NextRoundSame ==
    /\ lpc = "saving"
    /\ unsaved = {}
    /\ recordsStaging' = {}
    /\ teamMutex' = "free"
    /\ lpc' = "sleep"
    /\ UNCHANGED <<records, unsaved, running, resetIssued, roundNumber, cache, teams, rpc, ppc,
                   pages, clock, bounds, history>>

\* Mutant: the round number is advanced for every record.
NextRoundPerRecord ==
    /\ lpc = "saving"
    /\ unsaved = {}
    /\ recordsStaging' = {}
    /\ roundNumber' = roundNumber + Cardinality(recordsStaging)
    /\ teamMutex' = "free"
    /\ lpc' = "sleep"
    /\ UNCHANGED <<records, unsaved, running, resetIssued, cache, teams, rpc, ppc, pages, clock,
                   bounds, history>>

\* All records are saved or refused: staging is emptied, roundNumber++, the lock released.
NextRound ==
    /\ lpc = "saving"
    /\ unsaved = {}
    /\ recordsStaging' = {}
    /\ roundNumber' = roundNumber + 1
    /\ teamMutex' = "free"
    /\ lpc' = "sleep"
    /\ UNCHANGED <<records, unsaved, running, resetIssued, cache, teams, rpc, ppc, pages, clock,
                   bounds, history>>

\* After the sleep, without the lock: "If reset was issued during sleep, we ignore it".
Wake ==
    /\ lpc = "sleep"
    /\ resetIssued' = FALSE
    /\ numberLost' = (numberLost \/ (resetIssued /\ rpc # "idle"))
    /\ lpc' = "top"
    /\ UNCHANGED <<records, running, roundNumber, recordsStaging, unsaved, teamMutex, cache,
                   teams, rpc, ppc, pages, clock, bounds, horizon, lockedAt, interrupted, dropped,
                   torn, refused, spoiled>>

-----------------------------------------------------------------------------
(* POST /settings/reset, one statement after the other under teamMutex *)

\* Whether a pause or reset that is issued now meets a round that is under way.
RoundInFlight == lpc \in {"checks", "decide"}

\* Mutant: resetIssued is not set.
ResetLockQuiet ==
    /\ rpc = "idle"
    /\ resets < MaxResets
    /\ teamMutex = "free"
    /\ teamMutex' = "reset"
    /\ lockedAt' = clock
    /\ interrupted' = (interrupted \/ RoundInFlight)
    /\ spoiled' = (spoiled \/ Refreshing)
    /\ resets' = resets + 1
    /\ rpc' = "delete"
    /\ UNCHANGED <<records, running, resetIssued, roundNumber, recordsStaging, unsaved, cache,
                   lpc, teams, ppc, pages, clock, pauses, crashes, failures, horizon, dropped,
                   torn, refused, numberLost>>

ResetLock ==
    /\ rpc = "idle"
    /\ resets < MaxResets
    /\ teamMutex = "free"
    /\ teamMutex' = "reset"
    /\ resetIssued' = TRUE
    /\ lockedAt' = clock
    /\ interrupted' = (interrupted \/ RoundInFlight)
    /\ spoiled' = (spoiled \/ Refreshing)
    /\ resets' = resets + 1
    /\ rpc' = "delete"
    /\ UNCHANGED <<records, running, roundNumber, recordsStaging, unsaved, cache, lpc, teams, ppc,
                   pages, clock, pauses, crashes, failures, horizon, dropped, torn, refused,
                   numberLost>>

\* DELETE FROM team_records (and the other tables).
ResetDelete ==
    /\ rpc = "delete"
    /\ records' = {}
    /\ horizon' = lockedAt
    /\ rpc' = "status"
    /\ UNCHANGED <<shared, cache, lpc, teams, ppc, pages, clock, bounds, lockedAt, interrupted,
                   dropped, torn, refused, numberLost, spoiled>>

\* The DELETE fails, and its error is ignored: the rows stay, and the reset goes on.
ResetDeleteFails ==
    /\ rpc = "delete"
    /\ failures < MaxFailures
    /\ failures' = failures + 1
    /\ numberLost' = TRUE
    /\ spoiled' = TRUE
    /\ rpc' = "status"
    /\ UNCHANGED <<records, shared, cache, lpc, teams, ppc, pages, clock, resets, pauses, crashes,
                   horizon, lockedAt, interrupted, dropped, torn, refused>>

\* "Deal with cache": cachedStatus, then cachedRound, then roundNumber.
ResetStatus ==
    /\ rpc = "status"
    /\ cachedStatus' = {}
    /\ rpc' = "cached"
    /\ UNCHANGED <<records, shared, cachedRound, lpc, teams, ppc, pages, clock, bounds, history>>

ResetCached ==
    /\ rpc = "cached"
    /\ cachedRound' = 0
    /\ rpc' = "number"
    /\ UNCHANGED <<records, shared, cachedStatus, lpc, teams, ppc, pages, clock, bounds, history>>

ResetNumber ==
    /\ rpc = "number"
    /\ roundNumber' = 0
    /\ teamMutex' = "free"
    /\ rpc' = "idle"
    /\ UNCHANGED <<records, running, resetIssued, recordsStaging, unsaved, cache, lpc, teams, ppc,
                   pages, clock, bounds, history>>

-----------------------------------------------------------------------------
(* POST /settings/stop and /settings/start, which take no lock; starting an event that is
   running changes nothing *)

PauseStop ==
    /\ ppc = "idle"
    /\ pauses < MaxPauses
    /\ running' = FALSE
    /\ pauses' = pauses + 1
    /\ ppc' = "flag"
    /\ UNCHANGED <<records, resetIssued, roundNumber, recordsStaging, unsaved, teamMutex, cache,
                   lpc, teams, rpc, pages, clock, resets, crashes, failures, history>>

PauseFlag ==
    /\ ppc = "flag"
    /\ resetIssued' = TRUE
    /\ interrupted' = (interrupted \/ RoundInFlight)
    /\ ppc' = "idle"
    /\ UNCHANGED <<records, running, roundNumber, recordsStaging, unsaved, teamMutex, cache, lpc,
                   teams, rpc, pages, clock, bounds, horizon, lockedAt, dropped, torn, refused,
                   numberLost, spoiled>>

\* Mutant: starting takes back the pause's request to drop the round.
StartEventClear ==
    /\ ~running
    /\ running' = TRUE
    /\ resetIssued' = FALSE
    /\ UNCHANGED <<records, roundNumber, recordsStaging, unsaved, teamMutex, cache, lpc, teams,
                   rpc, ppc, pages, clock, bounds, history>>

StartEvent ==
    /\ ~running
    /\ running' = TRUE
    /\ UNCHANGED <<records, resetIssued, roundNumber, recordsStaging, unsaved, teamMutex, cache,
                   lpc, teams, rpc, ppc, pages, clock, bounds, history>>

-----------------------------------------------------------------------------
(* GET / and GET /scoreboard: viewStatus and viewScoreboard *)

\* `if roundNumber != cachedRound`, unlocked.
ViewCheck(v) ==
    /\ vpc[v] = "idle"
    /\ vpc' = [vpc EXCEPT ![v] = IF roundNumber # cachedRound THEN "read" ELSE "copy"]
    /\ spoiled' = (spoiled \/ (roundNumber # cachedRound /\ teamMutex # "free"))
    /\ UNCHANGED <<records, shared, cache, lpc, teams, rpc, ppc, fetched, clock, bounds, horizon,
                   lockedAt, interrupted, dropped, torn, refused, numberLost>>

\* The newest rows, as many as there are teams.
ViewRead(v) ==
    /\ vpc[v] = "read"
    /\ \E s \in Newest(Cardinality(Teams)) : fetched' = [fetched EXCEPT ![v] = s]
    /\ vpc' = [vpc EXCEPT ![v] = "fill"]
    /\ UNCHANGED <<records, shared, cache, lpc, teams, rpc, ppc, clock, bounds, history>>

\* The query fails: the error page is served, and the view goes on with no rows.
ViewReadFails(v) ==
    /\ vpc[v] = "read"
    /\ failures < MaxFailures
    /\ failures' = failures + 1
    /\ fetched' = [fetched EXCEPT ![v] = {}]
    /\ vpc' = [vpc EXCEPT ![v] = "fill"]
    /\ spoiled' = TRUE
    /\ UNCHANGED <<records, shared, cache, lpc, teams, rpc, ppc, clock, resets, pauses, crashes,
                   horizon, lockedAt, interrupted, dropped, torn, refused, numberLost>>

\* cachedStatus = statusRecords, unlocked.
ViewFill(v) ==
    /\ vpc[v] = "fill"
    /\ cachedStatus' = fetched[v]
    /\ fetched' = [fetched EXCEPT ![v] = {}]
    /\ vpc' = [vpc EXCEPT ![v] = "stamp"]
    /\ UNCHANGED <<records, shared, cachedRound, lpc, teams, rpc, ppc, clock, bounds, history>>

\* cachedRound = roundNumber, which is read again here.
ViewStamp(v) ==
    /\ vpc[v] = "stamp"
    /\ cachedRound' = roundNumber
    /\ vpc' = [vpc EXCEPT ![v] = "copy"]
    /\ UNCHANGED <<records, shared, cachedStatus, lpc, teams, rpc, ppc, fetched, clock, bounds,
                   history>>

\* Under teamMutex the cached rows are copied for the page.
ViewCopy(v) ==
    /\ vpc[v] = "copy"
    /\ teamMutex = "free"
    /\ vpc' = [vpc EXCEPT ![v] = "idle"]
    /\ UNCHANGED <<records, shared, cache, lpc, teams, rpc, ppc, fetched, clock, bounds, history>>

-----------------------------------------------------------------------------
\* The process is killed and started again.
Crash ==
    /\ crashes < MaxCrashes
    /\ FreshProcess
    /\ crashes' = crashes + 1
    /\ torn' = IF lpc = "saving" THEN torn \cup {clock} ELSE torn
    /\ spoiled' = FALSE
    /\ UNCHANGED <<records, clock, resets, pauses, failures, horizon, lockedAt, interrupted,
                   dropped, refused, numberLost>>

LoopStep ==
    \/ Boot \/ BootFails \/ StartRound \/ SkipRound \/ RoundDone
    \/ DropRound \/ KeepRound \/ NextRound \/ Wake
    \/ \E t \in Teams : SaveRecord(t) \/ RecordFails(t)

TeamStep(t) == TeamStarts(t) \/ TeamStages(t)

ResetStep ==
    ResetLock \/ ResetDelete \/ ResetDeleteFails \/ ResetStatus \/ ResetCached \/ ResetNumber

ViewStep(v) ==
    \/ ViewCheck(v) \/ ViewRead(v) \/ ViewReadFails(v)
    \/ ViewFill(v) \/ ViewStamp(v) \/ ViewCopy(v)

Next ==
    \/ LoopStep
    \/ \E t \in Teams : TeamStep(t)
    \/ ResetStep
    \/ PauseStop \/ PauseFlag \/ StartEvent
    \/ \E v \in Views : ViewStep(v)
    \/ Crash

Spec == Init /\ [][Next]_vars

\* Goroutines that can run do run, handlers that have begun go on to their end, and
\* sync.Mutex lets no waiter starve (after a millisecond it is handed the lock), hence
\* strong fairness where the lock is taken.  Nobody has to pause, start, reset or look.
Fairness ==
    /\ SF_vars(LoopStep)
    /\ \A t \in Teams : SF_vars(TeamStep(t))
    /\ WF_vars(ResetDelete \/ ResetDeleteFails \/ ResetStatus \/ ResetCached \/ ResetNumber)
    /\ WF_vars(PauseFlag)

FairSpec == Spec /\ Fairness

-----------------------------------------------------------------------------
(* Properties *)

\* A round that was started before a reset is never found in the table once the reset has
\* emptied it, although the loop may be anywhere in that round when the reset comes, and
\* clears resetIssued without the lock.
ResetIsolates == \A r \in records : r.time > horizon

\* Unless a crash interrupts the saving, a round that is in the table is there for every team
\* but those whose record the database refused, and only once for each; none of a refused one
\* comes up later.
WholeRounds ==
    teamMutex # "loop" =>
        \A n \in (1..MaxTime) \ torn :
            LET rows == {r \in records : r.time = n}
                due  == {t \in Teams : <<t, n>> \notin refused}
            IN  rows # {} => /\ {r.team : r \in rows} = due
                             /\ Cardinality(rows) = Cardinality(due)

\* A round that a pause or reset was issued during is not saved, even if the event has been
\* started again before the round ends; no record of a dropped round is ever saved, and none
\* of an earlier round is still staged when a later one is.
SavedOrDropped ==
    /\ lpc = "saving" => ~interrupted
    /\ \A r \in records : r.time \notin dropped
    /\ \A r \in recordsStaging : r.time = clock

\* The next round gets a number that no saved record has, records refused or not.  The ways to
\* lose this are the unlocked `resetIssued = false` after the sleep meeting a reset that is
\* still at work, and the database failing the reset's DELETE or the query at the start.
RoundNumberAhead ==
    (lpc \notin {"boot", "saving"} /\ ~numberLost) =>
        \A r \in records : r.round < roundNumber

\* Every round is decided: no view, reset, pause or start can keep the loop from taking
\* teamMutex and from giving it back (a crash can, and ends the round as well).
RoundDecided ==
    (lpc \in {"checks", "decide", "saving"}) ~> (lpc \notin {"checks", "decide", "saving"})

\* When nobody is at work on the cache or the table, the cache (routes.go:36-58, util.go:217)
\* is known to be out of date or is what a query would yield, as long as no view has been
\* refreshing it while a round was being saved or a reset was at work, and the database has
\* not failed a view or a reset: the round number tells old rows from new also after a reset,
\* and dropped rounds, refused records and pauses do no harm.
CacheIsCurrent ==
    (/\ ~spoiled
     /\ lpc # "boot" /\ teamMutex = "free" /\ ~Refreshing
     /\ cachedRound = roundNumber) => cachedStatus \in Newest(Cardinality(Teams))
=============================================================================
