------------------------------- MODULE Ledger -------------------------------
(***************************************************************************)
(* How a round becomes points: processNewRecord (score.go:213-283), run    *)
(* for every staged record under teamMutex and adjustmentMutex, and the    *)
(* manual adjustments it consumes (routes.go:266-295).                     *)
(*                                                                         *)
(* Two tables are kept side by side and are meant to agree: `slas` has a   *)
(* row per team and check that is saved while the results of a record are  *)
(* gone through, and team_records gets one row at the end, which carries   *)
(* the totals of the team's newest row on.  A database error or a crash    *)
(* can come between the two; an error also makes a row of slas anew, or    *)
(* keeps a reset from emptying a table.  Inject points are not part of     *)
(* this module, nor the persist points and uptime SLAs of the optional     *)
(* modes.                                                                  *)
(***************************************************************************)
EXTENDS Integers, Sequences, FiniteSets, Functions

CONSTANTS
    Teams,          \* dwConf.Team
    Checks,         \* the checks of all boxes
    SlaThreshold,   \* dwConf.SlaThreshold
    Adjustments,    \* the values an admin may submit
    MaxRounds,      \* bound on the rounds scored
    MaxAdjusts, MaxResets, MaxFailures, MaxCrashes   \* bounds on those events

ASSUME ConstantsAssumption ==
    /\ IsFiniteSet(Teams) /\ IsFiniteSet(Checks)
    /\ SlaThreshold \in Nat \ {0}
    /\ Adjustments \subseteq Int
    /\ {MaxRounds, MaxAdjusts, MaxResets, MaxFailures, MaxCrashes} \subseteq Nat

VARIABLES
    latest,      \* the newest row of team_records of each team (zero if there is none)
    sla,         \* the table slas: [counter, violations] per team and check
    pending,     \* manualAdjustments (0 for a team that is not in the map)
    lpc,         \* the Score loop: "idle", "staged" or "processing"
    staged,      \* the results of the round, once the checks are done
    todo,        \* the records of recordsStaging that are still to be processed
    work,        \* processNewRecord's record, while it is at work
    rpc,         \* the reset handler: "idle", or the table it comes to next
    rounds, adjusts, resets, failures, crashes,
    outcomes,    \* history: the results the slas row of a check was updated with since it was made
    recorded,    \* history: the results in the saved rows of a team
    forgotten,   \* history: violations that were in slas rows since overwritten or deleted
    uncharged,   \* history: violations whose record was never created, or has been deleted
    unlisted,    \* history: service points of a row that a reset has left without its results
    given, lost, \* history: adjustments submitted, and those lost on the way
    applied      \* history: the teams whose record of this round has been created

tables == <<latest, sla>>
counts == <<rounds, adjusts, resets, failures, crashes>>
tallies == <<outcomes, recorded, unlisted>>
balance == <<forgotten, uncharged>>
history == <<tallies, balance, given, lost, applied>>
vars == <<tables, pending, lpc, staged, todo, work, rpc, counts, history>>

Zero == [c \in Checks |-> 0]
NoRecord == [sla |-> 0, service |-> 0, adjustment |-> 0, points |-> Zero, count |-> Zero]
NoSla == [counter |-> 0, violations |-> 0]
NoWork == [team |-> {}, left |-> {}, record |-> NoRecord]

Record == [sla : Nat, service : Nat, adjustment : Int,
           points : [Checks -> Nat], count : [Checks -> Nat]]

TypeOK ==
    /\ latest \in [Teams -> Record]
    /\ sla \in [Teams -> [Checks -> [counter : 0..(SlaThreshold - 1), violations : Nat]]]
    /\ pending \in [Teams -> Int]
    /\ lpc \in {"idle", "staged", "processing"}
    /\ staged \in [Teams -> [Checks -> BOOLEAN]]
    /\ todo \subseteq Teams
    /\ work \in [team : {{}} \cup {{t} : t \in Teams}, left : SUBSET Checks, record : Record]
    /\ {rounds, adjusts, resets, failures, crashes} \subseteq Nat
    /\ outcomes \in [Teams -> [Checks -> Seq(BOOLEAN)]]
    /\ recorded \in [Teams -> [Checks -> Seq(BOOLEAN)]]
    /\ {forgotten, uncharged, unlisted} \subseteq [Teams -> Nat]
    /\ given \in [Teams -> Int] /\ lost \in [Teams -> Int]
    /\ applied \subseteq Teams
    /\ rpc \in {"idle", "results", "records", "slas"}

SumOf(f) == FoldFunction(LAMBDA x, y : x + y, 0, f)

\* The violations the slas rows of a team show.
Shown(t) == SumOf([c \in Checks |-> sla[t][c].violations])

NoResults == [t \in Teams |-> [c \in Checks |-> FALSE]]

Init ==
    /\ latest = [t \in Teams |-> NoRecord]
    /\ sla = [t \in Teams |-> [c \in Checks |-> NoSla]]
    /\ pending = [t \in Teams |-> 0]
    /\ lpc = "idle"
    /\ staged = NoResults
    /\ todo = {}
    /\ work = NoWork
    /\ rounds = 0 /\ adjusts = 0 /\ resets = 0 /\ failures = 0 /\ crashes = 0
    /\ outcomes = [t \in Teams |-> [c \in Checks |-> <<>>]]
    /\ recorded = [t \in Teams |-> [c \in Checks |-> <<>>]]
    /\ forgotten = [t \in Teams |-> 0] /\ uncharged = [t \in Teams |-> 0]
    /\ unlisted = [t \in Teams |-> 0]
    /\ given = [t \in Teams |-> 0] /\ lost = [t \in Teams |-> 0]
    /\ applied = {}
    /\ rpc = "idle"

-----------------------------------------------------------------------------
(* The Score loop *)

\* A round of checks is over; any result may have come out of it.
Collect ==
    /\ lpc = "idle"
    /\ rounds < MaxRounds
    /\ staged' \in [Teams -> [Checks -> BOOLEAN]]
    /\ lpc' = "staged"
    /\ UNCHANGED <<tables, pending, todo, work, rpc, counts, history>>

\* resetIssued is found set (score.go:123-126), here because of a pause: the round is not
\* scored, and manualAdjustments waits for the next one.
DropRound ==
    /\ lpc = "staged"
    /\ lpc' = "idle"
    /\ staged' = NoResults
    /\ UNCHANGED <<tables, pending, todo, work, rpc, counts, history>>

\* teamMutex and adjustmentMutex are taken: every record will be processed.
BeginProcessing ==
    /\ lpc = "staged" /\ rpc = "idle"
    /\ lpc' = "processing"
    /\ todo' = Teams
    /\ applied' = {}
    /\ rounds' = rounds + 1
    /\ UNCHANGED <<tables, pending, staged, work, rpc, adjusts, resets, failures, crashes, tallies,
                   balance, given, lost>>

\* processNewRecord for the next record: it starts without points, all results to do.
BeginRecord(t) ==
    /\ lpc = "processing"
    /\ work = NoWork
    /\ t \in todo
    /\ todo' = todo \ {t}
    /\ work' = [team |-> {t}, left |-> Checks, record |-> NoRecord]
    /\ UNCHANGED <<tables, pending, lpc, staged, rpc, counts, history>>

\* Mutant: a success does not start the count afresh.
SlaAfterNoReset(row, up) ==
    IF up
    THEN row
    ELSE IF row.counter + 1 >= SlaThreshold
         THEN [counter |-> 0, violations |-> row.violations + 1]
         ELSE [row EXCEPT !.counter = @ + 1]

\* Mutant: the threshold has to be exceeded.
SlaAfterLate(row, up) ==
    IF up
    THEN [row EXCEPT !.counter = 0]
    ELSE IF row.counter + 1 > SlaThreshold
         THEN [counter |-> 0, violations |-> row.violations + 1]
         ELSE [row EXCEPT !.counter = @ + 1]

\* The slas row after one more result of the check.
SlaAfter(row, up) ==
    IF up
    THEN [row EXCEPT !.counter = 0]
    ELSE IF row.counter + 1 >= SlaThreshold
         THEN [counter |-> 0, violations |-> row.violations + 1]
         ELSE [row EXCEPT !.counter = @ + 1]

\* Mutant: the rounds of a check are counted only when it is up.
CreditUpOnly(record, old, c, up, violated) ==
    [record EXCEPT
        !.points[c]  = old.points[c] + (IF up THEN 1 ELSE 0),
        !.count[c]   = old.count[c] + (IF up THEN 1 ELSE 0),
        !.service    = @ + (IF up THEN 1 ELSE 0),
        !.sla        = @ + violated]

\* The record after one more result, its check's points and rounds taken over from the old.
Credit(record, old, c, up, violated) ==
    [record EXCEPT
        !.points[c]  = old.points[c] + (IF up THEN 1 ELSE 0),
        !.count[c]   = old.count[c] + 1,
        !.service    = @ + (IF up THEN 1 ELSE 0),
        !.sla        = @ + violated]

\* What is the same whichever slas row a result is counted on.
TakeResult(t, c, old) ==
    LET up  == staged[t][c]
        row == SlaAfter(old, up)
    IN  /\ work.team = {t}
        /\ c \in work.left
        /\ sla' = [sla EXCEPT ![t][c] = row]
        /\ work' = [work EXCEPT
                      !.left   = @ \ {c},
                      !.record = Credit(@, latest[t], c, up, row.violations - old.violations)]

\* One turn of the loop over rec.Results: the slas row of the check is read and saved.
ProcessResult(t, c) ==
    /\ TakeResult(t, c, sla[t][c])
    /\ outcomes' = [outcomes EXCEPT ![t][c] = Append(@, staged[t][c])]
    /\ UNCHANGED <<latest, pending, lpc, staged, todo, rpc, counts, recorded, unlisted, balance,
                   given, lost, applied>>

\* The query for the slas row fails: whatever the error, the code takes the row for missing,
\* and saves a fresh one over it (the table's key is the team and the check).
ProcessAnew(t, c) ==
    /\ failures < MaxFailures
    /\ failures' = failures + 1
    /\ TakeResult(t, c, NoSla)
    /\ outcomes' = [outcomes EXCEPT ![t][c] = <<staged[t][c]>>]
    /\ forgotten' = [forgotten EXCEPT ![t] = @ + sla[t][c].violations]
    /\ UNCHANGED <<latest, pending, lpc, staged, todo, rpc, rounds, adjusts, resets, crashes,
                   recorded, unlisted, uncharged, given, lost, applied>>

\* Mutant: the violations of earlier rounds are not carried on.
CarryOnNoSla(record, old, adjustment) ==
    [record EXCEPT
        !.adjustment = old.adjustment + adjustment,
        !.service    = @ + old.service]

\* What the record takes over from the team's newest row, and from manualAdjustments.
CarryOn(record, old, adjustment) ==
    [record EXCEPT
        !.adjustment = old.adjustment + adjustment,
        !.sla        = @ + old.sla,
        !.service    = @ + old.service]

\* All results are done: the row is created.
CreateRecord(t) ==
    /\ work.team = {t}
    /\ work.left = {}
    /\ latest' = [latest EXCEPT ![t] = CarryOn(work.record, @, pending[t])]
    /\ recorded' = [recorded EXCEPT ![t] = [c \in Checks |-> Append(@[c], staged[t][c])]]
    /\ applied' = applied \cup {t}
    /\ work' = NoWork
    /\ UNCHANGED <<sla, pending, lpc, staged, todo, rpc, counts, outcomes, unlisted, balance,
                   given, lost>>

\* The database refuses a statement: processNewRecord returns, or db.Create has no effect.
RecordFails(t) ==
    /\ work.team = {t}
    /\ failures < MaxFailures
    /\ failures' = failures + 1
    /\ uncharged' = [uncharged EXCEPT ![t] = @ + work.record.sla]
    /\ work' = NoWork
    /\ UNCHANGED <<tables, pending, lpc, staged, todo, rpc, rounds, adjusts, resets, crashes,
                   tallies, forgotten, given, lost, applied>>

\* Mutant: manualAdjustments is not emptied.
EndProcessingKeep ==
    /\ lpc = "processing"
    /\ todo = {} /\ work = NoWork
    /\ lpc' = "idle"
    /\ staged' = NoResults
    /\ UNCHANGED <<tables, pending, todo, work, rpc, counts, history>>

\* recordsStaging and manualAdjustments are emptied, also of what no record has taken up.
EndProcessing ==
    /\ lpc = "processing"
    /\ todo = {} /\ work = NoWork
    /\ lpc' = "idle"
    /\ staged' = NoResults
    /\ pending' = [t \in Teams |-> 0]
    /\ lost' = [t \in Teams |-> IF t \in applied THEN lost[t] ELSE lost[t] + pending[t]]
    /\ UNCHANGED <<tables, todo, work, rpc, counts, tallies, balance, given, applied>>

-----------------------------------------------------------------------------
(* The other actors *)

\* setManualAdjustment, which waits for adjustmentMutex.
Adjust(t, a) ==
    /\ lpc # "processing"
    /\ adjusts < MaxAdjusts
    /\ adjusts' = adjusts + 1
    /\ pending' = [pending EXCEPT ![t] = @ + a]
    /\ given' = [given EXCEPT ![t] = @ + a]
    /\ UNCHANGED <<tables, lpc, staged, todo, work, rpc, rounds, resets, failures, crashes, tallies,
                   balance, lost, applied>>

\* resetEvent takes teamMutex.  A round under way is dropped as by a pause; manualAdjustments
\* stays.
ResetLock ==
    /\ rpc = "idle" /\ lpc # "processing"
    /\ resets < MaxResets
    /\ resets' = resets + 1
    /\ rpc' = "results"
    /\ UNCHANGED <<tables, pending, lpc, staged, todo, work, rounds, adjusts, failures, crashes,
                   history>>

\* DELETE FROM result_entries: the rows of team_records are left without their results.
ResetResults ==
    /\ rpc = "results"
    /\ latest' = [t \in Teams |-> [latest[t] EXCEPT !.points = Zero, !.count = Zero]]
    /\ recorded' = [t \in Teams |-> [c \in Checks |-> <<>>]]
    /\ unlisted' = [t \in Teams |-> latest[t].service]
    /\ rpc' = "records"
    /\ UNCHANGED <<sla, pending, lpc, staged, todo, work, counts, outcomes, balance, given, lost,
                   applied>>

\* DELETE FROM team_records.
ResetRecords ==
    /\ rpc = "records"
    /\ latest' = [t \in Teams |-> NoRecord]
    /\ uncharged' = [t \in Teams |-> uncharged[t] + latest[t].sla]
    /\ recorded' = [t \in Teams |-> [c \in Checks |-> <<>>]]
    /\ unlisted' = [t \in Teams |-> 0]
    /\ given' = pending
    /\ lost' = [t \in Teams |-> 0]
    /\ rpc' = "slas"
    /\ UNCHANGED <<sla, pending, lpc, staged, todo, work, counts, outcomes, forgotten, applied>>

\* DELETE FROM slas, and teamMutex is given back.
ResetSlas ==
    /\ rpc = "slas"
    /\ sla' = [t \in Teams |-> [c \in Checks |-> NoSla]]
    /\ outcomes' = [t \in Teams |-> [c \in Checks |-> <<>>]]
    /\ forgotten' = [t \in Teams |-> forgotten[t] + Shown(t)]
    /\ rpc' = "idle"
    /\ UNCHANGED <<latest, pending, lpc, staged, todo, work, counts, recorded, unlisted, uncharged,
                   given, lost, applied>>

\* One of the two DELETEs fails: its error is ignored, the table stays, the reset goes on.
ResetFails ==
    /\ rpc \in {"records", "slas"}
    /\ failures < MaxFailures
    /\ failures' = failures + 1
    /\ rpc' = IF rpc = "records" THEN "slas" ELSE "idle"
    /\ UNCHANGED <<tables, pending, lpc, staged, todo, work, rounds, adjusts, resets, crashes,
                   history>>

\* The process is killed and started again: only the tables are left.
Crash ==
    /\ crashes < MaxCrashes
    /\ crashes' = crashes + 1
    /\ pending' = [t \in Teams |-> 0]
    /\ lost' = [t \in Teams |-> IF lpc = "processing" /\ t \in applied
                                THEN lost[t] ELSE lost[t] + pending[t]]
    /\ uncharged' = [t \in Teams |-> IF t \in work.team
                                     THEN uncharged[t] + work.record.sla ELSE uncharged[t]]
    /\ lpc' = "idle" /\ rpc' = "idle"
    /\ staged' = NoResults
    /\ todo' = {}
    /\ work' = NoWork
    /\ UNCHANGED <<tables, rounds, adjusts, resets, failures, tallies, forgotten, given, applied>>

\* The bound on rounds is reached.
BoundReached ==
    /\ lpc = "idle" /\ rpc = "idle"
    /\ rounds = MaxRounds
    /\ UNCHANGED vars

RecordStep(t) ==
    \/ BeginRecord(t) \/ CreateRecord(t) \/ RecordFails(t)
    \/ \E c \in Checks : ProcessResult(t, c) \/ ProcessAnew(t, c)

ResetStep == ResetLock \/ ResetResults \/ ResetRecords \/ ResetSlas \/ ResetFails

Next ==
    \/ Collect \/ DropRound \/ BeginProcessing \/ EndProcessing
    \/ \E t \in Teams : RecordStep(t)
    \/ \E t \in Teams, a \in Adjustments : Adjust(t, a)
    \/ ResetStep
    \/ Crash
    \/ BoundReached

Spec == Init /\ [][Next]_vars

-----------------------------------------------------------------------------
(* Properties *)

\* How many failures in a row end at the i-th result.
DownRun(s, i) == i - CHOOSE j \in 0..i : /\ j = 0 \/ s[j]
                                         /\ \A k \in (j + 1)..i : ~s[k]

\* "how many checks before incurring SLA violation" (README.md:52): a violation for each
\* SlaThreshold failures in a row, whatever came before and however the run goes on, counted
\* from the first result after the row was made.  That is the event's first or the first after
\* a reset, but also any whose query the database failed (score.go:225-231): the code then
\* makes a row anew, over the counter and the violations there were.
SlaByRuns ==
    \A t \in Teams, c \in Checks :
        LET s == outcomes[t][c]
        IN  /\ sla[t][c].violations =
                  Cardinality({i \in DOMAIN s : /\ DownRun(s, i) > 0
                                                /\ DownRun(s, i) % SlaThreshold = 0})
            /\ sla[t][c].counter = DownRun(s, Len(s)) % SlaThreshold

\* Every violation a slas row ever showed is charged to its team once: it is in the newest
\* record, unless that record failed, was cut short or deleted.  And every violation a team is
\* charged with is in a slas row, unless that row has been made anew or deleted.
RecordMatchesSla ==
    lpc # "processing" =>
        \A t \in Teams : latest[t].sla + uncharged[t] = Shown(t) + forgotten[t]

\* The points of a check are its successes in the rows saved for the team, its round count
\* is their number, and the service points are the sum, whatever has gone wrong, except that a
\* reset which fails or is cut short can leave the rows without their results.
PointsAreHistory ==
    \A t \in Teams :
        /\ latest[t].service = SumOf(latest[t].points) + unlisted[t]
        /\ \A c \in Checks :
              LET s == recorded[t][c]
              IN  /\ latest[t].count[c] = Len(s)
                  /\ latest[t].points[c] = Cardinality({i \in DOMAIN s : s[i]})

\* Every adjustment an admin has submitted is applied to the score once, or still waits
\* for the next round, or was lost with the process or with a record that failed.
AdjustedOnce ==
    lpc # "processing" =>
        \A t \in Teams : given[t] = latest[t].adjustment + pending[t] + lost[t]
=============================================================================
