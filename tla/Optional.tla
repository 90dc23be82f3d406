------------------------------ MODULE Optional ------------------------------
(***************************************************************************)
(* The two optional modes of a competition, which take part in the saving  *)
(* of a round.  Persists: a team that calls in from another team's box     *)
(* (routes.go:305-344) is given a share of what the box has earned         *)
(* (calculatePersists, score.go:310-358).  Uptime: a team is charged for   *)
(* its boxes that have not called in for too long (routes.go:346-361,      *)
(* score.go:129-165).                                                      *)
(*                                                                         *)
(* A round is saved in three passes over the database, with teamMutex held *)
(* throughout: slas rows and staged records, then the new rows of          *)
(* team_records, which carry the totals of the newest ones on, then these  *)
(* rows once more with the persist points, together with rows of persists. *)
(* Results are kept per box, as the number of its checks that were up; the *)
(* rest of a record is Ledger's subject.                                   *)
(***************************************************************************)
EXTENDS Integers, Sequences, FiniteSets, Functions

CONSTANTS
    N,              \* the number of teams
    Modes,          \* the [uptime, persists] a configuration file may ask for
    Boxes,          \* dwConf.Box
    MaxUp,          \* the number of checks of a box
    ServicePoints,  \* dwConf.ServicePoints
    UptimeSLA,      \* the time a box may be silent
    MaxClock, MaxRounds, MaxHits, MaxAgents,  \* bounds
    MaxTroubles     \* bound on failures, resets and crashes together

ASSUME ConstantsAssumption ==
    /\ N \in Nat \ {0} /\ IsFiniteSet(Boxes)
    /\ Modes \subseteq [uptime : BOOLEAN, persists : BOOLEAN]
    /\ {MaxUp, ServicePoints, UptimeSLA, MaxClock, MaxRounds, MaxHits, MaxAgents,
        MaxTroubles} \subseteq Nat
    /\ UptimeSLA < MaxClock

Teams == 1..N   \* IDs are assigned in sequence (dwayne.go:100-103)

VARIABLES
    dwConf,      \* the modes that are on
    rows,        \* the table team_records
    slas,        \* the rows of the table slas that are about boxes
    persists,    \* the table persists
    persistHits, agentHits,
    lpc,         \* the Score loop; "dead": Score has returned with its locks held
    staged,      \* recordsStaging: the results and SLA violations of each team
    left,        \* what the pass at work has still to go through
    records,     \* calculatePersists: the rows it has read and is changing
    clock, rounds, hits, agents, troubles,
    torn,        \* history: a pass was cut short, or a record is missing
    forgotten,   \* history: violations that were in slas rows since overwritten or deleted
    uncharged,   \* history: violations whose record was never created, or has been deleted
    unsettled    \* history: the victims whose rows of persists this round could not be saved

memory == <<persistHits, agentHits>>
tables == <<dwConf, rows, slas, persists>>
pass == <<staged, left, records>>
bounds == <<rounds, hits, agents, troubles>>
losses == <<forgotten, uncharged, unsettled>>
vars == <<tables, memory, lpc, pass, clock, bounds, torn, losses>>

Pairs == Teams \X Boxes
Epoch == UptimeSLA + 1     \* now is long after time.Time{}, which is 0 here

NoSla == [time |-> 0, violations |-> 0]
NoHits == [p \in Pairs |-> {}]
NoneUp == [b \in Boxes |-> 0]
NoResults == [t \in Teams |-> [up |-> NoneUp, sla |-> 0]]

\* A row of team_records; `time` orders the rounds.
Row == [time : 1..MaxRounds, team : Teams, up : [Boxes -> 0..MaxUp], sla : Nat,
        lost : Nat, stolen : Nat, extra : Nat]

Persist == [round : 1..MaxRounds, team : Teams, box : Boxes, offender : Teams]

TypeOK ==
    /\ dwConf \in Modes
    /\ rows \subseteq Row
    /\ slas \in [Pairs -> [time : 0..MaxClock, violations : Nat]]
    /\ persists \subseteq Persist
    /\ persistHits \in [Pairs -> SUBSET Teams]
    /\ agentHits \in [Pairs -> Epoch..MaxClock]
    /\ lpc \in {"idle", "staged", "uptime", "processing", "settle", "dead", "down"}
    /\ staged \in [Teams -> [up : [Boxes -> 0..MaxUp], sla : Nat]]
    /\ left \subseteq IF lpc = "processing" THEN Teams ELSE Pairs
    /\ records \in Seq([row : Row, persists : SUBSET Persist])
    /\ clock \in Epoch..MaxClock
    /\ {rounds, hits, agents, troubles} \subseteq Nat
    /\ torn \in BOOLEAN
    /\ {forgotten, uncharged} \subseteq [Teams -> Nat] /\ unsettled \subseteq Teams

\* The newest row of a team, zero if there is none.
Newest(t) ==
    LET own == {r \in rows : r.team = t}
    IN  IF own = {} THEN [sla |-> 0, lost |-> 0, stolen |-> 0, extra |-> 0]
        ELSE CHOOSE r \in own : \A q \in own : q.time <= r.time

SumOf(f) == FoldFunction(LAMBDA x, y : x + y, 0, f)

\* The violations the slas rows of a team show.
Shown(t) == SumOf([b \in Boxes |-> slas[<<t, b>>].violations])

\* The staged record of the team is charged, or may be, and not yet a row.
Open(t) == lpc \in {"uptime", "dead"} \/ (lpc = "processing" /\ t \in left)

Init ==
    /\ dwConf \in Modes
    /\ rows = {} /\ slas = [p \in Pairs |-> NoSla] /\ persists = {}
    /\ persistHits = NoHits /\ agentHits = [p \in Pairs |-> Epoch]
    /\ lpc = "idle"
    /\ staged = NoResults /\ left = {} /\ records = <<>>
    /\ clock = Epoch
    /\ rounds = 0 /\ hits = 0 /\ agents = 0 /\ troubles = 0
    /\ torn = FALSE
    /\ forgotten = [t \in Teams |-> 0] /\ uncharged = [t \in Teams |-> 0] /\ unsettled = {}

-----------------------------------------------------------------------------
(* Handlers: both take teamMutex for all they do *)

LockFree == lpc \in {"idle", "staged"}

\* The offender's token comes in from the address of the victim's box.
ScorePersist(victim, box, offender) ==
    /\ LockFree /\ dwConf.persists
    /\ hits < MaxHits
    /\ victim # offender
    /\ offender \notin persistHits[<<victim, box>>]
    /\ persistHits' = [persistHits EXCEPT ![<<victim, box>>] = @ \cup {offender}]
    /\ hits' = hits + 1
    /\ UNCHANGED <<tables, agentHits, lpc, pass, clock, rounds, agents, troubles, torn, losses>>

ScoreAgent(team, box) ==
    /\ LockFree /\ dwConf.uptime
    /\ agents < MaxAgents
    /\ agentHits' = [agentHits EXCEPT ![<<team, box>>] = clock]
    /\ agents' = agents + 1
    /\ UNCHANGED <<tables, persistHits, lpc, pass, clock, rounds, hits, troubles, torn, losses>>

\* The tables a reset may fail to empty; its first DELETE, of the results, is taken to succeed.
Kept == (SUBSET {"records", "slas", "persists"}) \ {{}}

\* The tables are emptied, a round under way is dropped; agentHits stays.
Reset ==
    /\ LockFree
    /\ troubles < MaxTroubles
    /\ troubles' = troubles + 1
    /\ rows' = {} /\ slas' = [p \in Pairs |-> NoSla] /\ persists' = {}
    /\ persistHits' = NoHits
    /\ lpc' = "idle" /\ staged' = NoResults
    /\ torn' = FALSE
    /\ uncharged' = [t \in Teams |-> uncharged[t] + Newest(t).sla]
    /\ forgotten' = [t \in Teams |-> forgotten[t] + Shown(t)]
    /\ UNCHANGED <<dwConf, agentHits, left, records, clock, rounds, hits, agents, unsettled>>

\* Some of its DELETEs fail: their errors are ignored, so these tables stay, team_records
\* without the results that hang on it.
ResetFails(kept) ==
    /\ LockFree
    /\ troubles < MaxTroubles
    /\ troubles' = troubles + 1
    /\ IF "records" \in kept
       THEN rows' = {[r EXCEPT !.up = NoneUp] : r \in rows} /\ UNCHANGED uncharged
       ELSE rows' = {} /\ uncharged' = [t \in Teams |-> uncharged[t] + Newest(t).sla]
    /\ IF "slas" \in kept
       THEN UNCHANGED <<slas, forgotten>>
       ELSE /\ slas' = [p \in Pairs |-> NoSla]
            /\ forgotten' = [t \in Teams |-> forgotten[t] + Shown(t)]
    /\ persists' = IF "persists" \in kept THEN persists ELSE {}
    /\ persistHits' = NoHits
    /\ lpc' = "idle" /\ staged' = NoResults
    /\ torn' = TRUE
    /\ UNCHANGED <<dwConf, agentHits, left, records, clock, rounds, hits, agents, unsettled>>

-----------------------------------------------------------------------------
(* A round *)

\* The checks are over and the records of all teams staged.  What the results were is only
\* of interest to calculatePersists.
Collect ==
    /\ lpc = "idle"
    /\ rounds < MaxRounds
    /\ rounds' = rounds + 1
    /\ lpc' = "staged"
    /\ \E up \in [Teams -> [Boxes -> IF dwConf.persists THEN 0..MaxUp ELSE {0}]] :
          staged' = [t \in Teams |-> [up |-> up[t], sla |-> 0]]
    /\ UNCHANGED <<tables, memory, left, records, clock, hits, agents, troubles, torn, losses>>

\* A pause was issued: the round is not saved, what has come in is kept for the next.
DropRound ==
    /\ lpc = "staged"
    /\ lpc' = "idle" /\ staged' = NoResults
    /\ UNCHANGED <<tables, memory, left, records, clock, bounds, torn, losses>>

\* teamMutex is taken, and agentMutex if there is something to do; agentHits has every box.
BeginUptime ==
    /\ lpc = "staged"
    /\ lpc' = "uptime" /\ left' = IF dwConf.uptime THEN Pairs ELSE {}
    /\ UNCHANGED <<tables, memory, staged, records, clock, bounds, torn, losses>>

\* More than uptimeSLA since the last call, and since the last violation.
Silent(p) == clock - agentHits[p] > UptimeSLA
Overdue(p) == Silent(p) /\ clock - slas[p].time > UptimeSLA

\* If the query for the row fails, the box is skipped when it is not even silent.
SkipBox(p) ==
    /\ lpc = "uptime" /\ p \in left
    /\ ~Overdue(p)
    /\ left' = left \ {p}
    /\ UNCHANGED <<tables, memory, lpc, staged, records, clock, bounds, torn, losses>>

\* Mutant: the staged record is charged and the slas row is not saved.
ChargeUnsaved(p) ==
    /\ lpc = "uptime" /\ p \in left
    /\ Overdue(p)
    /\ staged' = [staged EXCEPT ![p[1]].sla = @ + 1]
    /\ left' = left \ {p}
    /\ UNCHANGED <<tables, memory, lpc, records, clock, bounds, torn, losses>>

\* The staged record is charged, the slas row saved.
ChargeBox(p) ==
    /\ lpc = "uptime" /\ p \in left
    /\ Overdue(p)
    /\ staged' = [staged EXCEPT ![p[1]].sla = @ + 1]
    /\ slas' = [slas EXCEPT ![p] = [time |-> clock, violations |-> @.violations + 1]]
    /\ left' = left \ {p}
    /\ UNCHANGED <<dwConf, rows, persists, memory, lpc, records, clock, bounds, torn, losses>>

\* The query for the row fails: whatever the error, the code takes the row for missing, so that
\* the last violation is not heeded, and saves a fresh one over it.
ChargeAnew(p) ==
    /\ lpc = "uptime" /\ p \in left
    /\ Silent(p)
    /\ troubles < MaxTroubles
    /\ troubles' = troubles + 1
    /\ staged' = [staged EXCEPT ![p[1]].sla = @ + 1]
    /\ slas' = [slas EXCEPT ![p] = [time |-> clock, violations |-> 1]]
    /\ forgotten' = [forgotten EXCEPT ![p[1]] = @ + slas[p].violations]
    /\ left' = left \ {p}
    /\ UNCHANGED <<dwConf, rows, persists, memory, lpc, records, clock, rounds, hits, agents, torn,
                   uncharged, unsettled>>

\* The row, found or made anew, cannot be saved: Score returns, and teamMutex and agentMutex
\* stay locked.
ChargeFails(p) ==
    /\ lpc = "uptime" /\ p \in left
    /\ Silent(p)
    /\ troubles < MaxTroubles
    /\ troubles' = troubles + 1
    /\ lpc' = "dead" /\ torn' = TRUE
    /\ UNCHANGED <<tables, memory, pass, clock, rounds, hits, agents, losses>>

BeginProcessing ==
    /\ lpc = "uptime" /\ left = {}
    /\ lpc' = "processing" /\ left' = Teams
    /\ UNCHANGED <<tables, memory, staged, records, clock, bounds, torn, losses>>

\* Mutant: the points lost are not carried on.
CarryOnUnlost(t) ==
    LET last == Newest(t)
    IN  [time |-> rounds, team |-> t, up |-> staged[t].up, sla |-> last.sla + staged[t].sla,
         lost |-> 0, stolen |-> last.stolen, extra |-> last.extra]

CarryOn(t) ==
    LET last == Newest(t)
    IN  [time |-> rounds, team |-> t, up |-> staged[t].up, sla |-> last.sla + staged[t].sla,
         lost |-> last.lost, stolen |-> last.stolen, extra |-> last.extra]

\* processNewRecord.
CreateRecord(t) ==
    /\ lpc = "processing" /\ t \in left
    /\ rows' = rows \cup {CarryOn(t)}
    /\ left' = left \ {t}
    /\ UNCHANGED <<dwConf, slas, persists, memory, lpc, staged, records, clock, bounds, torn,
                   losses>>

\* An error in processNewRecord: the record is dropped, the round goes on.
RecordFails(t) ==
    /\ lpc = "processing" /\ t \in left
    /\ troubles < MaxTroubles
    /\ troubles' = troubles + 1
    /\ left' = left \ {t}
    /\ torn' = TRUE
    /\ uncharged' = [uncharged EXCEPT ![t] = @ + staged[t].sla]
    /\ UNCHANGED <<tables, memory, lpc, staged, records, clock, rounds, hits, agents, forgotten,
                   unsettled>>

\* What Limit(len(dwConf.Team)).Order("time desc") may find, sorted by team, newer first.
Latest ==
    LET size == IF Cardinality(rows) < N THEN Cardinality(rows) ELSE N
        Before(r, q) == r.team < q.team \/ (r.team = q.team /\ r.time > q.time)
    IN  {s \in [1..size -> rows] :
            /\ \A i, j \in 1..size : i < j => Before(s[i], s[j])
            /\ \A q \in rows \ Range(s), r \in Range(s) : q.time <= r.time}

ReadRecords ==
    /\ lpc = "processing" /\ left = {} /\ dwConf.persists
    /\ \E s \in Latest : records' = [i \in DOMAIN s |-> [row |-> s[i], persists |-> {}]]
    /\ lpc' = "settle" /\ left' = {p \in Pairs : persistHits[p] # {}}
    /\ staged' = NoResults
    /\ UNCHANGED <<tables, memory, clock, bounds, torn, losses>>

\* The rows cannot be read: calculatePersists returns, and persistHits is made anew all the same.
ReadFails ==
    /\ lpc = "processing" /\ left = {} /\ dwConf.persists
    /\ troubles < MaxTroubles
    /\ troubles' = troubles + 1
    /\ lpc' = "settle"
    /\ staged' = NoResults
    /\ torn' = TRUE
    /\ unsettled' = Teams
    /\ UNCHANGED <<tables, memory, left, records, clock, rounds, hits, agents, forgotten,
                   uncharged>>

\* points / parties in floating point, to the nearest integer, halves up.
OneOfN(points, parties) == (2 * points + parties) \div (2 * parties)

Share(up, offenders) == OneOfN(up * ServicePoints, offenders + 1)

\* The rows are taken by position, as if they were one for each team.
InRange(p) == \A t \in {p[1]} \cup persistHits[p] : t \in DOMAIN records

\* Mutant: the victim's row is not put back into the slice.
SettleCopy(p) ==
    LET share == Share(records[p[1]].row.up[p[2]], Cardinality(persistHits[p]))
    IN  /\ lpc = "settle" /\ p \in left /\ InRange(p)
        /\ records' =
              [i \in DOMAIN records |->
                  IF i \in persistHits[p]
                  THEN [records[i] EXCEPT !.row.stolen = @ + share,
                                          !.row.extra = @ + share \div 2]
                  ELSE records[i]]
        /\ left' = left \ {p}
        /\ UNCHANGED <<tables, memory, lpc, staged, clock, bounds, torn, losses>>

\* Mutant: the sign of what the victim loses is wrong.
SettleTake(p) ==
    LET offenders == persistHits[p]
        share == Share(records[p[1]].row.up[p[2]], Cardinality(offenders))
    IN  /\ lpc = "settle" /\ p \in left /\ InRange(p)
        /\ records' =
              [i \in DOMAIN records |->
                  IF i = p[1]
                  THEN [records[i] EXCEPT
                          !.persists = @ \cup {[round |-> rounds, team |-> p[1], box |-> p[2],
                                                offender |-> o] : o \in offenders},
                          !.row.lost = @ - share * Cardinality(offenders)]
                  ELSE IF i \in offenders
                  THEN [records[i] EXCEPT !.row.stolen = @ + share,
                                          !.row.extra = @ + share \div 2]
                  ELSE records[i]]
        /\ left' = left \ {p}
        /\ UNCHANGED <<tables, memory, lpc, staged, clock, bounds, torn, losses>>

\* "I giveth points, I taketh points": one box with its offenders.
Settle(p) ==
    LET offenders == persistHits[p]
        share == Share(records[p[1]].row.up[p[2]], Cardinality(offenders))
    IN  /\ lpc = "settle" /\ p \in left /\ InRange(p)
        /\ records' =
              [i \in DOMAIN records |->
                  IF i = p[1]
                  THEN [records[i] EXCEPT
                          !.persists = @ \cup {[round |-> rounds, team |-> p[1], box |-> p[2],
                                                offender |-> o] : o \in offenders},
                          !.row.lost = @ + share * Cardinality(offenders)]
                  ELSE IF i \in offenders
                  THEN [records[i] EXCEPT !.row.stolen = @ + share,
                                          !.row.extra = @ + share \div 2]
                  ELSE records[i]]
        /\ left' = left \ {p}
        /\ UNCHANGED <<tables, memory, lpc, staged, clock, bounds, torn, losses>>

\* An index out of range ends the process.
Panic(p) ==
    /\ lpc = "settle" /\ p \in left /\ ~InRange(p)
    /\ lpc' = "down"
    /\ left' = {} /\ records' = <<>>
    /\ torn' = TRUE
    /\ UNCHANGED <<tables, memory, staged, clock, bounds, losses>>

\* db.Save of the first row left, with the rows of persists that hang on it.
SaveRow ==
    /\ lpc = "settle" /\ left = {} /\ records # <<>>
    /\ LET rec == Head(records)
       IN  /\ rows' = {r \in rows : r.time # rec.row.time \/ r.team # rec.row.team}
                          \cup {rec.row}
           /\ persists' = persists \cup rec.persists
    /\ records' = Tail(records)
    /\ UNCHANGED <<dwConf, slas, memory, lpc, staged, left, clock, bounds, torn, losses>>

\* Its error is ignored: the row stays as it was, and the rows of persists are not there.
SaveRowFails ==
    /\ lpc = "settle" /\ left = {} /\ records # <<>>
    /\ troubles < MaxTroubles
    /\ troubles' = troubles + 1
    /\ records' = Tail(records)
    /\ torn' = TRUE
    /\ unsettled' = unsettled \cup {p.team : p \in Head(records).persists}
    /\ UNCHANGED <<tables, memory, lpc, staged, left, clock, rounds, hits, agents, forgotten,
                   uncharged>>

\* Mutant: persistHits is not made anew.
EndRoundKeep ==
    /\ \/ lpc = "settle" /\ left = {} /\ records = <<>>
       \/ lpc = "processing" /\ left = {} /\ ~dwConf.persists
    /\ lpc' = "idle" /\ staged' = NoResults
    /\ UNCHANGED <<tables, memory, left, records, clock, bounds, torn, losses>>

\* persistHits is made anew (it is empty in any other mode), the locks are released.
EndRound ==
    /\ \/ lpc = "settle" /\ left = {} /\ records = <<>>
       \/ lpc = "processing" /\ left = {} /\ ~dwConf.persists
    /\ lpc' = "idle" /\ staged' = NoResults
    /\ persistHits' = NoHits
    /\ unsettled' = {}
    /\ UNCHANGED <<tables, agentHits, left, records, clock, bounds, torn, forgotten, uncharged>>

-----------------------------------------------------------------------------
\* Only uptime looks at the clock, and not in the passes over the records.
Tick ==
    /\ dwConf.uptime
    /\ lpc \notin {"processing", "settle"}
    /\ clock < MaxClock
    /\ clock' = clock + 1
    /\ UNCHANGED <<tables, memory, lpc, pass, bounds, torn, losses>>

Crash ==
    /\ lpc # "down"
    /\ troubles < MaxTroubles
    /\ troubles' = troubles + 1
    /\ lpc' = "down"
    /\ torn' = (torn \/ ~LockFree)
    /\ uncharged' = [t \in Teams |-> IF Open(t) THEN uncharged[t] + staged[t].sla ELSE uncharged[t]]
    /\ left' = {} /\ records' = <<>> /\ staged' = NoResults
    /\ UNCHANGED <<tables, memory, clock, rounds, hits, agents, forgotten, unsettled>>

\* The process is started again: no hits, and all boxes count as seen now.
Boot ==
    /\ lpc = "down"
    /\ lpc' = "idle"
    /\ persistHits' = NoHits /\ agentHits' = [p \in Pairs |-> clock]
    /\ unsettled' = {}
    /\ UNCHANGED <<tables, pass, clock, bounds, torn, forgotten, uncharged>>

Uptime ==
    \/ BeginUptime \/ BeginProcessing
    \/ \E p \in Pairs : SkipBox(p) \/ ChargeBox(p) \/ ChargeAnew(p) \/ ChargeFails(p)

Settlement ==
    \/ ReadRecords \/ ReadFails \/ SaveRow \/ SaveRowFails \/ EndRound
    \/ \E p \in Pairs : Settle(p) \/ Panic(p)

\* Nothing more can happen within the bounds.
BoundReached ==
    /\ \/ lpc = "idle" /\ rounds = MaxRounds
       \/ lpc = "dead"
    /\ UNCHANGED vars

Next ==
    \/ \E v, o \in Teams, b \in Boxes : ScorePersist(v, b, o)
    \/ \E t \in Teams, b \in Boxes : ScoreAgent(t, b)
    \/ Collect \/ DropRound \/ Uptime \/ Settlement
    \/ \E t \in Teams : CreateRecord(t) \/ RecordFails(t)
    \/ Reset \/ \E kept \in Kept : ResetFails(kept)
    \/ Tick \/ Crash \/ Boot \/ BoundReached

Spec == Init /\ [][Next]_vars

-----------------------------------------------------------------------------
(* Properties *)

Between == lpc \in {"idle", "staged"}

\* The share a row of persists stands for: the box's earnings of that round, split among
\* its owner and all teams that persisted on it then.
Worth(p) ==
    LET row == CHOOSE r \in rows : r.time = p.round /\ r.team = p.team
        parties == {q \in persists : q.round = p.round /\ q.team = p.team /\ q.box = p.box}
    IN  Share(row.up[p.box], Cardinality(parties))

Total(S) == SumOf([p \in S |-> Worth(p)])

\* What a team has lost and what it has stolen, over all rounds, is what the rows of
\* persists say, although it is added up in memory in map order, by a position in a slice
\* that stands for a team, and carried from row to row; unless a record or a pass is missing.
PersistsExplainPoints ==
    ~torn =>
        /\ Between =>
              \A t \in Teams :
                  /\ Newest(t).lost = Total({p \in persists : p.team = t})
                  /\ Newest(t).stolen = Total({p \in persists : p.offender = t})
        /\ lpc = "settle" => \A p \in left : InRange(p)

\* A call that was accepted is forgotten only when its row of persists is there, with a reset or
\* a restart, or because the database failed the settlement of its round: the code empties
\* persistHits whether calculatePersists could read the rows and save the victim's or not
\* (score.go:178-180).  A round that is dropped or whose records fail keeps the call.
NoHitForgotten ==
    [][\A v \in Teams, b \in Boxes : \A o \in persistHits[<<v, b>>] \ persistHits'[<<v, b>>] :
          \/ lpc = "down"
          \/ troubles' # troubles
          \/ v \in unsettled
          \/ [round |-> rounds, team |-> v, box |-> b, offender |-> o] \in persists']_vars

\* The calls that have not been paid for.
Calls == {call \in Pairs \X Teams : call[2] \in persistHits[call[1]]}

\* No call is paid for in two rounds.
PaidOnce == Between => Cardinality(persists) + Cardinality(Calls) <= hits

\* Every uptime violation a slas row ever showed is charged to its team once, across dropped
\* rounds: it is in the newest record, unless that record failed, was cut short or deleted.  And
\* every uptime violation a team is charged with is in a slas row, unless that row has been
\* deleted, or made anew because the database failed its query (score.go:135-142).
UptimeMatchesSla ==
    Between => \A t \in Teams : Newest(t).sla + uncharged[t] = Shown(t) + forgotten[t]
=============================================================================
