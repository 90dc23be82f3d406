# DWAYNE-INATOR-5000: models, checks and proofs

This directory holds TLA+ models of the scoring engine, TLC configurations that
check them on small instances, and theorems that TLAPS proves for every
instance. Paths such as `score.go:119` are relative to the repository's source.

    tlc -config MCLedger.cfg MCLedger          # model-check one instance
    tlapm CheckRoundProofs.tla                 # check the proofs about CheckRound

`PROJECT.json` lists the runs, the property each checks, which lines each
definition models (`map`), a plausible bug for each property (`mutants`), the
hazards the project looks for and the disagreements it has found.

## 1. The system

The engine is one Go process, with a SQLite database behind gorm. One goroutine
runs the `Score` loop for ever; each HTTP request runs in a goroutine of its
own. They share package variables, most of them without a lock.

| Component | State | Operations | Talks to |
|---|---|---|---|
| Round of checks (`score.go:56-119`, `checks/checks.go:101-116`) | per team a wait group, `resChan`, `done`; per check a `res` channel | spawn, `check.Run`, timeout, `wg.Done`, close, select, stage | services; stages records for the loop |
| Score loop (`score.go:14-211`) | `roundNumber`, `resetIssued`, `Running`, `recordsStaging`, `teamMutex` | start-up, start a round, drop it, save it, sleep | all of the below |
| Reset, pause, start (`util.go:201-238`, `dwayne.go:239-247`) | the same flags | one handler each | the loop; the database |
| Status pages (`routes.go:35-125`) | `cachedStatus`, `cachedRound` | check, refresh, stamp, show | the loop's round number; the table of records |
| Round processing (`score.go:213-283`) | tables `team_records`, `result_entries`, `slas`; `manualAdjustments` | one record at a time, under two locks | the admin's adjustments (`routes.go:266-295`) |
| Injects (`routes.go:381-696`, `score.go:285-308`, `db.go:117-131`) | tables `injects`, `inject_submissions`; `startTime` | create, delete, submit, invalidate, grade; points of a round | the loop; reset |
| Password change requests (`routes.go:196-264`, `db.go:146-286`) | rows of `inject_submissions`, files, `checks.Creds` | submit, invalidate, replay into the credential table | the loop; the checks |
| Delayed checks (`dwayne.go:309-332`, `util.go:75-114`) | `delayedChecks`, `dwConf.Box`, `startTime` | load; join the boxes when their time has come | the loop, resets, the replay |
| Persists (`routes.go:305-344`, `score.go:310-358`) | `persistHits`, table `persists` | note a hit; settle a round | the loop; reset |
| Uptime agents (`routes.go:346-361`, `score.go:129-165`) | `agentHits` | note a hit; charge a round | the loop |
| Configuration (`config.go`) | `dwConf` | read, validate, default | `main`, then `Score` once more; delayed checks are validated as they join |
| Service checks (`checks/*.go`) | none | one verdict on one service | the network |
| Login, charts, pages, export | sessions, images | views | read-only for the score |

What makes each correct, in short:

- *Round of checks:* exactly one result per check and team, from this round's
  own run; a round ends whatever services do; goroutines leak only in known ways.
- *Loop and handlers:* a reset leaves nothing of the rounds before it; a round
  is saved for all teams whose record the database takes or for none, never after a
  pause; round numbers go up.
- *Status pages:* the rows shown under a round number are that round's.
- *Processing:* points are the history of results; a violation per
  `SlaThreshold` failures in a row; what is charged and what is shown agree, or an error
  is to blame; an adjustment counts once.
- *Injects:* a team is paid its grades; an inject takes submissions while it is
  open; a grade is not lost; the start of the event stays put.
- *Requests:* the checks use the newest password of each processed request,
  not at once but soon; a processed request stays so, as long as its check is there.
- *Configuration and delayed checks:* what is accepted can be scored, and checking
  it again changes nothing; a delayed box joins once, when it is due.
- *Service checks:* one verdict; up exactly for a service that does what the
  configuration asks.
- *Persists and uptime:* what is taken from one team is given to others; a call
  counts once; what is charged and what is shown agree here, too.

The hard parts are the ones tests do not reach: a select between a result and a closed channel;
goroutines that outlive their round; handlers that change the loop's variables between two of its
statements; flags that are cleared without the lock; handlers that read a row and save the whole of
it later; a query that fails and is taken for an empty answer; a reset or a kill between any two
statements of a round. The repository has no tests.

## 2. The models

| Module | Models | State and actions |
|---|---|---|
| `RoundSpec` | what a round promises | a round begins, each team contributes one record with one result per check of this round, the round concludes |
| `CheckRound` | the goroutines of rounds | a team's goroutine, one RunCheck and one `check.Run` per check (the latter outlives its round, hence indexed by round); an unbuffered channel is a rendezvous, a wait group the set of those that have not called Done |
| `ScoreLoop` | the loop against reset, pause, start, pages, errors, crashes | one action per statement or group of statements that the lock makes atomic; program counters `lpc`, `tpc`, `rpc`, `ppc`, `vpc` |
| `Ledger` | `processNewRecord` and manual adjustments | a record is processed result by result (each saves an `slas` row, made anew if its query fails), carries on the newest row's totals, is created or fails |
| `Injects` | injects, submissions, grading, inject points, the start of the event | handlers as read and save steps; `calculateInjects` one query at a time; Score's start-up and a reset one statement at a time |
| `Optional` | persists and uptime in the saving of a round | the three passes over the database one row at a time, any of whose queries and saves may fail; `dwConf` is one of the `Modes` and stays |
| `Pcr` | requests, their files, the replay, the credential table | the handler's three writes, invalidating and grading as read and save steps (`gpc`), the replay row by row (a query, then saves), also under a reset as Score starts up, publishing |
| `Config` | `checkConfig`, `validateChecks`, `getBoxChecks` | operators from a configuration to a verdict and the configuration it has become |
| `Verdicts` | `Run` of the 16 kinds of checks | operators from a check, the item it picks and a service to what is sent and how it ends; `Deserves` is the reference: what the configuration asks for |
| `Timetable` | what delayed checks promise | a box waits, leaves once when it is due, and is scored if it is valid |
| `Startup` | `main` and `Score` around `Config` and `Verdicts`, and `addDelayedChecks` | `spc` goes from `main`'s check through the loop; one action per turn of the loop over `delayedChecks.Box`; clock, resets, pauses, restarts |
| `MC*` | the instances | model values, small sets |
| `SetLemmas` | - | lemmas on least and greatest elements, sums over finite sets, counting and remainders, which the proofs share |
| `CheckRoundProofs`, `ScoreLoopProofs`, `LedgerProofs`, `InjectsProofs`, `PcrProofs`, `OptionalProofs`, `StartupProofs` | - | the theorems about the module each is named for |

The modules share no variables: each one takes from the loop what its subject
can tell apart (`lpc` in `Ledger`, `Injects` and `Pcr` is the same loop, coarser), so that
each can be checked with the bounds its own behaviour needs.
`CheckRound` and `RoundSpec` are tied by refinement; `ScoreLoop` uses a round only through what
`RoundSpec` promises: each team stages one record, labelled with the round number it
read when its goroutine started.

`Startup` extends `Config` and `Verdicts`, and is tied to `Timetable` by refinement: where a
box is in `Timetable` is how often it occurs in `delayed` and its first check in the boxes.

Definitions named `...Early`, `...Silent`, `...Now` and the like, each marked
"Mutant", are the plausible bugs: no specification uses them. Replacing the
definition after them by one of them breaks the property that `mutants` names.

### Conventions and abstractions

- A crash kills the process at any step and starts it again; the database
  survives. SQLite's statements are atomic.
- gorm, as the code uses it: `Find` without a row is no error; `Find` into a
  struct that holds a row asks for its primary key as well; `Save` updates a
  row, inserts it again if it is gone, and inserts a new one if the key is 0.
- A password stands for the submission that set it. Grades, points and times
  are small numbers. `time.Duration` saturates (`Difference` in `Injects`).
- In `Injects` a new row gets the id after the greatest in the table, as SQLite
  gives them, so ids are used again after a reset. `Pcr` gives each request an
  id of its own: there an id used again would need a handler to stay at work
  over a reset and a new request.
- In `Optional` the results of a box are the number of its checks that are up, the two
  modes are explored one at a time (they share only the carried row), and the clock
  moves only where it is read.
- Names of checks are unique per box. `checkConfig` ensures that for neighbours in a
  list only (`config.go:345-352`), and nothing does for delayed checks. A configuration
  that breaks it is outside the other modules.
- In `Config` names, addresses and users are tuples and numbers, an address begins with
  the letter that stands for the team (capital or small, which is what sorting by address
  sees), and what a file must have and has not is the set `missing`. An item of
  a check is the set of what it asks for; a check has at most one item in the instance.
- What an item matches or contains is a text, which may be empty (`Sensible` in
  `Verdicts`); an item that says it does and names none is the item that asks for
  nothing. `SensibleCheck` is what the checks of a trial are assumed to be.
- In `Verdicts` a service takes a session up to some stage, where it refuses or falls
  silent, or serves it and shows one of six kinds of output. A silent service fails a call that has a
  deadline and hangs one that has none. A check without a usable list of credentials sends
  an empty name and password (`checks.go:32-34`), which a service lets in or not (`open`; for
  LDAP and SMB the client may refuse before the service can, which comes to the same).
- `how` a service goes about it is what the code looks away from or does not expect: it
  insists on an option the code ignores (`Ignored`), does what an option forbids and the code
  does not check, speaks early or late, shows a NULL row, has a certificate of its own,
  sends the client elsewhere.
- In `Startup` resets and pauses are atomic (`ScoreLoop` and `Injects` have their steps), a round is
  one of its checks (`CheckRound` has the goroutines), and records are the time of the first.
- `Ledger` leaves out inject points (`Injects`), persist points and uptime
  violations (`Optional`); `RedTeamPoints` is only ever carried.
- History variables (listed as such in each module) record what properties talk
  about and influence nothing.

## 3. The runs

| Run | Instance | Shows |
|---|---|---|
| `round` | 2 teams, 1 check that may send twice, 2 rounds, fair | results come once and from their own round, in spite of the answers of the round before; known leaks only; `RoundSpec` is implemented; every round ends |
| `loop_control` | 2 teams, 3 rounds, 2 resets, a pause, a crash, a database error | what is in the table of records after any interleaving |
| `loop_progress` | 2 teams, 2 rounds, a page, a reset, a pause, a database error, fair, started paused | a round is always decided; the cache is right unless a refresh overlaps a save or reset, or the database fails one |
| `ledger` | 1 team, 2 checks, threshold 2, 3 rounds, 2 adjustments, 2 errors, a crash, a reset | totals, violations and adjustments agree with the history; what is charged and what is shown differ by what errors, crashes and resets have dropped |
| `pcr` | 2 checks, one delayed; a request with an invalidation or grade, a reset and a crash over 4 rounds, or 2 requests with one of these over 2 rounds | the checks see whole replays only, and new passwords only a round later; deleted passwords are used for at most one saved round; a replay refuses nothing it had processed, unless its check is not there |
| `pcr_delayed` | the same checks, a request, 2 rounds, a crash | **violation**: a restart refuses a processed request for a delayed check, for good |
| `optional` | 3 teams, one box each, either mode, 2 rounds, 2 calls, any two of failed queries, records, charges and saves, resets and crashes | losses and thefts are what the rows of persists say; a call counts once; uptime charges agree with `slas` |
| `startup` | one check of each kind with every set of options and item; configurations at the edges of the times, names and addresses; 3 delayed boxes (two of one name, some not valid), 3 ticks, a reset, a restart, pauses, fair | see below |
| `injects_points` | 2 teams, 2 injects, 2 submissions, 2 handlers, a reset, a pause or a failed query | points settle on the team's own best grade, also after a query of theirs has failed; grades stand |
| `injects_times` | 3 restarts, 2 resets or pauses, 2 ticks, a failed query | the start of the event moves at most once after it was set, and is not later than the first record but in the three ways `astray` names |
| `injects_closes` | an inject of `injects.conf` | **violation**: it never takes a submission |
| `injects_best` | 2 injects, 1 graded submission | **violation**: it is paid for both |

What `startup` shows: `TimetableRefinement`, `DueHaveJoined` and `DelayedLeaves` say that
`addDelayedChecks`, which takes boxes out of the list it goes through, loses, doubles and skips none,
and none too early, whatever is due and valid, and that no box waits for ever.
`SecondCheckAgrees`: `Score` accepts what `main` has accepted and changes only the order of
the boxes. `DiesOnlyOf`: what can
end the process. `UpIsEarned` and `ServedIsUp` compare each kind of check with `Deserves`
and name every exception (`Unearned`, `Hopeless`; each of their disjuncts is needed in the run);
`OneVerdict` justifies `DoubleSenders`, a constant of `CheckRound`.

Why the bounds are enough. A late answer can be mistaken for one of another round as soon as there
are two rounds; teams share only `allTeamsWg` and the staging, so two show what they can do to each
other, and the theorems below hold for any number of teams, checks and rounds. The loop's flags
forget everything but the last reset and pause, so two resets (one at work while the flag of another
is cleared) and three rounds (one dropped, one cleared late, one after) exhaust what can be
remembered from a round to the next. An SLA counter wraps at 2, and three rounds pass the wrap on
both sides. One team is enough for `Ledger`: no row or total is shared between teams. Two requests
make one newer than the other, and two handlers make one lost update; users do not see each other,
so one is enough who is named in a file or is not. `Bounded` in `MCPcr` gives a second request to
short runs only, and `OneUpset` in `MCInjects` takes failed queries and resets one at a time, to
keep the runs short; the theorems have no such bounds. Three teams are what one box can be split
among with two offenders, and a failed record moves the rows of the others. Points settle in two
rounds, since a record is computed with the row before it, and a failed query is forgotten as fast.
In `injects_times` the start can move with each restart, so there are three, ticks to tell them
apart, and two resets, of which the second can put right what the first has left. One error shows
what one query can lose; two, in `Ledger` and `Optional`, what is lost twice or lost while the row
before is missing. A removal from a list moves one other box, so three boxes have one that moves,
one that is passed already and one that is still to come; a box due at once, one due later and a
clock that may go on in the middle of the loop give every order. Options and items are enumerated in
full, for one check at a time, since checks do not see each other. `MaxDuration`, `GoZero` and
`Epoch` only need the order real values have: any instant is further from year 0 than a duration can
say.

### Fairness

`CheckRound!Fairness`: the Go scheduler runs every goroutine that can go on,
the runtime fires every timer, a ready rendezvous happens. Services owe no
answer: `Answer` has no fairness, and neither has the start of another round.
`ScoreLoop!Fairness`: `sync.Mutex` is free of starvation (a waiter that has
waited for a millisecond is handed the lock), so the loop and the teams'
goroutines, which wait for it, are strongly fair; a handler that is at work goes
on (weakly fair). No request has to arrive, and a page need not be refreshed.
`Startup!FairSpec`: the goroutine of `Score` goes on, and a round ends (`RoundEnds`). Time
need not pass: `DelayedLeaves` speaks of boxes that are due.

## 4. What is proved

Every invariant and action property that a passing run checks is also a theorem
of TLAPS, for every value of the constants that satisfies the module's
assumption; only three liveness properties and the three violation runs stay with
TLC. These properties are seldom inductive as they stand. Each module of proofs has an `IInv`
whose parts are named, one lemma per part that says every step keeps it, and the
theorems as consequences.

### Assumptions

`ConstantsAssumption` of each module says that bounds are numbers and that the sets that are
counted or summed over are finite. What goes beyond that:

- `ScoreLoop`: there is a team.
- `Ledger`: `SlaThreshold` is at least 1, as `config.go:248-249` makes 6 of 0.
- `Injects`: `NoTeam`, for the zero that gorm finds in an empty record, is no team; IDs begin with 1
  (`dwayne.go:100`). An instant is further from year 0 than a duration can say.
- `Optional`: the IDs of teams are `1..N`, assigned in sequence (`dwayne.go:100-103`), and the bound
  of the clock is greater than `UptimeSLA`.
- `Startup`: `TrialsAssumption`, that a trial's files decode to a `Configuration` and a list of boxes, with
  no `CheckList` yet and sensible checks; any number, order and combination of them.
  `LabelsAssumption`, that a delayed box's first check has a display name of its own, by which
  `Standing` finds it again in `conf.boxes`; only `TimetableImplemented` uses it.

### A round (`CheckRoundProofs`)

- `NoResultIsLost`: once `done` is closed the team has one result of this
  round for every check. `select` picks at random among the ready cases
  (`score.go:87-112`), so this is what keeps it from dropping a result.
- `OnlyKnownLeaks`: a `check.Run` blocked on a send nobody will receive had
  been timed out, or sends twice.
- `Refinement`: `Spec => RoundSpec!Spec`, step by step.

`IInv` adds to the types what the goroutines know of each other: between rounds nobody is
at work (`IdleInv`); what is staged is what the teams that are done have received
(`StagedInv`); a RunCheck has a result exactly when it has left its select, that result is of
this round, and the team has it exactly when RunCheck is past its send (`ResultInv`); and the
wait group counts the RunChecks that are not done, which is why a closed `done` means that all
have sent (`WaitInv`). The leaks need one more conjunct, on the runs of this round
(`LeakInv`), proved relative to `IInv`.

### The loop and its handlers (`ScoreLoopProofs`)

- `ResetIsolatesAlways`, `SavedOrDroppedAlways`: `MutexInv` says who holds `teamMutex`, `ClockInv`
  that rows in the table are of earlier rounds than the one at work, and `HorizonInv` and
  `DropInv` that a round which a reset or pause has met keeps `resetIssued` set until it is
  dropped. That is why it does no harm that the flag is cleared without the lock after the
  sleep (`score.go:207`): no round is under way there.
- `WholeRoundsAlways`: `StagedInv`, staging holds one record for each team that is done;
  `UnsavedInv`, a record the loop has come to is in the table or was refused by the database, and
  none is both; and `WholeInv`, a round in the table has a row for each team that was not refused,
  unless it is torn or being saved.
- `RoundNumberAheadAlways`: `NumberInv`, numbers grow with time and every record of a round that will
  not be dropped bears the loop's number, as long as no flag was lost and the database has failed neither
  the DELETE of a reset nor the query of the start-up (`numberLost`).
- `CacheIsCurrentAlways`: `CacheInv`, an undisturbed view holds rows that are still what a
  query yields, and a stamp that equals the round number vouches for the cached rows.

### Records (`LedgerProofs`)

- `AdjustedOnceAlways`: while records are processed, an adjustment of a team that has its row is
  both in the row and still in the map (`AdjustInv`).
- `RecordMatchesSlaAlways`: a balance that every step keeps (`ChargeInv`): what is charged, in the
  newest row and the record at work, and what was shown but never charged (`uncharged`: a record
  that failed, was cut short or deleted) is what the `slas` rows show and what they show no more
  (`forgotten`: a row made anew after a failed query, or deleted).
- `SlaByRunsAlways`: the counter is the length of the present run of failures modulo
  `SlaThreshold`, and the violations are the lengths that are multiples of it, from the first
  result after the row was made, or made anew.
- `PointsAreHistoryAlways`: the record at work is the newest row plus the results it has gone through
  (`RecordInv`); `SetLemmas` takes sums apart one result at a time.

### Injects (`InjectsProofs`)

- `GradeStandsAlways`: with `GradeInv`, which follows the copy of a row that an invalidation holds.
- `PointsSettleAlways`: once no row changes and no query fails, what `calculateInjects` has added up
  and what is still to come of the injects left is what the team is due (`WorkInv`). That holds
  because the first row found is the team's best and the pinned query finds it again and again.
- `StartSettlesAlways`: only a start-up after the first record moves the start, to that record
  (`MovesInv`). `StartInv`: unless the start is astray, a round that began before it is dropped, a
  reset at work or done has left no record, and a start-up that has found no record is right.
  `astray` is set where this fails: when a start-up cannot read the first record (`score.go:31`),
  when a reset cannot delete it (`util.go:212`), and when a reset sets the start while a round of
  before is under way whose `resetIssued` the loop has cleared (`score.go:207`).

### Password change requests (`PcrProofs`)

- `PublishedIsReplayAlways`: while the rows are replayed the table in the making has, for each user,
  the newest processed row gone through (`ReplayInv`). A row that an invalidation or a grade has
  overwritten (`edited`) may count or not, since these handlers save what they have read whatever
  the replay does in between; so may one that a reset has deleted under the replay of the start-up
  (`undercut`), which holds no `teamMutex`.
- `DeletedUsedOnceAlways`: `DeletedInv`, nothing deleted is read by a replay that starts later.
- `NewPasswordWaitsAlways`: `WaitInv`, whatever a replay reads came in before the end of the
  round's checks or is known to be late.
- `ProcessedStaysAlways`: a processed request that no handler has overwritten has a file that can be
  read (`FileInv`), so the only reason a replay can have to refuse it is that its check is not in
  `dwConf.Box`. `UndelayedStaysProcessed` follows: that reason does not exist for a check that is
  not delayed. For one that is it does, as `pcr_delayed` shows (section 5).

### Persists and uptime (`OptionalProofs`)

- `PaidOnceAlways`, `NoHitForgottenAlways`: the calls in memory and the rows of persists that are not this
  round's are never more than the calls that came in (`PaidInv`); a call whose box is
  settled has its row of persists among those to be saved (`HitsInv`), unless the query of
  `calculatePersists` or the save of the victim's row has failed (`unsettled`).
- `UptimeMatchesSlaAlways`: the same balance as in `Ledger` (`ChargeInv`), where what is staged and
  not yet charged is in `slas` already.
- `PersistsExplainPointsAlways`: unless a pass was cut short, the slice that `calculatePersists`
  reads is the rows of this round in the order of the teams (`SliceInv`), so that taking rows by
  position finds the right ones and none is out of range; and what the rows of persists amount to,
  those to be saved included, is what each team's row has (`PointsInv`).

### From files to verdicts (`StartupProofs`)

- *The configuration.* Sorting by ranks loses and doubles nothing (`SortReorders`: ranks that differ are
  all the ranks there are). A box, a team and a configuration that are complete stay as they
  are (`CompleteTwice`, `CompleteTeamsTwice`, `SecondCheckKeeps`), whatever the order; hence
  `SecondCheckAgreesAlways`.
- *The verdicts.* Whatever is scored has passed `validateChecks`, be it of the file or a delayed box
  (`ConfInv`, through `CheckedAccepts` and `TakeAccepts`). That reduces `UpIsEarnedAlways`,
  `ServedIsUpAlways` and `OneVerdictAlways` to a case for each of the 16 kinds (`RunRightly`, with
  the exceptions all kinds share in `ExcusesAre`), with any options, any number of items and any
  service. `DiesOnlyOfAlways` needs the same and what `validateChecks` returns (`validateChecksIs`).
- *Delayed boxes.* `DueHaveJoinedAlways`: a box that was due and waits is at or below the index of the loop
  (`RoundInv`); moving the last box into a gap is harmless as the last one has been passed.
  `TimetableImplemented`: a step that takes a box out is a `Leave` of that box and of no
  other, since the boxes that wait are distinct and their labels not scored yet
  (`LabelInv`); every other step is a `Load`, `Elapse`, `Restart` or nothing to `Timetable`.

The attempt to prove `DiesOnlyOf` corrected it. It had blamed a panic on what
`validateChecks` says of the boxes in the order of the file, but they are sorted first: a box that is
refused may come before a malformed pattern in the file and after it in the order of addresses. The
property now asks for a box whose own validation panics, and the `startup` run has such a file.

### What stays with TLC

`RoundEnds`, `RoundDecided` and `DelayedLeaves` are liveness properties, which need fairness
and with it `ENABLED`, out of this prover's reach. `OpenUntilClosed`, `BestOfEachInject` and
`NewPasswordsStand` are violated, as their runs show.

## 5. What was found

With a run:

1. `injects_best`: `calculateInjects` (`score.go:299`) does not filter by
   inject, and the variable it reads into is declared outside the loop: the best
   graded submission of a team is paid for every inject. `PointsSettle` is what
   the code does achieve, and does so in spite of every overlap of handlers and
   rounds.
2. `injects_closes`: `submitInject` (`routes.go:574`) compares with
   `inject.Closes`, an offset from year 0, where `CloseTime()` is meant: an
   inject of `injects.conf` refuses every submission. (Injects that were posted with
   an absolute closing time work, and show a closing time far in the future.)
3. `pcr_delayed`: a restart replays all requests (`score.go:43`) before any delayed check is in
   `dwConf.Box`, refuses those for such checks as "check not found" (`db.go:182`) and
   saves that. The passwords from before are used again, for good, although the page says that new
   passwords "will overwrite previous passwords for a service" (`templates/pcr.html:29`).

Read in the code and modelled, without a run of their own:

- `viewStatus` and `viewScoreboard` fill the cache in unlocked steps and stamp it with a
  round number read afterwards (`routes.go:57-58`): rows from before a save or a
  reset, or of half a round, can count as current. `CacheIsCurrent` holds when no refresh
  overlaps one, and fails without that condition.
- An IMAP check without encryption, the default, is never up: its port is formatted as a
  string (`imap.go:31`). Nor is one with more than ten mailboxes (`imap.go:59`), a DNS
  check of anything but addresses (`dns.go:68`; `README.md` shows one of MX records), a
  ping with `count` above one (`ping.go:29`; also in `README.md`), LDAP without a domain
  of two parts (`ldap.go:40`), nor SSH with a pattern that is not its own match (`ssh.go:174`).
- A service that does all it is asked to is down as well if it does so at another time or in another
  way than the code expects: IRC on a configured port (`irc.go:31` always takes the default one), or
  speaking before the handler is registered, after another line, or after five seconds
  (`irc.go:31-74`); a command of SSH that takes longer than an eighth of the timeout (`ssh.go:156`);
  a NULL in a row of SQL (`sql.go:89`); a self-signed certificate of IMAP or LDAP; a page that is to
  answer with a redirect (`web.go:43`, whose client follows it). `Hopeless` has both lists, for
  `ServedIsUp`.
- Conversely, a service is up that has not done all: WinRM without commands, without contacting
  anybody (`winrm.go:48`); SSH with a plain command, whose output is not compared (`ssh.go:183`);
  SMTP before the mail is accepted; RDP before there is a session; web pages whatever their file or
  difference (`config.go:620-624` asks for them, `web.go` never compares) and without the login that
  `README.md:238-248` describes; SMB with a hash and a pattern, of which one is compared; SQL where
  a row only contains what is to exist; ping with a percentage above 100 without a reply
  (`ping.go:44`); and options that are not looked at at all, as SMB's domain. A check whose list of
  credentials is not configured logs in without name and password (`checks.go:32-34`) and is up
  where that is allowed. `Unearned` lists them, for `UpIsEarned`.
- An SQL check without a query, a database name used as a malformed pattern, a negative
  jitter and a delayed check with a malformed pattern pass, or escape, validation and
  end the process later (`DiesOnlyOf`).
- IMAP behind a login, IRC and WinRM send twice (`OneVerdict`), which leaves a goroutine
  behind each time (`OnlyKnownLeaks`).
- The map of box names is never filled (`config.go:262-267`), and teams are sorted by
  comparing each with itself (`config.go:287-289`): two boxes of a name, and two teams of a
  prefix that are not neighbours, are accepted. Delayed checks are sorted in the same
  way (`dwayne.go:329-331`); their order turns out not to matter.
- The default timeout is not compared with the delay: with all defaults it is 30 where
  less than 60 - 30 is asked for (`config.go:204-215`).
- In persist mode each offender is paid a share as `PointsStolen` and half a share more
  as `PersistPoints`, and the total adds both (`score.go:344-345`, `util.go:151`);
  `README.md:335` gives each party one share. Shares are rounded to the nearest,
  so three offenders on a box that earned 2 points are paid 3.
- `calculatePersists` takes rows by position. If a record of the round failed, another team's row
  can be charged, and in the first round an index can be out of range, which ends the process (the
  second part of `PersistsExplainPoints` says that it takes such a failure).
- A database error while an uptime violation is saved (`score.go:159`) ends
  `Score` with two locks held (`ChargeFails`).
- A request whose row is replayed between `db.Save` and the writing of its
  file is refused for good as empty (`routes.go:251-262`); the steps
  interleave in `Pcr`.
- "We want submitted PCRs to miss at least one check round" (`score.go:189`)
  is not so for a request that comes in after the checks of a round and before
  its end, nor at a start-up; `NewPasswordWaits` names both exceptions.
- Grading a submission that a reset has deleted inserts a row of team 0
  (`routes.go:673-684`), and a team without a record is scored as team 0: it is
  paid that grade in its first round. `PointsSettle` shows it is gone after two.
- An invalidation can undo a grade, and a grade an invalidation
  (`routes.go:623`, `689`); `GradeStands` names the one exception.
- The password change inject is stored with the time of the start-up instead of
  an offset (`dwayne.go:267`): its opening time saturates, 292 years from now.
- An error or crash between the `slas` row and the record charges a team too little for good. The
  other way round, any error of the query for an `slas` row is taken for there being none
  (`score.go:135-142`, `225-231`), and a new row is saved over the old one, whose key it has: what
  the team was charged with is shown no more, and its run of failures begins anew
  (`RecordMatchesSla`, `SlaByRuns`, `UptimeMatchesSla`).
- `calculatePersists` returns when its query fails and does not look at the error of its Save;
  `persistHits` is emptied after it all the same (`score.go:180`, `313-316`, `356`), and the calls
  are lost (`NoHitForgotten`).
- A query or save of `processNewRecord` that fails, or the Create, whose error is ignored
  (`score.go:282`), leaves a round without a row for that team only (`WholeRounds`).
- The server is up before `Score` is done with its start-up (`dwayne.go:339-343`), which holds no
  `teamMutex`: a reset can delete requests under the first replay, which publishes their passwords
  and saves rows back (`PublishedIsReplay`), and `Score` can set the start of the event back to a
  record that the reset has just deleted.
- A reset sets `resetIssued` first and the start of the event last, and the loop clears the flag without a
  lock: a round that begins in between can be saved, with a record older than the start (`StartSettles`).
- Grading a request for a password change makes it count as processed, with what its file says, and
  a grade or an invalidation that was read before a replay undoes what the replay has saved
  (`routes.go:607-623`, `666-696`).

## 6. Not modelled, and why

- *Concurrent map access:* pages range over `agentHits` and `persistHits` without a
  lock (`dwayne.go:184`, `routes.go:77`); Go aborts the process, which is a `Crash`.
- *Configuration:* values without a rule (titles, ports, the database's path, points), the
  decoding of the files, and lists of items longer than one in the instance.
- *Service checks:* the protocols themselves, and bad login attempts, which have no
  effect on the verdict. The buffers of an SSH session are read while its goroutine may still be writing them
  (`ssh.go:158`), a data race whose outcome is not modelled.
- *Login, sessions, charts, pages, export:* library code and read-only views.
- *Database errors:* `ScoreLoop` has those of a record, of a reset, of the start-up and of a page;
  `Ledger` those of `processNewRecord` and of a reset; `Optional` those of uptime, of a record and
  of `calculatePersists`; `Injects` those of the queries of the start-up, of scoring and of a reset.
  Left out are those of the replay, which returns with `ct.Mutex` locked (`db.go:158`), and of the
  handlers of injects and requests, which a failed query ends and in which a failed save changes
  nothing (`routes.go:608`, `624`). What a reset leaves whose DELETE fails is looked at in `ScoreLoop`,
  `Ledger` and `Injects`; in `Pcr` and `Optional` a reset deletes.
- *Persist points:* that `PersistPoints` are paid on top (`score.go:345`) is described above;
  `PersistsExplainPoints` compares what is lost and stolen.

## 7. Plan

Done, in this order: `RoundSpec`/`CheckRound` (the engine's core) with proofs;
`ScoreLoop`; `Ledger`; `Pcr`; `Injects`; `Optional`; `Config`, `Verdicts` and `Startup`
with `Timetable`.

The proofs followed: `CheckRound` and its refinement, then `ScoreLoop`, `Injects`, `Pcr`,
`Ledger`, `Optional` and `Startup` with the refinement of `Timetable`. All safety and action
properties of the runs are proved.

Left, by worth: errors of the database in the replay, which keep `ct.Mutex` (`db.go:158`); a
composition of `ScoreLoop` with an abstract table of records that `Ledger` and `Injects`
refine, so that their loop is tied to `ScoreLoop`'s; and action properties that follow from the
invariants above, such as that a round number, once saved, is given to no other round until a reset.
