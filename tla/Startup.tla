------------------------------ MODULE Startup ------------------------------
(***************************************************************************)
(* From the configuration files to verdicts: main reads and checks the     *)
(* configuration and loads the delayed checks (dwayne.go:66-73, 309-343),  *)
(* the Score loop checks it again, takes in the delayed checks that are    *)
(* due before each round (util.go:75-114), and runs the checks.            *)
(*                                                                         *)
(* One check of a round is run here, whichever; CheckRound has the         *)
(* goroutines of a whole round, ScoreLoop the steps of resets and pauses,  *)
(* which are atomic here.  Between two process lives only the database     *)
(* stays, here the time of its first record.                               *)
(***************************************************************************)
EXTENDS Config, Verdicts

CONSTANTS
    Trials,       \* what to start with, and how far to go (see MCStartup)
    MaxDelayed    \* bound on the number of delayed boxes

\* What the files can be decoded to: getBoxChecks has not run yet, and the clock has begun.
ASSUME TrialsAssumption ==
    /\ MaxDelayed \in Nat
    /\ \A t \in Trials :
          /\ t \in [conf : Configuration, delayed : Seq(ConfBox), horizon : Nat \ {0},
                    restarts : Nat, resets : Nat, pauses : BOOLEAN]
          /\ Len(t.delayed) <= MaxDelayed
          /\ \A b \in ToSet(t.conf.boxes) \cup ToSet(t.delayed) :
                b.list = <<>> /\ \A c \in ToSet(b.checks) : SensibleCheck(c)

\* A delayed box has a check, and the display name of its first one tells it from all others.
ASSUME LabelsAssumption ==
    \A t \in Trials : \A k \in DOMAIN t.delayed :
        /\ t.delayed[k].checks # <<>>
        /\ \A b \in ToSet(t.conf.boxes) : \A c \in ToSet(b.checks) :
              c.display # t.delayed[k].checks[1].display
        /\ \A j \in DOMAIN t.delayed : \A n \in DOMAIN t.delayed[j].checks :
              t.delayed[j].checks[n].display = t.delayed[k].checks[1].display =>
                  j = k /\ n = 1

VARIABLES
    trial,        \* [conf, delayed: the files; horizon, restarts, resets, pauses: bounds]
    spc,          \* where the process is; "dead" after a panic, "exited" after log.Fatal
    conf,         \* dwConf; conf.boxes is dwConf.Box
    delayed,      \* delayedChecks.Box
    idx,          \* the next index of the loop of addDelayedChecks
    running,      \* dwConf.Running
    clock,        \* time.Now()
    startTime,    \* the time delayed checks count from
    resetIssued,  \* the flag of resets and pauses
    roundTime,    \* when the round began
    firstRecord,  \* the time of the oldest TeamRecord, 0 if there is none
    last,         \* the check that was run in this round
    dueAtTop,     \* history: the delayed boxes that were due as addDelayedChecks began
    restarts,     \* bound
    resets        \* bound

vars == <<trial, spc, conf, delayed, idx, running, clock, startTime, resetIssued, roundTime,
          firstRecord, last, dueAtTop, restarts, resets>>

NotRun == [end |-> "none"]

Boxes == conf.boxes

\* A box whose checks are to be added later, as an offset from the start of the event.
NoTime == -1
InjectTime(b) == startTime + b.time
Due(b) == clock > InjectTime(b)

\* The boxes of the file that are in delayedChecks.Box.
Waiting == {k \in DOMAIN trial.delayed : trial.delayed[k] \in ToSet(delayed)}

\* Where the checks of the boxes stand.
Places(bs) == UNION {{n} \X DOMAIN bs[n].list : n \in DOMAIN bs}

TypeOK ==
    /\ spc \in {"main", "load", "score", "top", "adding", "checks", "ran", "sleep", "exited",
                "dead"}
    /\ \A k \in DOMAIN delayed : \E j \in DOMAIN trial.delayed : delayed[k] = trial.delayed[j]
    /\ idx \in 0..Len(trial.delayed)
    /\ clock \in 1..trial.horizon
    /\ {startTime, roundTime, firstRecord} \subseteq 0..clock
    /\ {running, resetIssued} \subseteq BOOLEAN
    /\ last.end \in {"none", "return", "hang", "panic"}
    /\ dueAtTop \subseteq DOMAIN trial.delayed
    /\ restarts \in 0..trial.restarts /\ resets \in 0..trial.resets

-----------------------------------------------------------------------------

Init ==
    /\ trial \in Trials
    /\ spc = "main"
    /\ conf = trial.conf
    /\ delayed = <<>> /\ idx = 0 /\ dueAtTop = {}
    /\ running = FALSE /\ resetIssued = FALSE
    /\ clock = 1 /\ firstRecord = 0 /\ startTime = 0 /\ roundTime = 0
    /\ last = NotRun
    /\ restarts = 0 /\ resets = 0

\* What a verdict of checkConfig leads to.
Onward(verdict, next) ==
    CASE verdict = "ok" -> next [] verdict = "error" -> "exited" [] verdict = "panic" -> "dead"

\* readConfig and checkConfig, main's call
MainCheck ==
    /\ spc = "main"
    /\ \E r \in {checkConfig(conf)} :
          /\ conf' = r.conf
          /\ spc' = Onward(r.verdict, "load")
    /\ UNCHANGED <<trial, delayed, idx, running, clock, startTime, resetIssued, roundTime,
                   firstRecord, last, dueAtTop, restarts, resets>>

\* The sort compares each box with itself: the boxes stay in the order of the file.  Scoring
\* begins at once unless StartPaused is set.
LoadDelayed ==
    /\ spc = "load"
    /\ IF \E k \in DOMAIN trial.delayed : trial.delayed[k].time = NoTime
       THEN /\ spc' = "exited"
            /\ UNCHANGED <<delayed, running>>
       ELSE /\ spc' = "score"
            /\ delayed' = trial.delayed
            /\ running' \in IF trial.pauses THEN BOOLEAN ELSE {TRUE}
    /\ UNCHANGED <<trial, conf, idx, clock, startTime, resetIssued, roundTime, firstRecord,
                   last, dueAtTop, restarts, resets>>

\* Score until its loop
ScoreCheck ==
    /\ spc = "score"
    /\ \E r \in {checkConfig(conf)} :
          /\ conf' = r.conf
          /\ spc' = Onward(r.verdict, "top")
          /\ startTime' = IF r.verdict # "ok" THEN startTime
                          ELSE IF firstRecord # 0 THEN firstRecord ELSE clock
    /\ UNCHANGED <<trial, delayed, idx, running, clock, resetIssued, roundTime, firstRecord,
                   last, dueAtTop, restarts, resets>>

\* Mutant: the loop begins one too low.
LastIndexShort == IF delayed = <<>> THEN 0 ELSE Len(delayed) - 1

LastIndex == Len(delayed)

\* The head of the loop: the round is skipped if scoring is paused.
LoopTop ==
    /\ spc = "top"
    /\ spc' = IF running THEN "adding" ELSE "sleep"
    /\ idx' = IF running THEN LastIndex ELSE 0
    /\ dueAtTop' = IF running THEN {k \in Waiting : Due(trial.delayed[k])} ELSE {}
    /\ UNCHANGED <<trial, conf, delayed, running, clock, startTime, resetIssued, roundTime,
                   firstRecord, last, restarts, resets>>

\* Mutant: the last box is dropped, whichever is to leave.
WithoutLast(i) == SubSeq(delayed, 1, Len(delayed) - 1)

\* The last box takes the place of the one that leaves.
Without(i) == SubSeq([delayed EXCEPT ![i] = delayed[Len(delayed)]], 1, Len(delayed) - 1)

\* The checks of a box are appended to those of the last box of this name, if there is one.
Take(b) ==
    LET named == {j \in DOMAIN Boxes : Boxes[j].name = b.name}
    IN  IF named = {} THEN Append(Boxes, b)
        ELSE [Boxes EXCEPT ![Max(named)].list = @ \o b.list]

\* Mutant: a box that is not valid ends the loop.
AfterBreak(i, verdict) == IF verdict = "error" THEN 0 ELSE i - 1

\* Mutant: the loop counts up.
AfterUp(i, verdict) == i + 1

\* The boxes are gone through from the last to the first.
After(i, verdict) == i - 1

\* addDelayedChecks looks at a box.
AddStep ==
    /\ spc = "adding"
    /\ idx > 0
    /\ IF ~Due(delayed[idx])
       THEN /\ idx' = After(idx, "ok")
            /\ UNCHANGED <<delayed, conf, spc>>
       ELSE \E verdict \in {validateChecks(<<delayed[idx]>>)} :
                /\ delayed' = Without(idx)
                /\ idx' = After(idx, verdict)
                /\ spc' = IF verdict = "panic" THEN "dead" ELSE spc
                /\ conf' = IF verdict # "ok" THEN conf
                           ELSE [conf EXCEPT !.boxes = Take(CompleteBox(delayed[idx]))]
    /\ UNCHANGED <<trial, running, clock, startTime, resetIssued, roundTime, firstRecord,
                   last, dueAtTop, restarts, resets>>

BeginRound ==
    /\ spc = "adding"
    /\ idx = 0
    /\ spc' = "checks"
    /\ roundTime' = clock
    /\ UNCHANGED <<trial, conf, delayed, idx, running, clock, startTime, resetIssued,
                   firstRecord, last, dueAtTop, restarts, resets>>

\* A check of the round picks an item and meets a service.
RunCheck ==
    /\ spc = "checks"
    /\ \E c \in {Boxes[p[1]].list[p[2]] : p \in Places(Boxes)} :
          \E i \in Picks(c) : \E s \in Services(c, i) : \E r \in {Run(c, i, s)} :
             /\ last' = [check |-> c, item |-> i, service |-> s,
                         sends |-> r.sends, end |-> r.end]
             /\ spc' = IF r.end = "panic" THEN "dead" ELSE "ran"
    /\ UNCHANGED <<trial, conf, delayed, idx, running, clock, startTime, resetIssued,
                   roundTime, firstRecord, dueAtTop, restarts, resets>>

\* A round ends once every check has.  Whether it is saved is up to resets and pauses.
EndRound ==
    /\ \/ spc = "checks" /\ Places(Boxes) = {}
       \/ spc = "ran"
    /\ spc' = "sleep"
    /\ firstRecord' = IF firstRecord = 0 /\ ~resetIssued THEN roundTime ELSE firstRecord
    /\ resetIssued' = FALSE
    /\ last' = NotRun /\ roundTime' = 0 /\ dueAtTop' = {}
    /\ UNCHANGED <<trial, conf, delayed, idx, running, clock, startTime, restarts, resets>>

\* The jitter is drawn from 0..Jitter, which rand.Intn does not do for a negative one; then
\* the loop sleeps, and forgets what was issued meanwhile.
Wake ==
    /\ spc = "sleep"
    /\ IF conf.jitter < 0
       THEN spc' = "dead" /\ UNCHANGED resetIssued
       ELSE spc' = "top" /\ resetIssued' = FALSE
    /\ UNCHANGED <<trial, conf, delayed, idx, running, clock, startTime, roundTime,
                   firstRecord, last, dueAtTop, restarts, resets>>

-----------------------------------------------------------------------------

Alive == spc \notin {"exited", "dead"}

\* The pages are served while Score runs.
Serving == Alive /\ spc \notin {"main", "load"}

Reset ==
    /\ Serving
    /\ resets < trial.resets
    /\ resets' = resets + 1
    /\ resetIssued' = TRUE
    /\ firstRecord' = 0
    /\ startTime' = clock
    /\ UNCHANGED <<trial, spc, conf, delayed, idx, running, clock, roundTime, last, dueAtTop,
                   restarts>>

Pause ==
    /\ Serving /\ trial.pauses
    /\ running' = FALSE
    /\ resetIssued' = TRUE
    /\ UNCHANGED <<trial, spc, conf, delayed, idx, clock, startTime, roundTime, firstRecord,
                   last, dueAtTop, restarts, resets>>

Resume ==
    /\ Serving /\ ~running
    /\ running' = TRUE
    /\ UNCHANGED <<trial, spc, conf, delayed, idx, clock, startTime, resetIssued, roundTime,
                   firstRecord, last, dueAtTop, restarts, resets>>

Tick ==
    /\ Alive
    /\ clock < trial.horizon
    /\ clock' = clock + 1
    /\ UNCHANGED <<trial, spc, conf, delayed, idx, running, startTime, resetIssued, roundTime,
                   firstRecord, last, dueAtTop, restarts, resets>>

\* The process ends, or has ended, and is started again with the same files.
Restart ==
    /\ restarts < trial.restarts
    /\ restarts' = restarts + 1
    /\ spc' = "main"
    /\ conf' = trial.conf
    /\ delayed' = <<>> /\ idx' = 0 /\ dueAtTop' = {}
    /\ running' = FALSE /\ resetIssued' = FALSE
    /\ startTime' = 0 /\ roundTime' = 0
    /\ last' = NotRun
    /\ UNCHANGED <<trial, clock, firstRecord, resets>>

LoopStep == LoopTop \/ AddStep \/ BeginRound \/ RunCheck \/ EndRound \/ Wake

Next == MainCheck \/ LoadDelayed \/ ScoreCheck \/ LoopStep \/ Tick \/ Reset \/ Pause \/ Resume \/ Restart

Spec == Init /\ [][Next]_vars

\* The goroutine of Score is scheduled, and the checks of a round come to an end, as
\* CheckRound shows.
FairSpec == Spec /\ WF_vars(LoopStep)

-----------------------------------------------------------------------------
(* Delayed checks *)

\* How often a delayed box waits, and how often its first check, which has a display name
\* of its own, is scored.
Standing(k) ==
    IF k \notin DOMAIN trial.delayed THEN [waiting |-> 0, scored |-> 0]
    ELSE [waiting |-> Cardinality({j \in DOMAIN delayed : delayed[j] = trial.delayed[k]}),
          scored |-> Cardinality({p \in Places(Boxes) : Boxes[p[1]].list[p[2]].display =
                                                        trial.delayed[k].checks[1].display})]

Valid(b) == b.ip # NoName /\ \A k \in DOMAIN b.checks : CheckVerdict(b.checks[k]) = "ok"

Ids == 1..MaxDelayed

Plan == INSTANCE Timetable WITH
    Ids <- Ids,
    loaded <- spc \notin {"main", "load"},
    place <- [k \in Ids |-> Standing(k)],
    due <- {k \in Ids \cap DOMAIN trial.delayed : Due(trial.delayed[k])},
    valid <- {k \in Ids \cap DOMAIN trial.delayed : Valid(trial.delayed[k])}

\* Taking boxes out of the list while going through it (util.go:76-84), against the clock,
\* resets and restarts, implements Timetable: no box is lost, scored twice or too early.
TimetableRefinement == Plan!Spec

\* A box that is due as a round begins is scored or refused in this very round, wherever it
\* stands in the list and whatever comes of the boxes before it (util.go:77-110), unless a
\* reset moves its time (util.go:221).  The flag of resets is that of pauses, too: rounds that
\* are to be dropped are left out.
DueHaveJoined ==
    spc \in {"checks", "ran"} /\ ~resetIssued => dueAtTop \cap Waiting = {}

\* A box that is due does not wait for ever while scoring runs (score.go:47-50), whatever
\* rounds, resets and restarts there are.
DelayedLeaves ==
    \A k \in Ids :
        (spc = "top" /\ k \in Waiting /\ Due(trial.delayed[k]))
            ~> (k \in Waiting /\ Due(trial.delayed[k]) => ~running \/ ~Alive)

-----------------------------------------------------------------------------
(* The configuration *)

\* Score's check of the configuration (score.go:15-18) accepts what main's check has made of
\* it, and changes nothing but the order of the boxes.
SecondCheckAgrees ==
    spc = "score" =>
        LET r == checkConfig(conf)
        IN  /\ r.verdict = "ok"
            /\ [r.conf EXCEPT !.boxes = <<>>] = [conf EXCEPT !.boxes = <<>>]
            /\ ToSet(r.conf.boxes) = ToSet(conf.boxes)

\* The checks that end the process: SQL without a query or with a database's name for a
\* pattern (sql.go:34, 99), and WinRM without a client (winrm.go:53).
Fatal(c, i, s) ==
    \/ c.kind = "sql" /\ (i = NoItem \/ {"exists", "regex", "malformed"} \subseteq i)
    \/ c.kind = "winrm" /\ s.at = "create"

\* Of the configuration and the checks, the process ends by itself only of a pattern of its
\* configuration (config.go:538) or of a delayed check (util.go:87), a jitter below zero
\* (score.go:200), or a check as above: no other configuration that was accepted and no
\* answer of a service stops the scoring.
\* (What ends it elsewhere is not looked at here: Optional has calculatePersists.)
DiesOnlyOf ==
    spc = "dead" =>
        \/ conf.jitter < 0
        \/ \E b \in ToSet(trial.conf.boxes) \cup ToSet(trial.delayed) :
              BoxVerdict(b) = "panic"
        \/ last.end = "panic" /\ Fatal(last.check, last.item, last.service)

-----------------------------------------------------------------------------
(* Verdicts *)

Ran == last.end # "none"
FirstIs(v) == last.sends # <<>> /\ Head(last.sends) = v

\* What a service is up for without having done it: mail may be refused after the verdict
\* (smtp.go:116-131); WinRM without commands contacts nobody (winrm.go:48), and RDP asks for
\* no more than a connection (rdp.go); the output that a plain command of SSH should have is
\* not looked at (ssh.go:182-190), nor are the files of web pages, their users (web.go:43-96)
\* or the hash of a file of SMB with a pattern (smb.go:111-134); a database's name may be part
\* of another's (sql.go:106); a loss of more than all packets is never reached (ping.go:44);
\* who is let in without a name was not asked (checks.go:32); and options are ignored.
Unearned(c, i, s) ==
    \/ c.kind = "smtp" /\ s.at = "accept"
    \/ c.kind = "winrm" /\ i = NoItem
    \/ c.kind = "rdp" /\ s.at = "session"
    \/ c.kind = "ssh" /\ {"regex", "contains"} \cap i = {} /\ s.at = "end"
    \/ c.kind = "web" /\ {"diff", "file"} \cap i # {} /\ s.at = "end"
    \/ c.kind = "web" /\ s.at = "login"
    \/ c.kind = "smb" /\ {"hash", "regex"} \subseteq i /\ s.at = "end"
    \/ c.kind = "sql" /\ "exists" \in i /\ s.shows = "containing"
    \/ c.kind = "ping" /\ "over" \in c.opts /\ s.at = "reply"
    \/ ~HasCreds(c) /\ s.open /\ s.at = "login"
    \/ s.how = "otherwise"

\* A service is up only if it did all that is asked of it, or as above.
UpIsEarned ==
    Ran /\ FirstIs("up") =>
        \/ Deserves(last.check, last.item, last.service)
        \/ Unearned(last.check, last.item, last.service)

\* What no service can do anything about: a pattern, a key, a list of credentials or a
\* database driver that cannot be used, and the fatal checks (see DiesOnlyOf); IMAP without
\* encryption (imap.go:31) or with more mailboxes than it has room for (imap.go:59-60),
\* LDAP without a domain (ldap.go:39-45), records other than addresses, or no answer to
\* compare (dns.go:64-77), more than one packet of ping or the loss of none (ping.go:29,
\* 43-58), and an SSH pattern that its own match must equal (ssh.go:165-181).
\* What a service is right to do and is not seen: it heeds an option that is ignored
\* (irc.go:31, smb.go:41-57, smtp.go:37, sql.go:31, vnc.go:17); on IRC it speaks before the
\* handler is there (irc.go:31-42), says another line first, or waits five seconds
\* (irc.go:58-74), as with ping (ping.go:30); a command of SSH takes longer than an eighth of
\* the timeout (ssh.go:156); a row is NULL (sql.go:89); its certificate is its own
\* (imap.go:29, ldap.go:25); or the status it is to give sends the client elsewhere
\* (web.go:43).
Hopeless(c, i, s) ==
    \/ "malformed" \in i \/ "badkey" \in c.opts
    \/ ~HasCreds(c) /\ ~s.open
    \/ Fatal(c, i, s)
    \/ c.kind = "sql" /\ "driver" \notin c.opts
    \/ c.kind = "imap" /\ ("encrypted" \notin c.opts \/ s.shows = "many")
    \/ c.kind = "ldap" /\ "domain" \notin c.opts
    \/ c.kind = "dns" /\ ~({"A", "answer"} \subseteq i)
    \/ c.kind = "ping" /\ IF "lossy" \in c.opts THEN "percent" \notin c.opts
                          ELSE "count" \in c.opts
    \/ c.kind = "ssh" /\ "regex" \in i /\ ~Equals(s)
    \/ s.how \in {"strictly", "early", "late", "preceded", "null", "selfsigned", "redirects"}

\* A service that does all that is asked of it is up, unless that is hopeless.
ServedIsUp ==
    Ran /\ Deserves(last.check, last.item, last.service) =>
        FirstIs("up") \/ Hopeless(last.check, last.item, last.service)

\* A check sends one verdict, or none if it hangs or panics.  The checks that say more, to
\* a RunCheck that listens once, are those CheckRound has as DoubleSenders: IMAP behind a
\* login (imap.go:68-76), IRC that gets another answer (irc.go:59-74), and WinRM without a
\* client (winrm.go:38-43), which panics if it has a command to run.
OneVerdict ==
    Ran =>
        \/ Len(last.sends) = IF last.end = "return" THEN 1 ELSE 0
        \/ last.check.kind = "imap" /\ ~Anonymous(last.check) /\ last.service.at \in {"login", "end"}
        \/ last.check.kind = "irc" /\ last.service.at = "end"
        \/ last.check.kind = "winrm" /\ last.service.at = "create"
=============================================================================
