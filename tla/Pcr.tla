-------------------------------- MODULE Pcr --------------------------------
(***************************************************************************)
(* Password change requests: the rows submitPCR puts into the table of     *)
(* inject submissions and the files beside them (routes.go:225-264), and   *)
(* constructPCRState (db.go:146-286), which replays all of them into the   *)
(* credential table the checks log in with.  The Score loop calls it at    *)
(* start-up, before delayed checks are added, and at the end of every      *)
(* round that is saved, before it sleeps (score.go:41-51, 187-192).        *)
(* invalidateInject (routes.go:594-628) and submitInjectGrade              *)
(* (routes.go:666-696) read and save the same rows without a lock.         *)
(*                                                                         *)
(* A password is represented by the submission that set it; 0 stands for   *)
(* the default password.  A target is a team and a check of its boxes.     *)
(***************************************************************************)
EXTENDS Naturals, FiniteSets, FiniteSetsExt, Functions

CONSTANTS
    Targets,        \* (team, check) pairs
    Delayed,        \* those whose check comes from delayed-checks.conf
    Users,          \* the usernames of dwConf.Creds
    MaxSubmissions, MaxRounds, MaxEdits, MaxResets, MaxCrashes   \* bounds

ASSUME ConstantsAssumption ==
    /\ Delayed \subseteq Targets
    /\ {MaxSubmissions, MaxRounds, MaxEdits, MaxResets, MaxCrashes} \subseteq Nat

Ids == 1..MaxSubmissions     \* ids are given out in the order of db.Save

VARIABLES
    rows,      \* inject_submissions with inject_id = 1
    disk,      \* the file of each row: "none", "empty" (created) or "full"
    content,   \* what the request wants written into the file
    saved,     \* the number of rows ever inserted
    spc,       \* where the submitPCR request of each row is
    ipc, icopy, \* where the invalidateInject request is, and the row it has read
    gpc, gcopy, \* the same for submitInjectGrade
    lpc,       \* the Score loop: "boot", "top", "checks", "decide", "sleep", or "replay"
    after,     \* where it goes on after constructPCRState
    known,     \* the targets whose check is in dwConf.Box
    todo, snap, building,  \* constructPCRState: rows left, rows as read, ct.Creds
    creds,     \* checks.Creds
    resetIssued,
    rounds, edits, resets, crashes,
    finished,  \* history: rounds whose checks have ended since the process was started first
    sentAt,    \* history: `finished` when a row was saved
    edited,    \* history: rows an invalidation or a grade has overwritten
    deleted,   \* history: rows deleted by a reset
    stale,     \* history: rounds saved since the last reset with deleted rows' passwords
    undercut,  \* history: rows deleted under the replay of the last start-up
    atBoot,    \* history: the rows that the replay of the last start-up read
    late       \* history: rows saved after the checks of a round and before it was saved

table == <<rows, disk, content, saved>>
requests == <<spc, ipc, icopy, gpc, gcopy>>
replay == <<todo, snap, building>>
bounds == <<rounds, edits, resets, crashes>>
history == <<finished, sentAt, edited, deleted, stale, undercut, atBoot, late>>
vars == <<table, requests, lpc, after, known, replay, creds, resetIssued, bounds, history>>

\* What a file says: an unreadable line, or passwords for some of the users (none, if all
\* the names in it are unknown; "all" names every user).
Content == [ok : BOOLEAN, users : SUBSET Users]

AnyTarget == CHOOSE k \in Targets : TRUE    \* of a row that is not there

Row == [present : BOOLEAN, invalid : BOOLEAN, graded : BOOLEAN, target : Targets \cup {AnyTarget},
        feedback : {"none", "check_not_found", "input_empty", "invalid_format", "remark"}]

Creds == [Targets -> [Users -> 0..MaxSubmissions]]
DefaultCreds == [k \in Targets |-> [u \in Users |-> 0]]
NoRow == [present |-> FALSE, invalid |-> FALSE, graded |-> FALSE,
          target |-> AnyTarget, feedback |-> "none"]

TypeOK ==
    /\ rows \in [Ids -> Row]
    /\ disk \in [Ids -> {"none", "empty", "full"}]
    /\ content \in [Ids -> Content]
    /\ saved \in 0..MaxSubmissions
    /\ spc \in [Ids -> {"none", "create", "write", "done"}]
    /\ {ipc, gpc} \subseteq 0..MaxSubmissions
    /\ {icopy, gcopy} \subseteq Row
    /\ lpc \in {"boot", "top", "checks", "decide", "sleep", "replay"}
    /\ after \in {"top", "sleep"}
    /\ known \subseteq Targets
    /\ todo \subseteq Ids
    /\ snap \in [Ids -> Row]
    /\ building \in Creds /\ creds \in Creds
    /\ resetIssued \in BOOLEAN
    /\ sentAt \in [Ids -> Nat]
    /\ edited \subseteq Ids /\ deleted \subseteq Ids /\ atBoot \subseteq Ids
    /\ late \subseteq Ids /\ undercut \subseteq Ids
    /\ {finished, stale, rounds, edits, resets, crashes} \subseteq Nat

Init ==
    /\ rows = [i \in Ids |-> NoRow]
    /\ disk = [i \in Ids |-> "none"]
    /\ content = [i \in Ids |-> [ok |-> FALSE, users |-> {}]]
    /\ saved = 0
    /\ spc = [i \in Ids |-> "none"]
    /\ ipc = 0 /\ icopy = NoRow /\ gpc = 0 /\ gcopy = NoRow
    /\ lpc = "boot" /\ after = "top"
    /\ known = Targets \ Delayed
    /\ todo = {} /\ snap = [i \in Ids |-> NoRow] /\ building = DefaultCreds
    /\ creds = DefaultCreds
    /\ resetIssued = FALSE
    /\ rounds = 0 /\ edits = 0 /\ resets = 0 /\ crashes = 0
    /\ finished = 0 /\ stale = 0
    /\ sentAt = [i \in Ids |-> 0]
    /\ edited = {} /\ deleted = {} /\ atBoot = {} /\ late = {}
    /\ undercut = {}

-----------------------------------------------------------------------------
(* submitPCR: the row is saved before the file exists *)

\* The page offers the checks that are in dwConf.Box.
SaveRow ==
    /\ saved < MaxSubmissions
    /\ \E k \in known, m \in Content :
          /\ m.ok \/ m.users = {}
          /\ rows' = [rows EXCEPT ![saved + 1] =
                        [NoRow EXCEPT !.present = TRUE, !.target = k]]
          /\ content' = [content EXCEPT ![saved + 1] = m]
    /\ saved' = saved + 1
    /\ spc' = [spc EXCEPT ![saved + 1] = "create"]
    /\ sentAt' = [sentAt EXCEPT ![saved + 1] = finished]
    /\ late' = IF lpc = "decide" THEN late \cup {saved + 1} ELSE late
    /\ UNCHANGED <<disk, ipc, icopy, gpc, gcopy, lpc, after, known, replay, creds, resetIssued,
                   bounds, finished, edited, deleted, stale, undercut, atBoot>>

CreateFile(i) ==
    /\ spc[i] = "create"
    /\ disk' = [disk EXCEPT ![i] = "empty"]
    /\ spc' = [spc EXCEPT ![i] = "write"]
    /\ UNCHANGED <<rows, content, saved, ipc, icopy, gpc, gcopy, lpc, after, known, replay, creds,
                   resetIssued, bounds, history>>

WriteFile(i) ==
    /\ spc[i] = "write"
    /\ disk' = [disk EXCEPT ![i] = "full"]
    /\ spc' = [spc EXCEPT ![i] = "done"]
    /\ UNCHANGED <<rows, content, saved, ipc, icopy, gpc, gcopy, lpc, after, known, replay, creds,
                   resetIssued, bounds, history>>

-----------------------------------------------------------------------------
(* invalidateInject and submitInjectGrade: the row is read, changed and saved as a whole *)

InvalidateRead(i) ==
    /\ ipc = 0
    /\ edits < MaxEdits
    /\ rows[i].present
    /\ ipc' = i
    /\ icopy' = rows[i]
    /\ edits' = edits + 1
    /\ UNCHANGED <<table, spc, gpc, gcopy, lpc, after, known, replay, creds, resetIssued, rounds,
                   resets, crashes, history>>

\* Mutant: the invalidation leaves a remark of its own.
InvalidateRemark ==
    /\ ipc # 0
    /\ rows' = [rows EXCEPT ![ipc] = [icopy EXCEPT !.invalid = TRUE, !.feedback = "invalidated"]]
    /\ edited' = edited \cup {ipc}
    /\ deleted' = deleted \ {ipc}
    /\ ipc' = 0
    /\ icopy' = NoRow
    /\ UNCHANGED <<disk, content, saved, spc, gpc, gcopy, lpc, after, known, replay, creds,
                   resetIssued, bounds, finished, sentAt, stale, undercut, atBoot, late>>

\* db.Save inserts the row again if it has been deleted.
InvalidateSave ==
    /\ ipc # 0
    /\ rows' = [rows EXCEPT ![ipc] = [icopy EXCEPT !.invalid = TRUE]]
    /\ edited' = edited \cup {ipc}
    /\ deleted' = deleted \ {ipc}
    /\ ipc' = 0
    /\ icopy' = NoRow
    /\ UNCHANGED <<disk, content, saved, spc, gpc, gcopy, lpc, after, known, replay, creds,
                   resetIssued, bounds, finished, sentAt, stale, undercut, atBoot, late>>

\* db.Find by the id alone: any submission can be graded, those of the password inject too.
GradeRead(i) ==
    /\ gpc = 0
    /\ edits < MaxEdits
    /\ rows[i].present
    /\ gpc' = i
    /\ gcopy' = rows[i]
    /\ edits' = edits + 1
    /\ UNCHANGED <<table, spc, ipc, icopy, lpc, after, known, replay, creds, resetIssued, rounds,
                   resets, crashes, history>>

\* The remark of the form, or none, replaces what constructPCRState has said.  (For an id that
\* is not there a new row is inserted, of inject 0, which constructPCRState does not read.)
GradeSave ==
    /\ gpc # 0
    /\ \E remark \in {"none", "remark"} :
          rows' = [rows EXCEPT ![gpc] = [gcopy EXCEPT !.graded = TRUE, !.feedback = remark]]
    /\ edited' = edited \cup {gpc}
    /\ deleted' = deleted \ {gpc}
    /\ gpc' = 0
    /\ gcopy' = NoRow
    /\ UNCHANGED <<disk, content, saved, spc, ipc, icopy, lpc, after, known, replay, creds,
                   resetIssued, bounds, finished, sentAt, stale, undercut, atBoot, late>>

-----------------------------------------------------------------------------
(* constructPCRState *)

\* Mutant: the rows are replayed onto the table in use.
StartReplayOnto(next) ==
    /\ lpc' = "replay"
    /\ after' = next
    /\ building' = creds
    /\ undercut' = {}
    /\ snap' = rows
    /\ todo' = {i \in Ids : rows[i].present}

\* The rows are read; ct.Creds is a new, empty table.
StartReplay(next) ==
    /\ lpc' = "replay"
    /\ after' = next
    /\ building' = DefaultCreds
    /\ undercut' = {}
    /\ snap' = rows
    /\ todo' = {i \in Ids : rows[i].present}

\* A row that needs no work: refused before, or invalidated before it was processed.
Ignored(r) == r.feedback # "none" \/ (r.invalid /\ ~r.graded)

\* The reason to refuse a row for good, "none" if there is none: its check is not in
\* dwConf.Box, its file is missing or empty, a line in it cannot be read.
Refusal(i) ==
    CASE snap[i].target \notin known -> "check_not_found"
      [] disk[i] # "full"            -> "input_empty"
      [] ~content[i].ok              -> "invalid_format"
      [] OTHER                       -> "none"

SkipRow ==
    /\ lpc = "replay" /\ todo # {}
    /\ Ignored(snap[Min(todo)])
    /\ todo' = todo \ {Min(todo)}
    /\ UNCHANGED <<table, requests, lpc, after, known, snap, building, creds, resetIssued,
                   bounds, history>>

\* The row that was read is saved with the reason, over whatever is there by now.
RefuseRow ==
    /\ lpc = "replay" /\ todo # {}
    /\ LET i == Min(todo)
       IN  /\ ~Ignored(snap[i])
           /\ Refusal(i) # "none"
           /\ rows' = [rows EXCEPT ![i] =
                         [snap[i] EXCEPT !.invalid = TRUE, !.feedback = Refusal(i)]]
           /\ deleted' = deleted \ {i}
    /\ todo' = todo \ {Min(todo)}
    /\ UNCHANGED <<disk, content, saved, requests, lpc, after, known, snap, building, creds,
                   resetIssued, bounds, finished, sentAt, edited, stale, undercut, atBoot, late>>

\* Mutant: an empty file does not keep the row from being marked as processed.
AcceptUnread ==
    /\ lpc = "replay" /\ todo # {}
    /\ LET i == Min(todo)
           k == snap[i].target
       IN  /\ ~Ignored(snap[i])
           /\ Refusal(i) \in {"none", "input_empty"}
           /\ IF snap[i].graded
              THEN UNCHANGED <<rows, deleted>>
              ELSE /\ rows' = [rows EXCEPT ![i] =
                                 [snap[i] EXCEPT !.invalid = TRUE, !.graded = TRUE]]
                   /\ deleted' = deleted \ {i}
           /\ building' = [building EXCEPT ![k] =
                             [u \in Users |-> IF u \in content[i].users THEN i ELSE @[u]]]
    /\ todo' = todo \ {Min(todo)}
    /\ UNCHANGED <<disk, content, saved, requests, lpc, after, known, snap, creds, resetIssued,
                   bounds, finished, sentAt, edited, stale, undercut, atBoot, late>>

\* The row is marked as processed the first time, and its passwords enter the table.
AcceptRow ==
    /\ lpc = "replay" /\ todo # {}
    /\ LET i == Min(todo)
           k == snap[i].target
       IN  /\ ~Ignored(snap[i])
           /\ Refusal(i) = "none"
           /\ IF snap[i].graded
              THEN UNCHANGED <<rows, deleted>>
              ELSE /\ rows' = [rows EXCEPT ![i] =
                                 [snap[i] EXCEPT !.invalid = TRUE, !.graded = TRUE]]
                   /\ deleted' = deleted \ {i}
           /\ building' = [building EXCEPT ![k] =
                             [u \in Users |-> IF u \in content[i].users THEN i ELSE @[u]]]
    /\ todo' = todo \ {Min(todo)}
    /\ UNCHANGED <<disk, content, saved, requests, lpc, after, known, snap, creds, resetIssued,
                   bounds, finished, sentAt, edited, stale, undercut, atBoot, late>>

\* Mutant: the table is handed out before it is complete.
PublishEarly ==
    /\ lpc = "replay"
    /\ creds' = building
    /\ lpc' = IF todo = {} THEN after ELSE "replay"
    /\ UNCHANGED <<table, requests, after, known, replay, resetIssued, bounds, history>>

\* checks.Creds = ct.Creds
Publish ==
    /\ lpc = "replay" /\ todo = {}
    /\ creds' = building
    /\ lpc' = after
    /\ UNCHANGED <<table, requests, after, known, replay, resetIssued, bounds, history>>

-----------------------------------------------------------------------------
(* The Score loop *)

\* The initial table is built before the loop, and before any delayed check is added.
Boot ==
    /\ lpc = "boot"
    /\ StartReplay("top")
    /\ atBoot' = {i \in Ids : rows[i].present}
    /\ UNCHANGED <<table, requests, known, creds, resetIssued, bounds, finished, sentAt,
                   edited, deleted, stale, late>>

\* addDelayedChecks, which adds what has become due, then the checks are started.
StartRound ==
    /\ lpc = "top"
    /\ rounds < MaxRounds
    /\ rounds' = rounds + 1
    /\ known' \in {known, Targets}
    /\ lpc' = "checks"
    /\ UNCHANGED <<table, requests, after, replay, creds, resetIssued, edits, resets,
                   crashes, history>>

\* The checks of the round have ended.
EndChecks ==
    /\ lpc = "checks"
    /\ finished' = finished + 1
    /\ lpc' = "decide"
    /\ UNCHANGED <<table, requests, after, known, replay, creds, resetIssued, bounds, sentAt,
                   edited, deleted, stale, undercut, atBoot, late>>

\* A round that was reset is dropped: the table stays as it is.
DropRound ==
    /\ lpc = "decide"
    /\ resetIssued
    /\ resetIssued' = FALSE
    /\ lpc' = "sleep"
    /\ UNCHANGED <<table, requests, after, known, replay, creds, bounds, history>>

UsesDeleted == \E k \in Targets, u \in Users : creds[k][u] \in deleted

\* The round is saved, and the table rebuilt before the sleep.
SaveRound ==
    /\ lpc = "decide"
    /\ ~resetIssued
    /\ stale' = IF UsesDeleted THEN stale + 1 ELSE stale
    /\ StartReplay("sleep")
    /\ UNCHANGED <<table, requests, known, creds, resetIssued, bounds, finished, sentAt,
                   edited, deleted, atBoot, late>>

\* Mutant: the table is also rebuilt after the sleep.
WakeReplay ==
    /\ lpc = "sleep"
    /\ resetIssued' = FALSE
    /\ StartReplay("top")
    /\ UNCHANGED <<table, requests, known, creds, bounds, finished, sentAt, edited, deleted,
                   stale, atBoot, late>>

Wake ==
    /\ lpc = "sleep"
    /\ resetIssued' = FALSE
    /\ lpc' = "top"
    /\ UNCHANGED <<table, requests, after, known, replay, creds, bounds, history>>

\* POST /settings/reset, which needs teamMutex: the rows are deleted, the files, the
\* requests under way and the credential table stay.  The replay of the start-up, unlike that
\* of a round, does not hold the lock, and the server is up: its rows can be deleted under it.
Reset ==
    /\ lpc = "replay" => after = "top"
    /\ resets < MaxResets
    /\ resets' = resets + 1
    /\ resetIssued' = TRUE
    /\ deleted' = deleted \cup {i \in Ids : rows[i].present}
    /\ undercut' = IF lpc = "replay" THEN undercut \cup {i \in Ids : rows[i].present}
                    ELSE undercut
    /\ stale' = 0
    /\ rows' = [i \in Ids |-> [rows[i] EXCEPT !.present = FALSE]]
    /\ UNCHANGED <<disk, content, saved, requests, lpc, after, known, replay, creds, rounds,
                   edits, crashes, finished, sentAt, edited, atBoot, late>>

\* The process is killed and started again; the rows and the files are left.
Crash ==
    /\ crashes < MaxCrashes
    /\ crashes' = crashes + 1
    /\ spc' = [i \in Ids |-> IF i <= saved THEN "done" ELSE "none"]
    /\ ipc' = 0 /\ icopy' = NoRow /\ gpc' = 0 /\ gcopy' = NoRow
    /\ lpc' = "boot" /\ after' = "top"
    /\ known' = Targets \ Delayed
    /\ todo' = {} /\ snap' = [i \in Ids |-> NoRow] /\ building' = DefaultCreds
    /\ creds' = DefaultCreds
    /\ resetIssued' = FALSE
    /\ UNCHANGED <<table, rounds, edits, resets, history>>

Requests ==
    \/ SaveRow \/ InvalidateSave \/ GradeSave
    \/ \E i \in Ids : CreateFile(i) \/ WriteFile(i) \/ InvalidateRead(i) \/ GradeRead(i)

Replaying == SkipRow \/ RefuseRow \/ AcceptRow \/ Publish

\* The bound on the rounds is reached.
BoundReached ==
    /\ lpc = "top"
    /\ rounds = MaxRounds
    /\ UNCHANGED vars

Next ==
    \/ Requests
    \/ Replaying
    \/ Boot \/ StartRound \/ EndChecks \/ DropRound \/ SaveRound \/ Wake
    \/ Reset
    \/ Crash
    \/ BoundReached

Spec == Init /\ [][Next]_vars

-----------------------------------------------------------------------------
(* Properties *)

\* The table that the rows of S make: for each user of a service the newest password.
Replay(S) ==
    [k \in Targets |-> [u \in Users |->
        LET hits == {i \in S : rows[i].target = k /\ u \in content[i].users}
        IN  IF hits = {} THEN 0 ELSE Max(hits)]]

Processed(i) == rows[i].present /\ rows[i].graded /\ rows[i].feedback = "none"

\* The checks never see a table that is being built: checks.Creds only ever changes to the
\* replay of all processed rows, or starts anew with the process.  A row may count or not if
\* an invalidation or a grade has overwritten it at some time, which takes no notice of the
\* replay, or if a reset has deleted it under the replay of the start-up (score.go:41-44).
PublishedIsReplay ==
    [][creds' # creds =>
          \/ lpc' = "boot"
          \/ \E X \in SUBSET (edited \cup undercut) :
                creds' = Replay({i \in Ids \ edited : Processed(i)} \cup X)]_vars

\* "We want submitted PCRs to miss at least one check round" (score.go:189): a request takes
\* effect only after a round whose checks had not ended when it came in, which is why the
\* table is built before the sleep and not after it.  There are two exceptions, the rows that
\* are read when the process starts, and the rows that come in between the end of a round's
\* checks and the end of its saving.
NewPasswordWaits ==
    lpc = "checks" =>
        \A k \in Targets, u \in Users :
            creds[k][u] \notin {0} \cup atBoot \cup late => sentAt[creds[k][u]] < finished

\* Passwords whose submissions a reset has deleted are still used by the rounds that
\* follow, until one is saved.
DeletedUsedOnce == stale <= 1

\* A request that was processed stays so until it is deleted, or overwritten by an invalidation
\* or a grade, through resets, replays and restarts: a replay refuses it only while its check is
\* not in dwConf.Box, which is the case of a delayed check when the process starts.
ProcessedStaysProcessed ==
    [][\A i \in Ids : (Processed(i) /\ rows'[i].present) =>
          Processed(i)' \/ i \in edited' \/ rows[i].target \notin known]_vars

\* "Any new passwords input will overwrite previous passwords for a service"
\* (templates/pcr.html:29): what a request has set holds until the request is deleted,
\* invalidated or graded.  A restart refuses for good the processed requests for delayed checks,
\* which are not back yet when the table is built (score.go:41-51), and the passwords from before
\* are used again.
NewPasswordsStand ==
    [][\A i \in Ids : (Processed(i) /\ rows'[i].present) =>
          Processed(i)' \/ i \in edited']_vars
=============================================================================
