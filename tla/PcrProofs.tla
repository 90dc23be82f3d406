------------------------------ MODULE PcrProofs ------------------------------
(***************************************************************************)
(* TLAPS proofs about Pcr, for any teams, checks, users and requests: what *)
(* is in the credential table the checks log in with, whatever comes in,   *)
(* is overwritten or deleted while it is rebuilt.                          *)
(***************************************************************************)
EXTENDS Pcr, SetLemmas, TLAPS

\* TypeOK in three parts, which the provers take one at a time.
RowsOK ==
    /\ rows \in [Ids -> Row] /\ snap \in [Ids -> Row] /\ {icopy, gcopy} \subseteq Row
    /\ disk \in [Ids -> {"none", "empty", "full"}]
    /\ content \in [Ids -> Content]
    /\ spc \in [Ids -> {"none", "create", "write", "done"}]
    /\ saved \in 0..MaxSubmissions /\ {ipc, gpc} \subseteq 0..MaxSubmissions

TableOK ==
    /\ lpc \in {"boot", "top", "checks", "decide", "sleep", "replay"}
    /\ after \in {"top", "sleep"}
    /\ known \subseteq Targets
    /\ todo \subseteq Ids
    /\ building \in Creds /\ creds \in Creds
    /\ resetIssued \in BOOLEAN

HistoryOK ==
    /\ sentAt \in [Ids -> Nat]
    /\ edited \subseteq Ids /\ deleted \subseteq Ids /\ atBoot \subseteq Ids
    /\ late \subseteq Ids /\ undercut \subseteq Ids
    /\ finished \in Nat /\ stale \in Nat
    /\ rounds \in Nat /\ edits \in Nat /\ resets \in Nat /\ crashes \in Nat

\* Ids are given out in order: what is in the table, in a handler's hands or on the disk has
\* one; and a file is complete only when its request has ended.
SavedInv ==
    /\ \A i \in Ids : rows[i].present => i <= saved
    /\ \A i \in Ids : i <= saved => rows[i].target \in Targets
    /\ \A i \in todo \cup deleted : i <= saved
    /\ \A i \in Ids : i > saved => disk[i] = "none" /\ spc[i] = "none"
    /\ \A i \in Ids : disk[i] = "full" => spc[i] = "done"
    /\ ipc <= saved /\ gpc <= saved
    /\ ipc # 0 => icopy.target = rows[ipc].target
    /\ gpc # 0 => gcopy.target = rows[gpc].target

\* Whether i is a row that the table has the password of u for k from.
Hit(i, k, u) == rows[i].target = k /\ u \in content[i].users

\* The rows still to be replayed are those that were read, unless they were overwritten or,
\* under the replay of the start-up, deleted.
TodoAsRead ==
    \A i \in todo : /\ snap[i].present /\ snap[i].target = rows[i].target
                    /\ \/ i \in edited
                       \/ rows[i] = snap[i]
                       \/ i \in undercut /\ ~rows[i].present

\* A password in the table is of a row that was processed, or overwritten or deleted since, which
\* is older than those to come; and a row that set a user's password has set those of all users
\* it names.
EntryIsRow(k, u) ==
    LET b == building[k][u]
    IN  /\ b # 0 => b <= saved /\ Hit(b, k, u) /\ (b \in edited \cup undercut \/ Processed(b))
        /\ \A i \in todo : b < i
        /\ \A w \in Users : b # 0 /\ w \in content[b].users => b <= building[k][w]

\* No processed row that was replayed is newer.
EntryIsNewest(k, u) ==
    \A i \in Ids : i \notin todo /\ i \notin edited /\ Processed(i) /\ Hit(i, k, u)
                       => i <= building[k][u]

ReplayInv ==
    lpc = "replay" =>
        /\ TodoAsRead
        /\ \A k \in Targets, u \in Users : EntryIsRow(k, u) /\ EntryIsNewest(k, u)

\* A reset leaves no row that is in the table among the deleted ones, and a replay is at none of
\* them but those deleted under it; so the replay after the first round that is saved rids the
\* table of their passwords.
DeletedInv ==
    /\ \A i \in Ids : rows[i].present => i \notin deleted
    /\ lpc = "replay" => /\ \A i \in todo : i \notin deleted \ undercut
                         /\ \A k \in Targets, u \in Users :
                                building[k][u] \notin deleted \ undercut
    /\ undercut # {} => stale = 0
    /\ stale <= 1
    /\ stale = 1 /\ lpc # "replay" => ~UsesDeleted

\* A row that the table may have passwords of while a round runs that started after `n` rounds.
Old(i) == i = 0 \/ (i <= saved /\ (i \in atBoot \/ i \in late \/ sentAt[i] < finished))

\* Whatever a replay reads is old by then: it starts with the process, or when a round is saved,
\* and what has come in since the end of that round's checks is known to be late.
WaitInv ==
    /\ \A i \in Ids : i <= saved => sentAt[i] <= finished
    /\ lpc = "decide" => \A i \in Ids : i <= saved => i \in late \/ sentAt[i] < finished
    /\ lpc = "boot" => creds = DefaultCreds
    /\ \A k \in Targets, u \in Users : Old(creds[k][u])
    /\ lpc = "replay" => /\ \A i \in todo : Old(i)
                         /\ \A k \in Targets, u \in Users : Old(building[k][u])

\* A processed row has a file that the replay can read, unless it was made to look processed by
\* a grade, and checks that are not delayed are always known.
Readable(i) == disk[i] = "full" /\ content[i].ok

FileInv ==
    /\ \A i \in Ids : Processed(i) => Readable(i) \/ i \in edited
    /\ Targets \ Delayed \subseteq known

IInv ==
    /\ RowsOK /\ TableOK /\ HistoryOK
    /\ SavedInv /\ ReplayInv /\ DeletedInv /\ WaitInv /\ FileInv

-----------------------------------------------------------------------------
\* The bound on the submissions is a number.
LEMMA Bounds == MaxSubmissions \in Nat
BY ConstantsAssumption

LEMMA TypeParts == TypeOK <=> RowsOK /\ TableOK /\ HistoryOK
<1>1. {finished, stale, rounds, edits, resets, crashes} \subseteq Nat <=>
          /\ finished \in Nat /\ stale \in Nat
          /\ rounds \in Nat /\ edits \in Nat /\ resets \in Nat /\ crashes \in Nat
    OBVIOUS
<1> QED BY <1>1, Zenon DEF TypeOK, RowsOK, TableOK, HistoryOK

LEMMA DefaultType ==
    /\ NoRow \in Row /\ ~NoRow.present /\ ~NoRow.graded /\ NoRow.feedback = "none"
    /\ DefaultCreds \in Creds
    /\ \A k \in Targets, u \in Users : DefaultCreds[k][u] = 0
BY Bounds DEF NoRow, Row, DefaultCreds, Creds

\* The next row to be replayed is the oldest of those left.
LEMMA NextTodo ==
    ASSUME todo \subseteq Ids, todo # {}
    PROVE  Min(todo) \in todo /\ \A j \in todo : Min(todo) <= j
<1>1. todo \subseteq Nat
    BY Bounds DEF Ids
<1> QED BY <1>1, MinOfNaturals

\* What a row is refused for.
LEMMA RefusalType ==
    ASSUME NEW i \in Ids
    PROVE  /\ Refusal(i) \in {"none", "check_not_found", "input_empty", "invalid_format"}
           /\ Refusal(i) = "none" => snap[i].target \in known /\ Readable(i)
BY DEF Refusal, Readable

\* What SaveRow does: the new row has the next id.
LEMMA SaveEffect ==
    ASSUME RowsOK, TableOK, SaveRow
    PROVE  \E row \in Row, m \in Content :
              /\ saved + 1 \in Ids
              /\ row.present /\ ~row.graded /\ row.target \in Targets
              /\ rows' = [rows EXCEPT ![saved + 1] = row]
              /\ content' = [content EXCEPT ![saved + 1] = m]
<1>1. PICK k \in known, m \in Content :
         /\ rows' = [rows EXCEPT ![saved + 1] = [NoRow EXCEPT !.present = TRUE, !.target = k]]
         /\ content' = [content EXCEPT ![saved + 1] = m]
    BY DEF SaveRow
<1> DEFINE row == [NoRow EXCEPT !.present = TRUE, !.target = k]
<1>2. row \in Row /\ row.target = k /\ k \in Targets
    BY DefaultType DEF Row, TableOK
<1>3. row.present /\ ~row.graded
    BY DefaultType DEF Row
<1>4. saved + 1 \in Ids
    BY Bounds DEF SaveRow, RowsOK, Ids
<1> HIDE DEF row
<1>5. rows' = [rows EXCEPT ![saved + 1] = row]
    BY <1>1 DEF row
<1> QED BY <1>1, <1>2, <1>3, <1>4, <1>5

\* What InvalidateSave and GradeSave do: a row is overwritten, and keeps its target.
LEMMA EditEffect ==
    ASSUME RowsOK, SavedInv, InvalidateSave \/ GradeSave
    PROVE  \E i \in Ids, row \in Row :
              /\ i <= saved /\ row.target = rows[i].target
              /\ rows' = [rows EXCEPT ![i] = row]
              /\ edited' = edited \cup {i} /\ deleted' = deleted \ {i}
<1>1. CASE InvalidateSave
    <2> DEFINE row == [icopy EXCEPT !.invalid = TRUE]
    <2>1. row \in Row /\ row.target = icopy.target
        BY DEF RowsOK, Row
    <2>2. ipc \in Ids /\ ipc <= saved /\ icopy.target = rows[ipc].target
        BY <1>1, Bounds DEF InvalidateSave, RowsOK, SavedInv, Ids
    <2>3. /\ rows' = [rows EXCEPT ![ipc] = row]
          /\ edited' = edited \cup {ipc} /\ deleted' = deleted \ {ipc}
        BY <1>1 DEF InvalidateSave
    <2> HIDE DEF row
    <2> QED BY <2>1, <2>2, <2>3
<1>2. CASE GradeSave
    <2>1. PICK remark \in {"none", "remark"} :
             rows' = [rows EXCEPT ![gpc] = [gcopy EXCEPT !.graded = TRUE, !.feedback = remark]]
        BY <1>2 DEF GradeSave
    <2> DEFINE row == [gcopy EXCEPT !.graded = TRUE, !.feedback = remark]
    <2>2. row \in Row /\ row.target = gcopy.target
        BY DEF RowsOK, Row
    <2>3. gpc \in Ids /\ gpc <= saved /\ gcopy.target = rows[gpc].target
        BY <1>2, Bounds DEF GradeSave, RowsOK, SavedInv, Ids
    <2>4. edited' = edited \cup {gpc} /\ deleted' = deleted \ {gpc}
        BY <1>2 DEF GradeSave
    <2>5. rows' = [rows EXCEPT ![gpc] = row]
        BY <2>1
    <2> HIDE DEF row
    <2> QED BY <2>2, <2>3, <2>4, <2>5
<1> QED BY <1>1, <1>2

\* What SkipRow does.
LEMMA SkipEffect ==
    ASSUME RowsOK, TableOK, SkipRow
    PROVE  \E i \in todo :
              /\ \A j \in todo : i <= j
              /\ snap[i].feedback # "none" \/ ~snap[i].graded
              /\ todo' = todo \ {i}
<1>1. Min(todo) \in todo /\ \A j \in todo : Min(todo) <= j
    BY NextTodo DEF TableOK, SkipRow
<1> QED BY <1>1 DEF SkipRow, Ignored

\* What RefuseRow does.
LEMMA RefuseEffect ==
    ASSUME RowsOK, TableOK, RefuseRow
    PROVE  \E i \in todo, row \in Row :
              /\ \A j \in todo : i <= j
              /\ Refusal(i) # "none"
              /\ row.present = snap[i].present /\ row.target = snap[i].target
              /\ row.feedback # "none"
              /\ rows' = [rows EXCEPT ![i] = row]
              /\ deleted' = deleted \ {i}
              /\ todo' = todo \ {i}
<1> DEFINE i == Min(todo)
           row == [snap[i] EXCEPT !.invalid = TRUE, !.feedback = Refusal(i)]
<1>1. i \in todo /\ \A j \in todo : i <= j
    BY NextTodo DEF TableOK, RefuseRow
<1>2. i \in Ids /\ snap[i] \in Row
    BY <1>1 DEF TableOK, RowsOK
<1>3. /\ Refusal(i) # "none" /\ rows' = [rows EXCEPT ![i] = row]
      /\ deleted' = deleted \ {i} /\ todo' = todo \ {i}
    BY DEF RefuseRow
<1> HIDE DEF i
<1>4. row \in Row /\ row.feedback = Refusal(i)
    BY <1>2, RefusalType DEF Row
<1>5. row.present = snap[i].present /\ row.target = snap[i].target
    BY <1>2 DEF Row
<1> HIDE DEF row
<1> QED BY <1>1, <1>3, <1>4, <1>5

\* What AcceptRow does.
LEMMA AcceptEffect ==
    ASSUME RowsOK, TableOK, AcceptRow
    PROVE  \E i \in todo, row \in Row :
              /\ \A j \in todo : i <= j
              /\ Refusal(i) = "none" /\ snap[i].feedback = "none"
              /\ row.present = snap[i].present /\ row.target = snap[i].target
              /\ row.feedback = "none" /\ row.graded
              /\ \/ snap[i].graded /\ UNCHANGED <<rows, deleted>>
                 \/ rows' = [rows EXCEPT ![i] = row] /\ deleted' = deleted \ {i}
              /\ building' = [building EXCEPT ![snap[i].target] =
                                [u \in Users |-> IF u \in content[i].users THEN i ELSE @[u]]]
              /\ todo' = todo \ {i}
<1> DEFINE i == Min(todo)
           row == [snap[i] EXCEPT !.invalid = TRUE, !.graded = TRUE]
<1>1. i \in todo /\ \A j \in todo : i <= j
    BY NextTodo DEF TableOK, AcceptRow
<1>2. i \in Ids /\ snap[i] \in Row
    BY <1>1 DEF TableOK, RowsOK
<1>3. /\ Refusal(i) = "none" /\ snap[i].feedback = "none"
      /\ \/ snap[i].graded /\ UNCHANGED <<rows, deleted>>
         \/ rows' = [rows EXCEPT ![i] = row] /\ deleted' = deleted \ {i}
      /\ building' = [building EXCEPT ![snap[i].target] =
                                [u \in Users |-> IF u \in content[i].users THEN i ELSE @[u]]]
      /\ todo' = todo \ {i}
    BY DEF AcceptRow, Ignored
<1> HIDE DEF i
<1>4. row \in Row /\ row.feedback = snap[i].feedback /\ row.graded
    BY <1>2 DEF Row
<1>5. row.present = snap[i].present /\ row.target = snap[i].target
    BY <1>2 DEF Row
<1> HIDE DEF row
<1> QED BY <1>1, <1>3, <1>4, <1>5

\* The initial state satisfies the inductive invariant.
LEMMA InitIInv == Init => IInv
<1> SUFFICES ASSUME Init PROVE IInv
    OBVIOUS
<1>1. \A i \in Ids : i \in Nat /\ i > 0
    BY DEF Ids
<1>2. \A i \in Ids : rows[i] = NoRow /\ spc[i] = "none" /\ disk[i] = "none"
    BY DEF Init
<1>3. /\ saved = 0 /\ ipc = 0 /\ gpc = 0 /\ todo = {} /\ deleted = {} /\ lpc = "boot" /\ stale = 0
      /\ undercut = {}
    BY DEF Init
<1>4. \A k \in Targets, u \in Users : creds[k][u] = 0
    BY DefaultType DEF Init
<1>5. RowsOK
    <2>1. [ok |-> FALSE, users |-> {}] \in Content
        BY DEF Content
    <2>2. content \in [Ids -> Content]
        BY <2>1 DEF Init
    <2>3. rows \in [Ids -> Row] /\ snap \in [Ids -> Row] /\ {icopy, gcopy} \subseteq Row
        BY DefaultType DEF Init
    <2>4. /\ disk \in [Ids -> {"none", "empty", "full"}]
          /\ spc \in [Ids -> {"none", "create", "write", "done"}]
        BY DEF Init
    <2> QED BY <1>3, <2>2, <2>3, <2>4, Bounds DEF RowsOK
<1>6. TableOK
    BY DefaultType DEF Init, TableOK
<1>7. HistoryOK
    BY DEF Init, HistoryOK
<1>8. SavedInv
    <2>1. \A i \in Ids : ~rows[i].present
        BY <1>2, DefaultType
    <2>2. \A i \in Ids : ~ (i <= saved)
        BY <1>1, <1>3
    <2> QED BY <1>2, <1>3, <2>1, <2>2 DEF SavedInv
<1>9. ReplayInv
    BY <1>3 DEF ReplayInv
<1>10. DeletedInv
    BY <1>3 DEF DeletedInv
<1>11. WaitInv
    <2>1. \A i \in Ids : ~ (i <= saved)
        BY <1>1, <1>3
    <2>2. creds = DefaultCreds
        BY DEF Init
    <2> QED BY <1>3, <1>4, <2>1, <2>2 DEF WaitInv, Old
<1>12. FileInv
    BY <1>2, <1>3, DefaultType, ConstantsAssumption DEF Init, FileInv, Processed
<1> QED BY <1>5, <1>6, <1>7, <1>8, <1>9, <1>10, <1>11, <1>12 DEF IInv

\* Rows stay rows.
LEMMA RowsStep == IInv /\ [Next]_vars => RowsOK'
<1> SUFFICES ASSUME IInv, [Next]_vars PROVE RowsOK'
    OBVIOUS
<1>a. RowsOK /\ TableOK /\ SavedInv
    BY DEF IInv
<1> USE <1>a, Bounds DEF RowsOK, table, requests, replay
<1>1. CASE SaveRow
    <2>1. rows' \in [Ids -> Row] /\ content' \in [Ids -> Content]
        BY <1>1, SaveEffect DEF TableOK
    <2>5. spc' \in [Ids -> {"none", "create", "write", "done"}]
        BY <1>1 DEF SaveRow
    <2>6. saved' \in 0..MaxSubmissions
        BY <1>1 DEF SaveRow
    <2>7. UNCHANGED <<snap, icopy, disk, ipc, gpc, gcopy>>
        BY <1>1 DEF SaveRow
    <2> QED BY <2>1, <2>5, <2>6, <2>7
<1>2. CASE InvalidateSave \/ GradeSave
    <2>2. rows' \in [Ids -> Row]
        BY <1>2, EditEffect
    <2>3. {icopy', gcopy'} \subseteq Row
        BY <1>2, DefaultType DEF InvalidateSave, GradeSave
    <2>4. {ipc', gpc'} \subseteq 0..MaxSubmissions
        BY <1>2 DEF InvalidateSave, GradeSave
    <2> QED BY <1>2, <2>2, <2>3, <2>4 DEF InvalidateSave, GradeSave
<1>3. ASSUME NEW i \in Ids, CreateFile(i) PROVE RowsOK'
    BY <1>3 DEF CreateFile
<1>4. ASSUME NEW i \in Ids, WriteFile(i) PROVE RowsOK'
    BY <1>4 DEF WriteFile
<1>5. ASSUME NEW i \in Ids, InvalidateRead(i) \/ GradeRead(i) PROVE RowsOK'
    <2>1. {icopy', gcopy'} \subseteq Row /\ {ipc', gpc'} \subseteq 0..MaxSubmissions
        BY <1>5 DEF InvalidateRead, GradeRead, Ids
    <2> QED BY <1>5, <2>1 DEF InvalidateRead, GradeRead
<1>6. CASE SkipRow \/ Publish
    BY <1>6 DEF SkipRow, Publish
<1>7. CASE RefuseRow
    BY <1>7, RefuseEffect DEF RefuseRow, TableOK
<1>8. CASE AcceptRow
    <2>1. rows' \in [Ids -> Row]
        BY <1>8, AcceptEffect DEF TableOK
    <2> QED BY <1>8, <2>1 DEF AcceptRow
<1>9. CASE Boot \/ SaveRound
    BY <1>9 DEF Boot, SaveRound, StartReplay
<1>10. CASE StartRound \/ EndChecks \/ DropRound \/ Wake
    BY <1>10 DEF StartRound, EndChecks, DropRound, Wake
<1>11. CASE Reset
    <2>1. \A i \in Ids : [rows[i] EXCEPT !.present = FALSE] \in Row
        BY DEF Row
    <2> QED BY <1>11, <2>1 DEF Reset
<1>12. CASE Crash
    <2>1. snap' \in [Ids -> Row] /\ {icopy', gcopy'} \subseteq Row
        BY <1>12, DefaultType DEF Crash
    <2>2. spc' \in [Ids -> {"none", "create", "write", "done"}] /\ ipc' = 0 /\ gpc' = 0
        BY <1>12 DEF Crash
    <2> QED BY <1>12, <2>1, <2>2 DEF Crash
<1>13. CASE UNCHANGED vars
    BY <1>13 DEF vars
<1> QED BY <1>1, <1>2, <1>3, <1>4, <1>5, <1>6, <1>7, <1>8, <1>9, <1>10, <1>11, <1>12, <1>13
        DEF Next, Requests, Replaying, BoundReached

\* The table stays a table of passwords.
LEMMA TableStep == IInv /\ [Next]_vars => TableOK'
<1> SUFFICES ASSUME IInv, [Next]_vars PROVE TableOK'
    OBVIOUS
<1>a. TableOK
    BY DEF IInv
<1> USE <1>a, Bounds, ConstantsAssumption DEF TableOK, replay
<1>1. CASE SaveRow \/ InvalidateSave \/ GradeSave
    BY <1>1 DEF SaveRow, InvalidateSave, GradeSave
<1>2. ASSUME NEW i \in Ids, CreateFile(i) \/ WriteFile(i) \/ InvalidateRead(i) \/ GradeRead(i)
      PROVE  TableOK'
    BY <1>2 DEF CreateFile, WriteFile, InvalidateRead, GradeRead
<1>3. CASE SkipRow
    BY <1>3 DEF SkipRow
<1>4. CASE Publish
    BY <1>4 DEF Publish
<1>5. CASE RefuseRow
    BY <1>5 DEF RefuseRow
<1>6. CASE AcceptRow
    <2>1. PICK i \in todo : building' = [building EXCEPT ![snap[i].target] =
                                [u \in Users |-> IF u \in content[i].users THEN i ELSE @[u]]]
        BY <1>6, AcceptEffect DEF IInv
    <2>2. i \in 0..MaxSubmissions
        BY <2>1 DEF Ids
    <2>3. building' \in Creds
        BY <2>1, <2>2 DEF Creds
    <2> QED BY <1>6, <2>3 DEF AcceptRow
<1>7. CASE Boot \/ SaveRound
    BY <1>7, DefaultType DEF Boot, SaveRound, StartReplay
<1>8. CASE StartRound
    BY <1>8 DEF StartRound
<1>9. CASE EndChecks \/ DropRound \/ Wake
    BY <1>9 DEF EndChecks, DropRound, Wake
<1>10. CASE Reset
    BY <1>10 DEF Reset
<1>11. CASE Crash
    BY <1>11, DefaultType DEF Crash
<1>12. CASE UNCHANGED vars
    BY <1>12 DEF vars
<1> QED BY <1>1, <1>2, <1>3, <1>4, <1>5, <1>6, <1>7, <1>8, <1>9, <1>10, <1>11, <1>12
        DEF Next, Requests, Replaying, BoundReached

\* The history variables keep their types.
LEMMA HistoryStep == IInv /\ [Next]_vars => HistoryOK'
<1> SUFFICES ASSUME IInv, [Next]_vars PROVE HistoryOK'
    OBVIOUS
<1>a. HistoryOK /\ saved \in Nat
    BY Bounds DEF IInv, RowsOK
<1>b. RowsOK /\ SavedInv
    BY DEF IInv
<1> USE <1>a, Bounds DEF HistoryOK, history, bounds
<1>1. CASE SaveRow
    <2>1. late' \subseteq Ids
        BY <1>1 DEF SaveRow, Ids
    <2> QED BY <1>1, <2>1 DEF SaveRow
<1>2. CASE InvalidateSave \/ GradeSave
    <2>1. edited' \subseteq Ids /\ deleted' \subseteq Ids
        BY <1>2, <1>b, EditEffect
    <2> QED BY <1>2, <2>1 DEF InvalidateSave, GradeSave
<1>3. ASSUME NEW i \in Ids, CreateFile(i) \/ WriteFile(i) PROVE HistoryOK'
    BY <1>3 DEF CreateFile, WriteFile
<1>4. ASSUME NEW i \in Ids, InvalidateRead(i) \/ GradeRead(i) PROVE HistoryOK'
    BY <1>4 DEF InvalidateRead, GradeRead
<1>5. CASE SkipRow \/ Publish
    BY <1>5 DEF SkipRow, Publish
<1>6. CASE RefuseRow
    BY <1>6 DEF RefuseRow
<1>7. CASE AcceptRow
    <2>1. deleted' \subseteq Ids
        BY <1>7, AcceptEffect DEF IInv
    <2> QED BY <1>7, <2>1 DEF AcceptRow
<1>8. CASE Boot
    BY <1>8 DEF Boot, StartReplay
<1>9. CASE SaveRound
    BY <1>9 DEF SaveRound, StartReplay
<1>10. CASE StartRound
    BY <1>10 DEF StartRound
<1>11. CASE EndChecks
    BY <1>11 DEF EndChecks
<1>12. CASE DropRound \/ Wake
    BY <1>12 DEF DropRound, Wake
<1>13. CASE Reset
    BY <1>13 DEF Reset
<1>14. CASE Crash
    BY <1>14 DEF Crash
<1>15. CASE UNCHANGED vars
    BY <1>15 DEF vars
<1> QED BY <1>1, <1>2, <1>3, <1>4, <1>5, <1>6, <1>7, <1>8, <1>9, <1>10, <1>11, <1>12, <1>13,
        <1>14, <1>15 DEF Next, Requests, Replaying, BoundReached

\* A new row's id is one that nothing has used, and no save changes a row's target.
LEMMA SavedStep == IInv /\ [Next]_vars => SavedInv'
<1> SUFFICES ASSUME IInv, [Next]_vars PROVE SavedInv'
    OBVIOUS
<1>a. SavedInv /\ RowsOK /\ TableOK
    BY DEF IInv
<1>b. /\ saved \in Nat /\ (\A i \in Ids : i \in Nat /\ i > 0) /\ (ipc = 0 \/ ipc \in Ids)
      /\ (gpc = 0 \/ gpc \in Ids)
    BY <1>a, Bounds DEF RowsOK, Ids
<1> USE <1>a, <1>b DEF SavedInv, table, requests, replay
<1>1. CASE SaveRow
    <2>1. PICK row \in Row : /\ saved + 1 \in Ids
                             /\ row.present /\ row.target \in Targets
                             /\ rows' = [rows EXCEPT ![saved + 1] = row]
        BY <1>1, SaveEffect
    <2>2. /\ saved' = saved + 1 /\ spc' = [spc EXCEPT ![saved + 1] = "create"]
          /\ UNCHANGED <<disk, ipc, icopy, gpc, gcopy, todo, deleted>>
        BY <1>1 DEF SaveRow
    <2>3. \A i \in Ids : i # saved + 1 => rows'[i] = rows[i] /\ spc'[i] = spc[i]
        BY <2>1, <2>2 DEF RowsOK
    <2>4. \A i \in Ids : i <= saved + 1 => i = saved + 1 \/ i <= saved
        BY <1>b
    <2>5. rows'[saved + 1] = row /\ spc'[saved + 1] = "create" /\ disk[saved + 1] = "none"
        BY <2>1, <2>2 DEF RowsOK
    <2>6. /\ ipc # 0 => rows'[ipc].target = rows[ipc].target
          /\ gpc # 0 => rows'[gpc].target = rows[gpc].target
        BY <2>3
    <2>7. \A i \in todo \cup deleted : i <= saved'
        BY <2>2 DEF TableOK, IInv, HistoryOK
    <2> QED BY <2>1, <2>2, <2>3, <2>4, <2>5, <2>6, <2>7
<1>2. CASE InvalidateSave \/ GradeSave
    <2>1. PICK e \in Ids, row \in Row :
             /\ e <= saved /\ row.target = rows[e].target
             /\ rows' = [rows EXCEPT ![e] = row] /\ deleted' = deleted \ {e}
        BY <1>2, EditEffect
    <2>2. \A i \in Ids : rows'[i].target = rows[i].target /\ (rows'[i].present => i <= saved)
        BY <2>1 DEF RowsOK
    <2>3. /\ \/ ipc' = 0 /\ UNCHANGED <<gpc, gcopy>>
             \/ gpc' = 0 /\ UNCHANGED <<ipc, icopy>>
          /\ UNCHANGED <<disk, saved, spc, todo>>
        BY <1>2 DEF InvalidateSave, GradeSave
    <2> QED BY <2>1, <2>2, <2>3
<1>3. ASSUME NEW i \in Ids, CreateFile(i) \/ WriteFile(i) PROVE SavedInv'
    BY <1>3 DEF CreateFile, WriteFile, history, RowsOK
<1>4. ASSUME NEW i \in Ids, InvalidateRead(i) \/ GradeRead(i) PROVE SavedInv'
    BY <1>4 DEF InvalidateRead, GradeRead, history
<1>5. CASE SkipRow \/ Publish
    BY <1>5 DEF SkipRow, Publish, history
<1>6. CASE RefuseRow
    <2>1. PICK i \in todo, row \in Row :
             /\ row.target = snap[i].target
             /\ rows' = [rows EXCEPT ![i] = row] /\ deleted' = deleted \ {i} /\ todo' = todo \ {i}
        BY <1>6, RefuseEffect
    <2>2. i \in Ids /\ i <= saved /\ snap[i].target = rows[i].target
        BY <1>6, <2>1 DEF RefuseRow, TableOK, IInv, ReplayInv, TodoAsRead
    <2>3. \A j \in Ids : rows'[j] = IF j = i THEN row ELSE rows[j]
        BY <2>1, <2>2 DEF RowsOK
    <2>4. UNCHANGED <<disk, saved, spc, ipc, icopy, gpc, gcopy>>
        BY <1>6 DEF RefuseRow
    <2> QED BY <2>1, <2>2, <2>3, <2>4
<1>7. CASE AcceptRow
    <2>1. PICK i \in todo, row \in Row :
             /\ row.target = snap[i].target
             /\ \/ snap[i].graded /\ UNCHANGED <<rows, deleted>>
                \/ rows' = [rows EXCEPT ![i] = row] /\ deleted' = deleted \ {i}
             /\ todo' = todo \ {i}
        BY <1>7, AcceptEffect
    <2>2. i \in Ids /\ i <= saved /\ snap[i].target = rows[i].target
        BY <1>7, <2>1 DEF AcceptRow, TableOK, IInv, ReplayInv, TodoAsRead
    <2>3. \A j \in Ids : rows'[j] = rows[j] \/ (j = i /\ rows'[j] = row)
        BY <2>1, <2>2 DEF RowsOK
    <2>4. UNCHANGED <<disk, saved, spc, ipc, icopy, gpc, gcopy>>
        BY <1>7 DEF AcceptRow
    <2>5. \A j \in todo' \cup deleted' : j <= saved
        BY <2>1
    <2>6. \A j \in Ids : rows'[j].target = rows[j].target /\ (rows'[j].present => j <= saved)
        BY <2>1, <2>2, <2>3
    <2> QED BY <2>4, <2>5, <2>6
<1>8. CASE Boot \/ SaveRound
    BY <1>8 DEF Boot, SaveRound, StartReplay
<1>9. CASE StartRound \/ EndChecks \/ DropRound \/ Wake
    BY <1>9 DEF StartRound, EndChecks, DropRound, Wake, history
<1>10. CASE Reset
    <2>1. \A i \in Ids : /\ [rows[i] EXCEPT !.present = FALSE].target = rows[i].target
                         /\ ~[rows[i] EXCEPT !.present = FALSE].present
        BY DEF RowsOK, Row
    <2>2. \A i \in Ids : rows'[i].target = rows[i].target /\ ~rows'[i].present
        BY <1>10, <2>1 DEF Reset
    <2> QED BY <1>10, <2>2 DEF Reset
<1>11. CASE Crash
    BY <1>11 DEF Crash, history
<1>12. CASE UNCHANGED vars
    BY <1>12 DEF vars, history
<1> QED BY <1>1, <1>2, <1>3, <1>4, <1>5, <1>6, <1>7, <1>8, <1>9, <1>10, <1>11, <1>12
        DEF Next, Requests, Replaying, BoundReached

\* A row is processed only when its file is complete, and a file stays as it is.
LEMMA FileStep == IInv /\ [Next]_vars => FileInv'
<1> SUFFICES ASSUME IInv, [Next]_vars PROVE FileInv'
    OBVIOUS
<1>a. SavedInv /\ RowsOK /\ TableOK /\ FileInv
    BY DEF IInv
<1>b. saved \in Nat /\ (\A i \in Ids : i \in Nat /\ i > 0)
    BY <1>a, Bounds DEF RowsOK, Ids
<1> USE <1>a, <1>b DEF FileInv, Processed, Readable, table, requests
<1>1. CASE SaveRow
    <2>1. PICK row \in Row, m \in Content :
             /\ saved + 1 \in Ids /\ ~row.graded
             /\ rows' = [rows EXCEPT ![saved + 1] = row]
             /\ content' = [content EXCEPT ![saved + 1] = m]
        BY <1>1, SaveEffect
    <2>2. UNCHANGED <<disk, edited, known>>
        BY <1>1 DEF SaveRow
    <2>3. \A i \in Ids : i # saved + 1 => rows'[i] = rows[i] /\ content'[i] = content[i]
        BY <2>1 DEF RowsOK
    <2>4. ~rows'[saved + 1].graded
        BY <2>1 DEF RowsOK
    <2> QED BY <2>2, <2>3, <2>4
<1>2. CASE InvalidateSave \/ GradeSave
    <2>1. PICK e \in Ids, row \in Row :
             rows' = [rows EXCEPT ![e] = row] /\ edited' = edited \cup {e}
        BY <1>2, EditEffect
    <2>2. \A i \in Ids : i # e => rows'[i] = rows[i]
        BY <2>1 DEF RowsOK
    <2>3. UNCHANGED <<disk, content, known>>
        BY <1>2 DEF InvalidateSave, GradeSave
    <2> QED BY <2>1, <2>2, <2>3
<1>3. ASSUME NEW i \in Ids, CreateFile(i) \/ WriteFile(i) PROVE FileInv'
    <2>1. /\ UNCHANGED <<rows, content, edited, known>>
          /\ \A j \in Ids : j # i => disk'[j] = disk[j]
        BY <1>3 DEF CreateFile, WriteFile, RowsOK, history
    <2>2. disk[i] # "full"
        BY <1>3 DEF CreateFile, WriteFile, SavedInv
    <2> QED BY <2>1, <2>2
<1>4. ASSUME NEW i \in Ids, InvalidateRead(i) \/ GradeRead(i) PROVE FileInv'
    BY <1>4 DEF InvalidateRead, GradeRead, history
<1>5. CASE SkipRow \/ Publish
    BY <1>5 DEF SkipRow, Publish, history
<1>6. CASE RefuseRow
    <2>1. PICK i \in todo, row \in Row : row.feedback # "none" /\ rows' = [rows EXCEPT ![i] = row]
        BY <1>6, RefuseEffect
    <2>2. \A j \in Ids : rows'[j] = IF j = i THEN row ELSE rows[j]
        BY <2>1 DEF RowsOK, TableOK
    <2>3. UNCHANGED <<disk, content, edited, known>>
        BY <1>6 DEF RefuseRow
    <2> QED BY <2>1, <2>2, <2>3
<1>7. CASE AcceptRow
    <2>1. PICK i \in todo, row \in Row :
             /\ Refusal(i) = "none"
             /\ \/ UNCHANGED rows
                \/ rows' = [rows EXCEPT ![i] = row]
        BY <1>7, AcceptEffect
    <2>2. i \in Ids
        BY DEF TableOK
    <2>5. Readable(i)
        BY <2>1, <2>2, RefusalType
    <2>3. \A j \in Ids : j # i => rows'[j] = rows[j]
        BY <2>1, <2>2 DEF RowsOK
    <2>4. UNCHANGED <<disk, content, edited, known>>
        BY <1>7 DEF AcceptRow
    <2> QED BY <2>2, <2>3, <2>4, <2>5
<1>8. CASE Boot \/ SaveRound
    BY <1>8 DEF Boot, SaveRound, StartReplay
<1>9. CASE StartRound
    BY <1>9 DEF StartRound, history
<1>10. CASE EndChecks \/ DropRound \/ Wake
    BY <1>10 DEF EndChecks, DropRound, Wake, history
<1>11. CASE Reset
    <2>0. \A r \in Row : ~[r EXCEPT !.present = FALSE].present
        BY DEF Row
    <2>1. \A i \in Ids : ~[rows[i] EXCEPT !.present = FALSE].present
        BY <2>0 DEF RowsOK
    <2>2. \A i \in Ids : ~rows'[i].present
        BY <1>11, <2>1 DEF Reset
    <2> QED BY <1>11, <2>2 DEF Reset
<1>12. CASE Crash
    BY <1>12 DEF Crash, history
<1>13. CASE UNCHANGED vars
    BY <1>13 DEF vars, history
<1> QED BY <1>1, <1>2, <1>3, <1>4, <1>5, <1>6, <1>7, <1>8, <1>9, <1>10, <1>11, <1>12, <1>13
        DEF Next, Requests, Replaying, BoundReached

\* What is in the table, or may enter it, is old when a round's checks run.
LEMMA WaitStep == IInv /\ [Next]_vars => WaitInv'
<1> SUFFICES ASSUME IInv, [Next]_vars PROVE WaitInv'
    OBVIOUS
<1>a. SavedInv /\ RowsOK /\ TableOK /\ HistoryOK /\ WaitInv
    BY DEF IInv
<1>b. saved \in Nat /\ finished \in Nat /\ \A i \in Ids : i \in Nat /\ i > 0 /\ sentAt[i] \in Nat
    BY <1>a, Bounds DEF RowsOK, HistoryOK, Ids
<1>c. \A k \in Targets, u \in Users : /\ creds[k][u] \in Nat /\ creds[k][u] \in Ids \cup {0}
                                      /\ building[k][u] \in Nat /\ building[k][u] \in Ids \cup {0}
    BY <1>a, Bounds DEF TableOK, Creds, Ids
<1>d. \A i \in todo : i \in Ids
    BY <1>a DEF TableOK
<1>e. \A k \in Targets, u \in Users : DefaultCreds[k][u] = 0
    BY DefaultType
<1> USE <1>a, <1>b DEF WaitInv, Old, table, requests, replay
\* What is old stays so when no row is saved and no round ends.
<1>f. ASSUME UNCHANGED <<saved, sentAt, atBoot, late, finished>>
      PROVE  \A i : Old(i)' <=> Old(i)
    BY <1>f
<1>1. CASE SaveRow
    <2>0. saved + 1 \in Ids
        BY <1>1, SaveEffect
    <2>1. /\ saved' = saved + 1 /\ saved + 1 \in Ids
          /\ sentAt' = [sentAt EXCEPT ![saved + 1] = finished]
          /\ late \subseteq late' /\ (lpc = "decide" => saved + 1 \in late')
          /\ UNCHANGED <<lpc, todo, creds, building, atBoot, finished>>
        BY <1>1, <2>0 DEF SaveRow
    <2>2. /\ \A i \in Ids : i <= saved => sentAt'[i] = sentAt[i]
          /\ sentAt'[saved + 1] = finished
        BY <2>1 DEF HistoryOK
    <2>3. \A i \in Ids \cup {0} : Old(i) => Old(i)'
        BY <2>1, <2>2
    <2>4. \A i \in Ids : i <= saved + 1 => i = saved + 1 \/ i <= saved
        BY <1>b
    <2>5. \A k \in Targets, u \in Users : Old(creds[k][u])'
        BY <1>c, <2>1, <2>3
    <2>6. lpc' = "replay" => /\ \A i \in todo' : Old(i)'
                             /\ \A k \in Targets, u \in Users : Old(building[k][u])'
        BY <1>c, <1>d, <2>1, <2>3
    <2>7. \A i \in Ids : i <= saved' => sentAt'[i] <= finished'
        BY <2>1, <2>2, <2>4
    <2>8. lpc' = "decide" => \A i \in Ids : i <= saved' => i \in late' \/ sentAt'[i] < finished'
        BY <2>1, <2>2, <2>4
    <2>9. lpc' = "boot" => creds' = DefaultCreds
        BY <2>1
    <2> QED BY <2>5, <2>6, <2>7, <2>8, <2>9
<1>2. CASE InvalidateSave \/ GradeSave
    BY <1>2, <1>f DEF InvalidateSave, GradeSave
<1>3. ASSUME NEW i \in Ids, CreateFile(i) \/ WriteFile(i) \/ InvalidateRead(i) \/ GradeRead(i)
      PROVE  WaitInv'
    BY <1>3, <1>f DEF CreateFile, WriteFile, InvalidateRead, GradeRead, history
<1>4. CASE SkipRow
    BY <1>4, <1>f DEF SkipRow, history
<1>5. CASE Publish
    BY <1>5 DEF Publish, history, TableOK
<1>6. CASE RefuseRow
    BY <1>6 DEF RefuseRow
<1>7. CASE AcceptRow
    <2>1. PICK i \in todo :
             /\ building' = [building EXCEPT ![snap[i].target] =
                                [u \in Users |-> IF u \in content[i].users THEN i ELSE @[u]]]
             /\ todo' = todo \ {i}
        BY <1>7, AcceptEffect
    <2>2. \A k \in Targets, u \in Users :
             building'[k][u] = building[k][u] \/ building'[k][u] = i
        BY <2>1 DEF TableOK, Creds
    <2>3. /\ lpc = "replay" /\ lpc' = "replay"
          /\ UNCHANGED <<saved, sentAt, atBoot, late, finished, creds>>
        BY <1>7 DEF AcceptRow
    <2>4. \A k \in Targets, u \in Users : Old(building'[k][u])
        BY <2>1, <2>2, <2>3
    <2> QED BY <1>f, <2>1, <2>3, <2>4
<1>8. CASE Boot
    <2>1. /\ lpc' = "replay" /\ building' = DefaultCreds
          /\ todo' = {i \in Ids : rows[i].present} /\ atBoot' = todo'
          /\ creds = DefaultCreds
          /\ UNCHANGED <<saved, sentAt, late, finished, creds>>
        BY <1>8 DEF Boot, StartReplay
    <2>2. \A i \in todo' : i <= saved
        BY <2>1 DEF SavedInv
    <2> QED BY <1>e, <2>1, <2>2
<1>9. CASE SaveRound
    <2>1. /\ lpc = "decide" /\ lpc' = "replay" /\ building' = DefaultCreds
          /\ todo' = {i \in Ids : rows[i].present}
          /\ UNCHANGED <<saved, sentAt, late, finished, atBoot, creds>>
        BY <1>9 DEF SaveRound, StartReplay
    <2>2. \A i \in todo' : i <= saved /\ (i \in late \/ sentAt[i] < finished)
        BY <2>1 DEF SavedInv
    <2> QED BY <1>e, <2>1, <2>2
<1>10. CASE StartRound
    BY <1>10 DEF StartRound, history
<1>11. CASE EndChecks
    <2>1. /\ lpc' = "decide" /\ finished' = finished + 1
          /\ UNCHANGED <<saved, sentAt, late, atBoot, creds>>
        BY <1>11 DEF EndChecks
    <2>2. \A i \in Ids \cup {0} : Old(i) => Old(i)'
        BY <2>1
    <2>3. \A k \in Targets, u \in Users : Old(creds[k][u])'
        BY <1>c, <2>1, <2>2
    <2>4. \A i \in Ids : i <= saved => sentAt[i] <= finished' /\ sentAt[i] < finished'
        BY <2>1
    <2> QED BY <2>1, <2>3, <2>4
<1>12. CASE DropRound \/ Wake
    BY <1>12 DEF DropRound, Wake, history, TableOK
<1>13. CASE Reset
    BY <1>13, <1>f DEF Reset
<1>14. CASE Crash
    BY <1>14, <1>e DEF Crash, history
<1>15. CASE UNCHANGED vars
    BY <1>15 DEF vars, history
<1> QED BY <1>1, <1>2, <1>3, <1>4, <1>5, <1>6, <1>7, <1>8, <1>9, <1>10, <1>11, <1>12, <1>13,
        <1>14, <1>15 DEF Next, Requests, Replaying, BoundReached

\* Only a reset deletes rows, which waits for the replay to end unless it is the start-up's.
LEMMA DeletedStep == IInv /\ [Next]_vars => DeletedInv'
<1> SUFFICES ASSUME IInv, [Next]_vars PROVE DeletedInv'
    OBVIOUS
<1>a. SavedInv /\ RowsOK /\ TableOK /\ HistoryOK /\ DeletedInv
    BY DEF IInv
<1>b. saved \in Nat /\ stale \in Nat /\ (\A i \in Ids : i \in Nat /\ i > 0) /\ deleted \subseteq Ids
    BY <1>a, Bounds DEF RowsOK, HistoryOK, Ids
<1>c. \A k \in Targets, u \in Users : DefaultCreds[k][u] \notin deleted
    BY <1>b, DefaultType
<1> USE <1>a, <1>b DEF DeletedInv, UsesDeleted, table, requests, replay
<1>1. CASE SaveRow
    <2>1. PICK row \in Row : saved + 1 \in Ids /\ rows' = [rows EXCEPT ![saved + 1] = row]
        BY <1>1, SaveEffect
    <2>2. \A i \in Ids : i # saved + 1 => rows'[i] = rows[i]
        BY <2>1 DEF RowsOK
    <2>3. saved + 1 \notin deleted
        BY DEF SavedInv
    <2>4. UNCHANGED <<lpc, todo, building, creds, deleted, stale, undercut>>
        BY <1>1 DEF SaveRow
    <2> QED BY <2>2, <2>3, <2>4
<1>2. CASE InvalidateSave \/ GradeSave
    <2>1. PICK e \in Ids, row \in Row :
             rows' = [rows EXCEPT ![e] = row] /\ deleted' = deleted \ {e}
        BY <1>2, EditEffect
    <2>2. \A i \in Ids : i # e => rows'[i] = rows[i]
        BY <2>1 DEF RowsOK
    <2>3. UNCHANGED <<lpc, todo, building, creds, stale, undercut>>
        BY <1>2 DEF InvalidateSave, GradeSave
    <2> QED BY <2>1, <2>2, <2>3
<1>3. ASSUME NEW i \in Ids, CreateFile(i) \/ WriteFile(i) \/ InvalidateRead(i) \/ GradeRead(i)
      PROVE  DeletedInv'
    BY <1>3 DEF CreateFile, WriteFile, InvalidateRead, GradeRead, history
<1>4. CASE SkipRow
    BY <1>4 DEF SkipRow, history
<1>5. CASE Publish
    BY <1>5 DEF Publish, history, TableOK
<1>6. CASE RefuseRow
    <2>1. PICK i \in todo, row \in Row :
             rows' = [rows EXCEPT ![i] = row] /\ deleted' = deleted \ {i} /\ todo' = todo \ {i}
        BY <1>6, RefuseEffect
    <2>2. \A j \in Ids : j # i => rows'[j] = rows[j]
        BY <2>1 DEF RowsOK
    <2>3. lpc = "replay" /\ UNCHANGED <<lpc, building, creds, stale, undercut>>
        BY <1>6 DEF RefuseRow
    <2> QED BY <2>1, <2>2, <2>3
<1>7. CASE AcceptRow
    <2>1. PICK i \in todo, row \in Row :
             /\ \/ UNCHANGED <<rows, deleted>>
                \/ rows' = [rows EXCEPT ![i] = row] /\ deleted' = deleted \ {i}
             /\ building' = [building EXCEPT ![snap[i].target] =
                                [u \in Users |-> IF u \in content[i].users THEN i ELSE @[u]]]
             /\ todo' = todo \ {i}
        BY <1>7, AcceptEffect
    <2>2. \A k \in Targets, u \in Users :
             building'[k][u] = building[k][u] \/ building'[k][u] = i
        BY <2>1 DEF TableOK, Creds
    <2>3. \A j \in Ids : j # i => rows'[j] = rows[j]
        BY <2>1 DEF RowsOK
    <2>4. lpc = "replay" /\ UNCHANGED <<lpc, creds, stale, undercut>>
        BY <1>7 DEF AcceptRow
    <2>5. i \notin deleted \ undercut /\ deleted' \subseteq deleted
        BY <2>1, <2>4
    <2>6. \A j \in Ids : rows'[j].present => j \notin deleted'
        BY <2>1, <2>3
    <2> QED BY <2>1, <2>2, <2>4, <2>5, <2>6
<1>8. CASE Boot
    BY <1>8, <1>c DEF Boot, StartReplay
<1>9. CASE SaveRound
    <2>1. /\ lpc = "decide" /\ lpc' = "replay" /\ building' = DefaultCreds
          /\ todo' = {i \in Ids : rows[i].present}
          /\ stale' = IF UsesDeleted THEN stale + 1 ELSE stale
          /\ undercut' = {}
          /\ UNCHANGED <<rows, deleted, creds>>
        BY <1>9 DEF SaveRound, StartReplay
    <2>2. UsesDeleted => stale = 0
        BY <2>1
    <2>3. stale' <= 1
        BY <2>1, <2>2
    <2> QED BY <1>c, <2>1, <2>3
<1>10. CASE StartRound
    BY <1>10 DEF StartRound, history
<1>11. CASE EndChecks
    BY <1>11 DEF EndChecks
<1>12. CASE DropRound \/ Wake
    BY <1>12 DEF DropRound, Wake, history, TableOK
<1>13. CASE Reset
    <2>0. \A r \in Row : ~[r EXCEPT !.present = FALSE].present
        BY DEF Row
    <2>1. \A i \in Ids : ~rows'[i].present
        BY <1>13, <2>0 DEF Reset, RowsOK
    <2>2. /\ deleted' = deleted \cup {i \in Ids : rows[i].present} /\ stale' = 0
          /\ lpc = "replay" => undercut' = undercut \cup {i \in Ids : rows[i].present}
          /\ UNCHANGED <<lpc, todo, building, creds>>
        BY <1>13 DEF Reset
    <2> QED BY <2>1, <2>2
<1>14. CASE Crash
    BY <1>14, <1>c DEF Crash, history
<1>15. CASE UNCHANGED vars
    BY <1>15 DEF vars, history
<1> QED BY <1>1, <1>2, <1>3, <1>4, <1>5, <1>6, <1>7, <1>8, <1>9, <1>10, <1>11, <1>12, <1>13,
        <1>14, <1>15 DEF Next, Requests, Replaying, BoundReached

\* Each row that is replayed leaves the table as it should be so far.
LEMMA ReplayStep == IInv /\ [Next]_vars => ReplayInv'
<1> SUFFICES ASSUME IInv, [Next]_vars PROVE ReplayInv'
    OBVIOUS
<1>a. SavedInv /\ RowsOK /\ TableOK /\ ReplayInv
    BY DEF IInv
<1>b. saved \in Nat /\ \A i \in Ids : i \in Nat /\ i > 0
    BY <1>a, Bounds DEF RowsOK, Ids
<1>c. \A k \in Targets, u \in Users : building[k][u] \in Ids \cup {0}
    BY <1>a, Bounds DEF TableOK, Creds, Ids
<1>d. todo \subseteq Ids
    BY <1>a DEF TableOK
<1> USE <1>a, <1>b, <1>d DEF ReplayInv, table, requests, replay
\* What the table depends on.
<1>e. ASSUME UNCHANGED <<lpc, rows, content, saved, edited, undercut, todo, snap, building>>
      PROVE  ReplayInv'
    BY <1>e DEF TodoAsRead, EntryIsRow, EntryIsNewest, Hit, Processed
<1>1. CASE SaveRow
    <2> SUFFICES ASSUME lpc = "replay" PROVE ReplayInv'
        BY <1>1 DEF SaveRow
    <2>1. PICK row \in Row, m \in Content :
             /\ saved + 1 \in Ids /\ ~row.graded
             /\ rows' = [rows EXCEPT ![saved + 1] = row]
             /\ content' = [content EXCEPT ![saved + 1] = m]
        BY <1>1, SaveEffect
    <2>2. \A i \in Ids : i # saved + 1 => rows'[i] = rows[i] /\ content'[i] = content[i]
        BY <2>1 DEF RowsOK
    <2>3. rows'[saved + 1] = row
        BY <2>1 DEF RowsOK
    <2>4. saved' = saved + 1 /\ UNCHANGED <<lpc, todo, snap, building, edited, undercut>>
        BY <1>1 DEF SaveRow
    <2>5. \A i \in Ids : i <= saved => rows'[i] = rows[i] /\ content'[i] = content[i]
        BY <2>1, <2>2
    <2>6. TodoAsRead'
        BY <2>4, <2>5 DEF TodoAsRead, SavedInv
    <2>7. ASSUME NEW k \in Targets, NEW u \in Users PROVE EntryIsRow(k, u)'
        <3>1. EntryIsRow(k, u) /\ building[k][u] \in Ids \cup {0}
            BY <1>c, Zenon DEF ReplayInv
        <3> QED BY <2>4, <2>5, <3>1 DEF EntryIsRow, Hit, Processed
    <2>8. ASSUME NEW k \in Targets, NEW u \in Users PROVE EntryIsNewest(k, u)'
        <3>1. EntryIsNewest(k, u)
            BY Zenon DEF ReplayInv
        <3> QED BY <2>1, <2>2, <2>3, <2>4, <3>1 DEF EntryIsNewest, Hit, Processed
    <2> QED BY <2>6, <2>7, <2>8
<1>2. CASE InvalidateSave \/ GradeSave
    <2> SUFFICES ASSUME lpc = "replay" PROVE ReplayInv'
        BY <1>2 DEF InvalidateSave, GradeSave
    <2>1. PICK e \in Ids, row \in Row :
             /\ row.target = rows[e].target
             /\ rows' = [rows EXCEPT ![e] = row] /\ edited' = edited \cup {e}
        BY <1>2, EditEffect
    <2>3. \A i \in Ids : /\ i # e => rows'[i] = rows[i]
                         /\ rows'[i].target = rows[i].target
        BY <2>1 DEF RowsOK
    <2>4. /\ edited' = edited \cup {e}
          /\ UNCHANGED <<lpc, content, saved, todo, snap, building, undercut>>
        BY <1>2, <2>1 DEF InvalidateSave, GradeSave
    <2>5. TodoAsRead'
        BY <2>3, <2>4 DEF TodoAsRead
    <2>6. ASSUME NEW k \in Targets, NEW u \in Users PROVE EntryIsRow(k, u)' /\ EntryIsNewest(k, u)'
        <3>1. EntryIsRow(k, u) /\ EntryIsNewest(k, u) /\ building[k][u] \in Ids \cup {0}
            BY <1>c, Zenon DEF ReplayInv
        <3>2. EntryIsRow(k, u)'
            BY <2>3, <2>4, <3>1 DEF EntryIsRow, Hit, Processed
        <3>3. EntryIsNewest(k, u)'
            BY <2>3, <2>4, <3>1 DEF EntryIsNewest, Hit, Processed
        <3> QED BY <3>2, <3>3
    <2> QED BY <2>5, <2>6
<1>3. ASSUME NEW i \in Ids, CreateFile(i) \/ WriteFile(i) \/ InvalidateRead(i) \/ GradeRead(i)
      PROVE  ReplayInv'
    BY <1>3, <1>e DEF CreateFile, WriteFile, InvalidateRead, GradeRead, history
<1>4. CASE SkipRow
    <2>1. PICK i \in todo : /\ snap[i].feedback # "none" \/ ~snap[i].graded
                            /\ todo' = todo \ {i}
        BY <1>4, SkipEffect
    <2>2. /\ lpc = "replay"
          /\ UNCHANGED <<lpc, rows, content, saved, edited, undercut, snap, building>>
        BY <1>4 DEF SkipRow, history
    <2>3. TodoAsRead'
        BY <2>1, <2>2 DEF TodoAsRead
    <2>4. i \in edited \/ ~Processed(i)
        BY <2>1, <2>2 DEF TodoAsRead, Processed
    <2>5. ASSUME NEW k \in Targets, NEW u \in Users PROVE EntryIsRow(k, u)' /\ EntryIsNewest(k, u)'
        <3>1. EntryIsRow(k, u) /\ EntryIsNewest(k, u)
            BY <2>2, Zenon DEF ReplayInv
        <3>2. EntryIsRow(k, u)'
            BY <2>1, <2>2, <3>1 DEF EntryIsRow, Hit, Processed
        <3>3. EntryIsNewest(k, u)'
            BY <2>1, <2>2, <2>4, <3>1 DEF EntryIsNewest, Hit, Processed
        <3> QED BY <3>2, <3>3
    <2> QED BY <2>3, <2>5
<1>5. CASE Publish
    BY <1>5 DEF Publish, TableOK
<1>6. CASE RefuseRow
    <2>1. PICK i \in todo, row \in Row :
             /\ row.target = snap[i].target /\ row.feedback # "none"
             /\ rows' = [rows EXCEPT ![i] = row] /\ todo' = todo \ {i}
        BY <1>6, RefuseEffect
    <2>2. lpc = "replay" /\ UNCHANGED <<lpc, content, saved, edited, undercut, snap, building>>
        BY <1>6 DEF RefuseRow
    <2>3. /\ \A j \in Ids : j # i => rows'[j] = rows[j]
          /\ rows'[i] = row
        BY <2>1 DEF RowsOK
    <2>4. TodoAsRead'
        BY <2>1, <2>2, <2>3 DEF TodoAsRead
    <2>5. ~Processed(i)'
        BY <2>1, <2>3 DEF Processed
    <2>6. ASSUME NEW k \in Targets, NEW u \in Users PROVE EntryIsRow(k, u)' /\ EntryIsNewest(k, u)'
        <3>1. EntryIsRow(k, u) /\ EntryIsNewest(k, u) /\ building[k][u] \in Ids \cup {0}
            BY <1>c, <2>2, Zenon DEF ReplayInv
        <3>2. EntryIsRow(k, u)'
            BY <2>1, <2>2, <2>3, <3>1 DEF EntryIsRow, Hit, Processed
        <3>3. EntryIsNewest(k, u)'
            BY <2>1, <2>2, <2>3, <2>5, <3>1 DEF EntryIsNewest, Hit, Processed
        <3> QED BY <3>2, <3>3
    <2> QED BY <2>4, <2>6
<1>7. CASE AcceptRow
    <2>1. PICK i \in todo, row \in Row :
             /\ \A j \in todo : i <= j
             /\ Refusal(i) = "none" /\ snap[i].feedback = "none"
             /\ row.present = snap[i].present /\ row.target = snap[i].target
             /\ row.feedback = "none" /\ row.graded
             /\ \/ snap[i].graded /\ UNCHANGED <<rows, deleted>>
                \/ rows' = [rows EXCEPT ![i] = row] /\ deleted' = deleted \ {i}
             /\ building' = [building EXCEPT ![snap[i].target] =
                                [u \in Users |-> IF u \in content[i].users THEN i ELSE @[u]]]
             /\ todo' = todo \ {i}
        BY <1>7, AcceptEffect
    <2>2. lpc = "replay" /\ UNCHANGED <<lpc, content, saved, edited, undercut, snap>>
        BY <1>7 DEF AcceptRow
    <2>3. i \in Ids /\ i <= saved /\ snap[i].target \in Targets /\ snap[i].target = rows[i].target
        BY <2>1, <2>2 DEF TodoAsRead, SavedInv
    <2>4. \A j \in Ids : j # i => rows'[j] = rows[j]
        BY <2>1 DEF RowsOK
    <2>5. rows'[i].target = rows[i].target /\ (i \in edited \cup undercut \/ Processed(i)')
        <3>1. CASE snap[i].graded /\ UNCHANGED rows
            BY <2>1, <2>2, <3>1 DEF TodoAsRead, Processed
        <3>2. CASE rows' = [rows EXCEPT ![i] = row]
            <4>1. rows'[i] = row
                BY <2>3, <3>2 DEF RowsOK
            <4> QED BY <2>1, <2>2, <2>3, <4>1 DEF TodoAsRead, Processed
        <3> QED BY <2>1, <3>1, <3>2
    <2>6. \A k \in Targets, u \in Users :
             building'[k][u] = IF k = snap[i].target /\ u \in content[i].users
                               THEN i ELSE building[k][u]
        BY <2>1, <2>3 DEF TableOK, Creds
    <2>7. TodoAsRead'
        BY <2>1, <2>2, <2>4 DEF TodoAsRead
    <2>8. \A j \in todo' : i < j
        BY <2>1
    <2>9. \A k \in Targets, u \in Users : building[k][u] < i
        BY <2>1, <2>2 DEF EntryIsRow
    <2>10. ASSUME NEW k \in Targets, NEW u \in Users PROVE EntryIsRow(k, u)' /\ EntryIsNewest(k, u)'
        <3>1. EntryIsRow(k, u) /\ EntryIsNewest(k, u) /\ building[k][u] \in Ids \cup {0}
            BY <1>c, <2>2, Zenon DEF ReplayInv
        <3>2. Hit(i, k, u)' <=> (k = snap[i].target /\ u \in content[i].users)
            BY <2>2, <2>3, <2>5 DEF Hit
        <3>3. \A j \in todo' : building'[k][u] < j
            BY <2>6, <2>8, <2>1, <3>1 DEF EntryIsRow
        <3>4. CASE k = snap[i].target /\ u \in content[i].users
            <4>1. building'[k][u] = i
                BY <2>6, <3>4
            <4>2. \A w \in Users : w \in content[i].users => building'[k][w] = i
                BY <2>6, <3>4
            <4>3. EntryIsRow(k, u)'
                BY <2>2, <2>3, <2>5, <3>2, <3>3, <3>4, <4>1, <4>2 DEF EntryIsRow
            <4>4. \A j \in Ids : /\ j # i /\ j \notin todo' /\ j \notin edited'
                                 /\ Processed(j)' /\ Hit(j, k, u)'
                                 => j <= building[k][u]
                BY <2>1, <2>2, <2>4, <3>1 DEF EntryIsNewest, Hit, Processed
            <4>5. \A j \in Ids : j <= building[k][u] => j <= i
                BY <2>9, <3>1, <2>3
            <4> QED BY <4>1, <4>3, <4>4, <4>5 DEF EntryIsNewest
        <3>5. CASE ~(k = snap[i].target /\ u \in content[i].users)
            <4>1. building'[k][u] = building[k][u]
                BY <2>6, <3>5
            <4>2. building[k][u] # i
                BY <2>9
            <4>3. \A w \in Users : building[k][w] <= building'[k][w]
                BY <1>b, <1>c, <2>3, <2>6, <2>9
            <4>4. \A w \in Users : building[k][u] # 0 /\ w \in content[building[k][u]].users
                        => building[k][u] <= building'[k][w]
                BY <1>b, <1>c, <2>3, <2>6, <2>9, <3>1 DEF EntryIsRow
            <4>5. building[k][u] # 0 => rows'[building[k][u]] = rows[building[k][u]]
                BY <2>4, <3>1, <4>2
            <4>6. building[k][u] # 0 => Hit(building[k][u], k, u)'
                BY <2>2, <3>1, <4>1, <4>5 DEF EntryIsRow, Hit
            <4>7. EntryIsRow(k, u)'
                BY <2>2, <3>1, <3>3, <4>1, <4>4, <4>5, <4>6 DEF EntryIsRow, Processed
            <4>8. EntryIsNewest(k, u)'
                BY <2>1, <2>2, <2>4, <3>1, <3>2, <3>5, <4>1 DEF EntryIsNewest, Hit, Processed
            <4> QED BY <4>7, <4>8
        <3> QED BY <3>4, <3>5
    <2> QED BY <2>7, <2>10
<1>8. CASE Boot \/ SaveRound
    <2>1. /\ lpc' = "replay" /\ building' = DefaultCreds /\ snap' = rows
          /\ todo' = {i \in Ids : rows[i].present}
          /\ UNCHANGED <<rows, content, saved, edited>>
        BY <1>8 DEF Boot, SaveRound, StartReplay
    <2>2. TodoAsRead'
        BY <2>1 DEF TodoAsRead
    <2>3. \A k \in Targets, u \in Users : building'[k][u] = 0
        BY <2>1, DefaultType
    <2>4. \A i \in Ids : Processed(i)' => i \in todo'
        BY <2>1 DEF Processed
    <2>5. ASSUME NEW k \in Targets, NEW u \in Users PROVE EntryIsRow(k, u)' /\ EntryIsNewest(k, u)'
        <3>1. EntryIsRow(k, u)'
            BY <2>1, <2>3 DEF EntryIsRow
        <3>2. EntryIsNewest(k, u)'
            BY <2>4 DEF EntryIsNewest
        <3> QED BY <3>1, <3>2
    <2> QED BY <2>2, <2>5
<1>9. CASE StartRound \/ EndChecks \/ DropRound \/ Wake
    BY <1>9 DEF StartRound, EndChecks, DropRound, Wake
<1>10. CASE Reset
    <2> SUFFICES ASSUME lpc = "replay" PROVE ReplayInv'
        BY <1>10 DEF Reset
    <2>1. \A r \in Row : /\ ~[r EXCEPT !.present = FALSE].present
                         /\ [r EXCEPT !.present = FALSE].target = r.target
        BY DEF Row
    <2>2. \A i \in Ids : ~rows'[i].present /\ rows'[i].target = rows[i].target
        BY <1>10, <2>1 DEF Reset, RowsOK
    <2>3. /\ undercut' = undercut \cup {i \in Ids : rows[i].present}
          /\ UNCHANGED <<lpc, content, saved, edited, todo, snap, building>>
        BY <1>10 DEF Reset
    <2>4. TodoAsRead'
        BY <2>2, <2>3 DEF TodoAsRead
    <2>5. ASSUME NEW k \in Targets, NEW u \in Users PROVE EntryIsRow(k, u)' /\ EntryIsNewest(k, u)'
        <3>1. EntryIsRow(k, u) /\ building[k][u] \in Ids \cup {0}
            BY <1>c, Zenon DEF ReplayInv
        <3>2. EntryIsRow(k, u)'
            BY <2>2, <2>3, <3>1 DEF EntryIsRow, Hit, Processed
        <3>3. EntryIsNewest(k, u)'
            BY <2>2 DEF EntryIsNewest, Processed
        <3> QED BY <3>2, <3>3
    <2> QED BY <2>4, <2>5
<1>11. CASE Crash
    BY <1>11 DEF Crash
<1>12. CASE UNCHANGED vars
    BY <1>12, <1>e DEF vars, history
<1> QED BY <1>1, <1>2, <1>3, <1>4, <1>5, <1>6, <1>7, <1>8, <1>9, <1>10, <1>11, <1>12
        DEF Next, Requests, Replaying, BoundReached

LEMMA Inductive == IInv /\ [Next]_vars => IInv'
BY RowsStep, TableStep, HistoryStep, SavedStep, ReplayStep, DeletedStep, WaitStep, FileStep
   DEF IInv

LEMMA Invariance == Spec => []IInv
BY InitIInv, Inductive, PTL DEF Spec

-----------------------------------------------------------------------------
(* What the invariant gives *)

\* The tables, the requests and the replay hold what they are declared to hold.
THEOREM TypeCorrect == Spec => []TypeOK
<1>1. IInv => TypeOK
    BY TypeParts DEF IInv
<1> QED BY <1>1, Invariance, PTL

\* Passwords whose submissions a reset has deleted are used by one saved round at most,
\* because the round that is saved rebuilds the table (score.go:187-192).
THEOREM DeletedUsedOnceAlways == Spec => []DeletedUsedOnce
<1>1. IInv => DeletedUsedOnce
    BY DEF IInv, DeletedInv, DeletedUsedOnce
<1> QED BY <1>1, Invariance, PTL

\* A request takes effect only after a round whose checks had not ended when it came in
\* (score.go:189), but for what is read at start-up and what comes in after a round's checks.
THEOREM NewPasswordWaitsAlways == Spec => []NewPasswordWaits
<1>1. IInv => NewPasswordWaits
    <2>1. IInv => \A k \in Targets, u \in Users : Old(creds[k][u])
        BY DEF IInv, WaitInv
    <2> QED BY <2>1 DEF NewPasswordWaits, Old
<1> QED BY <1>1, Invariance, PTL

\* When a replay is at its end, the table is what all processed rows make, and those of the
\* edited rows that are in it.
LEMMA ReplayIsComplete ==
    ASSUME IInv, lpc = "replay", todo = {}
    PROVE  \E X \in SUBSET (edited \cup undercut) :
              building = Replay({i \in Ids \ edited : Processed(i)} \cup X)
<1>a. RowsOK /\ TableOK /\ HistoryOK /\ ReplayInv
    BY DEF IInv
<1>b. MaxSubmissions \in Nat /\ \A i \in Ids : i \in 0..MaxSubmissions /\ i > 0
    BY Bounds DEF Ids
<1>c. \A k \in Targets, u \in Users : building[k][u] \in Ids \cup {0}
    BY <1>a, Bounds DEF TableOK, Creds, Ids
<1> DEFINE X == {building[k][u] : k \in Targets, u \in Users} \cap (edited \cup undercut)
           S == {i \in Ids \ edited : Processed(i)} \cup X
           hits(k, u) == {i \in S : Hit(i, k, u)}
<1>1. S \subseteq Ids
    BY <1>a DEF HistoryOK
<1>2. ASSUME NEW k \in Targets, NEW u \in Users
      PROVE  building[k][u] = IF hits(k, u) = {} THEN 0 ELSE Max(hits(k, u))
    <2> DEFINE b == building[k][u]
    <2>1. EntryIsRow(k, u) /\ EntryIsNewest(k, u)
        BY <1>a DEF ReplayInv
    <2>2. b # 0 => b \in hits(k, u)
        BY <1>c, <2>1 DEF EntryIsRow
    <2>3. ASSUME NEW i \in hits(k, u) PROVE i <= b
        <3>1. CASE i \notin X
            BY <1>1, <2>1, <3>1 DEF EntryIsNewest
        <3>2. CASE i \in X
            <4>1. PICK j \in Targets, w \in Users : i = building[j][w]
                BY <3>2
            <4>2. EntryIsRow(j, w) /\ i # 0
                BY <1>a, <1>b, <1>1 DEF ReplayInv
            <4>3. rows[i].target = j /\ rows[i].target = k
                BY <4>1, <4>2 DEF EntryIsRow, Hit
            <4>4. u \in content[i].users
                BY DEF Hit
            <4> QED BY <4>1, <4>2, <4>3, <4>4 DEF EntryIsRow
        <3> QED BY <3>1, <3>2
    <2>4. CASE hits(k, u) = {}
        BY <2>2, <2>4
    <2>5. CASE hits(k, u) # {}
        <3>1. hits(k, u) \subseteq 0..MaxSubmissions
            BY <1>b, <1>1
        <3>2. Max(hits(k, u)) \in hits(k, u) /\ \A y \in hits(k, u) : Max(hits(k, u)) >= y
            <4> HIDE DEF hits
            <4> QED BY <1>b, <2>5, <3>1, MaxOfNaturals, Zenon
        <3>3. Max(hits(k, u)) <= b /\ Max(hits(k, u)) \in Ids
            BY <1>1, <2>3, <3>2
        <3>4. b # 0 => Max(hits(k, u)) >= b
            BY <2>2, <3>2
        <3> QED BY <1>b, <1>c, <2>5, <3>3, <3>4
    <2> QED BY <2>4, <2>5
<1>3. building = [k \in Targets |-> [u \in Users |->
                    IF hits(k, u) = {} THEN 0 ELSE Max(hits(k, u))]]
    <2> HIDE DEF hits
    <2>1. ASSUME NEW k \in Targets
          PROVE  building[k] = [u \in Users |-> IF hits(k, u) = {} THEN 0 ELSE Max(hits(k, u))]
        <3>1. building[k] = [u \in Users |-> building[k][u]]
            BY <1>a DEF TableOK, Creds
        <3> QED BY <1>2, <3>1
    <2>2. building = [k \in Targets |-> building[k]]
        BY <1>a DEF TableOK, Creds
    <2> QED BY <2>1, <2>2, Zenon
<1>4. building = Replay(S)
    <2> HIDE DEF S
    <2> QED BY <1>3, Zenon DEF Replay, Hit
<1>5. X \in SUBSET (edited \cup undercut)
    OBVIOUS
<1> HIDE DEF X
<1> QED BY <1>4, <1>5, Zenon

\* The checks never see a table that is being built: what is published is the replay of all
\* processed rows, whatever is overwritten while it is built, or deleted under the replay of the
\* start-up (db.go:146-286).
THEOREM PublishedIsReplayAlways == Spec => PublishedIsReplay
<1> DEFINE Published ==
       creds' # creds =>
          \/ lpc' = "boot"
          \/ \E X \in SUBSET (edited \cup undercut) :
                creds' = Replay({i \in Ids \ edited : Processed(i)} \cup X)
<1>1. IInv /\ [Next]_vars => Published
    <2> SUFFICES ASSUME IInv, [Next]_vars PROVE Published
        OBVIOUS
    <2>1. CASE Publish
        BY <2>1, ReplayIsComplete DEF Publish
    <2>2. CASE Crash
        BY <2>2 DEF Crash
    <2>3. CASE creds' = creds
        BY <2>3
    <2>4. CASE Requests
        <3>1. SaveRow \/ InvalidateSave \/ GradeSave => creds' = creds
            BY Zenon DEF SaveRow, InvalidateSave, GradeSave
        <3>2. \A i \in Ids : CreateFile(i) \/ WriteFile(i) \/ InvalidateRead(i) \/ GradeRead(i)
                               => creds' = creds
            BY DEF CreateFile, WriteFile, InvalidateRead, GradeRead
        <3> QED BY <2>3, <2>4, <3>1, <3>2, Zenon DEF Requests
    <2>5. CASE SkipRow \/ RefuseRow \/ AcceptRow
        BY <2>3, <2>5 DEF SkipRow, RefuseRow, AcceptRow
    <2>6. CASE Boot \/ StartRound \/ EndChecks \/ DropRound \/ SaveRound \/ Wake \/ Reset
        BY <2>3, <2>6 DEF Boot, StartRound, EndChecks, DropRound, SaveRound, Wake, Reset
    <2>7. CASE UNCHANGED vars
        BY <2>3, <2>7 DEF vars
    <2> QED BY <2>1, <2>2, <2>4, <2>5, <2>6, <2>7 DEF Next, Replaying, BoundReached
<1> QED BY <1>1, Invariance, PTL DEF Spec, PublishedIsReplay

\* A row that was processed is refused only while its check is not there: its file is, unless a
\* grade has overwritten the row.
LEMMA ReadableIsNotRefused ==
    ASSUME IInv, NEW i \in Ids, Processed(i), i \notin edited, rows[i] = snap[i]
    PROVE  Refusal(i) = "none" \/ rows[i].target \notin known
<1>1. Readable(i)
    BY DEF IInv, FileInv
<1> QED BY <1>1 DEF Refusal, Readable

\* A request that was processed stays so until it is deleted or overwritten, through resets under
\* way, replays and restarts (db.go:166-176, 264-268), but for what a replay refuses because its
\* check is not in dwConf.Box.
THEOREM ProcessedStaysAlways == Spec => ProcessedStaysProcessed
<1> DEFINE Stays == \A i \in Ids : (Processed(i) /\ rows'[i].present) =>
                        Processed(i)' \/ i \in edited' \/ rows[i].target \notin known
<1>1. IInv /\ [Next]_vars => Stays
    <2> SUFFICES ASSUME IInv, [Next]_vars,
                        NEW i \in Ids, Processed(i), rows'[i].present, rows[i].target \in known
                 PROVE  Processed(i)' \/ i \in edited'
        OBVIOUS
    <2>a. RowsOK /\ TableOK /\ SavedInv /\ ReplayInv
        BY DEF IInv
    <2>b. rows'[i] = rows[i] => Processed(i)'
        BY DEF Processed
    <2> USE <2>a, <2>b
    <2>1. CASE SaveRow
        <3>1. PICK row \in Row : saved + 1 \in Ids /\ rows' = [rows EXCEPT ![saved + 1] = row]
            BY <2>1, SaveEffect
        <3>2. i # saved + 1
            BY Bounds DEF Processed, SavedInv, RowsOK
        <3> QED BY <3>1, <3>2 DEF RowsOK
    <2>2. CASE InvalidateSave \/ GradeSave
        <3>1. PICK e \in Ids, row \in Row :
                 rows' = [rows EXCEPT ![e] = row] /\ edited' = edited \cup {e}
            BY <2>2, EditEffect
        <3> QED BY <3>1 DEF RowsOK
    <2>3. CASE RefuseRow
        <3>1. PICK j \in todo, row \in Row :
                 Refusal(j) # "none" /\ rows' = [rows EXCEPT ![j] = row]
            BY <2>3, RefuseEffect
        <3>2. lpc = "replay" /\ edited' = edited
            BY <2>3 DEF RefuseRow
        <3>3. CASE i = j
            <4>1. i \in edited \/ rows[i] = snap[i]
                BY <3>1, <3>2, <3>3 DEF ReplayInv, TodoAsRead, Processed
            <4>2. CASE rows[i] = snap[i] /\ i \notin edited
                BY <3>1, <3>3, <4>2, ReadableIsNotRefused
            <4> QED BY <3>2, <4>1, <4>2
        <3>4. CASE i # j
            BY <3>1, <3>4 DEF RowsOK
        <3> QED BY <3>3, <3>4
    <2>4. CASE AcceptRow
        <3>1. PICK j \in todo, row \in Row :
                 /\ row.feedback = "none" /\ row.graded
                 /\ UNCHANGED rows \/ rows' = [rows EXCEPT ![j] = row]
            BY <2>4, AcceptEffect
        <3>2. rows'[i] = rows[i] \/ rows'[i] = row
            BY <3>1 DEF RowsOK
        <3> QED BY <3>1, <3>2 DEF Processed
    <2>5. CASE Reset
        <3>1. \A r \in Row : ~[r EXCEPT !.present = FALSE].present
            BY DEF Row
        <3> QED BY <2>5, <3>1 DEF Reset, RowsOK
    <2>6. ASSUME NEW j \in Ids, CreateFile(j) \/ WriteFile(j) \/ InvalidateRead(j) \/ GradeRead(j)
          PROVE  rows' = rows
        BY <2>6 DEF CreateFile, WriteFile, InvalidateRead, GradeRead, table
    <2>7. CASE SkipRow \/ Publish
        BY <2>7 DEF SkipRow, Publish, table
    <2>8. CASE Boot \/ StartRound \/ EndChecks \/ DropRound \/ SaveRound \/ Wake
        BY <2>8 DEF Boot, StartRound, EndChecks, DropRound, SaveRound, Wake, table
    <2>9. CASE Crash \/ UNCHANGED vars
        BY <2>9 DEF Crash, vars, table
    <2> QED BY <2>1, <2>2, <2>3, <2>4, <2>5, <2>6, <2>7, <2>8, <2>9
            DEF Next, Requests, Replaying, BoundReached
<1> QED BY <1>1, Invariance, PTL DEF Spec, ProcessedStaysProcessed

\* So the requests for checks that are not delayed stand: those checks are in the configuration
\* whenever a replay runs.
THEOREM UndelayedStaysProcessed ==
    Spec => [][\A i \in Ids : (Processed(i) /\ rows[i].target \notin Delayed /\ rows'[i].present)
                                => Processed(i)' \/ i \in edited']_vars
<1> DEFINE Stays == \A i \in Ids : (Processed(i) /\ rows'[i].present) =>
                        Processed(i)' \/ i \in edited' \/ rows[i].target \notin known
           StaysUndelayed ==
               \A i \in Ids : (Processed(i) /\ rows[i].target \notin Delayed /\ rows'[i].present)
                                => Processed(i)' \/ i \in edited'
<1>1. IInv => \A i \in Ids : Processed(i) /\ rows[i].target \notin Delayed
                                => rows[i].target \in known
    BY DEF IInv, SavedInv, FileInv, Processed
<1>2. IInv /\ Stays => StaysUndelayed
    BY <1>1
<1>3. Spec => [][Stays]_vars
    BY ProcessedStaysAlways DEF ProcessedStaysProcessed
<1> HIDE DEF Stays, StaysUndelayed
<1>4. Spec => [][StaysUndelayed]_vars
    BY <1>2, <1>3, Invariance, PTL
<1> QED BY <1>4 DEF StaysUndelayed
=============================================================================
