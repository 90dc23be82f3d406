----------------------------- MODULE LedgerProofs -----------------------------
(***************************************************************************)
(* TLAPS proofs about Ledger, for any teams, checks, threshold and         *)
(* adjustments: what the two tables of a team hold, whatever rounds, resets, *)
(* database errors and crashes there are.                                  *)
(***************************************************************************)
EXTENDS Ledger, SetLemmas, SequenceTheorems, TLAPS

\* TypeOK in five parts, which the provers take one at a time.
TablesOK ==
    /\ latest \in [Teams -> Record]
    /\ sla \in [Teams -> [Checks -> [counter : 0..(SlaThreshold - 1), violations : Nat]]]
    /\ staged \in [Teams -> [Checks -> BOOLEAN]]

WorkOK ==
    /\ lpc \in {"idle", "staged", "processing"}
    /\ todo \subseteq Teams
    /\ work \in [team : {{}} \cup {{t} : t \in Teams}, left : SUBSET Checks, record : Record]
    /\ applied \subseteq Teams
    /\ rpc \in {"idle", "results", "records", "slas"}

SequencesOK ==
    /\ outcomes \in [Teams -> [Checks -> Seq(BOOLEAN)]]
    /\ recorded \in [Teams -> [Checks -> Seq(BOOLEAN)]]

NumbersOK ==
    /\ pending \in [Teams -> Int] /\ given \in [Teams -> Int] /\ lost \in [Teams -> Int]
    /\ rounds \in Nat /\ adjusts \in Nat /\ resets \in Nat /\ failures \in Nat /\ crashes \in Nat

BalanceOK ==
    forgotten \in [Teams -> Nat] /\ uncharged \in [Teams -> Nat] /\ unlisted \in [Teams -> Nat]

\* A record is at work only while the round is processed, once for each team; a reset is not at
\* work then.
WorkInv ==
    /\ lpc # "processing" => work = NoWork /\ todo = {}
    /\ work.team = {} => work = NoWork
    /\ lpc = "processing" => todo \cap applied = {} /\ work.team \cap (todo \cup applied) = {}
    /\ rpc # "idle" => lpc # "processing"

\* While a round is processed, the adjustments of the teams that have their row are both in the
\* row and still in the map.
AdjustInv ==
    \A t \in Teams :
        given[t] = latest[t].adjustment + lost[t]
                       + (IF lpc = "processing" /\ t \in applied THEN 0 ELSE pending[t])

\* The violations in the record at work have reached the slas rows already.
Charged(t) == latest[t].sla + (IF work.team = {t} THEN work.record.sla ELSE 0)

ChargeInv == \A t \in Teams : Charged(t) + uncharged[t] = Shown(t) + forgotten[t]

\* The results that the record at work has taken up.
Success(t, c) == IF staged[t][c] THEN 1 ELSE 0

RecordInv ==
    \A t \in Teams :
        work.team = {t} =>
            /\ \A c \in Checks :
                  /\ c \in work.left => work.record.points[c] = 0
                  /\ c \notin work.left =>
                        /\ work.record.points[c] = latest[t].points[c] + Success(t, c)
                        /\ work.record.count[c] = latest[t].count[c] + 1
            /\ SumOf(work.record.points) =
                   work.record.service
                       + SumOf([c \in Checks |-> IF c \in work.left THEN 0
                                                 ELSE latest[t].points[c]])

IInv ==
    /\ TablesOK /\ WorkOK /\ SequencesOK /\ NumbersOK /\ BalanceOK
    /\ WorkInv /\ AdjustInv /\ ChargeInv /\ RecordInv
    /\ SlaByRuns /\ PointsAreHistory

-----------------------------------------------------------------------------
\* The constants are what the proofs use of them.
LEMMA Bounds ==
    /\ IsFiniteSet(Teams) /\ IsFiniteSet(Checks)
    /\ SlaThreshold \in Nat /\ SlaThreshold # 0 /\ Adjustments \subseteq Int
    /\ MaxRounds \in Nat
BY ConstantsAssumption

LEMMA TypeParts == TypeOK <=> TablesOK /\ WorkOK /\ SequencesOK /\ NumbersOK /\ BalanceOK
<1>1. {rounds, adjusts, resets, failures, crashes} \subseteq Nat <=>
          rounds \in Nat /\ adjusts \in Nat /\ resets \in Nat /\ failures \in Nat /\ crashes \in Nat
    OBVIOUS
<1>2. {forgotten, uncharged, unlisted} \subseteq [Teams -> Nat] <=> BalanceOK
    BY Zenon DEF BalanceOK
<1> QED BY <1>1, <1>2, Zenon DEF TypeOK, TablesOK, WorkOK, SequencesOK, NumbersOK

\* A sum of the model is a sum over the checks.
LEMMA SumOfChecks ==
    ASSUME NEW f, DOMAIN f = Checks
    PROVE  SumOf(f) = SumOver(f, Checks)
BY DEF SumOf, FoldFunction, FoldFunctionOnSet, SumOver, MapThenFoldSet, AnElement

LEMMA EmptyTables ==
    /\ Zero \in [Checks -> Nat] /\ (\A c \in Checks : Zero[c] = 0)
    /\ NoRecord \in Record /\ NoRecord.sla = 0 /\ NoRecord.service = 0
    /\ NoRecord.adjustment = 0 /\ NoRecord.points = Zero /\ NoRecord.count = Zero
    /\ NoSla \in [counter : 0..(SlaThreshold - 1), violations : Nat]
    /\ NoSla.counter = 0 /\ NoSla.violations = 0
    /\ NoWork.team = {} /\ NoWork.left = {} /\ NoWork.record = NoRecord
    /\ NoWork \in [team : {{}} \cup {{t} : t \in Teams}, left : SUBSET Checks, record : Record]
    /\ SumOf(Zero) = 0
<1>1. Zero \in [Checks -> Nat] /\ DOMAIN Zero = Checks /\ \A c \in Checks : Zero[c] = 0
    BY DEF Zero
<1>2. /\ NoRecord \in Record /\ NoRecord.sla = 0 /\ NoRecord.service = 0
      /\ NoRecord.adjustment = 0 /\ NoRecord.points = Zero /\ NoRecord.count = Zero
    BY <1>1 DEF NoRecord, Record
<1>3. /\ NoSla \in [counter : 0..(SlaThreshold - 1), violations : Nat]
      /\ NoSla.counter = 0 /\ NoSla.violations = 0
    BY Bounds DEF NoSla
<1>4. /\ NoWork.team = {} /\ NoWork.left = {} /\ NoWork.record = NoRecord
      /\ NoWork \in [team : {{}} \cup {{t} : t \in Teams}, left : SUBSET Checks, record : Record]
    BY <1>2 DEF NoWork
<1>5. SumOf(Zero) = 0
    <2>1. SumOver(Zero, Checks) = 0
        BY Bounds, SumOfZeroes DEF Zero
    <2> QED BY <1>1, <2>1, SumOfChecks
<1> QED BY <1>1, <1>2, <1>3, <1>4, <1>5

-----------------------------------------------------------------------------
(* The lengths of failures in a row *)

\* Where the failures in a row that end at the i-th result begin.
LEMMA DownRunIs ==
    ASSUME NEW s \in Seq(BOOLEAN), NEW i \in 0..Len(s)
    PROVE  \E j \in 0..i : /\ j = 0 \/ s[j]
                           /\ \A k \in (j + 1)..i : ~s[k]
                           /\ DownRun(s, i) = i - j
<1> DEFINE Begins(j) == /\ j = 0 \/ s[j]
                        /\ \A k \in (j + 1)..i : ~s[k]
           S == {j \in 0..i : j = 0 \/ s[j]}
<1>1. i \in Nat /\ S \subseteq 0..i /\ S # {}
    <2>1. Len(s) \in Nat
        OBVIOUS
    <2>2. i \in Nat /\ 0 \in 0..i
        BY <2>1
    <2>3. S \subseteq 0..i /\ 0 \in S
        BY <2>2, Zenon
    <2> QED BY <2>2, <2>3, Zenon
<1>2. Max(S) \in S /\ \A y \in S : Max(S) >= y
    <2> HIDE DEF S
    <2> QED BY <1>1, MaxOfNaturals, Zenon
<1>3. \E j \in 0..i : Begins(j)
    BY <1>2
<1> HIDE DEF Begins
<1>4. DownRun(s, i) = i - (CHOOSE j \in 0..i : Begins(j))
    BY DEF DownRun, Begins
<1>5. (CHOOSE j \in 0..i : Begins(j)) \in 0..i /\ Begins(CHOOSE j \in 0..i : Begins(j))
    BY <1>3, Zenon
<1> QED BY <1>4, <1>5 DEF Begins

\* It is the only place.
LEMMA DownRunUnique ==
    ASSUME NEW s \in Seq(BOOLEAN), NEW i \in 0..Len(s), NEW j \in 0..i,
           j = 0 \/ s[j], \A k \in (j + 1)..i : ~s[k]
    PROVE  DownRun(s, i) = i - j
<1>1. PICK m \in 0..i : /\ m = 0 \/ s[m]
                        /\ \A k \in (m + 1)..i : ~s[k]
                        /\ DownRun(s, i) = i - m
    BY DownRunIs
<1>2. ~(m < j) /\ ~(j < m)
    BY <1>1
<1> QED BY <1>1, <1>2

\* What one more result makes of it.
LEMMA NextDownRun ==
    ASSUME NEW s \in Seq(BOOLEAN), NEW up \in BOOLEAN
    PROVE  /\ \A i \in 0..Len(s) : DownRun(Append(s, up), i) = DownRun(s, i)
           /\ DownRun(Append(s, up), Len(s) + 1) = IF up THEN 0 ELSE DownRun(s, Len(s)) + 1
           /\ DownRun(s, Len(s)) \in Nat
<1> DEFINE r == Append(s, up)
           n == Len(s)
<1>1. /\ n \in Nat /\ r \in Seq(BOOLEAN) /\ Len(r) = n + 1
      /\ r[n + 1] = up /\ \A k \in 1..n : r[k] = s[k]
    OBVIOUS
<1> HIDE DEF r, n
<1>2. ASSUME NEW i \in 0..n PROVE DownRun(r, i) = DownRun(s, i)
    <2>1. PICK j \in 0..i : /\ j = 0 \/ s[j]
                            /\ \A k \in (j + 1)..i : ~s[k]
                            /\ DownRun(s, i) = i - j
        BY DownRunIs DEF n
    <2>2. (j = 0 \/ r[j]) /\ \A k \in (j + 1)..i : ~r[k]
        BY <1>1, <2>1
    <2>3. i \in 0..Len(r)
        BY <1>1
    <2> QED BY <1>1, <2>1, <2>2, <2>3, DownRunUnique
<1>3. PICK j \in 0..n : /\ j = 0 \/ s[j]
                        /\ \A k \in (j + 1)..n : ~s[k]
                        /\ DownRun(s, n) = n - j
    <2>1. n \in 0..Len(s)
        BY <1>1 DEF n
    <2> QED BY <2>1, DownRunIs
<1>4. n + 1 \in 0..Len(r)
    BY <1>1
<1>5. up => DownRun(r, n + 1) = 0
    <2> SUFFICES ASSUME up PROVE DownRun(r, n + 1) = 0
        OBVIOUS
    <2>1. n + 1 \in 0..(n + 1) /\ r[n + 1] /\ \A k \in ((n + 1) + 1)..(n + 1) : ~r[k]
        BY <1>1
    <2>2. DownRun(r, n + 1) = (n + 1) - (n + 1)
        BY <1>1, <1>4, <2>1, DownRunUnique
    <2>3. DownRun(r, n + 1) = 0
        BY <1>1, <2>2
    <2> QED BY <2>3
<1>6. ~up => DownRun(r, n + 1) = DownRun(s, n) + 1
    <2> SUFFICES ASSUME ~up PROVE DownRun(r, n + 1) = DownRun(s, n) + 1
        OBVIOUS
    <2>1. j \in 0..(n + 1) /\ (j = 0 \/ r[j]) /\ \A k \in (j + 1)..(n + 1) : ~r[k]
        BY <1>1, <1>3
    <2>2. DownRun(r, n + 1) = (n + 1) - j
        BY <1>1, <1>4, <2>1, DownRunUnique
    <2>3. DownRun(r, n + 1) = DownRun(s, n) + 1
        BY <1>1, <1>3, <2>2
    <2> QED BY <2>3
<1>7. DownRun(s, n) \in Nat
    BY <1>1, <1>3
<1>8. DownRun(r, n + 1) = IF up THEN 0 ELSE DownRun(s, n) + 1
    BY <1>5, <1>6
<1> QED BY <1>2, <1>7, <1>8, Zenon DEF r, n

\* The results that bring a violation.
Violating(s) == {i \in DOMAIN s : DownRun(s, i) > 0 /\ DownRun(s, i) % SlaThreshold = 0}

LEMMA NextViolating ==
    ASSUME NEW s \in Seq(BOOLEAN), NEW up \in BOOLEAN
    PROVE  /\ Violating(s) \subseteq 1..Len(s)
           /\ Violating(Append(s, up)) =
                  IF ~up /\ (DownRun(s, Len(s)) + 1) % SlaThreshold = 0
                  THEN Violating(s) \cup {Len(s) + 1} ELSE Violating(s)
<1> DEFINE r == Append(s, up)
           n == Len(s)
<1>1. /\ n \in Nat /\ DOMAIN s = 1..n /\ DOMAIN r = 1..(n + 1)
      /\ DOMAIN r = DOMAIN s \cup {n + 1} /\ n + 1 \notin DOMAIN s
    OBVIOUS
<1>2. /\ \A i \in DOMAIN s : DownRun(r, i) = DownRun(s, i)
      /\ DownRun(r, n + 1) = IF up THEN 0 ELSE DownRun(s, n) + 1
      /\ DownRun(s, n) \in Nat
    BY <1>1, NextDownRun
<1> HIDE DEF r, n
<1>3. Violating(s) \subseteq 1..n
    BY <1>1 DEF Violating
<1>4. \A i \in DOMAIN s : i \in Violating(r) <=> i \in Violating(s)
    BY <1>1, <1>2 DEF Violating
<1>5. n + 1 \in Violating(r) <=> ~up /\ (DownRun(s, n) + 1) % SlaThreshold = 0
    <2>1. DownRun(s, n) + 1 > 0
        BY <1>2
    <2>2. n + 1 \in Violating(r) <=> DownRun(r, n + 1) > 0 /\ DownRun(r, n + 1) % SlaThreshold = 0
        BY <1>1 DEF Violating
    <2>3. CASE up
        BY <1>2, <2>2, <2>3
    <2>4. CASE ~up
        BY <1>2, <2>1, <2>2, <2>4
    <2> QED BY <2>3, <2>4
<1>6. Violating(r) \subseteq DOMAIN s \cup {n + 1} /\ Violating(s) \subseteq DOMAIN s
    BY <1>1 DEF Violating
<1>7. Violating(r) = IF ~up /\ (DownRun(s, n) + 1) % SlaThreshold = 0
                     THEN Violating(s) \cup {n + 1} ELSE Violating(s)
    <2>1. CASE n + 1 \in Violating(r)
        <3>1. Violating(r) = Violating(s) \cup {n + 1}
            BY <1>4, <1>6, <2>1, Zenon
        <3> QED BY <1>5, <2>1, <3>1
    <2>2. CASE n + 1 \notin Violating(r)
        <3>1. Violating(r) = Violating(s)
            BY <1>4, <1>6, <2>2, Zenon
        <3> QED BY <1>5, <2>2, <3>1
    <2> QED BY <2>1, <2>2
<1> QED BY <1>3, <1>7, Zenon DEF r, n

SlaRow == [counter : 0..(SlaThreshold - 1), violations : Nat]

LEMMA SlaAfterType ==
    ASSUME NEW row \in SlaRow, NEW up \in BOOLEAN
    PROVE  /\ SlaAfter(row, up) \in SlaRow
           /\ SlaAfter(row, up).violations =
                  row.violations + (IF ~up /\ row.counter + 1 >= SlaThreshold THEN 1 ELSE 0)
           /\ SlaAfter(row, up).counter =
                  IF up \/ row.counter + 1 >= SlaThreshold THEN 0 ELSE row.counter + 1
BY Bounds DEF SlaAfter, SlaRow

\* The slas row counts the results that bring a violation.
Counts(row, s) == /\ row.violations = Cardinality(Violating(s))
                  /\ row.counter = DownRun(s, Len(s)) % SlaThreshold

LEMMA SlaAfterCounts ==
    ASSUME NEW row \in SlaRow, NEW s \in Seq(BOOLEAN), NEW up \in BOOLEAN, Counts(row, s)
    PROVE  Counts(SlaAfter(row, up), Append(s, up))
<1> DEFINE d == DownRun(s, Len(s))
           next == SlaAfter(row, up)
<1>1. Len(s) \in Nat /\ Len(Append(s, up)) = Len(s) + 1 /\ SlaThreshold \in Nat \ {0}
    BY Bounds
<1>2. d \in Nat /\ DownRun(Append(s, up), Len(s) + 1) = IF up THEN 0 ELSE d + 1
    BY NextDownRun
<1>3. (d + 1) % SlaThreshold = IF row.counter + 1 >= SlaThreshold THEN 0 ELSE row.counter + 1
    BY <1>1, <1>2, NextRemainder DEF Counts
<1>4. 0 % SlaThreshold = 0
    BY <1>1
<1>5. row.counter \in Nat /\ row.violations \in Nat
    BY Bounds DEF SlaRow
<1>6. (d + 1) % SlaThreshold = 0 <=> row.counter + 1 >= SlaThreshold
    BY <1>1, <1>3, <1>5
<1>7. next.counter = DownRun(Append(s, up), Len(Append(s, up))) % SlaThreshold
    BY <1>1, <1>2, <1>3, <1>4, SlaAfterType
<1>8. Cardinality(Violating(s) \cup {Len(s) + 1}) = Cardinality(Violating(s)) + 1
    BY <1>1, NextViolating, CountNext
<1>9. next.violations = Cardinality(Violating(Append(s, up)))
    <2>1. CASE ~up /\ row.counter + 1 >= SlaThreshold
        <3>1. Violating(Append(s, up)) = Violating(s) \cup {Len(s) + 1}
            BY <1>6, <2>1, NextViolating
        <3> QED BY <1>8, <2>1, <3>1, SlaAfterType DEF Counts
    <2>2. CASE ~(~up /\ row.counter + 1 >= SlaThreshold)
        <3>1. Violating(Append(s, up)) = Violating(s)
            BY <1>6, <2>2, NextViolating
        <3> QED BY <1>5, <2>2, <3>1, SlaAfterType DEF Counts
    <2> QED BY <2>1, <2>2
<1> QED BY <1>7, <1>9 DEF Counts

LEMMA NoResultsCount == Counts(NoSla, <<>>)
<1>1. Violating(<<>>) = {}
    BY DEF Violating
<1>2. <<>> \in Seq(BOOLEAN) /\ Len(<<>>) = 0 /\ 0 \in 0..Len(<<>>)
    OBVIOUS
<1>3. DownRun(<<>>, 0) = 0
    <2>1. ASSUME NEW s \in Seq(BOOLEAN), Len(s) = 0 PROVE DownRun(s, 0) = 0
        <3>1. 0 \in 0..Len(s) /\ 0 \in 0..0 /\ \A k \in (0 + 1)..0 : ~s[k]
            BY <2>1
        <3> QED BY <3>1, DownRunUnique
    <2> QED BY <1>2, <2>1, Zenon
<1>4. 0 % SlaThreshold = 0
    BY Bounds
<1> QED BY <1>1, <1>2, <1>3, <1>4, EmptyTables, FS_EmptySet DEF Counts

\* The successes of a check.
Successes(s) == {i \in DOMAIN s : s[i]}

LEMMA NextSuccesses ==
    ASSUME NEW s \in Seq(BOOLEAN), NEW up \in BOOLEAN
    PROVE  Cardinality(Successes(Append(s, up))) =
               Cardinality(Successes(s)) + (IF up THEN 1 ELSE 0)
<1> DEFINE r == Append(s, up)
           n == Len(s)
<1>1. /\ n \in Nat /\ DOMAIN s = 1..n /\ DOMAIN r = 1..(n + 1)
      /\ DOMAIN r = DOMAIN s \cup {n + 1} /\ n + 1 \notin DOMAIN s
      /\ r[n + 1] = up /\ \A k \in DOMAIN s : r[k] = s[k]
    OBVIOUS
<1> HIDE DEF r, n
<1>2. Successes(s) \subseteq 1..n
    BY <1>1 DEF Successes
<1>3. /\ Cardinality(Successes(s)) \in Nat
      /\ Cardinality(Successes(s) \cup {n + 1}) = Cardinality(Successes(s)) + 1
    BY <1>1, <1>2, CountNext
<1>4. CASE up
    <2>1. Successes(r) = Successes(s) \cup {n + 1}
        BY <1>1, <1>4 DEF Successes
    <2> QED BY <1>3, <1>4, <2>1 DEF r
<1>5. CASE ~up
    <2>1. Successes(r) = Successes(s)
        BY <1>1, <1>5 DEF Successes
    <2> QED BY <1>3, <1>5, <2>1 DEF r
<1> QED BY <1>4, <1>5

-----------------------------------------------------------------------------
(* What the steps of processNewRecord do *)

Credits(r, record, old, c, one, v) ==
    /\ r \in Record
    /\ r.points = [record.points EXCEPT ![c] = old.points[c] + one]
    /\ r.count = [record.count EXCEPT ![c] = old.count[c] + 1]
    /\ r.service = record.service + one
    /\ r.sla = record.sla + v
    /\ r.adjustment = record.adjustment

LEMMA CreditIs ==
    ASSUME NEW record \in Record, NEW old \in Record, NEW c \in Checks,
           NEW up \in BOOLEAN, NEW v \in Nat
    PROVE  Credits(Credit(record, old, c, up, v), record, old, c, IF up THEN 1 ELSE 0, v)
<1> DEFINE r == Credit(record, old, c, up, v)
           one == IF up THEN 1 ELSE 0
           points == [record.points EXCEPT ![c] = old.points[c] + one]
           count == [record.count EXCEPT ![c] = old.count[c] + 1]
<1>1. one \in Nat /\ old.points[c] \in Nat /\ old.count[c] \in Nat
    BY DEF Record
<1>2. points \in [Checks -> Nat] /\ count \in [Checks -> Nat]
    BY <1>1 DEF Record
<1>3. r = [record EXCEPT !.points = points, !.count = count, !.service = @ + one, !.sla = @ + v]
    BY DEF Credit
<1> HIDE DEF r, points, count, one
<1>4. /\ r.points = points /\ r.count = count /\ r.service = record.service + one
      /\ r.sla = record.sla + v /\ r.adjustment = record.adjustment
    BY <1>3 DEF Record
<1>5. r \in Record
    <2>1. record.service + one \in Nat /\ record.sla + v \in Nat
        BY <1>1 DEF Record
    <2>2. r = [record EXCEPT !.points = points, !.count = count,
                             !.service = record.service + one, !.sla = record.sla + v]
        BY <1>3 DEF Record
    <2> QED BY <1>2, <2>1, <2>2, Zenon DEF Record
<1>6. Credits(r, record, old, c, one, v)
    BY <1>4, <1>5, Zenon DEF points, count, Credits
<1> QED BY <1>6 DEF r, one

Carries(r, record, old, a) ==
    /\ r \in Record
    /\ r.points = record.points /\ r.count = record.count
    /\ r.service = record.service + old.service
    /\ r.sla = record.sla + old.sla
    /\ r.adjustment = old.adjustment + a

LEMMA CarryOnIs ==
    ASSUME NEW record \in Record, NEW old \in Record, NEW a \in Int
    PROVE  Carries(CarryOn(record, old, a), record, old, a)
<1> DEFINE r == CarryOn(record, old, a)
<1>1. r = [record EXCEPT !.adjustment = old.adjustment + a, !.sla = @ + old.sla,
                         !.service = @ + old.service]
    BY DEF CarryOn
<1> HIDE DEF r
<1>2. r \in Record
    <2>1. /\ old.adjustment + a \in Int /\ record.sla + old.sla \in Nat
          /\ record.service + old.service \in Nat
        BY DEF Record
    <2>2. r = [record EXCEPT !.adjustment = old.adjustment + a, !.sla = record.sla + old.sla,
                             !.service = record.service + old.service]
        BY <1>1 DEF Record
    <2> QED BY <2>1, <2>2, Zenon DEF Record
<1>3. r.points = record.points /\ r.count = record.count
    BY <1>1 DEF Record
<1>4. /\ r.service = record.service + old.service /\ r.sla = record.sla + old.sla
      /\ r.adjustment = old.adjustment + a
    BY <1>1 DEF Record
<1> QED BY <1>2, <1>3, <1>4 DEF r, Carries

\* The type of what is at work.
Work == [team : {{}} \cup {{t} : t \in Teams}, left : SUBSET Checks, record : Record]

\* A result is counted on the slas row there is, or on one made anew.
LEMMA ResultIsTaken ==
    ASSUME TablesOK, NEW t \in Teams, NEW c \in Checks, ProcessResult(t, c) \/ ProcessAnew(t, c)
    PROVE  \E old \in SlaRow :
              /\ TakeResult(t, c, old)
              /\ UNCHANGED <<latest, pending, lpc, staged, todo, rpc, recorded, unlisted, uncharged,
                             given, lost, applied>>
              /\ \/ /\ old = sla[t][c] /\ forgotten' = forgotten
                    /\ outcomes' = [outcomes EXCEPT ![t][c] = Append(outcomes[t][c], staged[t][c])]
                 \/ /\ old = NoSla
                    /\ forgotten' = [forgotten EXCEPT ![t] = forgotten[t] + sla[t][c].violations]
                    /\ outcomes' = [outcomes EXCEPT ![t][c] = <<staged[t][c]>>]
<1>1. sla[t][c] \in SlaRow /\ NoSla \in SlaRow
    BY EmptyTables DEF TablesOK, SlaRow
<1>2. CASE ProcessResult(t, c)
    BY <1>1, <1>2, Zenon DEF ProcessResult, balance
<1>3. CASE ProcessAnew(t, c)
    BY <1>1, <1>3, Zenon DEF ProcessAnew
<1> QED BY <1>2, <1>3

LEMMA ResultEffect ==
    ASSUME TablesOK, WorkOK, NEW t \in Teams, NEW c \in Checks, NEW old \in SlaRow,
           TakeResult(t, c, old)
    PROVE  \E row \in SlaRow, rec \in Record :
              /\ row = SlaAfter(old, staged[t][c])
              /\ sla' = [sla EXCEPT ![t][c] = row]
              /\ row.violations \in {old.violations, old.violations + 1}
              /\ work.team = {t} /\ c \in work.left
              /\ work' \in Work
              /\ work'.team = {t} /\ work'.left = work.left \ {c} /\ work'.record = rec
              /\ Credits(rec, work.record, latest[t], c, Success(t, c),
                         row.violations - old.violations)
<1> DEFINE row == SlaAfter(old, staged[t][c])
           v == row.violations - old.violations
           rec == Credit(work.record, latest[t], c, staged[t][c], v)
<1>1. /\ staged[t][c] \in BOOLEAN
      /\ latest[t] \in Record /\ work.record \in Record /\ work \in Work
    BY DEF TablesOK, WorkOK, Work
<1>2. row \in SlaRow /\ row.violations \in {old.violations, old.violations + 1}
    <2>1. row \in SlaRow /\ row.violations = old.violations
              + (IF ~staged[t][c] /\ old.counter + 1 >= SlaThreshold THEN 1 ELSE 0)
        BY <1>1, SlaAfterType
    <2>2. old.violations \in Nat
        BY DEF SlaRow
    <2> HIDE DEF row
    <2> QED BY <2>1, <2>2
<1>3. v \in Nat
    <2> HIDE DEF row
    <2> QED BY <1>1, <1>2 DEF SlaRow
<1>4. /\ sla' = [sla EXCEPT ![t][c] = row]
      /\ work.team = {t} /\ c \in work.left
      /\ work' = [work EXCEPT !.left = work.left \ {c}, !.record = rec]
    BY DEF TakeResult
<1> HIDE DEF row, v
<1>5. rec \in Record /\ Credits(rec, work.record, latest[t], c, Success(t, c), v)
    <2>1. Credits(rec, work.record, latest[t], c, Success(t, c), v)
        BY <1>1, <1>3, CreditIs DEF Success
    <2> QED BY <2>1 DEF Credits
<1> HIDE DEF rec
<1>6. /\ work' \in Work
      /\ work'.team = {t} /\ work'.left = work.left \ {c} /\ work'.record = rec
    BY <1>1, <1>4, <1>5 DEF Work
<1> QED BY <1>2, <1>4, <1>5, <1>6, Zenon DEF row, v

LEMMA CreateEffect ==
    ASSUME TablesOK, WorkOK, NumbersOK, NEW t \in Teams, CreateRecord(t)
    PROVE  \E rec \in Record :
              /\ latest' = [latest EXCEPT ![t] = rec]
              /\ work.team = {t} /\ work.left = {} /\ work' = NoWork
              /\ Carries(rec, work.record, latest[t], pending[t])
<1> DEFINE rec == CarryOn(work.record, latest[t], pending[t])
<1>1. latest[t] \in Record /\ work.record \in Record /\ pending[t] \in Int
    BY DEF TablesOK, WorkOK, NumbersOK
<1>2. Carries(rec, work.record, latest[t], pending[t])
    BY <1>1, CarryOnIs
<1>3. /\ latest' = [latest EXCEPT ![t] = rec]
      /\ work.team = {t} /\ work.left = {} /\ work' = NoWork
    BY DEF CreateRecord
<1> HIDE DEF rec
<1>4. rec \in Record
    BY <1>2 DEF Carries
<1> QED BY <1>2, <1>3, <1>4

-----------------------------------------------------------------------------
(* The invariant is inductive *)

LEMMA TablesStep == IInv /\ [Next]_vars => TablesOK'
<1> SUFFICES ASSUME IInv, [Next]_vars PROVE TablesOK'
    OBVIOUS
<1>a. TablesOK /\ WorkOK /\ NumbersOK
    BY DEF IInv
<1>b. NoResults \in [Teams -> [Checks -> BOOLEAN]]
    BY DEF NoResults
<1> USE <1>a, <1>b DEF TablesOK, tables
<1>1. CASE Collect \/ DropRound \/ EndProcessing
    BY <1>1 DEF Collect, DropRound, EndProcessing
<1>2. CASE BeginProcessing
    BY <1>2 DEF BeginProcessing
<1>3. ASSUME NEW t \in Teams, BeginRecord(t) \/ RecordFails(t) PROVE TablesOK'
    BY <1>3 DEF BeginRecord, RecordFails
<1>4. ASSUME NEW t \in Teams, CreateRecord(t) PROVE TablesOK'
    <2>1. latest' \in [Teams -> Record]
        BY <1>4, CreateEffect
    <2> QED BY <1>4, <2>1 DEF CreateRecord
<1>5. ASSUME NEW t \in Teams, NEW c \in Checks, ProcessResult(t, c) \/ ProcessAnew(t, c)
      PROVE  TablesOK'
    <2>0. PICK old \in SlaRow : TakeResult(t, c, old) /\ UNCHANGED <<latest, staged>>
        BY <1>5, ResultIsTaken
    <2>1. PICK row \in SlaRow : sla' = [sla EXCEPT ![t][c] = row]
        BY <2>0, ResultEffect
    <2>2. sla' \in [Teams -> [Checks -> [counter : 0..(SlaThreshold - 1), violations : Nat]]]
        BY <2>1 DEF SlaRow
    <2> QED BY <2>0, <2>2
<1>6. ASSUME NEW t \in Teams, NEW a \in Adjustments, Adjust(t, a) PROVE TablesOK'
    BY <1>6 DEF Adjust
<1>7. CASE ResetStep
    <2>1. CASE ResetLock \/ ResetFails
        BY <2>1 DEF ResetLock, ResetFails
    <2>2. CASE ResetResults
        <3>1. \A t \in Teams : [latest[t] EXCEPT !.points = Zero, !.count = Zero] \in Record
            BY EmptyTables DEF Record
        <3> QED BY <2>2, <3>1 DEF ResetResults
    <2>3. CASE ResetRecords \/ ResetSlas
        BY <2>3, EmptyTables DEF ResetRecords, ResetSlas
    <2> QED BY <1>7, <2>1, <2>2, <2>3 DEF ResetStep
<1>8. CASE Crash
    BY <1>8 DEF Crash
<1>9. CASE UNCHANGED vars
    BY <1>9 DEF vars
<1> QED BY <1>1, <1>2, <1>3, <1>4, <1>5, <1>6, <1>7, <1>8, <1>9
        DEF Next, RecordStep, ResetStep, BoundReached

LEMMA WorkStep == IInv /\ [Next]_vars => WorkOK'
<1> SUFFICES ASSUME IInv, [Next]_vars PROVE WorkOK'
    OBVIOUS
<1>a. TablesOK /\ WorkOK /\ NumbersOK
    BY DEF IInv
<1>b. NoWork \in Work /\ NoRecord \in Record
    BY EmptyTables DEF Work
<1>c. WorkOK <=> /\ lpc \in {"idle", "staged", "processing"}
                 /\ todo \subseteq Teams
                 /\ work \in Work
                 /\ applied \subseteq Teams
                 /\ rpc \in {"idle", "results", "records", "slas"}
    BY DEF WorkOK, Work
<1>d. WorkOK' <=> /\ lpc' \in {"idle", "staged", "processing"}
                  /\ todo' \subseteq Teams
                  /\ work' \in Work
                  /\ applied' \subseteq Teams
                  /\ rpc' \in {"idle", "results", "records", "slas"}
    BY DEF WorkOK, Work
<1> USE <1>a, <1>b, <1>c, <1>d DEF history
<1>1. CASE Collect \/ DropRound \/ EndProcessing
    BY <1>1 DEF Collect, DropRound, EndProcessing
<1>2. CASE BeginProcessing
    BY <1>2 DEF BeginProcessing
<1>3. ASSUME NEW t \in Teams, BeginRecord(t) PROVE WorkOK'
    <2>1. work' \in Work
        BY <1>3 DEF BeginRecord, Work
    <2> QED BY <1>3, <2>1 DEF BeginRecord
<1>4. ASSUME NEW t \in Teams, CreateRecord(t) \/ RecordFails(t) PROVE WorkOK'
    BY <1>4 DEF CreateRecord, RecordFails
<1>5. ASSUME NEW t \in Teams, NEW c \in Checks, ProcessResult(t, c) \/ ProcessAnew(t, c)
      PROVE  WorkOK'
    <2>0. PICK old \in SlaRow : TakeResult(t, c, old) /\ UNCHANGED <<lpc, todo, rpc, applied>>
        BY <1>5, ResultIsTaken
    <2>1. work' \in Work
        BY <2>0, ResultEffect
    <2> QED BY <2>0, <2>1
<1>6. ASSUME NEW t \in Teams, NEW a \in Adjustments, Adjust(t, a) PROVE WorkOK'
    BY <1>6 DEF Adjust
<1>7. CASE ResetStep
    BY <1>7 DEF ResetStep, ResetLock, ResetResults, ResetRecords, ResetSlas, ResetFails
<1>8. CASE Crash
    <2>1. work.team \subseteq Teams
        BY DEF Work
    <2> QED BY <1>8, <2>1 DEF Crash
<1>9. CASE UNCHANGED vars
    BY <1>9 DEF vars
<1> QED BY <1>1, <1>2, <1>3, <1>4, <1>5, <1>6, <1>7, <1>8, <1>9
        DEF Next, RecordStep, ResetStep, BoundReached

LEMMA SequencesStep == IInv /\ [Next]_vars => SequencesOK'
<1> SUFFICES ASSUME IInv, [Next]_vars PROVE SequencesOK'
    OBVIOUS
<1>a. TablesOK /\ SequencesOK
    BY DEF IInv
<1> USE <1>a DEF SequencesOK, history, tallies
<1>1. CASE Collect \/ DropRound \/ EndProcessing \/ BeginProcessing
    BY <1>1 DEF Collect, DropRound, EndProcessing, BeginProcessing
<1>2. ASSUME NEW t \in Teams, BeginRecord(t) \/ RecordFails(t) PROVE SequencesOK'
    BY <1>2 DEF BeginRecord, RecordFails
<1>3. ASSUME NEW t \in Teams, CreateRecord(t) PROVE SequencesOK'
    <2>1. \A c \in Checks : Append(recorded[t][c], staged[t][c]) \in Seq(BOOLEAN)
        BY DEF TablesOK
    <2> QED BY <1>3, <2>1 DEF CreateRecord
<1>4. ASSUME NEW t \in Teams, NEW c \in Checks, ProcessResult(t, c) \/ ProcessAnew(t, c)
      PROVE  SequencesOK'
    <2>1. /\ Append(outcomes[t][c], staged[t][c]) \in Seq(BOOLEAN)
          /\ <<staged[t][c]>> \in Seq(BOOLEAN)
        BY DEF TablesOK
    <2>2. /\ recorded' = recorded
          /\ \E s \in Seq(BOOLEAN) : outcomes' = [outcomes EXCEPT ![t][c] = s]
        BY <1>4, <2>1, ResultIsTaken
    <2> QED BY <2>2
<1>5. ASSUME NEW t \in Teams, NEW a \in Adjustments, Adjust(t, a) PROVE SequencesOK'
    BY <1>5 DEF Adjust
<1>6. CASE ResetStep
    <2>1. <<>> \in Seq(BOOLEAN)
        OBVIOUS
    <2>2. CASE ResetLock \/ ResetFails
        BY <2>2 DEF ResetLock, ResetFails
    <2>3. CASE ResetResults
        BY <2>1, <2>3 DEF ResetResults
    <2>4. CASE ResetRecords
        BY <2>1, <2>4 DEF ResetRecords
    <2>5. CASE ResetSlas
        BY <2>1, <2>5 DEF ResetSlas
    <2> QED BY <1>6, <2>2, <2>3, <2>4, <2>5 DEF ResetStep
<1>7. CASE Crash
    BY <1>7 DEF Crash
<1>8. CASE UNCHANGED vars
    BY <1>8 DEF vars
<1> QED BY <1>1, <1>2, <1>3, <1>4, <1>5, <1>6, <1>7, <1>8 DEF Next, RecordStep, ResetStep, BoundReached

LEMMA NumbersStep == IInv /\ [Next]_vars => NumbersOK'
<1> SUFFICES ASSUME IInv, [Next]_vars PROVE NumbersOK'
    OBVIOUS
<1>a. NumbersOK
    BY DEF IInv
<1> USE <1>a DEF NumbersOK, history, counts
<1>1. CASE Collect \/ DropRound
    BY <1>1 DEF Collect, DropRound
<1>2. CASE BeginProcessing
    BY <1>2 DEF BeginProcessing
<1>3. CASE EndProcessing
    BY <1>3 DEF EndProcessing
<1>4. ASSUME NEW t \in Teams, BeginRecord(t) \/ CreateRecord(t) PROVE NumbersOK'
    BY <1>4 DEF BeginRecord, CreateRecord
<1>5. ASSUME NEW t \in Teams, RecordFails(t) PROVE NumbersOK'
    BY <1>5 DEF RecordFails
<1>6. ASSUME NEW t \in Teams, NEW c \in Checks, ProcessResult(t, c) \/ ProcessAnew(t, c)
      PROVE  NumbersOK'
    BY <1>6 DEF ProcessResult, ProcessAnew
<1>7. ASSUME NEW t \in Teams, NEW a \in Adjustments, Adjust(t, a) PROVE NumbersOK'
    <2>1. a \in Int
        BY Bounds
    <2> QED BY <1>7, <2>1 DEF Adjust
<1>8. CASE ResetStep
    <2>1. CASE ResetLock \/ ResetFails
        BY <2>1 DEF ResetLock, ResetFails
    <2>2. CASE ResetResults \/ ResetSlas
        BY <2>2 DEF ResetResults, ResetSlas
    <2>3. CASE ResetRecords
        BY <2>3 DEF ResetRecords
    <2> QED BY <1>8, <2>1, <2>2, <2>3 DEF ResetStep
<1>9. CASE Crash
    BY <1>9 DEF Crash
<1>10. CASE UNCHANGED vars
    BY <1>10 DEF vars
<1> QED BY <1>1, <1>2, <1>3, <1>4, <1>5, <1>6, <1>7, <1>8, <1>9, <1>10
        DEF Next, RecordStep, ResetStep, BoundReached

LEMMA WorkInvStep == IInv /\ [Next]_vars => WorkInv'
<1> SUFFICES ASSUME IInv, [Next]_vars PROVE WorkInv'
    OBVIOUS
<1>a. TablesOK /\ WorkOK /\ NumbersOK /\ WorkInv
    BY DEF IInv
<1>b. NoWork.team = {}
    BY EmptyTables
<1> USE <1>a, <1>b DEF WorkInv, history
<1>1. CASE Collect \/ DropRound \/ EndProcessing
    BY <1>1 DEF Collect, DropRound, EndProcessing
<1>2. CASE BeginProcessing
    BY <1>2 DEF BeginProcessing, WorkOK
<1>3. ASSUME NEW t \in Teams, BeginRecord(t) PROVE WorkInv'
    BY <1>3 DEF BeginRecord
<1>4. ASSUME NEW t \in Teams, CreateRecord(t) PROVE WorkInv'
    BY <1>4 DEF CreateRecord
<1>5. ASSUME NEW t \in Teams, RecordFails(t) PROVE WorkInv'
    BY <1>5 DEF RecordFails
<1>6. ASSUME NEW t \in Teams, NEW c \in Checks, ProcessResult(t, c) \/ ProcessAnew(t, c)
      PROVE  WorkInv'
    <2>0. PICK old \in SlaRow : TakeResult(t, c, old) /\ UNCHANGED <<lpc, todo, rpc, applied>>
        BY <1>6, ResultIsTaken
    <2>1. work'.team = work.team /\ work.team = {t}
        BY <2>0, ResultEffect
    <2>2. UNCHANGED <<lpc, todo, rpc, applied>>
        BY <2>0
    <2>3. lpc = "processing"
        BY <2>1
    <2> QED BY <2>1, <2>2, <2>3
<1>7. ASSUME NEW t \in Teams, NEW a \in Adjustments, Adjust(t, a) PROVE WorkInv'
    BY <1>7 DEF Adjust
<1>8. CASE ResetStep
    BY <1>8 DEF ResetStep, ResetLock, ResetResults, ResetRecords, ResetSlas, ResetFails
<1>9. CASE Crash
    BY <1>9 DEF Crash
<1>10. CASE UNCHANGED vars
    BY <1>10 DEF vars
<1> QED BY <1>1, <1>2, <1>3, <1>4, <1>5, <1>6, <1>7, <1>8, <1>9, <1>10
        DEF Next, RecordStep, ResetStep, BoundReached

LEMMA AdjustStep == IInv /\ [Next]_vars => AdjustInv'
<1> SUFFICES ASSUME IInv, [Next]_vars PROVE AdjustInv'
    OBVIOUS
<1>a. TablesOK /\ WorkOK /\ NumbersOK /\ WorkInv /\ AdjustInv
    BY DEF IInv
<1>b. /\ \A t \in Teams : latest[t].adjustment \in Int
      /\ pending \in [Teams -> Int] /\ given \in [Teams -> Int] /\ lost \in [Teams -> Int]
    BY <1>a DEF TablesOK, NumbersOK, Record
<1>c. \A t \in Teams :
          given[t] = latest[t].adjustment + lost[t]
                         + (IF lpc = "processing" /\ t \in applied THEN 0 ELSE pending[t])
    BY <1>a DEF AdjustInv
<1>1. CASE Collect \/ DropRound
    BY <1>1, <1>c DEF Collect, DropRound, AdjustInv, tables, history
<1>2. CASE BeginProcessing
    BY <1>2, <1>c DEF BeginProcessing, AdjustInv, tables
<1>3. CASE EndProcessing
    BY <1>3, <1>b, <1>c DEF EndProcessing, AdjustInv, tables
<1>4. ASSUME NEW t \in Teams, BeginRecord(t) \/ RecordFails(t) PROVE AdjustInv'
    BY <1>4, <1>c DEF BeginRecord, RecordFails, AdjustInv, tables, history
<1>5. ASSUME NEW t \in Teams, CreateRecord(t) PROVE AdjustInv'
    <2>1. PICK rec \in Record : /\ latest' = [latest EXCEPT ![t] = rec]
                                /\ work.team = {t}
                                /\ Carries(rec, work.record, latest[t], pending[t])
        BY <1>5, <1>a, CreateEffect
    <2>2. rec.adjustment = latest[t].adjustment + pending[t]
        BY <2>1 DEF Carries
    <2>3. lpc = "processing" /\ t \notin applied
        <3>1. work.team # {}
            BY <2>1
        <3>2. lpc = "processing"
            BY <1>a, <3>1, EmptyTables DEF WorkInv
        <3> QED BY <1>a, <2>1, <3>2 DEF WorkInv
    <2>4. UNCHANGED <<lpc, given, lost, pending>> /\ applied' = applied \cup {t}
        BY <1>5 DEF CreateRecord
    <2>5. /\ latest'[t] = rec
          /\ \A u \in Teams \ {t} : latest'[u] = latest[u]
        BY <1>a, <2>1 DEF TablesOK
    <2>6. ASSUME NEW u \in Teams
          PROVE  given'[u] = latest'[u].adjustment + lost'[u]
                     + (IF lpc' = "processing" /\ u \in applied' THEN 0 ELSE pending'[u])
        <3>1. CASE u = t
            BY <1>b, <1>c, <2>2, <2>3, <2>4, <2>5, <3>1
        <3>2. CASE u # t
            BY <1>c, <2>3, <2>4, <2>5, <3>2
        <3> QED BY <3>1, <3>2
    <2> QED BY <2>6 DEF AdjustInv
<1>6. ASSUME NEW t \in Teams, NEW c \in Checks, ProcessResult(t, c) \/ ProcessAnew(t, c)
      PROVE  AdjustInv'
    <2>1. UNCHANGED <<latest, pending, lpc, given, lost, applied>>
        BY <1>6, <1>a, ResultIsTaken
    <2> QED BY <1>c, <2>1 DEF AdjustInv
<1>7. ASSUME NEW t \in Teams, NEW a \in Adjustments, Adjust(t, a) PROVE AdjustInv'
    <2>1. a \in Int
        BY Bounds
    <2>2. /\ lpc # "processing" /\ UNCHANGED <<lpc, latest, lost, applied>>
          /\ pending' = [pending EXCEPT ![t] = pending[t] + a]
          /\ given' = [given EXCEPT ![t] = given[t] + a]
        BY <1>7 DEF Adjust, tables
    <2> QED BY <1>b, <1>c, <2>1, <2>2 DEF AdjustInv
<1>8. CASE ResetStep
    <2>1. CASE ResetLock \/ ResetFails \/ ResetSlas
        BY <2>1, <1>c DEF ResetLock, ResetFails, ResetSlas, AdjustInv, tables, history
    <2>2. CASE ResetResults
        <3>1. /\ UNCHANGED <<lpc, pending, given, lost, applied>>
              /\ latest' = [t \in Teams |-> [latest[t] EXCEPT !.points = Zero, !.count = Zero]]
            BY <2>2 DEF ResetResults
        <3>2. ASSUME NEW t \in Teams PROVE latest'[t].adjustment = latest[t].adjustment
            <4>1. latest[t] \in Record
                BY <1>a DEF TablesOK
            <4> QED BY <3>1, <4>1 DEF Record
        <3> QED BY <1>c, <3>1, <3>2 DEF AdjustInv
    <2>3. CASE ResetRecords
        <3>1. /\ lpc' # "processing" /\ given' = pending /\ lost' = [t \in Teams |-> 0]
              /\ latest' = [t \in Teams |-> NoRecord] /\ pending' = pending
            BY <2>3, <1>a DEF ResetRecords, WorkInv
        <3> QED BY <1>b, <3>1, EmptyTables DEF AdjustInv
    <2> QED BY <1>8, <2>1, <2>2, <2>3 DEF ResetStep
<1>9. CASE Crash
    BY <1>9, <1>b, <1>c DEF Crash, AdjustInv, tables
<1>10. CASE UNCHANGED vars
    BY <1>10, <1>c DEF vars, AdjustInv, tables, history
<1> QED BY <1>1, <1>2, <1>3, <1>4, <1>5, <1>6, <1>7, <1>8, <1>9, <1>10
        DEF Next, RecordStep, ResetStep, BoundReached

LEMMA BalanceStep == IInv /\ [Next]_vars => BalanceOK'
<1> SUFFICES ASSUME IInv, [Next]_vars PROVE BalanceOK'
    OBVIOUS
<1>a. TablesOK /\ WorkOK /\ BalanceOK /\ ChargeInv /\ WorkInv
    BY DEF IInv
<1>b. /\ work.record.sla \in Nat
      /\ \A t \in Teams : latest[t].sla \in Nat /\ latest[t].service \in Nat
    BY <1>a DEF TablesOK, WorkOK, Record
<1> USE <1>a DEF BalanceOK
<1>1. CASE Collect \/ DropRound \/ BeginProcessing \/ EndProcessing
    BY <1>1 DEF Collect, DropRound, BeginProcessing, EndProcessing, history, tallies, balance
<1>2. ASSUME NEW t \in Teams, BeginRecord(t) \/ CreateRecord(t) PROVE BalanceOK'
    BY <1>2 DEF BeginRecord, CreateRecord, history, tallies, balance
<1>3. ASSUME NEW t \in Teams, RecordFails(t) PROVE BalanceOK'
    BY <1>3, <1>b DEF RecordFails, tallies
<1>4. ASSUME NEW t \in Teams, NEW c \in Checks, ProcessResult(t, c) \/ ProcessAnew(t, c)
      PROVE  BalanceOK'
    <2>1. sla[t][c].violations \in Nat
        BY DEF TablesOK
    <2>2. /\ UNCHANGED <<unlisted, uncharged>>
          /\ \/ forgotten' = forgotten
             \/ forgotten' = [forgotten EXCEPT ![t] = forgotten[t] + sla[t][c].violations]
        BY <1>4, ResultIsTaken
    <2> QED BY <2>1, <2>2
<1>5. ASSUME NEW t \in Teams, NEW a \in Adjustments, Adjust(t, a) PROVE BalanceOK'
    BY <1>5 DEF Adjust, tallies, balance
<1>6. CASE ResetStep
    <2>1. CASE ResetLock \/ ResetFails
        BY <2>1 DEF ResetLock, ResetFails, history, tallies, balance
    <2>3. CASE ResetResults
        BY <2>3, <1>b DEF ResetResults, balance
    <2>4. CASE ResetRecords
        BY <2>4, <1>b DEF ResetRecords
    <2>2. CASE ResetSlas
        <3>1. work.team = {}
            BY <2>2, EmptyTables DEF ResetSlas, WorkInv
        <3>2. ASSUME NEW t \in Teams PROVE forgotten[t] + Shown(t) \in Nat
            <4>1. Charged(t) = latest[t].sla + 0
                BY <3>1 DEF Charged
            <4>2. Charged(t) + uncharged[t] = Shown(t) + forgotten[t]
                BY DEF ChargeInv
            <4>3. Shown(t) \in Int
                <5>1. [c \in Checks |-> sla[t][c].violations] \in [Checks -> Int]
                    BY DEF TablesOK
                <5> QED BY <5>1, SumOfChecks, SumType, Bounds DEF Shown
            <4> QED BY <1>b, <4>1, <4>2, <4>3
        <3> QED BY <2>2, <3>2 DEF ResetSlas
    <2> QED BY <1>6, <2>1, <2>2, <2>3, <2>4 DEF ResetStep
<1>7. CASE Crash
    BY <1>7, <1>b DEF Crash, tallies
<1>8. CASE UNCHANGED vars
    BY <1>8 DEF vars, history, tallies, balance
<1> QED BY <1>1, <1>2, <1>3, <1>4, <1>5, <1>6, <1>7, <1>8
        DEF Next, RecordStep, ResetStep, BoundReached

LEMMA ChargeStep == IInv /\ [Next]_vars => ChargeInv'
<1> SUFFICES ASSUME IInv, [Next]_vars PROVE ChargeInv'
    OBVIOUS
<1>a. TablesOK /\ WorkOK /\ NumbersOK /\ BalanceOK /\ WorkInv /\ ChargeInv
    BY DEF IInv
<1>b. /\ latest \in [Teams -> Record] /\ work \in Work /\ work.record \in Record
      /\ \A t \in Teams : latest[t].sla \in Nat /\ uncharged[t] \in Nat /\ forgotten[t] \in Nat
      /\ work.record.sla \in Nat /\ NoWork.team = {} /\ NoRecord.sla = 0
    BY <1>a, EmptyTables DEF TablesOK, WorkOK, BalanceOK, Work, Record
<1>c. ASSUME NEW t \in Teams
      PROVE  /\ [c \in Checks |-> sla[t][c].violations] \in [Checks -> Int]
             /\ Shown(t) = SumOver([c \in Checks |-> sla[t][c].violations], Checks)
             /\ Shown(t) \in Int
    <2>1. [c \in Checks |-> sla[t][c].violations] \in [Checks -> Int]
        BY <1>a DEF TablesOK
    <2>2. Shown(t) = SumOver([c \in Checks |-> sla[t][c].violations], Checks)
        BY SumOfChecks DEF Shown
    <2> QED BY <2>1, <2>2, Bounds, SumType
<1>d. ASSUME UNCHANGED <<latest, sla, work, forgotten, uncharged>> PROVE ChargeInv'
    BY <1>a, <1>d DEF ChargeInv, Charged, Shown
<1>e. \A t \in Teams : Charged(t) + uncharged[t] = Shown(t) + forgotten[t]
    BY <1>a DEF ChargeInv
<1>f. ASSUME sla' = sla PROVE \A t \in Teams : Shown(t)' = Shown(t)
    BY <1>f DEF Shown
<1>1. CASE Collect \/ DropRound \/ BeginProcessing \/ EndProcessing
    BY <1>1, <1>d DEF Collect, DropRound, BeginProcessing, EndProcessing, tables, history, balance
<1>2. ASSUME NEW t \in Teams, BeginRecord(t) PROVE ChargeInv'
    <2>1. /\ UNCHANGED <<latest, sla, forgotten, uncharged>> /\ work = NoWork
          /\ work' = [team |-> {t}, left |-> Checks, record |-> NoRecord]
        BY <1>2 DEF BeginRecord, tables, history, balance
    <2>2. \A u \in Teams : Charged(u)' = latest[u].sla /\ Charged(u) = latest[u].sla
        <3>1. work'.record.sla = 0 /\ work.team = {}
            BY <1>b, <2>1
        <3>2. ASSUME NEW u \in Teams
              PROVE  Charged(u)' = latest[u].sla /\ Charged(u) = latest[u].sla
            <4>1. Charged(u) = latest[u].sla
                BY <1>b, <3>1 DEF Charged
            <4>2. Charged(u)' = latest[u].sla + (IF work'.team = {u} THEN 0 ELSE 0)
                BY <2>1, <3>1 DEF Charged
            <4> QED BY <1>b, <4>1, <4>2
        <3> QED BY <3>2
    <2> QED BY <1>e, <1>f, <2>1, <2>2 DEF ChargeInv
<1>3. ASSUME NEW t \in Teams, CreateRecord(t) PROVE ChargeInv'
    <2>1. PICK rec \in Record : /\ latest' = [latest EXCEPT ![t] = rec]
                                /\ work.team = {t} /\ work' = NoWork
                                /\ Carries(rec, work.record, latest[t], pending[t])
        BY <1>3, <1>a, CreateEffect
    <2>2. rec.sla = work.record.sla + latest[t].sla
        BY <2>1 DEF Carries
    <2>3. UNCHANGED <<sla, forgotten, uncharged>>
        BY <1>3 DEF CreateRecord, balance
    <2>4. \A u \in Teams : Charged(u)' = Charged(u)
        <3>1. ASSUME NEW u \in Teams, u # t PROVE Charged(u)' = Charged(u)
            <4>1. latest'[u] = latest[u]
                BY <1>b, <2>1, <3>1
            <4>2. work.team # {u} /\ work'.team # {u}
                BY <1>b, <2>1, <3>1
            <4> QED BY <4>1, <4>2 DEF Charged
        <3>2. latest'[t].sla = work.record.sla + latest[t].sla
            BY <1>b, <2>1, <2>2
        <3>3. Charged(t)' = Charged(t)
            <4>1. work.team = {t} /\ work'.team # {t}
                BY <1>b, <2>1
            <4>2. Charged(t)' = latest'[t].sla + 0 /\ Charged(t) = latest[t].sla + work.record.sla
                BY <4>1 DEF Charged
            <4>3. latest[t].sla \in Nat /\ work.record.sla \in Nat
                BY <1>b
            <4> QED BY <3>2, <4>2, <4>3
        <3> QED BY <3>1, <3>3
    <2> QED BY <1>e, <1>f, <2>3, <2>4 DEF ChargeInv
\* The record at work is given up: what it was charged with is charged no more.
<1>g. ASSUME UNCHANGED <<latest, sla, forgotten>>, work' = NoWork,
             uncharged' = [t \in Teams |-> IF work.team = {t} THEN uncharged[t] + work.record.sla
                                           ELSE uncharged[t]]
      PROVE  ChargeInv'
    <2>1. ASSUME NEW u \in Teams PROVE Charged(u)' + uncharged'[u] = Charged(u) + uncharged[u]
        <3>1. Charged(u)' = latest[u].sla
            <4>1. latest'[u].sla = latest[u].sla /\ work'.team # {u} /\ latest[u].sla \in Nat
                BY <1>b, <1>g
            <4> QED BY <4>1 DEF Charged
        <3>2. CASE work.team = {u}
            BY <1>b, <1>g, <3>1, <3>2 DEF Charged
        <3>3. CASE work.team # {u}
            BY <1>b, <1>g, <3>1, <3>3 DEF Charged
        <3> QED BY <3>2, <3>3
    <2>2. \A u \in Teams : Shown(u)' = Shown(u)
        BY <1>f, <1>g
    <2> HIDE DEF Charged, Shown
    <2> QED BY <1>e, <1>g, <2>1, <2>2 DEF ChargeInv
<1>4. ASSUME NEW t \in Teams, RecordFails(t) PROVE ChargeInv'
    <2>1. /\ UNCHANGED <<latest, sla, forgotten>> /\ work.team = {t} /\ work' = NoWork
          /\ uncharged' = [uncharged EXCEPT ![t] = uncharged[t] + work.record.sla]
        BY <1>4 DEF RecordFails, tables
    <2>2. uncharged' = [u \in Teams |-> IF work.team = {u} THEN uncharged[u] + work.record.sla
                                        ELSE uncharged[u]]
        BY <1>a, <2>1 DEF BalanceOK
    <2> QED BY <1>g, <2>1, <2>2
<1>5. ASSUME NEW t \in Teams, NEW c \in Checks, ProcessResult(t, c) \/ ProcessAnew(t, c)
      PROVE  ChargeInv'
    <2>0. PICK old \in SlaRow :
              /\ TakeResult(t, c, old) /\ UNCHANGED <<latest, uncharged>>
              /\ \/ old = sla[t][c] /\ forgotten' = forgotten
                 \/ /\ old = NoSla
                    /\ forgotten' = [forgotten EXCEPT ![t] = forgotten[t] + sla[t][c].violations]
        BY <1>5, <1>a, ResultIsTaken
    <2>1. PICK row \in SlaRow, rec \in Record :
              /\ sla' = [sla EXCEPT ![t][c] = row]
              /\ work.team = {t} /\ work'.team = {t} /\ work'.record = rec
              /\ Credits(rec, work.record, latest[t], c, Success(t, c),
                         row.violations - old.violations)
        BY <1>a, <2>0, ResultEffect
    <2> DEFINE f == [d \in Checks |-> sla[t][d].violations]
               h == [d \in Checks |-> sla'[t][d].violations]
    <2>2. /\ rec.sla = work.record.sla + (h[c] - old.violations) /\ old.violations \in Int
          /\ f \in [Checks -> Int] /\ h \in [Checks -> Int]
          /\ \A d \in Checks \ {c} : h[d] = f[d]
        <3>1. rec.sla = work.record.sla + (row.violations - old.violations)
            BY <2>1 DEF Credits
        <3>2. /\ sla'[t] = [sla[t] EXCEPT ![c] = row]
              /\ \A u \in Teams \ {t} : sla'[u] = sla[u]
            BY <1>a, <2>1 DEF TablesOK
        <3>3. sla'[t][c] = row /\ \A d \in Checks \ {c} : sla'[t][d] = sla[t][d]
            BY <1>a, <3>2 DEF TablesOK
        <3>4. \A d \in Checks : sla[t][d].violations \in Int
            BY <1>a DEF TablesOK
        <3>5. row.violations \in Int /\ old.violations \in Int
            BY DEF SlaRow
        <3> QED BY <3>1, <3>3, <3>4, <3>5
    <2>3. forgotten'[t] = forgotten[t] + (f[c] - old.violations)
        <3>1. NoSla.violations = 0 /\ f[c] = sla[t][c].violations /\ f[c] \in Int
            BY <2>2, EmptyTables
        <3> HIDE DEF f
        <3> QED BY <1>a, <1>b, <2>0, <3>1 DEF BalanceOK
    <2> HIDE DEF f, h
    <2>4. SumOver(h, Checks) = SumOver(f, Checks) + (h[c] - f[c])
        BY <2>2, Bounds, SumOfChange
    <2>5. Shown(t) = SumOver(f, Checks) /\ Shown(t)' = SumOver(h, Checks) /\ Shown(t) \in Int
        <3>1. Shown(t)' = SumOver(h, Checks)
            <4>1. Shown(t)' = SumOf(h)
                BY DEF Shown, h
            <4> QED BY <2>2, <4>1, SumOfChecks
        <3> QED BY <1>c, <3>1 DEF f
    <2>6. Charged(t) = latest[t].sla + work.record.sla /\ Charged(t)' = latest[t].sla + rec.sla
        BY <2>0, <2>1 DEF Charged
    <2>7. Charged(t)' + uncharged'[t] = Shown(t)' + forgotten'[t]
        <3>1. Charged(t) + uncharged[t] = Shown(t) + forgotten[t] /\ uncharged'[t] = uncharged[t]
            BY <1>e, <2>0
        <3>2. /\ latest[t].sla \in Int /\ work.record.sla \in Int /\ uncharged[t] \in Int
              /\ forgotten[t] \in Int /\ h[c] \in Int /\ f[c] \in Int
            BY <1>b, <2>2
        <3> HIDE DEF Charged, Shown
        <3> QED BY <2>2, <2>3, <2>4, <2>5, <2>6, <3>1, <3>2
    <2>8. ASSUME NEW u \in Teams, u # t
          PROVE  Charged(u)' + uncharged'[u] = Shown(u)' + forgotten'[u]
        <3>1. sla'[u] = sla[u]
            BY <1>a, <2>1, <2>8 DEF TablesOK
        <3>2. Shown(u)' = Shown(u)
            BY <3>1 DEF Shown
        <3>3. Charged(u)' = Charged(u)
            BY <2>0, <2>1, <2>8 DEF Charged
        <3>4. forgotten'[u] = forgotten[u] /\ uncharged'[u] = uncharged[u]
            BY <1>a, <2>0, <2>8 DEF BalanceOK
        <3> QED BY <1>e, <3>2, <3>3, <3>4
    <2> QED BY <2>7, <2>8 DEF ChargeInv
<1>6. ASSUME NEW t \in Teams, NEW a \in Adjustments, Adjust(t, a) PROVE ChargeInv'
    BY <1>6, <1>d DEF Adjust, tables, balance
<1>7. CASE ResetStep
    <2>1. work' = work /\ (rpc # "idle" => work.team = {})
        BY <1>7, <1>a, <1>b
           DEF ResetStep, ResetLock, ResetResults, ResetRecords, ResetSlas, ResetFails, WorkInv
    <2>2. CASE ResetLock \/ ResetFails
        BY <2>2, <1>d DEF ResetLock, ResetFails, tables, history, balance
    <2>3. CASE ResetResults
        <3>1. /\ UNCHANGED <<sla, forgotten, uncharged>>
              /\ latest' = [t \in Teams |-> [latest[t] EXCEPT !.points = Zero, !.count = Zero]]
            BY <2>3 DEF ResetResults, balance
        <3>2. ASSUME NEW t \in Teams PROVE latest'[t].sla = latest[t].sla
            <4>1. latest[t] \in Record
                BY <1>b
            <4> QED BY <3>1, <4>1 DEF Record
        <3>3. \A t \in Teams : Charged(t)' = Charged(t)
            BY <2>1, <3>2 DEF Charged
        <3> QED BY <1>e, <1>f, <3>1, <3>3 DEF ChargeInv
    <2>4. CASE ResetRecords
        <3>1. /\ UNCHANGED <<sla, forgotten>> /\ work.team = {} /\ work'.team = {}
              /\ latest' = [t \in Teams |-> NoRecord]
              /\ uncharged' = [t \in Teams |-> uncharged[t] + latest[t].sla]
            BY <2>1, <2>4 DEF ResetRecords
        <3>2. ASSUME NEW t \in Teams PROVE Charged(t)' + uncharged'[t] = Charged(t) + uncharged[t]
            <4>1. Charged(t)' = 0 + 0 /\ Charged(t) = latest[t].sla + 0
                BY <1>b, <3>1 DEF Charged
            <4> QED BY <1>b, <3>1, <4>1
        <3> HIDE DEF Charged, Shown
        <3> QED BY <1>e, <1>f, <3>1, <3>2 DEF ChargeInv
    <2>5. CASE ResetSlas
        <3>1. /\ UNCHANGED <<latest, uncharged>>
              /\ sla' = [t \in Teams |-> [c \in Checks |-> NoSla]]
              /\ forgotten' = [t \in Teams |-> forgotten[t] + Shown(t)]
            BY <2>5 DEF ResetSlas
        <3>2. ASSUME NEW t \in Teams PROVE Shown(t)' = 0
            <4>1. \A c \in Checks : sla'[t][c].violations = 0
                BY <3>1, EmptyTables
            <4>2. [c \in Checks |-> sla'[t][c].violations] = Zero
                BY <4>1, Zenon DEF Zero
            <4> QED BY <4>2, EmptyTables DEF Shown
        <3>3. \A t \in Teams : Charged(t)' = Charged(t)
            BY <2>1, <3>1 DEF Charged
        <3>4. \A t \in Teams : Shown(t) \in Int
            BY <1>c
        <3> HIDE DEF Charged, Shown
        <3> QED BY <1>b, <1>e, <3>1, <3>2, <3>3, <3>4 DEF ChargeInv
    <2> QED BY <1>7, <2>2, <2>3, <2>4, <2>5 DEF ResetStep
<1>8. CASE Crash
    <2>1. /\ UNCHANGED <<latest, sla, forgotten>> /\ work' = NoWork
          /\ uncharged' = [t \in Teams |-> IF t \in work.team THEN uncharged[t] + work.record.sla
                                           ELSE uncharged[t]]
        BY <1>8 DEF Crash, tables
    <2>2. \A t \in Teams : t \in work.team <=> work.team = {t}
        BY <1>b DEF Work
    <2> QED BY <1>g, <2>1, <2>2
<1>9. CASE UNCHANGED vars
    BY <1>9, <1>d DEF vars, tables, history, balance
<1> QED BY <1>1, <1>2, <1>3, <1>4, <1>5, <1>6, <1>7, <1>8, <1>9
        DEF Next, RecordStep, ResetStep, BoundReached

LEMMA RecordInvStep == IInv /\ [Next]_vars => RecordInv'
<1> SUFFICES ASSUME IInv, [Next]_vars PROVE RecordInv'
    OBVIOUS
<1>a. TablesOK /\ WorkOK /\ NumbersOK /\ WorkInv /\ RecordInv
    BY DEF IInv
<1>b. NoWork.team = {} /\ NoRecord.points = Zero /\ NoRecord.service = 0
    BY EmptyTables
<1>c. ASSUME work'.team = {} PROVE RecordInv'
    BY <1>c DEF RecordInv
<1>d. ASSUME UNCHANGED <<latest, staged, work>> PROVE RecordInv'
    BY <1>a, <1>d DEF RecordInv, Success
<1>e. lpc # "processing" => work = NoWork
    BY <1>a DEF WorkInv
<1>1. CASE Collect \/ DropRound \/ BeginProcessing \/ EndProcessing
    BY <1>1, <1>b, <1>c, <1>e DEF Collect, DropRound, BeginProcessing, EndProcessing
<1>2. ASSUME NEW t \in Teams, BeginRecord(t) PROVE RecordInv'
    <2>1. work'.team = {t} /\ work'.left = Checks /\ work'.record = NoRecord
        BY <1>2 DEF BeginRecord
    <2>2. [c \in Checks |-> IF c \in work'.left THEN 0 ELSE latest'[t].points[c]] = Zero
        BY <2>1, Zenon DEF Zero
    <2>3. \A c \in Checks : Zero[c] = 0
        BY EmptyTables
    <2>4. SumOf(work'.record.points) = 0 + 0
        BY <1>b, <2>1, EmptyTables
    <2>5. SumOf(work'.record.points) = work'.record.service
              + SumOf([c \in Checks |-> IF c \in work'.left THEN 0 ELSE latest'[t].points[c]])
        BY <1>b, <2>1, <2>2, <2>4, EmptyTables
    <2>6. \A u \in Teams : work'.team = {u} => u = t
        BY <2>1
    <2>7. \A c \in Checks : c \in work'.left /\ work'.record.points[c] = 0
        BY <1>b, <2>1, <2>3
    <2> QED BY <2>5, <2>6, <2>7 DEF RecordInv
<1>3. ASSUME NEW t \in Teams, CreateRecord(t) \/ RecordFails(t) PROVE RecordInv'
    BY <1>3, <1>b, <1>c DEF CreateRecord, RecordFails
<1>4. ASSUME NEW t \in Teams, NEW c \in Checks, ProcessResult(t, c) \/ ProcessAnew(t, c)
      PROVE  RecordInv'
    <2>0. PICK base \in SlaRow : TakeResult(t, c, base) /\ UNCHANGED <<latest, staged>>
        BY <1>4, <1>a, ResultIsTaken
    <2>1. PICK row \in SlaRow, rec \in Record :
              /\ work.team = {t} /\ c \in work.left
              /\ work'.team = {t} /\ work'.left = work.left \ {c} /\ work'.record = rec
              /\ Credits(rec, work.record, latest[t], c, Success(t, c),
                         row.violations - base.violations)
        BY <1>a, <2>0, ResultEffect
    <2> DEFINE p == work.record.points
               q == rec.points
               one == Success(t, c)
               old == latest[t].points
               f == [d \in Checks |-> IF d \in work.left THEN 0 ELSE old[d]]
               h == [d \in Checks |-> IF d \in work'.left THEN 0 ELSE old[d]]
    <2>2. UNCHANGED <<latest, staged>>
        BY <2>0
    <2>3. one \in Int /\ p \in [Checks -> Nat] /\ q \in [Checks -> Nat] /\ old \in [Checks -> Nat]
          /\ work.record.service \in Int /\ rec.count \in [Checks -> Nat]
          /\ work.record.count \in [Checks -> Nat]
        <3>1. work.record \in Record /\ latest[t] \in Record
            BY <1>a DEF WorkOK, TablesOK
        <3> QED BY <3>1 DEF Record, Success
    <2>4. /\ q = [p EXCEPT ![c] = old[c] + one]
          /\ rec.count = [work.record.count EXCEPT ![c] = latest[t].count[c] + 1]
          /\ rec.service = work.record.service + one
        BY <2>1, Zenon DEF Credits
    <2>5. /\ \A d \in Checks : d \in work.left => p[d] = 0
          /\ \A d \in Checks : d \notin work.left =>
                p[d] = old[d] + Success(t, d) /\ work.record.count[d] = latest[t].count[d] + 1
          /\ SumOf(p) = work.record.service + SumOf(f)
        BY <1>a, <2>1 DEF RecordInv
    <2> HIDE DEF p, q, one
    <2>6. /\ f \in [Checks -> Int] /\ h \in [Checks -> Int]
          /\ f[c] = 0 /\ h[c] = old[c] /\ \A d \in Checks \ {c} : h[d] = f[d]
        <3> HIDE DEF old
        <3>1. f \in [Checks -> Int] /\ h \in [Checks -> Int]
            BY <2>3
        <3>2. f[c] = 0 /\ h[c] = old[c] /\ \A d \in Checks \ {c} : h[d] = f[d]
            BY <2>1
        <3> QED BY <3>1, <3>2
    <2>7. SumOver(h, Checks) = SumOver(f, Checks) + old[c]
        <3> HIDE DEF f, h
        <3>1. SumOver(h, Checks) = SumOver(f, Checks) + (h[c] - f[c])
            BY <2>6, Bounds, SumOfChange
        <3>2. h[c] - f[c] = old[c]
            BY <2>3, <2>6
        <3> QED BY <3>1, <3>2
    <2>8. SumOver(q, Checks) = SumOver(p, Checks) + (old[c] + one)
        <3>1. p \in [Checks -> Int] /\ q \in [Checks -> Int] /\ \A d \in Checks \ {c} : q[d] = p[d]
            BY <2>3, <2>4
        <3>2. SumOver(q, Checks) = SumOver(p, Checks) + (q[c] - p[c])
            BY <3>1, Bounds, SumOfChange
        <3>3. q[c] = old[c] + one /\ p[c] = 0
            BY <2>1, <2>3, <2>4, <2>5
        <3>4. q[c] - p[c] = old[c] + one
            BY <2>3, <3>3
        <3> QED BY <3>2, <3>4
    <2>9. /\ SumOf(p) = SumOver(p, Checks) /\ SumOf(q) = SumOver(q, Checks)
          /\ SumOf(f) = SumOver(f, Checks) /\ SumOf(h) = SumOver(h, Checks)
          /\ SumOver(f, Checks) \in Int
        <3>1. DOMAIN p = Checks /\ DOMAIN q = Checks
            BY <2>3
        <3> HIDE DEF f, h
        <3>2. DOMAIN f = Checks /\ DOMAIN h = Checks
            BY <2>6
        <3> QED BY <2>6, <3>1, <3>2, SumOfChecks, SumType, Bounds
    <2> HIDE DEF f, h
    <2>10. SumOf(q) = rec.service + SumOf(h)
        <3>1. old[c] \in Int /\ one \in Int /\ work.record.service \in Int
            BY <2>3
        <3> HIDE DEF old
        <3>2. SumOf(q) = SumOf(p) + (old[c] + one) /\ SumOf(h) = SumOf(f) + old[c]
            BY <2>7, <2>8, <2>9
        <3>3. SumOf(p) = work.record.service + SumOf(f) /\ SumOf(f) \in Int
            BY <2>5, <2>9
        <3>4. rec.service = work.record.service + one
            BY <2>4
        <3> QED BY <3>1, <3>2, <3>3, <3>4
    <2>11. \A d \in Checks : /\ d \in work'.left => q[d] = 0
                             /\ d \notin work'.left =>
                                   /\ q[d] = old[d] + Success(t, d)
                                   /\ rec.count[d] = latest[t].count[d] + 1
        <3>1. q[c] = old[c] + Success(t, c) /\ rec.count[c] = latest[t].count[c] + 1
            BY <2>3, <2>4 DEF one
        <3>2. ASSUME NEW d \in Checks, d # c
              PROVE  q[d] = p[d] /\ rec.count[d] = work.record.count[d]
                     /\ (d \in work'.left <=> d \in work.left)
            BY <2>1, <2>3, <2>4, <3>2
        <3>3. c \notin work'.left
            BY <2>1
        <3> HIDE DEF old
        <3> QED BY <2>5, <3>1, <3>2, <3>3
    <2>12. \A u \in Teams : work'.team = {u} => u = t
        BY <2>1
    <2>13. \A d \in Checks : Success(t, d)' = Success(t, d)
        BY <2>2 DEF Success
    <2>14. SumOf(work'.record.points) = work'.record.service
              + SumOf([d \in Checks |-> IF d \in work'.left THEN 0 ELSE latest'[t].points[d]])
        BY <2>1, <2>2, <2>10 DEF q, h
    <2>15. \A d \in Checks :
              /\ d \in work'.left => work'.record.points[d] = 0
              /\ d \notin work'.left =>
                    /\ work'.record.points[d] = latest'[t].points[d] + Success(t, d)'
                    /\ work'.record.count[d] = latest'[t].count[d] + 1
        BY <2>1, <2>2, <2>11, <2>13 DEF q
    <2> QED BY <2>12, <2>14, <2>15 DEF RecordInv
<1>5. ASSUME NEW t \in Teams, NEW a \in Adjustments, Adjust(t, a) PROVE RecordInv'
    BY <1>5, <1>d DEF Adjust, tables
<1>6. CASE ResetStep
    <2>1. work.team = {} /\ work' = work
        BY <1>6, <1>a, <1>b, <1>e
           DEF ResetStep, ResetLock, ResetResults, ResetRecords, ResetSlas, ResetFails, WorkInv
    <2> QED BY <1>c, <2>1
<1>7. CASE Crash
    BY <1>7, <1>b, <1>c DEF Crash
<1>8. CASE UNCHANGED vars
    BY <1>8, <1>d DEF vars, tables
<1> QED BY <1>1, <1>2, <1>3, <1>4, <1>5, <1>6, <1>7, <1>8
        DEF Next, RecordStep, ResetStep, BoundReached

LEMMA SlaCounts == SlaByRuns <=> \A t \in Teams, c \in Checks : Counts(sla[t][c], outcomes[t][c])
BY Zenon DEF SlaByRuns, Counts, Violating

LEMMA SlaStep == IInv /\ [Next]_vars => SlaByRuns'
<1> SUFFICES ASSUME IInv, [Next]_vars PROVE SlaByRuns'
    OBVIOUS
<1>a. TablesOK /\ WorkOK /\ SequencesOK
      /\ \A t \in Teams, c \in Checks : Counts(sla[t][c], outcomes[t][c])
    BY SlaCounts DEF IInv
<1>b. SlaByRuns' <=> \A t \in Teams, c \in Checks : Counts(sla'[t][c], outcomes'[t][c])
    BY Zenon DEF SlaByRuns, Counts, Violating
<1>c. ASSUME UNCHANGED <<sla, outcomes>> PROVE SlaByRuns'
    BY <1>a, <1>b, <1>c
<1>1. CASE Collect \/ DropRound \/ BeginProcessing \/ EndProcessing
    BY <1>1, <1>c DEF Collect, DropRound, BeginProcessing, EndProcessing, tables, history, tallies
<1>2. ASSUME NEW t \in Teams, BeginRecord(t) \/ CreateRecord(t) \/ RecordFails(t) PROVE SlaByRuns'
    BY <1>2, <1>c DEF BeginRecord, CreateRecord, RecordFails, tables, history, tallies
<1>3. ASSUME NEW t \in Teams, NEW c \in Checks, ProcessResult(t, c) \/ ProcessAnew(t, c)
      PROVE  SlaByRuns'
    <2>0. PICK old \in SlaRow :
              /\ TakeResult(t, c, old)
              /\ \/ /\ old = sla[t][c]
                    /\ outcomes' = [outcomes EXCEPT ![t][c] = Append(outcomes[t][c], staged[t][c])]
                 \/ /\ old = NoSla
                    /\ outcomes' = [outcomes EXCEPT ![t][c] = <<staged[t][c]>>]
        BY <1>3, <1>a, ResultIsTaken
    <2>1. PICK row \in SlaRow : /\ row = SlaAfter(old, staged[t][c])
                                /\ sla' = [sla EXCEPT ![t][c] = row]
        BY <1>a, <2>0, ResultEffect
    <2> DEFINE up == staged[t][c]
    <2>2. PICK s \in Seq(BOOLEAN) : /\ Counts(old, s)
                                    /\ outcomes' = [outcomes EXCEPT ![t][c] = Append(s, up)]
        <3>1. outcomes[t][c] \in Seq(BOOLEAN) /\ Counts(sla[t][c], outcomes[t][c])
            BY <1>a DEF SequencesOK
        <3>2. <<>> \in Seq(BOOLEAN) /\ <<up>> = Append(<<>>, up)
            OBVIOUS
        <3> HIDE DEF up
        <3>3. CASE old = sla[t][c]
                   /\ outcomes' = [outcomes EXCEPT ![t][c] = Append(outcomes[t][c], up)]
            BY <3>1, <3>3
        <3>4. CASE old = NoSla /\ outcomes' = [outcomes EXCEPT ![t][c] = <<up>>]
            BY <3>2, <3>4, NoResultsCount
        <3> QED BY <2>0, <3>3, <3>4 DEF up
    <2>3. up \in BOOLEAN
        BY <1>a DEF TablesOK
    <2>4. Counts(row, Append(s, up))
        BY <2>1, <2>2, <2>3, SlaAfterCounts
    <2> HIDE DEF up
    <2>5. ASSUME NEW u \in Teams, NEW d \in Checks PROVE Counts(sla'[u][d], outcomes'[u][d])
        <3>1. CASE u = t /\ d = c
            <4>1. sla'[u][d] = row
                BY <1>a, <2>1, <3>1 DEF TablesOK
            <4>2. outcomes'[u][d] = Append(s, up)
                BY <1>a, <2>2, <3>1 DEF SequencesOK
            <4> QED BY <2>4, <4>1, <4>2
        <3>2. CASE ~(u = t /\ d = c)
            <4>1. sla'[u][d] = sla[u][d]
                BY <1>a, <2>1, <3>2 DEF TablesOK
            <4>2. outcomes'[u][d] = outcomes[u][d]
                BY <1>a, <2>2, <3>2 DEF SequencesOK
            <4> QED BY <1>a, <4>1, <4>2
        <3> QED BY <3>1, <3>2
    <2> QED BY <1>b, <2>5
<1>4. ASSUME NEW t \in Teams, NEW a \in Adjustments, Adjust(t, a) PROVE SlaByRuns'
    BY <1>4, <1>c DEF Adjust, tables, tallies
<1>5. CASE ResetStep
    <2>1. CASE ResetLock \/ ResetResults \/ ResetRecords \/ ResetFails
        BY <2>1, <1>c DEF ResetLock, ResetResults, ResetRecords, ResetFails, tables, history, tallies
    <2>2. CASE ResetSlas
        BY <2>2, <1>b, NoResultsCount DEF ResetSlas
    <2> QED BY <1>5, <2>1, <2>2 DEF ResetStep
<1>6. CASE Crash
    BY <1>6, <1>c DEF Crash, tables, tallies
<1>7. CASE UNCHANGED vars
    BY <1>7, <1>c DEF vars, tables, history, tallies
<1> QED BY <1>1, <1>2, <1>3, <1>4, <1>5, <1>6, <1>7 DEF Next, RecordStep, ResetStep, BoundReached

LEMMA PointsStep == IInv /\ [Next]_vars => PointsAreHistory'
<1> SUFFICES ASSUME IInv, [Next]_vars PROVE PointsAreHistory'
    OBVIOUS
<1>a. TablesOK /\ WorkOK /\ SequencesOK /\ NumbersOK /\ BalanceOK /\ RecordInv /\ PointsAreHistory
    BY DEF IInv
<1> DEFINE Kept(row, s, n) == /\ row.service = SumOf(row.points) + n
                              /\ \A c \in Checks :
                                    /\ row.count[c] = Len(s[c])
                                    /\ row.points[c] = Cardinality(Successes(s[c]))
<1>b. \A t \in Teams : Kept(latest[t], recorded[t], unlisted[t])
    BY <1>a DEF PointsAreHistory, Successes
<1>c. ASSUME \A t \in Teams : Kept(latest'[t], recorded'[t], unlisted'[t]) PROVE PointsAreHistory'
    BY <1>c DEF PointsAreHistory, Successes
<1>d. ASSUME UNCHANGED <<latest, recorded, unlisted>> PROVE PointsAreHistory'
    BY <1>b, <1>c, <1>d
<1>1. CASE Collect \/ DropRound \/ BeginProcessing \/ EndProcessing
    BY <1>1, <1>d DEF Collect, DropRound, BeginProcessing, EndProcessing, tables, history, tallies
<1>2. ASSUME NEW t \in Teams, BeginRecord(t) \/ RecordFails(t) PROVE PointsAreHistory'
    BY <1>2, <1>d DEF BeginRecord, RecordFails, tables, history, tallies
<1>3. ASSUME NEW t \in Teams, CreateRecord(t) PROVE PointsAreHistory'
    <2>1. PICK rec \in Record : /\ latest' = [latest EXCEPT ![t] = rec]
                                /\ work.team = {t} /\ work.left = {}
                                /\ Carries(rec, work.record, latest[t], pending[t])
        BY <1>3, <1>a, CreateEffect
    <2> DEFINE old == latest[t]
               s == recorded[t]
               r == [c \in Checks |-> Append(s[c], staged[t][c])]
    <2>2. recorded' = [recorded EXCEPT ![t] = r] /\ unlisted' = unlisted
        BY <1>3 DEF CreateRecord
    <2>3. /\ old \in Record /\ s \in [Checks -> Seq(BOOLEAN)]
          /\ old.service \in Nat /\ old.points \in [Checks -> Nat]
          /\ \A c \in Checks : staged[t][c] \in BOOLEAN
        <3>1. old \in Record
            BY <1>a DEF TablesOK
        <3>2. s \in [Checks -> Seq(BOOLEAN)] /\ \A c \in Checks : staged[t][c] \in BOOLEAN
            BY <1>a DEF TablesOK, SequencesOK
        <3> QED BY <3>1, <3>2 DEF Record
    <2>4. work.record \in Record /\ work.record.service \in Nat
        BY <1>a DEF WorkOK, Record
    <2>5. /\ rec.points = work.record.points /\ rec.count = work.record.count
          /\ rec.service = work.record.service + old.service
        BY <2>1 DEF Carries
    <2>6. [c \in Checks |-> IF c \in work.left THEN 0 ELSE latest[t].points[c]] = old.points
        <3>1. \A c \in Checks : (IF c \in work.left THEN 0 ELSE latest[t].points[c]) = old.points[c]
            BY <2>1
        <3> QED BY <2>3, <3>1
    <2>7. /\ SumOf(rec.points) = work.record.service + SumOf(old.points)
          /\ \A c \in Checks : /\ rec.points[c] = old.points[c] + Success(t, c)
                               /\ rec.count[c] = old.count[c] + 1
        BY <1>a, <2>1, <2>5, <2>6 DEF RecordInv
    <2>8. Kept(old, s, unlisted[t]) /\ unlisted[t] \in Nat
        BY <1>a, <1>b DEF BalanceOK
    <2>9. rec.service = SumOf(rec.points) + unlisted[t]
        <3>1. SumOf(old.points) \in Int
            <4>1. old.points \in [Checks -> Int] /\ DOMAIN old.points = Checks
                BY <2>3
            <4> QED BY <4>1, SumOfChecks, SumType, Bounds
        <3> QED BY <2>3, <2>4, <2>5, <2>7, <2>8, <3>1
    <2>10. ASSUME NEW c \in Checks
           PROVE  /\ rec.count[c] = Len(r[c])
                  /\ rec.points[c] = Cardinality(Successes(r[c]))
        <3>1. s[c] \in Seq(BOOLEAN) /\ staged[t][c] \in BOOLEAN /\ r[c] = Append(s[c], staged[t][c])
            BY <2>3
        <3>2. Len(r[c]) = Len(s[c]) + 1
            BY <3>1
        <3>3. Cardinality(Successes(r[c])) = Cardinality(Successes(s[c])) + Success(t, c)
            BY <3>1, NextSuccesses DEF Success
        <3> QED BY <2>7, <2>8, <3>2, <3>3
    <2>11. Kept(rec, r, unlisted[t])
        BY <2>9, <2>10
    <2> HIDE DEF Kept, r
    <2>12. ASSUME NEW u \in Teams PROVE Kept(latest'[u], recorded'[u], unlisted'[u])
        <3>1. CASE u = t
            BY <1>a, <2>1, <2>2, <2>11, <3>1 DEF TablesOK, SequencesOK
        <3>2. CASE u # t
            <4>1. latest'[u] = latest[u] /\ recorded'[u] = recorded[u] /\ unlisted'[u] = unlisted[u]
                BY <1>a, <2>1, <2>2, <3>2 DEF TablesOK, SequencesOK
            <4> QED BY <1>b, <4>1
        <3> QED BY <3>1, <3>2
    <2> QED BY <1>c, <2>12 DEF Kept
<1>4. ASSUME NEW t \in Teams, NEW c \in Checks, ProcessResult(t, c) \/ ProcessAnew(t, c)
      PROVE  PointsAreHistory'
    <2>1. UNCHANGED <<latest, recorded, unlisted>>
        BY <1>4, <1>a, ResultIsTaken
    <2> QED BY <1>d, <2>1
<1>5. ASSUME NEW t \in Teams, NEW a \in Adjustments, Adjust(t, a) PROVE PointsAreHistory'
    BY <1>5, <1>d DEF Adjust, tables, tallies
<1>6. CASE ResetStep
    <2>1. CASE ResetLock \/ ResetSlas \/ ResetFails
        BY <2>1, <1>d DEF ResetLock, ResetSlas, ResetFails, tables, history, tallies
    <2>2. CASE ResetResults
        <3>1. Cardinality(Successes(<<>>)) = 0 /\ Len(<<>>) = 0
            BY FS_EmptySet DEF Successes
        <3>2. ASSUME NEW t \in Teams
              PROVE  Kept(latest'[t], recorded'[t], unlisted'[t])
            <4>1. latest[t] \in Record
                BY <1>a DEF TablesOK
            <4>2. latest'[t] = [latest[t] EXCEPT !.points = Zero, !.count = Zero]
                  /\ recorded'[t] = [c \in Checks |-> <<>>] /\ unlisted'[t] = latest[t].service
                BY <2>2 DEF ResetResults
            <4>3. /\ latest'[t].points = Zero /\ latest'[t].count = Zero
                  /\ latest'[t].service = latest[t].service /\ latest[t].service \in Nat
                BY <4>1, <4>2 DEF Record
            <4> QED BY <3>1, <4>2, <4>3, EmptyTables
        <3> QED BY <1>c, <3>2
    <2>3. CASE ResetRecords
        <3>1. \A t \in Teams : /\ latest'[t] = NoRecord /\ unlisted'[t] = 0
                               /\ \A c \in Checks : recorded'[t][c] = <<>>
            BY <2>3 DEF ResetRecords
        <3>2. Cardinality(Successes(<<>>)) = 0 /\ Len(<<>>) = 0
            BY FS_EmptySet DEF Successes
        <3> QED BY <1>c, <3>1, <3>2, EmptyTables
    <2> QED BY <1>6, <2>1, <2>2, <2>3 DEF ResetStep
<1>7. CASE Crash
    BY <1>7, <1>d DEF Crash, tables, tallies
<1>8. CASE UNCHANGED vars
    BY <1>8, <1>d DEF vars, tables, history, tallies
<1> QED BY <1>1, <1>2, <1>3, <1>4, <1>5, <1>6, <1>7, <1>8 DEF Next, RecordStep, ResetStep, BoundReached

LEMMA InitIInv == Init => IInv
<1> SUFFICES ASSUME Init PROVE IInv
    OBVIOUS
<1>1. /\ latest = [t \in Teams |-> NoRecord]
      /\ sla = [t \in Teams |-> [c \in Checks |-> NoSla]]
      /\ pending = [t \in Teams |-> 0] /\ given = [t \in Teams |-> 0] /\ lost = [t \in Teams |-> 0]
      /\ lpc = "idle" /\ staged = NoResults /\ todo = {} /\ work = NoWork
      /\ outcomes = [t \in Teams |-> [c \in Checks |-> <<>>]]
      /\ recorded = [t \in Teams |-> [c \in Checks |-> <<>>]]
      /\ applied = {} /\ rpc = "idle"
      /\ forgotten = [t \in Teams |-> 0] /\ uncharged = [t \in Teams |-> 0]
      /\ unlisted = [t \in Teams |-> 0]
    BY DEF Init
<1>2. TablesOK
    BY <1>1, EmptyTables DEF TablesOK, NoResults
<1>3. WorkOK
    BY <1>1, EmptyTables DEF WorkOK
<1>4. SequencesOK
    <2>1. <<>> \in Seq(BOOLEAN)
        OBVIOUS
    <2> QED BY <1>1, <2>1 DEF SequencesOK
<1>5. NumbersOK
    BY DEF Init, NumbersOK
<1>6. WorkInv
    BY <1>1, EmptyTables DEF WorkInv
<1>7. AdjustInv
    BY <1>1, EmptyTables DEF AdjustInv
<1>8. ChargeInv
    <2>1. ASSUME NEW t \in Teams PROVE Charged(t) = 0
        BY <1>1, EmptyTables DEF Charged
    <2>2. ASSUME NEW t \in Teams PROVE Shown(t) = 0
        <3>1. \A c \in Checks : sla[t][c].violations = 0
            BY <1>1, EmptyTables
        <3>2. [c \in Checks |-> sla[t][c].violations] = Zero
            BY <3>1, Zenon DEF Zero
        <3> QED BY <3>2, EmptyTables DEF Shown
    <2> QED BY <1>1, <2>1, <2>2 DEF ChargeInv
<1>9. RecordInv
    <2>1. work.team = {}
        BY <1>1, EmptyTables
    <2> QED BY <2>1 DEF RecordInv
<1>10. SlaByRuns
    BY <1>1, SlaCounts, NoResultsCount
<1>11. PointsAreHistory
    <2>1. Cardinality(Successes(<<>>)) = 0 /\ Len(<<>>) = 0
        BY FS_EmptySet DEF Successes
    <2>2. \A t \in Teams : latest[t] = NoRecord /\ \A c \in Checks : recorded[t][c] = <<>>
        BY <1>1
    <2>3. ASSUME NEW t \in Teams, NEW c \in Checks
          PROVE  /\ latest[t].count[c] = Len(recorded[t][c])
                 /\ latest[t].points[c] = Cardinality({i \in DOMAIN recorded[t][c] : recorded[t][c][i]})
        <3>1. latest[t].count[c] = 0 /\ latest[t].points[c] = 0
            BY <2>2, EmptyTables
        <3>2. Cardinality(Successes(recorded[t][c])) = 0 /\ Len(recorded[t][c]) = 0
            BY <2>1, <2>2
        <3> QED BY <3>1, <3>2 DEF Successes
    <2>4. \A t \in Teams : latest[t].service = SumOf(latest[t].points) + unlisted[t]
        BY <1>1, <2>2, EmptyTables
    <2> QED BY <2>3, <2>4 DEF PointsAreHistory
<1>12. BalanceOK
    BY <1>1 DEF BalanceOK
<1> QED BY <1>2, <1>3, <1>4, <1>5, <1>6, <1>7, <1>8, <1>9, <1>10, <1>11, <1>12 DEF IInv

LEMMA Inductive == IInv /\ [Next]_vars => IInv'
<1> SUFFICES ASSUME IInv, [Next]_vars PROVE IInv'
    OBVIOUS
<1>1. TablesOK' /\ WorkOK' /\ SequencesOK' /\ NumbersOK' /\ BalanceOK'
    BY TablesStep, WorkStep, SequencesStep, NumbersStep, BalanceStep
<1>2. WorkInv' /\ AdjustInv' /\ ChargeInv' /\ RecordInv'
    BY WorkInvStep, AdjustStep, ChargeStep, RecordInvStep
<1>3. SlaByRuns' /\ PointsAreHistory'
    BY SlaStep, PointsStep
<1> QED BY <1>1, <1>2, <1>3 DEF IInv

LEMMA Invariance == Spec => []IInv
BY InitIInv, Inductive, PTL DEF Spec

-----------------------------------------------------------------------------
(* The theorems *)

\* The tables, the record at work and the histories keep their types; the count of failures of
\* a slas row stays below the threshold.
THEOREM TypeCorrect == Spec => []TypeOK
<1>1. IInv => TypeOK
    BY TypeParts DEF IInv
<1> QED BY Invariance, <1>1, PTL

\* A check is charged with one violation for each SlaThreshold failures in a row since its slas
\* row was made, for every threshold, whatever the results of the rounds are and however often a
\* database error has the row made anew (score.go:225-251).
THEOREM SlaByRunsAlways == Spec => []SlaByRuns
<1>1. IInv => SlaByRuns
    BY DEF IInv
<1> QED BY Invariance, <1>1, PTL

\* Between rounds the violations a team has ever been shown and those it has ever been charged
\* with are the same: each is in its newest row and in a row of slas, but for the records that
\* failed, were cut short or deleted and for the slas rows made anew or deleted
\* (score.go:217-282, util.go:212-214).
THEOREM RecordMatchesSlaAlways == Spec => []RecordMatchesSla
<1>1. IInv => RecordMatchesSla
    <2> SUFFICES ASSUME IInv, lpc # "processing", NEW t \in Teams
                 PROVE  latest[t].sla + uncharged[t] = Shown(t) + forgotten[t]
        BY DEF RecordMatchesSla
    <2>1. work.team = {} /\ latest[t].sla \in Nat
        BY EmptyTables DEF IInv, WorkInv, TablesOK, Record
    <2>2. Charged(t) = latest[t].sla
        BY <2>1 DEF Charged
    <2> QED BY <2>2 DEF IInv, ChargeInv
<1> QED BY Invariance, <1>1, PTL

\* The points and the round counts of a team are those of the rows saved for it, and the service
\* points are their sum but for what a reset has left without results, whatever errors and
\* crashes there are (score.go:232-271, util.go:211-212).
THEOREM PointsAreHistoryAlways == Spec => []PointsAreHistory
<1>1. IInv => PointsAreHistory
    BY DEF IInv
<1> QED BY Invariance, <1>1, PTL

\* Between rounds every adjustment submitted is in the team's newest row once, waits for the next
\* round or has been lost with the process or with a record that failed (score.go:168-172, 262-266).
THEOREM AdjustedOnceAlways == Spec => []AdjustedOnce
<1>1. IInv => AdjustedOnce
    <2> SUFFICES ASSUME IInv, lpc # "processing", NEW t \in Teams
                 PROVE  given[t] = latest[t].adjustment + pending[t] + lost[t]
        BY DEF AdjustedOnce
    <2>1. given[t] = latest[t].adjustment + lost[t] + pending[t]
        BY DEF IInv, AdjustInv
    <2>2. latest[t].adjustment \in Int /\ lost[t] \in Int /\ pending[t] \in Int
        BY DEF IInv, TablesOK, NumbersOK, Record
    <2> QED BY <2>1, <2>2
<1> QED BY Invariance, <1>1, PTL
=============================================================================
