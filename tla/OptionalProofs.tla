--------------------------- MODULE OptionalProofs ---------------------------
(***************************************************************************)
(* TLAPS proofs about Optional, for any number of teams, boxes and modes:  *)
(* a call is kept until it has been paid for, and is paid for once; what   *)
(* teams have lost and stolen is what the rows of persists amount to, in   *)
(* every step of the pass that adds it up; uptime violations are charged   *)
(* as they are saved.                                                      *)
(***************************************************************************)
EXTENDS Optional, SetLemmas, SequenceTheorems, TLAPS

Staged == [up : [Boxes -> 0..MaxUp], sla : Nat]
Read == [row : Row, persists : SUBSET Persist]
SlaRow == [time : 0..MaxClock, violations : Nat]

\* TypeOK in parts, which the provers take one at a time.
TablesOK ==
    /\ rows \subseteq Row
    /\ slas \in [Pairs -> SlaRow]
    /\ persists \subseteq Persist

MemoryOK ==
    /\ dwConf \in Modes
    /\ persistHits \in [Pairs -> SUBSET Teams]
    /\ agentHits \in [Pairs -> Epoch..MaxClock]
    /\ lpc \in {"idle", "staged", "uptime", "processing", "settle", "dead", "down"}
    /\ clock \in Epoch..MaxClock
    /\ torn \in BOOLEAN

PassOK ==
    /\ staged \in [Teams -> Staged]
    /\ left \subseteq IF lpc = "processing" THEN Teams ELSE Pairs
    /\ records \in Seq(Read)

NumbersOK == rounds \in Nat /\ hits \in Nat /\ agents \in Nat /\ troubles \in Nat

\* A round that is under way has a number, and only its own rows have it.
RoundInv ==
    /\ rounds <= MaxRounds
    /\ lpc \in {"staged", "uptime", "processing", "settle"} => rounds >= 1

RowsInv ==
    /\ IsFiniteSet(rows)
    /\ \A r, q \in rows : r.time = q.time /\ r.team = q.team => r = q
    /\ \A r \in rows : /\ r.time <= rounds
                       /\ lpc \in {"staged", "uptime"} => r.time < rounds
                       /\ lpc = "processing" /\ r.team \in left => r.time < rounds

\* What calculatePersists has read is what it will save over.
ReadInv ==
    lpc = "settle" =>
        \A i \in DOMAIN records : \E r \in rows : /\ r.time = records[i].row.time
                                                  /\ r.team = records[i].row.team
                                                  /\ r.sla = records[i].row.sla

\* Violations that are in the slas rows and not yet in a row of team_records.
StagedInv == lpc \in {"idle", "staged", "settle", "down"} => \A t \in Teams : staged[t].sla = 0

Extra(t) == IF Open(t) THEN staged[t].sla ELSE 0
Charged(t) == Newest(t).sla + Extra(t) + uncharged[t]

ChargeInv == \A t \in Teams : Charged(t) = Shown(t) + forgotten[t]

BalanceOK ==
    /\ forgotten \in [Teams -> Nat] /\ uncharged \in [Teams -> Nat]
    /\ unsettled \subseteq Teams

\* The row of persists that a call is paid for with.
Receipt(p, o) == [round |-> rounds, team |-> p[1], box |-> p[2], offender |-> o]
Receipts == {Receipt(call[1], call[2]) : call \in Calls}

HitsInv ==
    /\ ~dwConf.persists => \A p \in Pairs : persistHits[p] = {}
    /\ lpc = "settle" =>
          \A p \in Pairs : \A o \in persistHits[p] :
              \/ p \in left \/ Receipt(p, o) \in persists \/ p[1] \in unsettled
              \/ \E i \in DOMAIN records : Receipt(p, o) \in records[i].persists

\* Until persistHits is made anew, the calls of this round are not counted twice.
PaidInv ==
    /\ IsFiniteSet(persists)
    /\ Cardinality(persists \ Receipts) + Cardinality(Calls) <= hits
    /\ lpc \notin {"settle", "down"} => Cardinality(persists) + Cardinality(Calls) <= hits
    /\ lpc = "settle" => \A i \in DOMAIN records : records[i].persists \subseteq Receipts

\* The rows of persists of all rounds, those included that the round at work is going to save,
\* and what they amount to for each team.
Saving == persists \cup UNION {records[i].persists : i \in DOMAIN records}

Parties(P, p) == {q \in P : q.round = p.round /\ q.team = p.team /\ q.box = p.box}
RowOf(R, p) == CHOOSE r \in R : r.time = p.round /\ r.team = p.team
WorthIn(R, P, p) == Share(RowOf(R, p).up[p.box], Cardinality(Parties(P, p)))

TotalOf(R, P, S) == SumOf([p \in S |-> WorthIn(R, P, p)])
Lost(R, P, t) == TotalOf(R, P, {p \in P : p.team = t})
Stolen(R, P, t) == TotalOf(R, P, {p \in P : p.offender = t})

\* The row with a team's points: the one that is going to be saved, or the newest.
Saved == N - Len(records)
Account(t) == IF t > Saved THEN records[t - Saved].row ELSE Newest(t)

PointsInv ==
    ~torn => \A t \in Teams : /\ Account(t).lost = Lost(rows, Saving, t)
                              /\ Account(t).stolen = Stolen(rows, Saving, t)

\* Nobody persists on himself, and the rows of persists are of rounds that have been scored.
PastInv ==
    /\ lpc # "settle" => records = <<>>
    /\ \A p \in Pairs : p[1] \notin persistHits[p]
    /\ \A p \in persists : /\ p.round <= rounds
                           /\ lpc \in {"staged", "uptime", "processing"} => p.round < rounds

\* If no record is missing, the slice of records is the rows of this round, one for each team
\* in the order of the teams, and what a box has left to settle is in none of them.
HasRow(R, time, t) == \E r \in R : r.time = time /\ r.team = t

SliceInv ==
    ~torn =>
        /\ \A p \in Saving : HasRow(rows, p.round, p.team)
        /\ lpc = "processing" => \A t \in Teams \ left : HasRow(rows, rounds, t)
        /\ lpc = "settle" =>
              /\ \A t \in Teams : HasRow(rows, rounds, t)
              /\ Len(records) <= N /\ (left # {} => Len(records) = N)
              /\ \A i \in DOMAIN records :
                    /\ records[i].row.team = Saved + i /\ records[i].row.time = rounds
                    /\ \E r \in rows : /\ r.time = rounds /\ r.team = Saved + i
                                       /\ r.up = records[i].row.up
              /\ \A p \in left, q \in Saving :
                    ~(q.round = rounds /\ q.team = p[1] /\ q.box = p[2])

IInv ==
    /\ TablesOK /\ MemoryOK /\ PassOK /\ NumbersOK /\ BalanceOK
    /\ RoundInv /\ RowsInv /\ ReadInv /\ StagedInv
    /\ ChargeInv /\ HitsInv /\ PaidInv
    /\ PastInv /\ SliceInv /\ PointsInv

-----------------------------------------------------------------------------
(* The constants, types and rows *)

LEMMA Bounds ==
    /\ N \in Nat /\ N # 0 /\ IsFiniteSet(Boxes) /\ MaxUp \in Nat /\ ServicePoints \in Nat
    /\ UptimeSLA \in Nat /\ MaxClock \in Nat /\ UptimeSLA < MaxClock /\ MaxRounds \in Nat
BY ConstantsAssumption

LEMMA TypeParts == TypeOK <=> TablesOK /\ MemoryOK /\ PassOK /\ NumbersOK /\ BalanceOK
<1>1. {rounds, hits, agents, troubles} \subseteq Nat <=> NumbersOK
    BY DEF NumbersOK
<1>2. {forgotten, uncharged} \subseteq [Teams -> Nat] /\ unsettled \subseteq Teams <=> BalanceOK
    BY DEF BalanceOK
<1> QED BY <1>1, <1>2, Zenon DEF TypeOK, TablesOK, MemoryOK, PassOK, Staged, Read, SlaRow

LEMMA PairParts == \A p \in Pairs : p[1] \in Teams /\ p[2] \in Boxes /\ p = <<p[1], p[2]>>
BY DEF Pairs

LEMMA FiniteParts == IsFiniteSet(Teams) /\ IsFiniteSet(Pairs) /\ Teams \subseteq Nat
<1>1. IsFiniteSet(Teams)
    BY Bounds, FS_Interval DEF Teams
<1>2. IsFiniteSet(Pairs)
    BY <1>1, Bounds, FS_Product DEF Pairs
<1> QED BY <1>1, <1>2, Bounds DEF Teams

\* The newest row of a team in any set of rows.
Own(R, t) == {r \in R : r.team = t}

NewestOf(R, t) ==
    IF Own(R, t) = {} THEN [sla |-> 0, lost |-> 0, stolen |-> 0, extra |-> 0]
    ELSE CHOOSE r \in Own(R, t) : \A q \in Own(R, t) : q.time <= r.time

LEMMA NewestHere == \A t : Newest(t) = NewestOf(rows, t)
BY Zenon DEF Newest, NewestOf, Own

LEMMA NewestThen == \A t : Newest(t)' = NewestOf(rows', t)
BY Zenon DEF Newest, NewestOf, Own

LEMMA NewestIs ==
    ASSUME NEW R \in SUBSET Row, NEW t, Own(R, t) # {}
    PROVE  /\ NewestOf(R, t) \in R /\ NewestOf(R, t).team = t
           /\ \A q \in R : q.team = t => q.time <= NewestOf(R, t).time
<1> DEFINE times == {r.time : r \in Own(R, t)}
<1>1. times \subseteq 0..MaxRounds /\ times # {}
    BY Bounds DEF Own, Row
<1>2. Max(times) \in times /\ \A y \in times : Max(times) >= y
    <2> HIDE DEF times
    <2> QED BY <1>1, Bounds, MaxOfNaturals, Zenon
<1>3. \E r \in Own(R, t) : \A q \in Own(R, t) : q.time <= r.time
    BY <1>1, <1>2
<1>4. NewestOf(R, t) \in Own(R, t) /\ \A q \in Own(R, t) : q.time <= NewestOf(R, t).time
    BY <1>3, Zenon DEF NewestOf
<1> QED BY <1>4 DEF Own

\* The row with the greatest time is the newest if no two have the same time.
LEMMA NewestUnique ==
    ASSUME NEW R \in SUBSET Row, NEW r \in R,
           \A q \in R : q.team = r.team => q = r \/ q.time < r.time
    PROVE  NewestOf(R, r.team) = r
<1>1. Own(R, r.team) # {}
    BY DEF Own
<1>2. /\ NewestOf(R, r.team) \in R /\ NewestOf(R, r.team).team = r.team
      /\ r.time <= NewestOf(R, r.team).time
    BY <1>1, NewestIs
<1>3. ~(NewestOf(R, r.team).time < r.time)
    BY <1>2 DEF Row
<1> QED BY <1>2, <1>3

LEMMA NewestType ==
    ASSUME NEW R \in SUBSET Row, NEW t
    PROVE  /\ NewestOf(R, t).sla \in Nat /\ NewestOf(R, t).lost \in Nat
           /\ NewestOf(R, t).stolen \in Nat /\ NewestOf(R, t).extra \in Nat
<1>1. CASE Own(R, t) = {}
    BY <1>1 DEF NewestOf
<1>2. CASE Own(R, t) # {}
    <2>1. NewestOf(R, t) \in Row
        BY <1>2, NewestIs
    <2> QED BY <2>1 DEF Row
<1> QED BY <1>1, <1>2

\* What a team has been charged with does not depend on what its newest row has besides.
LEMMA SameSla ==
    ASSUME NEW R \in SUBSET Row, NEW Q \in SUBSET Row, NEW t,
           \A r, q \in R : r.time = q.time /\ r.team = q.team => r = q,
           \A r \in R : \E q \in Q : q.time = r.time /\ q.team = r.team /\ q.sla = r.sla,
           \A q \in Q : \E r \in R : q.time = r.time /\ q.team = r.team /\ q.sla = r.sla
    PROVE  NewestOf(Q, t).sla = NewestOf(R, t).sla
<1>1. Own(R, t) = {} <=> Own(Q, t) = {}
    BY DEF Own
<1>2. CASE Own(R, t) = {}
    BY <1>1, <1>2 DEF NewestOf
<1>3. CASE Own(R, t) # {}
    <2> DEFINE r == NewestOf(R, t)
               q == NewestOf(Q, t)
    <2>1. r \in R /\ r.team = t /\ \A x \in R : x.team = t => x.time <= r.time
        BY <1>3, NewestIs
    <2>2. q \in Q /\ q.team = t /\ \A x \in Q : x.team = t => x.time <= q.time
        BY <1>1, <1>3, NewestIs
    <2> HIDE DEF r, q
    <2>3. PICK s \in R : q.time = s.time /\ q.team = s.team /\ q.sla = s.sla
        BY <2>2
    <2>4. PICK x \in Q : x.time = r.time /\ x.team = r.team
        BY <2>1
    <2>5. s.time <= r.time /\ r.time <= s.time /\ s.time \in Nat /\ r.time \in Nat
        BY <2>1, <2>2, <2>3, <2>4 DEF Row
    <2>6. s = r
        BY <2>1, <2>2, <2>3, <2>5
    <2> QED BY <2>3, <2>6 DEF r, q
<1> QED BY <1>2, <1>3

-----------------------------------------------------------------------------
(* What the steps of a round do *)

LEMMA CarryOnIs ==
    ASSUME TablesOK, PassOK, rounds \in 1..MaxRounds, NEW t \in Teams
    PROVE  /\ CarryOn(t) \in Row
           /\ CarryOn(t).time = rounds /\ CarryOn(t).team = t /\ CarryOn(t).up = staged[t].up
           /\ CarryOn(t).sla = Newest(t).sla + staged[t].sla
           /\ CarryOn(t).lost = Newest(t).lost /\ CarryOn(t).stolen = Newest(t).stolen
<1>1. /\ Newest(t).sla \in Nat /\ Newest(t).lost \in Nat
      /\ Newest(t).stolen \in Nat /\ Newest(t).extra \in Nat
    BY NewestHere, NewestType DEF TablesOK
<1>2. staged[t].up \in [Boxes -> 0..MaxUp] /\ staged[t].sla \in Nat
    BY DEF PassOK, Staged
<1>3. CarryOn(t) = [time |-> rounds, team |-> t, up |-> staged[t].up,
                    sla |-> Newest(t).sla + staged[t].sla, lost |-> Newest(t).lost,
                    stolen |-> Newest(t).stolen, extra |-> Newest(t).extra]
    BY DEF CarryOn
<1> QED BY <1>1, <1>2, <1>3 DEF Row

LEMMA ShareType == ASSUME NEW up \in Nat, NEW k \in Nat PROVE Share(up, k) \in Nat
<1>1. up * ServicePoints \in Nat
    BY Bounds
<1>2. ASSUME NEW points \in Nat PROVE OneOfN(points, k + 1) \in Nat
    <2>1. 2 * points + (k + 1) \in Nat /\ 2 * (k + 1) \in Nat \ {0}
        OBVIOUS
    <2> HIDE DEF OneOfN
    <2>2. (2 * points + (k + 1)) \div (2 * (k + 1)) \in Nat
        BY <2>1, Remainder
    <2> QED BY <2>2 DEF OneOfN
<1> QED BY <1>1, <1>2 DEF Share

\* A record that calculatePersists has changed is that record with other points.
Resembles(s, r) ==
    /\ s \in Row
    /\ s.time = r.time /\ s.team = r.team /\ s.up = r.up /\ s.sla = r.sla

Victim(rec, X, k) == [rec EXCEPT !.persists = @ \cup X, !.row.lost = @ + k]
Thief(rec, k, j) == [rec EXCEPT !.row.stolen = @ + k, !.row.extra = @ + j]

LEMMA VictimIs ==
    ASSUME NEW rec \in Read, NEW k \in Nat, NEW X \in SUBSET Persist
    PROVE  /\ Victim(rec, X, k) \in Read /\ Resembles(Victim(rec, X, k).row, rec.row)
           /\ Victim(rec, X, k).persists = rec.persists \cup X
           /\ Victim(rec, X, k).row.lost = rec.row.lost + k
           /\ Victim(rec, X, k).row.stolen = rec.row.stolen
<1> DEFINE v == [rec.row EXCEPT !.lost = @ + k]
<1>1. rec.row \in Row /\ rec.persists \in SUBSET Persist
    BY DEF Read
<1>2. v \in Row /\ Resembles(v, rec.row) /\ v.lost = rec.row.lost + k /\ v.stolen = rec.row.stolen
    BY <1>1 DEF Row, Resembles
<1>3. Victim(rec, X, k) = [rec EXCEPT !.persists = rec.persists \cup X, !.row = v]
    BY DEF Read, Victim
<1> HIDE DEF v
<1>4. LET victim == [rec EXCEPT !.persists = rec.persists \cup X, !.row = v]
      IN  victim \in Read /\ victim.row = v /\ victim.persists = rec.persists \cup X
    BY <1>1, <1>2 DEF Read
<1> QED BY <1>2, <1>3, <1>4

LEMMA ThiefIs ==
    ASSUME NEW rec \in Read, NEW k \in Nat, NEW j \in Nat
    PROVE  /\ Thief(rec, k, j) \in Read /\ Resembles(Thief(rec, k, j).row, rec.row)
           /\ Thief(rec, k, j).persists = rec.persists
           /\ Thief(rec, k, j).row.lost = rec.row.lost
           /\ Thief(rec, k, j).row.stolen = rec.row.stolen + k
<1> DEFINE h == [rec.row EXCEPT !.stolen = @ + k, !.extra = @ + j]
<1>1. rec.row \in Row /\ rec.persists \in SUBSET Persist
    BY DEF Read
<1>2. h \in Row /\ Resembles(h, rec.row) /\ h.lost = rec.row.lost /\ h.stolen = rec.row.stolen + k
    <2>1. rec.row.stolen + k \in Nat /\ rec.row.extra + j \in Nat
        BY <1>1 DEF Row
    <2>2. h = [rec.row EXCEPT !.stolen = rec.row.stolen + k, !.extra = rec.row.extra + j]
        BY <1>1 DEF Row
    <2> HIDE DEF h
    <2>3. h \in Row
        BY <1>1, <2>1, <2>2, Zenon DEF Row
    <2>4. /\ h.time = rec.row.time /\ h.team = rec.row.team /\ h.up = rec.row.up
          /\ h.sla = rec.row.sla /\ h.lost = rec.row.lost /\ h.stolen = rec.row.stolen + k
        BY <1>1, <2>2 DEF Row
    <2> QED BY <2>3, <2>4 DEF Resembles
<1>3. Thief(rec, k, j) = [rec EXCEPT !.row = h]
    BY DEF Read, Thief
<1> HIDE DEF h
<1>4. LET thief == [rec EXCEPT !.row = h]
      IN  thief \in Read /\ thief.row = h /\ thief.persists = rec.persists
    BY <1>1, <1>2 DEF Read
<1> QED BY <1>2, <1>3, <1>4

\* What the victim of a box loses to each offender.
Shared(p) == Share(records[p[1]].row.up[p[2]], Cardinality(persistHits[p]))

LEMMA SettleEffect ==
    ASSUME MemoryOK, PassOK, rounds \in 1..MaxRounds, NEW p \in Pairs, Settle(p)
    PROVE  /\ lpc = "settle" /\ p \in left /\ left' = left \ {p}
           /\ p[1] \in DOMAIN records /\ persistHits[p] \subseteq DOMAIN records
           /\ Shared(p) \in Nat /\ Cardinality(persistHits[p]) \in Nat
           /\ records' \in Seq(Read) /\ DOMAIN records' = DOMAIN records
           /\ Len(records') = Len(records)
           /\ \A i \in DOMAIN records :
                 /\ Resembles(records'[i].row, records[i].row)
                 /\ records'[i].persists =
                        records[i].persists \cup
                            (IF i = p[1] THEN {Receipt(p, o) : o \in persistHits[p]} ELSE {})
                 /\ records'[i].row.lost =
                        records[i].row.lost +
                            (IF i = p[1] THEN Shared(p) * Cardinality(persistHits[p]) ELSE 0)
                 /\ records'[i].row.stolen =
                        records[i].row.stolen +
                            (IF i # p[1] /\ i \in persistHits[p] THEN Shared(p) ELSE 0)
<1> DEFINE offenders == persistHits[p]
           share == Shared(p)
           k == Cardinality(offenders)
           X == {Receipt(p, o) : o \in offenders}
           half == share \div 2
           After(i) == IF i = p[1] THEN Victim(records[i], X, share * k)
                       ELSE IF i \in offenders THEN Thief(records[i], share, half)
                       ELSE records[i]
<1>1. /\ lpc = "settle" /\ p \in left /\ left' = left \ {p}
      /\ p[1] \in DOMAIN records /\ offenders \subseteq DOMAIN records
    <2>1. lpc = "settle" /\ p \in left /\ left' = left \ {p} /\ InRange(p)
        BY Zenon DEF Settle
    <2> QED BY <2>1 DEF InRange
<1>2. records' = [i \in DOMAIN records |-> After(i)]
    BY Zenon DEF Settle, Shared, Receipt, Victim, Thief
<1>3. /\ records \in Seq(Read) /\ DOMAIN records = 1..Len(records) /\ Len(records) \in Nat
      /\ \A i \in DOMAIN records : records[i] \in Read /\ records[i].row \in Row
    <2>1. /\ records \in Seq(Read) /\ DOMAIN records = 1..Len(records) /\ Len(records) \in Nat
          /\ \A i \in DOMAIN records : records[i] \in Read
        BY DEF PassOK
    <2> QED BY <2>1 DEF Read
<1>4. p[1] \in Teams /\ p[2] \in Boxes /\ offenders \in SUBSET Teams
    BY PairParts DEF MemoryOK
<1>5. k \in Nat
    BY <1>4, FiniteParts, FS_Subset, FS_CardinalityType
<1>6. share \in Nat
    <2>1. records[p[1]].row.up[p[2]] \in Nat
        <3>1. records[p[1]].row.up \in [Boxes -> 0..MaxUp]
            BY <1>1, <1>3 DEF Row
        <3> QED BY <1>4, <3>1, Bounds
    <2> QED BY <1>5, <2>1, ShareType DEF Shared
<1>7. share * k \in Nat /\ half \in Nat
    <2> HIDE DEF share, k
    <2> QED BY <1>5, <1>6, Remainder
<1>8. X \in SUBSET Persist
    BY <1>4 DEF Receipt, Persist
<1> HIDE DEF share, k, X, offenders, half
<1>9. ASSUME NEW i \in DOMAIN records
      PROVE  /\ After(i) \in Read /\ Resembles(After(i).row, records[i].row)
             /\ After(i).persists = records[i].persists \cup (IF i = p[1] THEN X ELSE {})
             /\ After(i).row.lost = records[i].row.lost + (IF i = p[1] THEN share * k ELSE 0)
             /\ After(i).row.stolen =
                    records[i].row.stolen + (IF i # p[1] /\ i \in offenders THEN share ELSE 0)
    <2>0. /\ records[i] \in Read /\ records[i].row \in Row
          /\ records[i].row.lost \in Nat /\ records[i].row.stolen \in Nat
        BY <1>3 DEF Row
    <2>1. CASE i = p[1]
        <3> DEFINE v == Victim(records[i], X, share * k)
        <3>1. /\ v \in Read /\ Resembles(v.row, records[i].row)
              /\ v.persists = records[i].persists \cup X
              /\ v.row.lost = records[i].row.lost + share * k
              /\ v.row.stolen = records[i].row.stolen
            BY <1>7, <1>8, <2>0, VictimIs
        <3>2. After(i) = v
            BY <2>1
        <3> HIDE DEF v, After
        <3> QED BY <2>0, <2>1, <3>1, <3>2
    <2>2. CASE i # p[1] /\ i \in offenders
        <3> DEFINE h == Thief(records[i], share, half)
        <3>1. /\ h \in Read /\ Resembles(h.row, records[i].row)
              /\ h.persists = records[i].persists
              /\ h.row.lost = records[i].row.lost
              /\ h.row.stolen = records[i].row.stolen + share
            BY <1>6, <1>7, <2>0, ThiefIs
        <3>2. After(i) = h
            BY <2>2
        <3> HIDE DEF h, After
        <3> QED BY <2>0, <2>2, <3>1, <3>2
    <2>3. CASE i # p[1] /\ i \notin offenders
        <3>1. After(i) = records[i]
            BY <2>3
        <3> HIDE DEF After
        <3> QED BY <2>0, <2>3, <3>1 DEF Resembles
    <2> QED BY <2>1, <2>2, <2>3
<1> HIDE DEF After
<1>10. records' \in Seq(Read) /\ DOMAIN records' = DOMAIN records /\ Len(records') = Len(records)
    BY <1>2, <1>3, <1>9
<1>11. \A i \in DOMAIN records : records'[i] = After(i)
    BY <1>2
<1> QED BY <1>1, <1>5, <1>6, <1>9, <1>10, <1>11 DEF share, k, X, offenders

LEMMA SaveEffect ==
    ASSUME PassOK, SaveRow
    PROVE  \E rec \in Read :
              /\ lpc = "settle" /\ left = {} /\ Len(records) \in Nat \ {0} /\ rec = records[1]
              /\ rows' = {r \in rows : r.time # rec.row.time \/ r.team # rec.row.team}
                             \cup {rec.row}
              /\ persists' = persists \cup rec.persists
              /\ records' \in Seq(Read) /\ DOMAIN records' = 1..(Len(records) - 1)
              /\ \A i \in DOMAIN records' : /\ i + 1 \in DOMAIN records
                                            /\ records'[i] = records[i + 1]
<1>1. records \in Seq(Read) /\ records # <<>>
    BY DEF PassOK, SaveRow
<1>2. /\ Head(records) \in Read /\ Head(records) = records[1]
      /\ Len(records) \in Nat \ {0} /\ DOMAIN records = 1..Len(records)
    BY <1>1
<1>3. /\ records' \in Seq(Read) /\ DOMAIN records' = 1..(Len(records) - 1)
      /\ \A i \in DOMAIN records' : i + 1 \in DOMAIN records /\ records'[i] = records[i + 1]
    <2>1. records' = Tail(records)
        BY DEF SaveRow
    <2> QED BY <1>1, <1>2, <2>1
<1>4. /\ lpc = "settle" /\ left = {}
      /\ rows' = {r \in rows : r.time # Head(records).row.time \/ r.team # Head(records).row.team}
                     \cup {Head(records).row}
      /\ persists' = persists \cup Head(records).persists
    BY DEF SaveRow
<1> QED BY <1>2, <1>3, <1>4

\* The next row is given up.
LEMMA SaveRowFailsEffect ==
    ASSUME PassOK, SaveRowFails
    PROVE  /\ lpc = "settle" /\ left = {} /\ Len(records) \in Nat \ {0} /\ records[1] \in Read
           /\ DOMAIN records = 1..Len(records)
           /\ records' \in Seq(Read) /\ DOMAIN records' = 1..(Len(records) - 1)
           /\ \A i \in DOMAIN records' : /\ i + 1 \in DOMAIN records
                                         /\ records'[i] = records[i + 1]
           /\ UNCHANGED <<dwConf, rows, slas, persists, persistHits, lpc, staged, left, rounds,
                          hits>>
           /\ unsettled' = unsettled \cup {p.team : p \in records[1].persists}
<1>1. records \in Seq(Read) /\ records # <<>>
    BY DEF PassOK, SaveRowFails
<1>2. records' = Tail(records)
    BY DEF SaveRowFails
<1>3. /\ Head(records) \in Read /\ Head(records) = records[1]
      /\ Len(records) \in Nat \ {0} /\ DOMAIN records = 1..Len(records)
    BY <1>1
<1>4. /\ records' \in Seq(Read) /\ DOMAIN records' = 1..(Len(records) - 1)
      /\ \A i \in DOMAIN records' : i + 1 \in DOMAIN records /\ records'[i] = records[i + 1]
    BY <1>1, <1>2, <1>3
<1>5. /\ lpc = "settle" /\ left = {}
      /\ unsettled' = unsettled \cup {p.team : p \in Head(records).persists}
      /\ UNCHANGED <<dwConf, rows, slas, persists, persistHits, lpc, staged, left, rounds, hits>>
    BY DEF SaveRowFails, tables, memory
<1> QED BY <1>3, <1>4, <1>5

\* A reset that cannot empty a table leaves its rows, without their results.
Same(q, r) == q.time = r.time /\ q.team = r.team /\ q.sla = r.sla

LEMMA ResetFailsEffect ==
    ASSUME TablesOK, RowsInv, NEW kept, ResetFails(kept)
    PROVE  /\ rows' \subseteq Row /\ IsFiniteSet(rows')
           /\ \A r, q \in rows' : r.time = q.time /\ r.team = q.team => r = q
           /\ \A q \in rows' : \E r \in rows : Same(q, r)
           /\ \/ /\ \A r \in rows : \E q \in rows' : Same(q, r)
                 /\ UNCHANGED uncharged
              \/ rows' = {} /\ uncharged' = [t \in Teams |-> uncharged[t] + Newest(t).sla]
           /\ \/ UNCHANGED <<slas, forgotten>>
              \/ /\ slas' = [p \in Pairs |-> NoSla]
                 /\ forgotten' = [t \in Teams |-> forgotten[t] + Shown(t)]
           /\ persists' \subseteq persists
<1>1. persists' \subseteq persists
    BY DEF ResetFails
<1>2. \/ UNCHANGED <<slas, forgotten>>
      \/ /\ slas' = [p \in Pairs |-> NoSla]
         /\ forgotten' = [t \in Teams |-> forgotten[t] + Shown(t)]
    BY DEF ResetFails
<1>3. CASE "records" \notin kept
    <2>1. rows' = {} /\ uncharged' = [t \in Teams |-> uncharged[t] + Newest(t).sla]
        BY <1>3 DEF ResetFails
    <2> QED BY <1>1, <1>2, <2>1, FS_EmptySet
<1>4. CASE "records" \in kept
    <2> DEFINE Bare(r) == [r EXCEPT !.up = NoneUp]
               f == [r \in rows |-> Bare(r)]
    <2>1. rows' = {Bare(r) : r \in rows} /\ UNCHANGED uncharged
        BY <1>4 DEF ResetFails
    <2>2. ASSUME NEW r \in rows PROVE Bare(r) \in Row /\ Same(Bare(r), r)
        <3>1. r \in Row /\ NoneUp \in [Boxes -> 0..MaxUp]
            BY Bounds DEF TablesOK, NoneUp
        <3> QED BY <3>1 DEF Row, Same
    <2>3. IsFiniteSet(rows')
        <3>1. Range(f) = rows' /\ f \in [rows -> Range(f)]
            BY <2>1 DEF Range
        <3> HIDE DEF f
        <3> QED BY <3>1, ImageIsSmaller DEF RowsInv
    <2> HIDE DEF Bare
    <2>4. /\ \A q \in rows' : \E r \in rows : q = Bare(r) /\ q \in Row /\ Same(q, r)
          /\ \A r \in rows : \E q \in rows' : Same(q, r)
        BY <2>1, <2>2
    <2>5. ASSUME NEW x \in rows', NEW y \in rows', x.time = y.time, x.team = y.team
          PROVE  x = y
        <3>1. PICK r \in rows : x = Bare(r) /\ Same(x, r)
            BY <2>4
        <3>2. PICK q \in rows : y = Bare(q) /\ Same(y, q)
            BY <2>4
        <3>3. r = q
            BY <2>5, <3>1, <3>2 DEF Same, RowsInv
        <3> QED BY <3>1, <3>2, <3>3
    <2> QED BY <1>1, <1>2, <2>1, <2>3, <2>4, <2>5
<1> QED BY <1>3, <1>4

LEMMA ReadEffect ==
    ASSUME TablesOK, RowsInv, ReadRecords
    PROVE  /\ records' \in Seq(Read)
           /\ \A i \in DOMAIN records' : records'[i].row \in rows /\ records'[i].persists = {}
<1>1. PICK s \in Latest : records' = [i \in DOMAIN s |-> [row |-> s[i], persists |-> {}]]
    BY DEF ReadRecords
<1>2. PICK n : s \in [1..n -> rows] /\ n \in Nat
    <2>1. Cardinality(rows) \in Nat
        BY FS_CardinalityType DEF RowsInv
    <2> QED BY <1>1, <2>1, Bounds DEF Latest
<1>3. ASSUME NEW i \in 1..n PROVE s[i] \in Row /\ [row |-> s[i], persists |-> {}] \in Read
    BY <1>2 DEF TablesOK, Read
<1>4. records' \in Seq(Read)
    BY <1>1, <1>2, <1>3
<1> QED BY <1>1, <1>2, <1>4

-----------------------------------------------------------------------------
(* The invariant is inductive *)

LEMMA TablesStep == IInv /\ [Next]_vars => TablesOK'
<1> SUFFICES ASSUME IInv, [Next]_vars PROVE TablesOK'
    OBVIOUS
<1>a. TablesOK /\ MemoryOK /\ PassOK /\ NumbersOK /\ RoundInv /\ RowsInv
    BY DEF IInv
<1>b. [p \in Pairs |-> NoSla] \in [Pairs -> SlaRow]
    BY Bounds DEF NoSla, SlaRow
<1>c. ASSUME UNCHANGED <<rows, slas, persists>> PROVE TablesOK'
    BY <1>a, <1>c DEF TablesOK
<1> USE DEF tables
<1>1. ASSUME NEW v \in Teams, NEW o \in Teams, NEW b \in Boxes, ScorePersist(v, b, o)
      PROVE  TablesOK'
    BY <1>1, <1>c DEF ScorePersist
<1>2. ASSUME NEW t \in Teams, NEW b \in Boxes, ScoreAgent(t, b) PROVE TablesOK'
    BY <1>2, <1>c DEF ScoreAgent
<1>3. CASE Collect \/ DropRound \/ BeginUptime \/ BeginProcessing \/ ReadRecords \/ EndRound
    BY <1>3, <1>c DEF Collect, DropRound, BeginUptime, BeginProcessing, ReadRecords, EndRound
<1>4. ASSUME NEW p \in Pairs, SkipBox(p) \/ ChargeFails(p) \/ Panic(p) PROVE TablesOK'
    BY <1>4, <1>c DEF SkipBox, ChargeFails, Panic
<1>5. ASSUME NEW p \in Pairs, ChargeBox(p) PROVE TablesOK'
    <2>1. /\ slas' = [slas EXCEPT ![p] = [time |-> clock, violations |-> slas[p].violations + 1]]
          /\ UNCHANGED <<rows, persists>>
        BY <1>5 DEF ChargeBox
    <2>2. clock \in 0..MaxClock
        BY <1>a, Bounds DEF MemoryOK, Epoch
    <2>3. [time |-> clock, violations |-> slas[p].violations + 1] \in SlaRow
        BY <1>a, <2>2 DEF TablesOK, SlaRow
    <2> QED BY <1>a, <2>1, <2>3 DEF TablesOK
<1>6. ASSUME NEW t \in Teams, CreateRecord(t) PROVE TablesOK'
    <2>1. rounds \in 1..MaxRounds
        BY <1>6, <1>a, Bounds DEF CreateRecord, RoundInv, NumbersOK
    <2>2. CarryOn(t) \in Row
        BY <1>a, <2>1, CarryOnIs
    <2> QED BY <1>6, <1>a, <2>2 DEF CreateRecord, TablesOK
<1>7. ASSUME NEW t \in Teams, RecordFails(t) PROVE TablesOK'
    BY <1>7, <1>c DEF RecordFails
<1>8. ASSUME NEW p \in Pairs, Settle(p) PROVE TablesOK'
    <2>1. UNCHANGED <<rows, slas, persists>>
        BY <1>8, Zenon DEF Settle
    <2> QED BY <1>c, <2>1
<1>9. CASE SaveRow
    <2>1. PICK rec \in Read :
              /\ rows' = {r \in rows : r.time # rec.row.time \/ r.team # rec.row.team}
                             \cup {rec.row}
              /\ persists' = persists \cup rec.persists
        BY <1>9, <1>a, SaveEffect
    <2>2. UNCHANGED slas
        BY <1>9 DEF SaveRow
    <2>3. rec.row \in Row /\ rec.persists \subseteq Persist
        BY DEF Read
    <2> QED BY <1>a, <2>1, <2>2, <2>3 DEF TablesOK
<1>10. CASE Reset
    BY <1>10, <1>b DEF Reset, TablesOK
<1>11. CASE Tick \/ Crash \/ Boot
    BY <1>11, <1>c DEF Tick, Crash, Boot
<1>12. CASE UNCHANGED vars
    BY <1>12, <1>c DEF vars
<1>13. ASSUME NEW p \in Pairs, ChargeAnew(p) PROVE TablesOK'
    <2>1. /\ slas' = [slas EXCEPT ![p] = [time |-> clock, violations |-> 1]]
          /\ UNCHANGED <<rows, persists>>
        BY <1>13 DEF ChargeAnew
    <2>2. [time |-> clock, violations |-> 1] \in SlaRow
        BY <1>a, Bounds DEF MemoryOK, Epoch, SlaRow
    <2> QED BY <1>a, <2>1, <2>2 DEF TablesOK
<1>14. CASE ReadFails \/ SaveRowFails
    BY <1>14, <1>c DEF ReadFails, SaveRowFails
<1>15. ASSUME NEW kept, ResetFails(kept) PROVE TablesOK'
    <2>1. /\ rows' \subseteq Row /\ persists' \subseteq persists
          /\ slas' = slas \/ slas' = [p \in Pairs |-> NoSla]
        BY <1>15, <1>a, ResetFailsEffect
    <2> QED BY <1>a, <1>b, <2>1 DEF TablesOK
<1> QED BY <1>1, <1>2, <1>3, <1>4, <1>5, <1>6, <1>7, <1>8, <1>9, <1>10, <1>11, <1>12, <1>13,
           <1>14, <1>15, Zenon
        DEF Next, Uptime, Settlement, BoundReached

LEMMA MemoryStep == IInv /\ [Next]_vars => MemoryOK'
<1> SUFFICES ASSUME IInv, [Next]_vars PROVE MemoryOK'
    OBVIOUS
<1>a. MemoryOK /\ PassOK /\ NumbersOK
    BY DEF IInv
<1>b. NoHits \in [Pairs -> SUBSET Teams]
    BY DEF NoHits
<1>c. clock \in Int /\ MaxClock \in Int /\ Epoch \in Int
    BY <1>a, Bounds DEF MemoryOK, Epoch
<1> USE <1>a DEF MemoryOK, tables, memory
<1>1. ASSUME NEW v \in Teams, NEW o \in Teams, NEW b \in Boxes, ScorePersist(v, b, o)
      PROVE  MemoryOK'
    <2>1. persistHits' = [persistHits EXCEPT ![<<v, b>>] = persistHits[<<v, b>>] \cup {o}]
          /\ UNCHANGED <<dwConf, agentHits, lpc, clock, torn>>
        BY <1>1 DEF ScorePersist
    <2>2. persistHits' \in [Pairs -> SUBSET Teams]
        BY <2>1 DEF Pairs
    <2> QED BY <2>1, <2>2
<1>2. ASSUME NEW t \in Teams, NEW b \in Boxes, ScoreAgent(t, b) PROVE MemoryOK'
    <2>1. agentHits' = [agentHits EXCEPT ![<<t, b>>] = clock]
          /\ UNCHANGED <<dwConf, persistHits, lpc, clock, torn>>
        BY <1>2 DEF ScoreAgent
    <2> QED BY <2>1
<1>3. CASE Collect \/ DropRound \/ BeginUptime \/ BeginProcessing \/ ReadRecords
    BY <1>3 DEF Collect, DropRound, BeginUptime, BeginProcessing, ReadRecords
<1>4. CASE EndRound
    BY <1>4, <1>b DEF EndRound
<1>5. ASSUME NEW p \in Pairs, SkipBox(p) \/ ChargeFails(p) \/ Panic(p) PROVE MemoryOK'
    BY <1>5 DEF SkipBox, ChargeFails, Panic
<1>6. ASSUME NEW p \in Pairs, ChargeBox(p) PROVE MemoryOK'
    BY <1>6 DEF ChargeBox
<1>7. ASSUME NEW t \in Teams, CreateRecord(t) \/ RecordFails(t) PROVE MemoryOK'
    BY <1>7 DEF CreateRecord, RecordFails
<1>8. ASSUME NEW p \in Pairs, Settle(p) PROVE MemoryOK'
    <2>1. UNCHANGED <<dwConf, persistHits, agentHits, lpc, clock, torn>>
        BY <1>8, Zenon DEF Settle
    <2> QED BY <2>1
<1>9. CASE SaveRow
    BY <1>9 DEF SaveRow
<1>10. CASE Reset
    BY <1>10, <1>b DEF Reset
<1>11. CASE Tick
    BY <1>11, <1>c DEF Tick
<1>12. CASE Crash
    BY <1>12 DEF Crash
<1>13. CASE Boot
    BY <1>13, <1>b DEF Boot
<1>14. CASE UNCHANGED vars
    BY <1>14 DEF vars
<1>15. ASSUME NEW p \in Pairs, ChargeAnew(p) PROVE MemoryOK'
    BY <1>15 DEF ChargeAnew
<1>16. CASE ReadFails \/ SaveRowFails
    BY <1>16 DEF ReadFails, SaveRowFails
<1>17. ASSUME NEW kept, ResetFails(kept) PROVE MemoryOK'
    <2>1. /\ UNCHANGED <<dwConf, agentHits, clock>> /\ persistHits' = NoHits
          /\ lpc' = "idle" /\ torn' = TRUE
        BY <1>17, Zenon DEF ResetFails
    <2> QED BY <1>b, <2>1
<1> QED BY <1>1, <1>2, <1>3, <1>4, <1>5, <1>6, <1>7, <1>8, <1>9, <1>10, <1>11, <1>12, <1>13,
           <1>14, <1>15, <1>16, <1>17, Zenon
        DEF Next, Uptime, Settlement, BoundReached

LEMMA PassStep == IInv /\ [Next]_vars => PassOK'
<1> SUFFICES ASSUME IInv, [Next]_vars PROVE PassOK'
    OBVIOUS
<1>a. TablesOK /\ MemoryOK /\ PassOK /\ NumbersOK /\ RoundInv /\ RowsInv
    BY DEF IInv
<1>b. NoResults \in [Teams -> Staged] /\ <<>> \in Seq(Read)
    BY Bounds DEF NoResults, NoneUp, Staged
<1>c. /\ staged \in [Teams -> Staged] /\ records \in Seq(Read)
      /\ left \subseteq IF lpc = "processing" THEN Teams ELSE Pairs
    BY <1>a DEF PassOK
<1>d. PassOK' <=> /\ staged' \in [Teams -> Staged] /\ records' \in Seq(Read)
                  /\ left' \subseteq IF lpc' = "processing" THEN Teams ELSE Pairs
    BY DEF PassOK
<1>e. ASSUME UNCHANGED <<staged, records, left>>, lpc = "processing" <=> lpc' = "processing"
      PROVE  PassOK'
    BY <1>c, <1>d, <1>e
<1> USE DEF pass
<1>1. ASSUME NEW v \in Teams, NEW o \in Teams, NEW b \in Boxes, ScorePersist(v, b, o)
      PROVE  PassOK'
    BY <1>1, <1>e DEF ScorePersist
<1>2. ASSUME NEW t \in Teams, NEW b \in Boxes, ScoreAgent(t, b) PROVE PassOK'
    BY <1>2, <1>e DEF ScoreAgent
<1>3. CASE Collect
    <2>1. PICK up \in [Teams -> [Boxes -> IF dwConf.persists THEN 0..MaxUp ELSE {0}]] :
              staged' = [t \in Teams |-> [up |-> up[t], sla |-> 0]]
        BY <1>3 DEF Collect
    <2>2. ASSUME NEW t \in Teams PROVE up[t] \in [Boxes -> 0..MaxUp]
        BY <2>1, Bounds
    <2>3. staged' \in [Teams -> Staged]
        BY <2>1, <2>2 DEF Staged
    <2>4. UNCHANGED <<left, records>> /\ lpc = "idle" /\ lpc' = "staged"
        BY <1>3 DEF Collect
    <2> QED BY <1>c, <1>d, <2>3, <2>4
<1>4. CASE DropRound \/ BeginUptime \/ BeginProcessing
    BY <1>4, <1>b, <1>c, <1>d DEF DropRound, BeginUptime, BeginProcessing
<1>5. CASE ReadRecords
    <2>1. records' \in Seq(Read)
        BY <1>5, <1>a, ReadEffect
    <2>2. staged' = NoResults /\ left' \subseteq Pairs /\ lpc' = "settle"
        BY <1>5 DEF ReadRecords
    <2> QED BY <1>b, <1>d, <2>1, <2>2
<1>6. CASE EndRound
    BY <1>6, <1>b, <1>c, <1>d DEF EndRound
<1>7. ASSUME NEW p \in Pairs, SkipBox(p) \/ ChargeFails(p) \/ Panic(p) PROVE PassOK'
    BY <1>7, <1>b, <1>c, <1>d DEF SkipBox, ChargeFails, Panic
<1>8. ASSUME NEW p \in Pairs, ChargeBox(p) \/ ChargeAnew(p) PROVE PassOK'
    <2>1. /\ staged' = [staged EXCEPT ![p[1]] = [staged[p[1]] EXCEPT !.sla = @ + 1]]
          /\ UNCHANGED <<lpc, records>> /\ left' = left \ {p}
        BY <1>8 DEF ChargeBox, ChargeAnew
    <2>2. [staged[p[1]] EXCEPT !.sla = @ + 1] \in Staged
        <3>1. staged[p[1]] \in Staged
            BY <1>c, PairParts
        <3>2. ASSUME NEW x \in Staged PROVE [x EXCEPT !.sla = @ + 1] \in Staged
            BY DEF Staged
        <3> QED BY <3>1, <3>2
    <2> QED BY <1>c, <1>d, <2>1, <2>2
<1>9. ASSUME NEW t \in Teams, CreateRecord(t) \/ RecordFails(t) PROVE PassOK'
    BY <1>9, <1>c, <1>d DEF CreateRecord, RecordFails
<1>10. ASSUME NEW p \in Pairs, Settle(p) PROVE PassOK'
    <2>1. lpc = "settle" /\ UNCHANGED <<lpc, staged>>
        BY <1>10, Zenon DEF Settle
    <2>2. rounds \in 1..MaxRounds
        BY <1>a, <2>1, Bounds DEF RoundInv, NumbersOK
    <2>3. records' \in Seq(Read) /\ left' = left \ {p}
        BY <1>10, <1>a, <2>2, SettleEffect
    <2> QED BY <1>c, <1>d, <2>1, <2>3
<1>11. CASE SaveRow
    <2>1. records' \in Seq(Read)
        BY <1>11, <1>a, SaveEffect
    <2> QED BY <1>11, <1>c, <1>d, <2>1 DEF SaveRow
<1>12. CASE Reset
    BY <1>12, <1>b, <1>c, <1>d DEF Reset, LockFree
<1>13. CASE Tick
    BY <1>13, <1>e DEF Tick
<1>14. CASE Crash
    BY <1>14, <1>b, <1>d DEF Crash
<1>15. CASE Boot
    BY <1>15, <1>e DEF Boot
<1>16. CASE UNCHANGED vars
    BY <1>16, <1>e DEF vars
<1>17. CASE ReadFails
    BY <1>17, <1>b, <1>c, <1>d DEF ReadFails
<1>18. CASE SaveRowFails
    <2>1. records' \in Seq(Read) /\ UNCHANGED <<lpc, staged, left>>
        BY <1>18, <1>a, SaveRowFailsEffect
    <2> QED BY <1>c, <1>d, <2>1
<1>19. ASSUME NEW kept, ResetFails(kept) PROVE PassOK'
    <2>1. /\ lpc \in {"idle", "staged"} /\ lpc' = "idle" /\ staged' = NoResults
          /\ UNCHANGED <<left, records>>
        BY <1>19, Zenon DEF ResetFails, LockFree
    <2> QED BY <1>b, <1>c, <1>d, <2>1
<1> QED BY <1>1, <1>2, <1>3, <1>4, <1>5, <1>6, <1>7, <1>8, <1>9, <1>10, <1>11, <1>12, <1>13,
           <1>14, <1>15, <1>16, <1>17, <1>18, <1>19, Zenon
        DEF Next, Uptime, Settlement, BoundReached

LEMMA NumbersStep == IInv /\ [Next]_vars => NumbersOK' /\ RoundInv'
<1> SUFFICES ASSUME IInv, [Next]_vars PROVE NumbersOK' /\ RoundInv'
    OBVIOUS
<1>a. NumbersOK /\ RoundInv /\ MaxRounds \in Nat
    BY Bounds DEF IInv
<1> USE <1>a DEF NumbersOK, RoundInv, bounds
<1>1. ASSUME NEW v \in Teams, NEW o \in Teams, NEW b \in Boxes, ScorePersist(v, b, o)
      PROVE  NumbersOK' /\ RoundInv'
    BY <1>1 DEF ScorePersist
<1>2. ASSUME NEW t \in Teams, NEW b \in Boxes, ScoreAgent(t, b) PROVE NumbersOK' /\ RoundInv'
    BY <1>2 DEF ScoreAgent
<1>3. CASE Collect
    BY <1>3 DEF Collect
<1>4. CASE DropRound \/ EndRound
    BY <1>4 DEF DropRound, EndRound
<1>5. CASE BeginUptime \/ BeginProcessing \/ ReadRecords
    BY <1>5 DEF BeginUptime, BeginProcessing, ReadRecords
<1>6. ASSUME NEW p \in Pairs, SkipBox(p) \/ Panic(p) PROVE NumbersOK' /\ RoundInv'
    BY <1>6 DEF SkipBox, Panic
<1>7. ASSUME NEW p \in Pairs, ChargeFails(p) \/ ChargeBox(p) PROVE NumbersOK' /\ RoundInv'
    BY <1>7 DEF ChargeFails, ChargeBox
<1>8. ASSUME NEW t \in Teams, CreateRecord(t) \/ RecordFails(t) PROVE NumbersOK' /\ RoundInv'
    BY <1>8 DEF CreateRecord, RecordFails
<1>9. ASSUME NEW p \in Pairs, Settle(p) PROVE NumbersOK' /\ RoundInv'
    <2>1. UNCHANGED <<lpc, bounds>>
        BY <1>9, Zenon DEF Settle
    <2> QED BY <2>1
<1>10. CASE SaveRow
    BY <1>10 DEF SaveRow
<1>11. CASE Reset \/ Tick
    BY <1>11 DEF Reset, Tick
<1>12. CASE Crash \/ Boot
    BY <1>12 DEF Crash, Boot
<1>13. CASE UNCHANGED vars
    BY <1>13 DEF vars
<1>14. ASSUME NEW p \in Pairs, ChargeAnew(p) PROVE NumbersOK' /\ RoundInv'
    BY <1>14 DEF ChargeAnew
<1>15. CASE ReadFails \/ SaveRowFails
    BY <1>15 DEF ReadFails, SaveRowFails
<1>16. ASSUME NEW kept, ResetFails(kept) PROVE NumbersOK' /\ RoundInv'
    <2>1. UNCHANGED <<rounds, hits, agents>> /\ troubles' = troubles + 1 /\ lpc' = "idle"
        BY <1>16, Zenon DEF ResetFails
    <2> QED BY <2>1
<1> QED BY <1>1, <1>2, <1>3, <1>4, <1>5, <1>6, <1>7, <1>8, <1>9, <1>10, <1>11, <1>12, <1>13,
           <1>14, <1>15, <1>16, Zenon
        DEF Next, Uptime, Settlement, BoundReached

LEMMA RowsStep == IInv /\ [Next]_vars => RowsInv'
<1> SUFFICES ASSUME IInv, [Next]_vars PROVE RowsInv'
    OBVIOUS
<1>a. TablesOK /\ MemoryOK /\ PassOK /\ NumbersOK /\ RoundInv /\ RowsInv
    BY DEF IInv
<1>b. /\ rounds \in Nat /\ rounds <= MaxRounds /\ MaxRounds \in Nat
      /\ \A r \in rows : r.time \in Nat
    BY <1>a, Bounds DEF TablesOK, Row, NumbersOK, RoundInv
<1>c. ASSUME UNCHANGED <<rows, rounds>>,
             lpc' \notin {"staged", "uptime"} \/ lpc' = lpc,
             lpc' # "processing" \/ (lpc' = lpc /\ left' \subseteq left)
      PROVE  RowsInv'
    BY <1>a, <1>c DEF RowsInv
<1> USE DEF tables, bounds, pass
<1>1. ASSUME NEW v \in Teams, NEW o \in Teams, NEW b \in Boxes, ScorePersist(v, b, o)
      PROVE  RowsInv'
    BY <1>1, <1>c DEF ScorePersist
<1>2. ASSUME NEW t \in Teams, NEW b \in Boxes, ScoreAgent(t, b) PROVE RowsInv'
    BY <1>2, <1>c DEF ScoreAgent
<1>3. CASE Collect
    <2>1. rounds' = rounds + 1 /\ rows' = rows /\ lpc' = "staged"
        BY <1>3 DEF Collect
    <2>2. \A r \in rows : r.time <= rounds
        BY <1>a DEF RowsInv
    <2>3. \A r \in rows : r.time < rounds + 1
        BY <1>b, <2>2
    <2> QED BY <1>a, <1>b, <2>1, <2>3 DEF RowsInv
<1>4. CASE DropRound \/ EndRound \/ ReadRecords
    BY <1>4, <1>c DEF DropRound, EndRound, ReadRecords
<1>5. CASE BeginUptime \/ BeginProcessing
    BY <1>5, <1>a DEF BeginUptime, BeginProcessing, RowsInv
<1>6. ASSUME NEW p \in Pairs, SkipBox(p) \/ Panic(p) \/ ChargeFails(p) \/ ChargeBox(p)
      PROVE  RowsInv'
    BY <1>6, <1>c DEF SkipBox, Panic, ChargeFails, ChargeBox
<1>7. ASSUME NEW t \in Teams, CreateRecord(t) PROVE RowsInv'
    <2> DEFINE r == CarryOn(t)
    <2>1. rounds \in 1..MaxRounds
        BY <1>7, <1>a, Bounds DEF CreateRecord, RoundInv, NumbersOK
    <2>2. r \in Row /\ r.time = rounds /\ r.team = t
        BY <1>a, <2>1, CarryOnIs
    <2>3. /\ rows' = rows \cup {r} /\ left' = left \ {t} /\ t \in left
          /\ lpc = "processing" /\ UNCHANGED <<lpc, rounds>>
        BY <1>7 DEF CreateRecord
    <2> HIDE DEF r
    <2>4. \A q \in rows : q.team = t => q.time < rounds
        BY <1>a, <2>3 DEF RowsInv
    <2>5. IsFiniteSet(rows')
        BY <1>a, <2>3, FS_AddElement DEF RowsInv
    <2>6. \A x, y \in rows' : x.time = y.time /\ x.team = y.team => x = y
        <3>1. \A q \in rows : ~(q.time = rounds /\ q.team = t)
            BY <1>b, <2>4
        <3> QED BY <1>a, <2>2, <2>3, <3>1 DEF RowsInv
    <2>7. \A x \in rows' : x.time <= rounds' /\ (x.team \in left' => x.time < rounds')
        <3>1. \A q \in rows : q.time <= rounds /\ (q.team \in left => q.time < rounds)
            BY <1>a, <2>3 DEF RowsInv
        <3> QED BY <1>b, <2>2, <2>3, <3>1
    <2> QED BY <2>3, <2>5, <2>6, <2>7 DEF RowsInv
<1>8. ASSUME NEW t \in Teams, RecordFails(t) PROVE RowsInv'
    BY <1>8, <1>c DEF RecordFails
<1>9. ASSUME NEW p \in Pairs, Settle(p) PROVE RowsInv'
    <2>1. UNCHANGED <<rows, rounds, lpc>> /\ lpc = "settle"
        BY <1>9, Zenon DEF Settle
    <2> QED BY <1>c, <2>1
<1>10. CASE SaveRow
    <2>1. PICK rec \in Read :
              /\ lpc = "settle" /\ Len(records) \in Nat \ {0} /\ rec = records[1]
              /\ rows' = {r \in rows : r.time # rec.row.time \/ r.team # rec.row.team}
                             \cup {rec.row}
        BY <1>10, <1>a, SaveEffect
    <2>2. UNCHANGED <<lpc, rounds>>
        BY <1>10 DEF SaveRow
    <2>3. PICK r \in rows : r.time = rec.row.time /\ r.team = rec.row.team
        BY <1>a, <2>1 DEF IInv, ReadInv, PassOK
    <2>4. IsFiniteSet(rows')
        <3>1. {x \in rows : x.time # rec.row.time \/ x.team # rec.row.team} \in SUBSET rows
            OBVIOUS
        <3>2. IsFiniteSet({x \in rows : x.time # rec.row.time \/ x.team # rec.row.team})
            BY <1>a, <3>1, FS_Subset DEF RowsInv
        <3> QED BY <2>1, <3>2, FS_AddElement
    <2>5. \A x, y \in rows' : x.time = y.time /\ x.team = y.team => x = y
        BY <1>a, <2>1 DEF RowsInv
    <2>6. \A x \in rows' : x.time <= rounds'
        BY <1>a, <2>1, <2>2, <2>3 DEF RowsInv
    <2> QED BY <2>1, <2>2, <2>4, <2>5, <2>6 DEF RowsInv
<1>11. CASE Reset
    BY <1>11, FS_EmptySet DEF Reset, RowsInv
<1>12. CASE Tick \/ Crash \/ Boot
    BY <1>12, <1>c DEF Tick, Crash, Boot
<1>13. CASE UNCHANGED vars
    BY <1>13, <1>c DEF vars
<1>14. ASSUME NEW p \in Pairs, ChargeAnew(p) PROVE RowsInv'
    BY <1>14, <1>c DEF ChargeAnew
<1>15. CASE ReadFails \/ SaveRowFails
    BY <1>15, <1>c DEF ReadFails, SaveRowFails
<1>16. ASSUME NEW kept, ResetFails(kept) PROVE RowsInv'
    <2>1. /\ IsFiniteSet(rows')
          /\ \A r, q \in rows' : r.time = q.time /\ r.team = q.team => r = q
          /\ \A q \in rows' : \E r \in rows : Same(q, r)
        BY <1>16, <1>a, ResetFailsEffect
    <2>2. lpc' = "idle" /\ rounds' = rounds
        BY <1>16, Zenon DEF ResetFails
    <2>3. \A q \in rows' : q.time <= rounds
        BY <1>a, <2>1 DEF RowsInv, Same
    <2> QED BY <2>1, <2>2, <2>3 DEF RowsInv
<1> QED BY <1>1, <1>2, <1>3, <1>4, <1>5, <1>6, <1>7, <1>8, <1>9, <1>10, <1>11, <1>12, <1>13,
           <1>14, <1>15, <1>16, Zenon
        DEF Next, Uptime, Settlement, BoundReached

LEMMA ReadStep == IInv /\ [Next]_vars => ReadInv'
<1> SUFFICES ASSUME IInv, [Next]_vars, lpc' = "settle"
             PROVE  \A i \in DOMAIN records' :
                        \E r \in rows' : /\ r.time = records'[i].row.time
                                         /\ r.team = records'[i].row.team
                                         /\ r.sla = records'[i].row.sla
    BY DEF ReadInv
<1>a. TablesOK /\ MemoryOK /\ PassOK /\ NumbersOK /\ RoundInv /\ RowsInv /\ ReadInv
    BY DEF IInv
<1> DEFINE Goal == \A i \in DOMAIN records' :
                       \E r \in rows' : /\ r.time = records'[i].row.time
                                        /\ r.team = records'[i].row.team
                                        /\ r.sla = records'[i].row.sla
<1>1. CASE UNCHANGED <<rows, records, lpc>>
    BY <1>a, <1>1 DEF ReadInv
<1>2. CASE ReadRecords
    <2>1. \A i \in DOMAIN records' : records'[i].row \in rows
        BY <1>2, <1>a, ReadEffect
    <2>2. rows' = rows
        BY <1>2 DEF ReadRecords, tables
    <2> QED BY <2>1, <2>2
<1>3. ASSUME NEW p \in Pairs, Settle(p) PROVE Goal
    <2>1. UNCHANGED <<rows, lpc>> /\ lpc = "settle"
        BY <1>3, Zenon DEF Settle, tables
    <2>2. rounds \in 1..MaxRounds
        BY <1>a, <2>1, Bounds DEF RoundInv, NumbersOK
    <2>3. /\ DOMAIN records' = DOMAIN records
          /\ \A i \in DOMAIN records : Resembles(records'[i].row, records[i].row)
        BY <1>3, <1>a, <2>2, SettleEffect
    <2> QED BY <1>a, <2>1, <2>3 DEF ReadInv, Resembles
<1>4. CASE SaveRow
    <2>1. PICK rec \in Read :
              /\ lpc = "settle" /\ rec = records[1]
              /\ rows' = {r \in rows : r.time # rec.row.time \/ r.team # rec.row.team}
                             \cup {rec.row}
              /\ \A i \in DOMAIN records' : /\ i + 1 \in DOMAIN records
                                            /\ records'[i] = records[i + 1]
              /\ Len(records) \in Nat \ {0}
        BY <1>4, <1>a, SaveEffect
    <2>2. \A i \in DOMAIN records : \E r \in rows : /\ r.time = records[i].row.time
                                                    /\ r.team = records[i].row.team
                                                    /\ r.sla = records[i].row.sla
        BY <1>a, <2>1 DEF ReadInv
    <2>3. PICK s \in rows : s.time = rec.row.time /\ s.team = rec.row.team /\ s.sla = rec.row.sla
        BY <1>a, <2>1, <2>2 DEF PassOK
    <2>4. ASSUME NEW i \in DOMAIN records'
          PROVE  \E r \in rows' : /\ r.time = records'[i].row.time
                                  /\ r.team = records'[i].row.team
                                  /\ r.sla = records'[i].row.sla
        <3>1. PICK r \in rows : /\ r.time = records'[i].row.time
                                /\ r.team = records'[i].row.team
                                /\ r.sla = records'[i].row.sla
            BY <2>1, <2>2
        <3>2. CASE r.time # rec.row.time \/ r.team # rec.row.team
            BY <2>1, <3>1, <3>2
        <3>3. CASE r.time = rec.row.time /\ r.team = rec.row.team
            <4>1. r = s
                BY <1>a, <2>3, <3>3 DEF RowsInv
            <4> QED BY <2>1, <2>3, <3>1, <4>1
        <3> QED BY <3>2, <3>3
    <2> QED BY <2>4
<1>5. CASE EndRound \/ Reset \/ Crash \/ Boot
    BY <1>5 DEF EndRound, Reset, Crash, Boot
<1>6. ASSUME NEW v \in Teams, NEW o \in Teams, NEW b \in Boxes, ScorePersist(v, b, o)
      PROVE  Goal
    BY <1>6, <1>1 DEF ScorePersist, tables, pass
<1>7. ASSUME NEW t \in Teams, NEW b \in Boxes, ScoreAgent(t, b) PROVE Goal
    BY <1>7, <1>1 DEF ScoreAgent, tables, pass
<1>8. CASE Collect \/ DropRound \/ BeginUptime \/ BeginProcessing
    BY <1>8 DEF Collect, DropRound, BeginUptime, BeginProcessing
<1>9. ASSUME NEW p \in Pairs, SkipBox(p) \/ Panic(p) \/ ChargeFails(p) \/ ChargeBox(p)
      PROVE  Goal
    BY <1>9 DEF SkipBox, Panic, ChargeFails, ChargeBox
<1>10. ASSUME NEW t \in Teams, CreateRecord(t) \/ RecordFails(t) PROVE Goal
    BY <1>10 DEF CreateRecord, RecordFails
<1>11. CASE Tick
    BY <1>11 DEF Tick
<1>12. CASE UNCHANGED vars
    BY <1>12, <1>1 DEF vars, tables, pass
<1>13. ASSUME NEW p \in Pairs, ChargeAnew(p) PROVE Goal
    BY <1>13 DEF ChargeAnew
<1>14. CASE ReadFails
    <2>1. records' = <<>>
        BY <1>14 DEF ReadFails, pass, IInv, PastInv
    <2> QED BY <2>1
<1>15. CASE SaveRowFails
    <2>1. /\ lpc = "settle" /\ rows' = rows
          /\ \A i \in DOMAIN records' : /\ i + 1 \in DOMAIN records
                                        /\ records'[i] = records[i + 1]
        BY <1>15, <1>a, SaveRowFailsEffect
    <2> QED BY <1>a, <2>1 DEF ReadInv
<1>16. ASSUME NEW kept, ResetFails(kept) PROVE Goal
    BY <1>16, Zenon DEF ResetFails
<1> QED BY <1>2, <1>3, <1>4, <1>5, <1>6, <1>7, <1>8, <1>9, <1>10, <1>11, <1>12, <1>13, <1>14,
           <1>15, <1>16, Zenon
        DEF Next, Uptime, Settlement, BoundReached

LEMMA StagedStep == IInv /\ [Next]_vars => StagedInv'
<1> SUFFICES ASSUME IInv, [Next]_vars PROVE StagedInv'
    OBVIOUS
<1>a. StagedInv
    BY DEF IInv
<1>b. \A t \in Teams : NoResults[t].sla = 0
    BY DEF NoResults
<1>c. ASSUME staged' = NoResults PROVE StagedInv'
    BY <1>b, <1>c DEF StagedInv
<1>d. ASSUME UNCHANGED <<staged, lpc>> PROVE StagedInv'
    BY <1>a, <1>d DEF StagedInv
<1> USE DEF pass
<1>1. ASSUME NEW v \in Teams, NEW o \in Teams, NEW b \in Boxes, ScorePersist(v, b, o)
      PROVE  StagedInv'
    BY <1>1, <1>d DEF ScorePersist
<1>2. ASSUME NEW t \in Teams, NEW b \in Boxes, ScoreAgent(t, b) PROVE StagedInv'
    BY <1>2, <1>d DEF ScoreAgent
<1>3. CASE Collect
    BY <1>3 DEF Collect, StagedInv
<1>4. CASE DropRound \/ ReadRecords \/ EndRound \/ Reset \/ Crash
    BY <1>4, <1>c DEF DropRound, ReadRecords, EndRound, Reset, Crash
<1>5. CASE BeginUptime \/ BeginProcessing
    BY <1>5 DEF BeginUptime, BeginProcessing, StagedInv
<1>6. ASSUME NEW p \in Pairs, SkipBox(p) \/ ChargeFails(p) \/ ChargeBox(p) PROVE StagedInv'
    BY <1>6 DEF SkipBox, ChargeFails, ChargeBox, StagedInv
<1>7. ASSUME NEW p \in Pairs, Panic(p) PROVE StagedInv'
    BY <1>7, <1>a DEF Panic, StagedInv
<1>8. ASSUME NEW t \in Teams, CreateRecord(t) \/ RecordFails(t) PROVE StagedInv'
    BY <1>8, <1>d DEF CreateRecord, RecordFails
<1>9. ASSUME NEW p \in Pairs, Settle(p) PROVE StagedInv'
    <2>1. UNCHANGED <<lpc, staged>>
        BY <1>9, Zenon DEF Settle
    <2> QED BY <1>d, <2>1
<1>10. CASE SaveRow \/ Tick
    BY <1>10, <1>d DEF SaveRow, Tick
<1>11. CASE Boot
    BY <1>11, <1>a DEF Boot, StagedInv
<1>12. CASE UNCHANGED vars
    BY <1>12, <1>d DEF vars
<1>13. ASSUME NEW p \in Pairs, ChargeAnew(p) PROVE StagedInv'
    BY <1>13 DEF ChargeAnew, StagedInv
<1>14. CASE ReadFails
    BY <1>14, <1>c DEF ReadFails
<1>15. CASE SaveRowFails
    BY <1>15, <1>d DEF SaveRowFails
<1>16. ASSUME NEW kept, ResetFails(kept) PROVE StagedInv'
    <2>1. staged' = NoResults
        BY <1>16, Zenon DEF ResetFails
    <2> QED BY <1>c, <2>1
<1> QED BY <1>1, <1>2, <1>3, <1>4, <1>5, <1>6, <1>7, <1>8, <1>9, <1>10, <1>11, <1>12, <1>13,
           <1>14, <1>15, <1>16, Zenon
        DEF Next, Uptime, Settlement, BoundReached

\* A sum of the model is a sum over the domain of the function.
LEMMA SumOfDomain ==
    ASSUME NEW S, NEW f, DOMAIN f = S
    PROVE  SumOf(f) = SumOver(f, S)
BY DEF SumOf, FoldFunction, FoldFunctionOnSet, SumOver, MapThenFoldSet, AnElement

LEMMA ShownType == ASSUME TablesOK, NEW t \in Teams PROVE Shown(t) \in Int
<1> DEFINE f == [b \in Boxes |-> slas[<<t, b>>].violations]
<1>1. f \in [Boxes -> Int]
    BY DEF TablesOK, SlaRow, Pairs
<1>2. SumOf(f) = SumOver(f, Boxes)
    BY SumOfDomain
<1> QED BY <1>1, <1>2, Bounds, SumType DEF Shown

LEMMA BalanceStep == IInv /\ [Next]_vars => BalanceOK'
<1> SUFFICES ASSUME IInv, [Next]_vars PROVE BalanceOK'
    OBVIOUS
<1>a. TablesOK /\ PassOK /\ RowsInv /\ BalanceOK
    BY DEF IInv
<1>b. ASSUME NEW t \in Teams
      PROVE  /\ Newest(t).sla \in Nat /\ staged[t].sla \in Nat
             /\ Shown(t) + forgotten[t] \in Nat
    <2>1. Newest(t).sla \in Nat /\ staged[t].sla \in Nat
        BY <1>a, NewestHere, NewestType DEF TablesOK, PassOK, Staged
    <2>2. Charged(t) \in Nat
        BY <1>a, <2>1 DEF Charged, Extra, BalanceOK
    <2>3. Charged(t) = Shown(t) + forgotten[t]
        BY DEF IInv, ChargeInv
    <2> QED BY <2>1, <2>2, <2>3
<1>c. ASSUME UNCHANGED losses PROVE BalanceOK'
    BY <1>a, <1>c DEF BalanceOK, losses
<1>d. [t \in Teams |-> uncharged[t] + Newest(t).sla] \in [Teams -> Nat]
    BY <1>a, <1>b DEF BalanceOK
<1>e. [t \in Teams |-> forgotten[t] + Shown(t)] \in [Teams -> Nat]
    <2>1. \A t \in Teams : forgotten[t] + Shown(t) = Shown(t) + forgotten[t]
        BY <1>a, ShownType DEF BalanceOK
    <2> QED BY <1>b, <2>1
<1>1. ASSUME NEW v \in Teams, NEW o \in Teams, NEW b \in Boxes, ScorePersist(v, b, o)
      PROVE  BalanceOK'
    BY <1>1, <1>c DEF ScorePersist
<1>2. ASSUME NEW t \in Teams, NEW b \in Boxes, ScoreAgent(t, b) PROVE BalanceOK'
    BY <1>2, <1>c DEF ScoreAgent
<1>3. CASE Collect \/ DropRound \/ BeginUptime \/ BeginProcessing \/ ReadRecords \/ SaveRow
    BY <1>3, <1>c DEF Collect, DropRound, BeginUptime, BeginProcessing, ReadRecords, SaveRow
<1>4. CASE EndRound \/ Boot
    BY <1>4, <1>a DEF EndRound, Boot, BalanceOK
<1>5. ASSUME NEW p \in Pairs,
             SkipBox(p) \/ ChargeBox(p) \/ ChargeFails(p) \/ Settle(p) \/ Panic(p)
      PROVE  BalanceOK'
    <2>1. UNCHANGED losses
        BY <1>5, Zenon DEF SkipBox, ChargeBox, ChargeFails, Settle, Panic
    <2> QED BY <1>c, <2>1
<1>6. ASSUME NEW p \in Pairs, ChargeAnew(p) PROVE BalanceOK'
    <2>1. /\ forgotten' = [forgotten EXCEPT ![p[1]] = forgotten[p[1]] + slas[p].violations]
          /\ UNCHANGED <<uncharged, unsettled>>
        BY <1>6 DEF ChargeAnew
    <2>2. slas[p].violations \in Nat /\ p[1] \in Teams
        BY <1>a, PairParts DEF TablesOK, SlaRow
    <2> QED BY <1>a, <2>1, <2>2 DEF BalanceOK
<1>7. ASSUME NEW t \in Teams, CreateRecord(t) PROVE BalanceOK'
    BY <1>7, <1>c DEF CreateRecord
<1>8. ASSUME NEW t \in Teams, RecordFails(t) PROVE BalanceOK'
    <2>1. /\ uncharged' = [uncharged EXCEPT ![t] = uncharged[t] + staged[t].sla]
          /\ UNCHANGED <<forgotten, unsettled>>
        BY <1>8 DEF RecordFails
    <2> QED BY <1>a, <1>b, <2>1 DEF BalanceOK
<1>9. CASE ReadFails
    BY <1>9, <1>a DEF ReadFails, BalanceOK
<1>10. CASE SaveRowFails
    <2>1. unsettled' = unsettled \cup {p.team : p \in records[1].persists} /\ records[1] \in Read
        BY <1>10, <1>a, SaveRowFailsEffect
    <2>2. unsettled' \subseteq Teams
        BY <1>a, <2>1 DEF BalanceOK, Read, Persist
    <2>3. UNCHANGED <<forgotten, uncharged>>
        BY <1>10 DEF SaveRowFails
    <2> QED BY <1>a, <2>2, <2>3 DEF BalanceOK
<1>11. CASE Reset
    <2>1. /\ uncharged' = [t \in Teams |-> uncharged[t] + Newest(t).sla]
          /\ forgotten' = [t \in Teams |-> forgotten[t] + Shown(t)]
          /\ UNCHANGED unsettled
        BY <1>11, Zenon DEF Reset
    <2> QED BY <1>a, <1>d, <1>e, <2>1, Zenon DEF BalanceOK
<1>12. ASSUME NEW kept, ResetFails(kept) PROVE BalanceOK'
    <2>1. UNCHANGED unsettled
        BY <1>12, Zenon DEF ResetFails
    <2>2. /\ UNCHANGED uncharged \/ uncharged' = [t \in Teams |-> uncharged[t] + Newest(t).sla]
          /\ UNCHANGED forgotten \/ forgotten' = [t \in Teams |-> forgotten[t] + Shown(t)]
        BY <1>12, <1>a, ResetFailsEffect, Zenon
    <2> QED BY <1>a, <1>d, <1>e, <2>1, <2>2, Zenon DEF BalanceOK
<1>13. CASE Tick
    BY <1>13, <1>c DEF Tick
<1>14. CASE Crash
    <2>1. /\ uncharged' = [t \in Teams |-> IF Open(t) THEN uncharged[t] + staged[t].sla
                                                        ELSE uncharged[t]]
          /\ UNCHANGED <<forgotten, unsettled>>
        BY <1>14, Zenon DEF Crash
    <2>2. \A t \in Teams : uncharged[t] \in Nat /\ uncharged[t] + staged[t].sla \in Nat
        BY <1>a, <1>b DEF BalanceOK
    <2>3. uncharged' \in [Teams -> Nat]
        <3> HIDE DEF Open
        <3> QED BY <2>1, <2>2
    <2> QED BY <1>a, <2>1, <2>3 DEF BalanceOK
<1>15. CASE UNCHANGED vars
    BY <1>15, <1>c DEF vars
<1> QED BY <1>1, <1>2, <1>3, <1>4, <1>5, <1>6, <1>7, <1>8, <1>9, <1>10, <1>11, <1>12, <1>13,
           <1>14, <1>15, Zenon DEF Next, Uptime, Settlement, BoundReached

\* A sum stands when what one part of it loses another gains.
LEMMA SumMoved ==
    ASSUME NEW n \in Int, NEW e \in Int, NEW u \in Int, NEW z \in Int,
           NEW e1 \in Int, NEW u1 \in Int, n + e + u = z, u1 + e1 = u + e
    PROVE  n + e1 + u1 = z
OBVIOUS

LEMMA ChargeStep == IInv /\ [Next]_vars => ChargeInv'
<1> SUFFICES ASSUME IInv, [Next]_vars PROVE ChargeInv'
    OBVIOUS
<1>a. /\ TablesOK /\ MemoryOK /\ PassOK /\ NumbersOK /\ BalanceOK
      /\ RoundInv /\ RowsInv /\ ReadInv /\ StagedInv
    BY DEF IInv
<1>b. TablesOK' /\ PassOK' /\ RowsInv' /\ BalanceOK'
    BY TablesStep, PassStep, RowsStep, BalanceStep
<1>c. ASSUME NEW t \in Teams
      PROVE  /\ NewestOf(rows, t).sla + Extra(t) + uncharged[t] = Shown(t) + forgotten[t]
             /\ Charged(t)' = NewestOf(rows', t).sla + Extra(t)' + uncharged'[t]
             /\ NewestOf(rows, t).sla \in Nat /\ NewestOf(rows', t).sla \in Nat
             /\ Extra(t) \in Nat /\ Extra(t)' \in Nat
             /\ uncharged[t] \in Nat /\ uncharged'[t] \in Nat
             /\ forgotten[t] \in Nat /\ forgotten'[t] \in Nat
             /\ Shown(t) \in Int
    <2>1. Charged(t) = Shown(t) + forgotten[t]
        BY DEF IInv, ChargeInv
    <2>2. Charged(t) = NewestOf(rows, t).sla + Extra(t) + uncharged[t]
        BY NewestHere DEF Charged
    <2>3. Charged(t)' = NewestOf(rows', t).sla + Extra(t)' + uncharged'[t]
        BY NewestThen DEF Charged
    <2>4. NewestOf(rows, t).sla \in Nat /\ NewestOf(rows', t).sla \in Nat
        BY <1>a, <1>b, NewestType DEF TablesOK
    <2>5. staged[t].sla \in Nat /\ staged'[t].sla \in Nat
        BY <1>a, <1>b DEF PassOK, Staged
    <2>6. Extra(t) \in Nat /\ Extra(t)' \in Nat
        BY <2>5 DEF Extra
    <2>7. /\ uncharged[t] \in Nat /\ uncharged'[t] \in Nat
          /\ forgotten[t] \in Nat /\ forgotten'[t] \in Nat
        BY <1>a, <1>b DEF BalanceOK
    <2> QED BY <1>a, <2>1, <2>2, <2>3, <2>4, <2>6, <2>7, ShownType
\* What leaves the staged records is counted as not charged.
<1>d. ASSUME UNCHANGED <<rows, slas, forgotten>>,
             \A t \in Teams : uncharged'[t] + Extra(t)' = uncharged[t] + Extra(t)
      PROVE  ChargeInv'
    <2>1. ASSUME NEW t \in Teams PROVE Charged(t)' = Shown(t)' + forgotten'[t]
        <3>1. Shown(t)' = Shown(t) /\ NewestOf(rows', t) = NewestOf(rows, t)
            BY <1>d DEF Shown
        <3>2. uncharged'[t] + Extra(t)' = uncharged[t] + Extra(t) /\ forgotten'[t] = forgotten[t]
            BY <1>d
        <3>3. /\ NewestOf(rows, t).sla + Extra(t) + uncharged[t] = Shown(t) + forgotten[t]
              /\ Charged(t)' = NewestOf(rows, t).sla + Extra(t)' + uncharged'[t]
              /\ NewestOf(rows, t).sla \in Nat /\ Extra(t) \in Nat /\ Extra(t)' \in Nat
              /\ uncharged[t] \in Nat /\ uncharged'[t] \in Nat /\ forgotten[t] \in Nat
              /\ Shown(t) \in Int
            BY <1>c, <3>1
        <3> HIDE DEF Charged, Shown, Extra
        <3>4. /\ NewestOf(rows, t).sla \in Int /\ Extra(t) \in Int /\ Extra(t)' \in Int
              /\ uncharged[t] \in Int /\ uncharged'[t] \in Int
              /\ Shown(t) + forgotten[t] \in Int
            BY <3>3
        <3>5. NewestOf(rows, t).sla + Extra(t)' + uncharged'[t] = Shown(t) + forgotten[t]
            BY <3>2, <3>3, <3>4, SumMoved
        <3> QED BY <3>1, <3>2, <3>3, <3>5
    <2> QED BY <2>1 DEF ChargeInv
<1>e. ASSUME UNCHANGED <<rows, slas, forgotten, uncharged>>, \A t \in Teams : Extra(t)' = Extra(t)
      PROVE  ChargeInv'
    BY <1>d, <1>e
<1>f. ASSUME UNCHANGED <<rows, slas, forgotten, uncharged, lpc, left, staged>> PROVE ChargeInv'
    BY <1>e, <1>f DEF Extra, Open
\* A violation is charged, and shown in a row that showed v of them and now shows w.
<1>g. ASSUME NEW p \in Pairs, NEW w \in Nat, NEW v, v = slas[p].violations, lpc = "uptime",
             UNCHANGED <<rows, lpc, uncharged>>,
             staged' = [staged EXCEPT ![p[1]] = [staged[p[1]] EXCEPT !.sla = @ + 1]],
             slas' = [slas EXCEPT ![p] = [time |-> clock, violations |-> w]],
             \A u \in Teams :
                 forgotten'[u] = forgotten[u] + (IF u = p[1] THEN (1 + v) - w ELSE 0)
      PROVE  ChargeInv'
    <2> DEFINE t == p[1]
               c == p[2]
               f == [b \in Boxes |-> slas[<<t, b>>].violations]
               h == [b \in Boxes |-> slas'[<<t, b>>].violations]
    <2>1. /\ staged' = [staged EXCEPT ![t] = [staged[t] EXCEPT !.sla = staged[t].sla + 1]]
          /\ slas' = [slas EXCEPT ![p] = [time |-> clock, violations |-> w]]
        BY <1>g
    <2>2. t \in Teams /\ c \in Boxes /\ p = <<t, c>> /\ v \in Nat
        BY <1>a, <1>g, PairParts DEF TablesOK, SlaRow
    <2>3. ASSUME NEW u \in Teams
          PROVE  Extra(u)' = Extra(u) + (IF u = t THEN 1 ELSE 0)
        <3>1. staged'[u].sla = staged[u].sla + (IF u = t THEN 1 ELSE 0)
            <4>1. CASE u = t
                <5>1. staged'[t] = [staged[t] EXCEPT !.sla = staged[t].sla + 1]
                    BY <1>a, <2>1, <2>2 DEF PassOK
                <5>2. staged[t] \in Staged
                    BY <1>a, <2>2 DEF PassOK
                <5> QED BY <4>1, <5>1, <5>2 DEF Staged
            <4>2. CASE u # t
                <5>1. staged'[u] = staged[u] /\ staged[u].sla \in Nat
                    BY <1>a, <2>1, <4>2 DEF PassOK, Staged
                <5> QED BY <4>2, <5>1
            <4> QED BY <4>1, <4>2
        <3> QED BY <1>g, <3>1 DEF Extra, Open
    <2>4. ASSUME NEW u \in Teams, u # t PROVE Shown(u)' = Shown(u)
        <3>1. \A b \in Boxes : slas'[<<u, b>>] = slas[<<u, b>>]
            BY <1>a, <2>1, <2>2, <2>4 DEF TablesOK, Pairs
        <3>2. [b \in Boxes |-> slas'[<<u, b>>].violations] =
                  [b \in Boxes |-> slas[<<u, b>>].violations]
            BY <3>1
        <3> QED BY <3>2 DEF Shown
    <2>5. Shown(t)' = Shown(t) + (w - v)
        <3>a. slas \in [Pairs -> SlaRow] /\ p \in Pairs /\ \A b \in Boxes : <<t, b>> \in Pairs
            BY <1>a, <2>2 DEF TablesOK, Pairs
        <3>b. \A q \in Pairs : slas[q].violations \in Int
            BY <3>a DEF SlaRow
        <3>1. /\ \A b \in Boxes : slas[<<t, b>>].violations \in Int
              /\ slas'[<<t, c>>].violations = w /\ slas[<<t, c>>].violations = v
              /\ \A b \in Boxes \ {c} : slas'[<<t, b>>] = slas[<<t, b>>]
            <4> HIDE DEF t, c
            <4>1. slas'[p] = [time |-> clock, violations |-> w] /\ slas[p].violations = v
                BY <1>g, <2>1, <3>a
            <4>2. \A q \in Pairs \ {p} : slas'[q] = slas[q]
                BY <2>1, <3>a
            <4>3. \A b \in Boxes \ {c} : <<t, b>> \in Pairs \ {p}
                BY <2>2, <3>a
            <4> QED BY <2>2, <3>a, <3>b, <4>1, <4>2, <4>3
        <3>2. f \in [Boxes -> Int] /\ h \in [Boxes -> Int] /\ h[c] = w /\ f[c] = v
              /\ \A b \in Boxes \ {c} : h[b] = f[b]
            BY <2>2, <3>1
        <3>3. SumOver(h, Boxes) = SumOver(f, Boxes) + (h[c] - f[c]) /\ SumOver(f, Boxes) \in Int
            <4> HIDE DEF f, h, c
            <4> QED BY <2>2, <3>2, Bounds, SumOfChange, SumType
        <3>4. SumOf(f) = SumOver(f, Boxes) /\ SumOf(h) = SumOver(h, Boxes)
            BY SumOfDomain
        <3>5. Shown(t) = SumOf(f) /\ Shown(t)' = SumOf(h)
            BY DEF Shown
        <3> HIDE DEF f, h
        <3> QED BY <2>2, <3>2, <3>3, <3>4, <3>5
    <2> HIDE DEF t
    <2>6. ASSUME NEW u \in Teams PROVE Charged(u)' = Shown(u)' + forgotten'[u]
        <3>1. Shown(u)' = Shown(u) + (IF u = t THEN w - v ELSE 0)
            BY <1>c, <2>4, <2>5
        <3>2. /\ Extra(u)' = Extra(u) + (IF u = t THEN 1 ELSE 0)
              /\ forgotten'[u] = forgotten[u] + (IF u = t THEN (1 + v) - w ELSE 0)
              /\ uncharged'[u] = uncharged[u] /\ NewestOf(rows', u) = NewestOf(rows, u)
            BY <1>g, <2>3 DEF t
        <3>3. /\ NewestOf(rows, u).sla + Extra(u) + uncharged[u] = Shown(u) + forgotten[u]
              /\ Charged(u)' = NewestOf(rows, u).sla + Extra(u)' + uncharged[u]
              /\ NewestOf(rows, u).sla \in Nat /\ Extra(u) \in Nat
              /\ uncharged[u] \in Nat /\ forgotten[u] \in Nat /\ Shown(u) \in Int
            BY <1>c, <3>2
        <3> HIDE DEF Charged, Shown, Extra
        <3> QED BY <2>2, <3>1, <3>2, <3>3
    <2> QED BY <2>6 DEF ChargeInv
<1>h. ASSUME slas' = [p \in Pairs |-> NoSla], NEW t \in Teams PROVE Shown(t)' = 0
    <2> DEFINE h == [b \in Boxes |-> slas'[<<t, b>>].violations]
    <2>1. \A b \in Boxes : slas'[<<t, b>>].violations = 0
        BY <1>h DEF NoSla, Pairs
    <2>2. h = [b \in Boxes |-> 0]
        BY <2>1, Zenon
    <2>3. Shown(t)' = SumOf(h) /\ SumOf(h) = SumOver(h, Boxes)
        BY SumOfDomain DEF Shown
    <2>4. SumOver([b \in Boxes |-> 0], Boxes) = 0
        BY Bounds, SumOfZeroes
    <2> QED BY <2>2, <2>3, <2>4
<1> USE DEF tables, pass, losses
<1>1. ASSUME NEW v \in Teams, NEW o \in Teams, NEW b \in Boxes, ScorePersist(v, b, o)
      PROVE  ChargeInv'
    BY <1>1, <1>f DEF ScorePersist
<1>2. ASSUME NEW t \in Teams, NEW b \in Boxes, ScoreAgent(t, b) PROVE ChargeInv'
    BY <1>2, <1>f DEF ScoreAgent
<1>3. CASE Collect \/ DropRound
    <2>1. \A t \in Teams : Extra(t)' = 0 /\ Extra(t) = 0
        BY <1>3 DEF Collect, DropRound, Extra, Open
    <2> QED BY <1>3, <1>e, <2>1 DEF Collect, DropRound
<1>4. CASE BeginUptime
    <2>1. \A t \in Teams : Extra(t)' = 0 /\ Extra(t) = 0
        BY <1>4, <1>a DEF BeginUptime, Extra, Open, StagedInv
    <2> QED BY <1>4, <1>e, <2>1 DEF BeginUptime
<1>5. CASE BeginProcessing
    <2>1. \A t \in Teams : Extra(t)' = Extra(t)
        BY <1>5 DEF BeginProcessing, Extra, Open
    <2> QED BY <1>5, <1>e, <2>1 DEF BeginProcessing
<1>6. ASSUME NEW p \in Pairs, SkipBox(p) \/ ChargeFails(p) \/ Panic(p) PROVE ChargeInv'
    <2>1. \A t \in Teams : Extra(t)' = Extra(t)
        BY <1>6 DEF SkipBox, ChargeFails, Panic, Extra, Open
    <2>2. UNCHANGED <<rows, slas, forgotten, uncharged>>
        BY <1>6 DEF SkipBox, ChargeFails, Panic
    <2> QED BY <1>e, <2>1, <2>2
<1>7. ASSUME NEW p \in Pairs, ChargeBox(p) PROVE ChargeInv'
    <2>1. /\ slas' = [slas EXCEPT ![p] = [time |-> clock, violations |-> slas[p].violations + 1]]
          /\ staged' = [staged EXCEPT ![p[1]] = [staged[p[1]] EXCEPT !.sla = @ + 1]]
          /\ lpc = "uptime" /\ UNCHANGED <<rows, lpc, uncharged, forgotten>>
        BY <1>7 DEF ChargeBox
    <2>2. slas[p].violations \in Nat
        BY <1>a DEF TablesOK, SlaRow
    <2>3. PICK v \in Nat, w \in Nat : v = slas[p].violations /\ w = v + 1
        BY <2>2
    <2>4. \A u \in Teams :
              forgotten'[u] = forgotten[u] + (IF u = p[1] THEN (1 + v) - w ELSE 0)
        <3>1. \A u \in Teams : forgotten'[u] = forgotten[u] /\ forgotten[u] \in Nat
            BY <1>c, <2>1
        <3> QED BY <2>3, <3>1
    <2>5. slas' = [slas EXCEPT ![p] = [time |-> clock, violations |-> w]]
        BY <2>1, <2>3, Zenon
    <2>6. staged' = [staged EXCEPT ![p[1]] = [staged[p[1]] EXCEPT !.sla = @ + 1]]
        BY <2>1, Zenon
    <2>7. v = slas[p].violations /\ UNCHANGED <<rows, lpc, uncharged>> /\ lpc = "uptime"
        BY <2>1, <2>3
    <2> QED BY <1>g, <2>4, <2>5, <2>6, <2>7
<1>8. ASSUME NEW p \in Pairs, ChargeAnew(p) PROVE ChargeInv'
    <2>1. /\ slas' = [slas EXCEPT ![p] = [time |-> clock, violations |-> 1]]
          /\ staged' = [staged EXCEPT ![p[1]] = [staged[p[1]] EXCEPT !.sla = @ + 1]]
          /\ forgotten' = [forgotten EXCEPT ![p[1]] = forgotten[p[1]] + slas[p].violations]
          /\ lpc = "uptime" /\ UNCHANGED <<rows, lpc, uncharged>>
        BY <1>8 DEF ChargeAnew
    <2>2. slas[p].violations \in Nat
        BY <1>a DEF TablesOK, SlaRow
    <2>3. PICK v \in Nat, w \in Nat : v = slas[p].violations /\ w = 1
        BY <2>2
    <2>4. \A u \in Teams :
              forgotten'[u] = forgotten[u] + (IF u = p[1] THEN (1 + v) - w ELSE 0)
        BY <1>a, <2>1, <2>3 DEF BalanceOK
    <2>5. slas' = [slas EXCEPT ![p] = [time |-> clock, violations |-> w]]
        BY <2>1, <2>3, Zenon
    <2>6. staged' = [staged EXCEPT ![p[1]] = [staged[p[1]] EXCEPT !.sla = @ + 1]]
        BY <2>1, Zenon
    <2>7. v = slas[p].violations /\ UNCHANGED <<rows, lpc, uncharged>> /\ lpc = "uptime"
        BY <2>1, <2>3
    <2> QED BY <1>g, <2>4, <2>5, <2>6, <2>7
<1>9. ASSUME NEW t \in Teams, CreateRecord(t) PROVE ChargeInv'
    <2> DEFINE r == CarryOn(t)
    <2>1. rounds \in 1..MaxRounds
        BY <1>9, <1>a, Bounds DEF CreateRecord, RoundInv, NumbersOK
    <2>2. /\ r \in Row /\ r.time = rounds /\ r.team = t
          /\ r.sla = NewestOf(rows, t).sla + staged[t].sla
        BY <1>a, <2>1, CarryOnIs, NewestHere
    <2>3. /\ rows' = rows \cup {r} /\ left' = left \ {t} /\ t \in left
          /\ lpc = "processing" /\ UNCHANGED <<lpc, staged, slas, forgotten, uncharged>>
        BY <1>9 DEF CreateRecord
    <2> HIDE DEF r
    <2>4. NewestOf(rows', t) = r
        <3>1. \A q \in rows' : q.team = t => q = r \/ q.time < r.time
            BY <1>a, <2>2, <2>3 DEF RowsInv
        <3> QED BY <1>b, <2>2, <2>3, <3>1, NewestUnique DEF TablesOK
    <2>5. \A u \in Teams \ {t} : NewestOf(rows', u) = NewestOf(rows, u)
        <3> SUFFICES ASSUME NEW u \in Teams \ {t} PROVE NewestOf(rows', u) = NewestOf(rows, u)
            OBVIOUS
        <3>1. Own(rows', u) = Own(rows, u)
            BY <2>2, <2>3 DEF Own
        <3> QED BY <3>1 DEF NewestOf
    <2>6. Extra(t) = staged[t].sla /\ Extra(t)' = 0
        BY <2>3 DEF Extra, Open
    <2>7. \A u \in Teams \ {t} : Extra(u)' = Extra(u)
        BY <2>3 DEF Extra, Open
    <2>8. ASSUME NEW u \in Teams
          PROVE  NewestOf(rows', u).sla + Extra(u)' = NewestOf(rows, u).sla + Extra(u)
        BY <1>c, <2>2, <2>4, <2>5, <2>6, <2>7
    <2>9. \A u \in Teams : Shown(u)' = Shown(u)
        BY <2>3 DEF Shown
    <2>10. ASSUME NEW u \in Teams PROVE Charged(u)' = Shown(u)' + forgotten'[u]
        <3> HIDE DEF Charged, Shown, Extra
        <3> QED BY <1>c, <2>3, <2>8, <2>9
    <2> QED BY <2>10 DEF ChargeInv
<1>10. ASSUME NEW t \in Teams, RecordFails(t) PROVE ChargeInv'
    <2>1. /\ uncharged' = [uncharged EXCEPT ![t] = uncharged[t] + staged[t].sla]
          /\ lpc = "processing" /\ t \in left /\ left' = left \ {t}
          /\ UNCHANGED <<rows, slas, forgotten, staged, lpc>>
        BY <1>10 DEF RecordFails
    <2>2. ASSUME NEW u \in Teams PROVE uncharged'[u] + Extra(u)' = uncharged[u] + Extra(u)
        <3>1. CASE u = t
            <4>1. uncharged'[u] = uncharged[u] + staged[u].sla
                BY <1>a, <2>1, <3>1 DEF BalanceOK
            <4>2. Extra(u) = staged[u].sla /\ Extra(u)' = 0
                BY <2>1, <3>1 DEF Extra, Open
            <4> QED BY <1>c, <4>1, <4>2
        <3>2. CASE u # t
            <4>1. uncharged'[u] = uncharged[u]
                BY <1>a, <2>1, <3>2 DEF BalanceOK
            <4>2. Extra(u)' = Extra(u)
                BY <2>1, <3>2 DEF Extra, Open
            <4> QED BY <4>1, <4>2
        <3> QED BY <3>1, <3>2
    <2> QED BY <1>d, <2>1, <2>2
<1>11. CASE ReadRecords \/ ReadFails \/ EndRound \/ SaveRowFails
    <2>1. \A t \in Teams : Extra(t)' = 0 /\ Extra(t) = 0
        BY <1>11 DEF ReadRecords, ReadFails, EndRound, SaveRowFails, Extra, Open
    <2> QED BY <1>11, <1>e, <2>1 DEF ReadRecords, ReadFails, EndRound, SaveRowFails
<1>12. ASSUME NEW p \in Pairs, Settle(p) PROVE ChargeInv'
    <2>1. UNCHANGED <<rows, slas, forgotten, uncharged, lpc, staged>> /\ lpc = "settle"
        BY <1>12, Zenon DEF Settle
    <2>2. \A t \in Teams : Extra(t)' = Extra(t)
        BY <2>1 DEF Extra, Open
    <2> QED BY <1>e, <2>1, <2>2
<1>13. CASE SaveRow
    <2>1. PICK rec \in Read :
              /\ lpc = "settle" /\ Len(records) \in Nat \ {0} /\ rec = records[1]
              /\ rows' = {r \in rows : r.time # rec.row.time \/ r.team # rec.row.team}
                             \cup {rec.row}
        BY <1>13, <1>a, SaveEffect
    <2>2. UNCHANGED <<lpc, staged, slas, forgotten, uncharged>>
        BY <1>13 DEF SaveRow
    <2>3. PICK s \in rows : s.time = rec.row.time /\ s.team = rec.row.team /\ s.sla = rec.row.sla
        BY <1>a, <2>1 DEF ReadInv, PassOK
    <2>4. \A r \in rows : \E q \in rows' : q.time = r.time /\ q.team = r.team /\ q.sla = r.sla
        BY <1>a, <2>1, <2>3 DEF RowsInv
    <2>5. \A q \in rows' : \E r \in rows : q.time = r.time /\ q.team = r.team /\ q.sla = r.sla
        BY <2>1, <2>3
    <2>6. ASSUME NEW t \in Teams PROVE NewestOf(rows', t).sla = NewestOf(rows, t).sla
        <3>1. \A r, q \in rows : r.time = q.time /\ r.team = q.team => r = q
            BY <1>a DEF RowsInv
        <3>2. rows \in SUBSET Row /\ rows' \in SUBSET Row
            BY <1>a, <1>b DEF TablesOK
        <3> QED BY <2>4, <2>5, <3>1, <3>2, SameSla
    <2>7. ASSUME NEW t \in Teams PROVE Extra(t)' = 0 /\ Extra(t) = 0 /\ Shown(t)' = Shown(t)
        BY <2>1, <2>2 DEF Extra, Open, Shown
    <2>8. ASSUME NEW t \in Teams PROVE Charged(t)' = Shown(t)' + forgotten'[t]
        <3> HIDE DEF Charged, Shown, Extra
        <3> QED BY <1>c, <2>2, <2>6, <2>7
    <2> QED BY <2>8 DEF ChargeInv
<1>14. CASE Reset
    <2>1. /\ rows' = {} /\ slas' = [p \in Pairs |-> NoSla]
          /\ uncharged' = [t \in Teams |-> uncharged[t] + Newest(t).sla]
          /\ forgotten' = [t \in Teams |-> forgotten[t] + Shown(t)]
          /\ lpc \in {"idle", "staged"} /\ lpc' = "idle"
        BY <1>14, Zenon DEF Reset, LockFree
    <2>2. ASSUME NEW t \in Teams PROVE Charged(t)' = Shown(t)' + forgotten'[t]
        <3>1. NewestOf(rows', t).sla = 0
            BY <2>1 DEF NewestOf, Own
        <3>2. Extra(t)' = 0 /\ Extra(t) = 0 /\ Shown(t)' = 0
            BY <1>h, <2>1 DEF Extra, Open
        <3>3. /\ uncharged'[t] = uncharged[t] + NewestOf(rows, t).sla
              /\ forgotten'[t] = forgotten[t] + Shown(t)
            BY <2>1, NewestHere
        <3> HIDE DEF Charged, Shown, Extra
        <3> QED BY <1>c, <3>1, <3>2, <3>3
    <2> QED BY <2>2 DEF ChargeInv
<1>15. ASSUME NEW kept, ResetFails(kept) PROVE ChargeInv'
    <2>1. /\ \A q \in rows' : \E r \in rows : Same(q, r)
          /\ \/ /\ \A r \in rows : \E q \in rows' : Same(q, r)
                /\ UNCHANGED uncharged
             \/ rows' = {} /\ uncharged' = [t \in Teams |-> uncharged[t] + Newest(t).sla]
          /\ \/ UNCHANGED <<slas, forgotten>>
             \/ /\ slas' = [p \in Pairs |-> NoSla]
                /\ forgotten' = [t \in Teams |-> forgotten[t] + Shown(t)]
        BY <1>15, <1>a, ResetFailsEffect, Zenon
    <2>2. lpc \in {"idle", "staged"} /\ lpc' = "idle"
        BY <1>15, Zenon DEF ResetFails, LockFree
    <2>3. ASSUME NEW t \in Teams
          PROVE  NewestOf(rows', t).sla + uncharged'[t] = NewestOf(rows, t).sla + uncharged[t]
        <3>1. CASE /\ \A r \in rows : \E q \in rows' : Same(q, r)
                   /\ UNCHANGED uncharged
            <4>1. \A r, q \in rows : r.time = q.time /\ r.team = q.team => r = q
                BY <1>a DEF RowsInv
            <4>2. rows \in SUBSET Row /\ rows' \in SUBSET Row
                BY <1>a, <1>b DEF TablesOK
            <4>3. NewestOf(rows', t).sla = NewestOf(rows, t).sla
                BY <2>1, <3>1, <4>1, <4>2, SameSla DEF Same
            <4> QED BY <3>1, <4>3
        <3>2. CASE rows' = {} /\ uncharged' = [u \in Teams |-> uncharged[u] + Newest(u).sla]
            <4>1. NewestOf(rows', t).sla = 0
                BY <3>2 DEF NewestOf, Own
            <4>2. uncharged'[t] = uncharged[t] + NewestOf(rows, t).sla
                BY <3>2, NewestHere
            <4> QED BY <1>c, <4>1, <4>2
        <3> QED BY <2>1, <3>1, <3>2
    <2>4. ASSUME NEW t \in Teams PROVE Shown(t)' + forgotten'[t] = Shown(t) + forgotten[t]
        <3>1. CASE UNCHANGED <<slas, forgotten>>
            BY <3>1 DEF Shown
        <3>2. CASE /\ slas' = [p \in Pairs |-> NoSla]
                   /\ forgotten' = [u \in Teams |-> forgotten[u] + Shown(u)]
            <4>1. Shown(t)' = 0 /\ forgotten'[t] = forgotten[t] + Shown(t)
                BY <1>h, <3>2
            <4> HIDE DEF Shown
            <4> QED BY <1>c, <4>1
        <3> QED BY <2>1, <3>1, <3>2
    <2>5. ASSUME NEW t \in Teams PROVE Charged(t)' = Shown(t)' + forgotten'[t]
        <3>1. Extra(t)' = 0 /\ Extra(t) = 0
            BY <2>2 DEF Extra, Open
        <3> HIDE DEF Charged, Shown, Extra
        <3> QED BY <1>c, <2>3, <2>4, <3>1
    <2> QED BY <2>5 DEF ChargeInv
<1>16. CASE Tick
    BY <1>16, <1>f DEF Tick
<1>17. CASE Crash
    <2>1. /\ UNCHANGED <<rows, slas, forgotten>> /\ lpc' = "down"
          /\ uncharged' = [t \in Teams |-> IF Open(t) THEN uncharged[t] + staged[t].sla
                                                        ELSE uncharged[t]]
        BY <1>17, Zenon DEF Crash
    <2>2. ASSUME NEW t \in Teams PROVE uncharged'[t] + Extra(t)' = uncharged[t] + Extra(t)
        <3>1. Extra(t)' = 0
            BY <2>1 DEF Extra, Open
        <3>2. uncharged'[t] = IF Open(t) THEN uncharged[t] + staged[t].sla ELSE uncharged[t]
            BY <2>1
        <3>3. Extra(t) = IF Open(t) THEN staged[t].sla ELSE 0
            BY DEF Extra
        <3> HIDE DEF Open, Extra
        <3> QED BY <1>c, <3>1, <3>2, <3>3
    <2> QED BY <1>d, <2>1, <2>2
<1>18. CASE Boot
    <2>1. \A t \in Teams : Extra(t)' = 0 /\ Extra(t) = 0
        BY <1>18 DEF Boot, Extra, Open
    <2> QED BY <1>18, <1>e, <2>1 DEF Boot
<1>19. CASE UNCHANGED vars
    BY <1>19, <1>f DEF vars
<1> QED BY <1>1, <1>2, <1>3, <1>4, <1>5, <1>6, <1>7, <1>8, <1>9, <1>10, <1>11, <1>12, <1>13,
           <1>14, <1>15, <1>16, <1>17, <1>18, <1>19, Zenon
        DEF Next, Uptime, Settlement, BoundReached


LEMMA HitsStep == IInv /\ [Next]_vars => HitsInv'
<1> SUFFICES ASSUME IInv, [Next]_vars PROVE HitsInv'
    OBVIOUS
<1>a. /\ TablesOK /\ MemoryOK /\ PassOK /\ NumbersOK /\ RoundInv /\ RowsInv /\ HitsInv
      /\ lpc # "settle" => records = <<>>
    BY DEF IInv, PastInv
<1>b. ASSUME UNCHANGED <<dwConf, persistHits>>, lpc' # "settle" PROVE HitsInv'
    BY <1>a, <1>b DEF HitsInv
<1>c. ASSUME UNCHANGED <<dwConf, persistHits, lpc, left, persists, records, rounds, unsettled>>
      PROVE  HitsInv'
    BY <1>a, <1>c DEF HitsInv, Receipt
<1>d. ASSUME persistHits' = NoHits PROVE HitsInv'
    BY <1>d DEF HitsInv, NoHits
<1> USE DEF tables, memory, pass, bounds, losses
<1>1. ASSUME NEW v \in Teams, NEW o \in Teams, NEW b \in Boxes, ScorePersist(v, b, o)
      PROVE  HitsInv'
    BY <1>1 DEF ScorePersist, LockFree, HitsInv
<1>2. ASSUME NEW t \in Teams, NEW b \in Boxes, ScoreAgent(t, b) PROVE HitsInv'
    BY <1>2, <1>c DEF ScoreAgent
<1>3. CASE Collect \/ DropRound \/ BeginUptime \/ BeginProcessing
    BY <1>3, <1>b DEF Collect, DropRound, BeginUptime, BeginProcessing
<1>4. CASE ReadRecords
    <2>1. UNCHANGED <<dwConf, persistHits>> /\ left' = {p \in Pairs : persistHits[p] # {}}
        BY <1>4 DEF ReadRecords
    <2> QED BY <1>a, <2>1 DEF HitsInv
<1>5. CASE EndRound \/ Reset \/ Boot
    BY <1>5, <1>d DEF EndRound, Reset, Boot
<1>6. ASSUME NEW p \in Pairs, SkipBox(p) \/ ChargeFails(p) \/ ChargeBox(p) PROVE HitsInv'
    BY <1>6, <1>b DEF SkipBox, ChargeFails, ChargeBox
<1>7. ASSUME NEW p \in Pairs, Panic(p) PROVE HitsInv'
    BY <1>7, <1>b DEF Panic
<1>8. ASSUME NEW t \in Teams, CreateRecord(t) \/ RecordFails(t) PROVE HitsInv'
    BY <1>8, <1>b DEF CreateRecord, RecordFails
<1>9. ASSUME NEW p \in Pairs, Settle(p) PROVE HitsInv'
    <2>1. UNCHANGED <<dwConf, persistHits, persists, rounds, unsettled>> /\ lpc = "settle"
        BY <1>9, Zenon DEF Settle
    <2>2. rounds \in 1..MaxRounds
        BY <1>a, <2>1, Bounds DEF RoundInv, NumbersOK
    <2>3. /\ left' = left \ {p} /\ p[1] \in DOMAIN records /\ DOMAIN records' = DOMAIN records
          /\ \A i \in DOMAIN records :
                records'[i].persists =
                    records[i].persists \cup
                        (IF i = p[1] THEN {Receipt(p, o) : o \in persistHits[p]} ELSE {})
        BY <1>9, <1>a, <2>2, SettleEffect
    <2>4. ASSUME NEW q \in Pairs, NEW o \in persistHits[q]
          PROVE  \/ q \in left' \/ Receipt(q, o) \in persists \/ q[1] \in unsettled
                 \/ \E i \in DOMAIN records : Receipt(q, o) \in records'[i].persists
        <3>1. CASE q = p
            <4>1. Receipt(q, o) \in records'[p[1]].persists
                BY <2>3, <3>1
            <4> QED BY <2>3, <4>1
        <3>2. CASE q # p
            <4>1. \/ q \in left \/ Receipt(q, o) \in persists \/ q[1] \in unsettled
                  \/ \E i \in DOMAIN records : Receipt(q, o) \in records[i].persists
                BY <1>a, <2>1 DEF HitsInv
            <4> QED BY <2>3, <3>2, <4>1
        <3> QED BY <3>1, <3>2
    <2>5. \A q, o : Receipt(q, o)' = Receipt(q, o)
        BY <2>1 DEF Receipt
    <2> QED BY <1>a, <2>1, <2>3, <2>4, <2>5 DEF HitsInv
<1>10. CASE SaveRow
    <2>1. PICK rec \in Read :
              /\ lpc = "settle" /\ left = {} /\ Len(records) \in Nat \ {0} /\ rec = records[1]
              /\ persists' = persists \cup rec.persists
              /\ DOMAIN records' = 1..(Len(records) - 1)
              /\ \A i \in DOMAIN records' : /\ i + 1 \in DOMAIN records
                                            /\ records'[i] = records[i + 1]
        BY <1>10, <1>a, SaveEffect
    <2>2. UNCHANGED <<dwConf, persistHits, rounds, left, unsettled>>
        BY <1>10 DEF SaveRow
    <2>3. DOMAIN records = 1..Len(records)
        BY <1>a DEF PassOK
    <2>4. ASSUME NEW q \in Pairs, NEW o \in persistHits[q]
          PROVE  \/ Receipt(q, o) \in persists' \/ q[1] \in unsettled
                 \/ \E i \in DOMAIN records' : Receipt(q, o) \in records'[i].persists
        <3>1. \/ Receipt(q, o) \in persists \/ q[1] \in unsettled
              \/ \E i \in DOMAIN records : Receipt(q, o) \in records[i].persists
            BY <1>a, <2>1 DEF HitsInv
        <3>2. CASE Receipt(q, o) \in persists
            BY <2>1, <3>2
        <3>3. ASSUME NEW i \in DOMAIN records, Receipt(q, o) \in records[i].persists
              PROVE  \/ Receipt(q, o) \in persists'
                     \/ \E j \in DOMAIN records' : Receipt(q, o) \in records'[j].persists
            <4>1. CASE i = 1
                BY <2>1, <3>3, <4>1
            <4>2. CASE i # 1
                <5>1. i - 1 \in DOMAIN records' /\ (i - 1) + 1 = i
                    BY <2>1, <2>3, <4>2
                <5>2. records'[i - 1] = records[i]
                    BY <2>1, <5>1
                <5> QED BY <3>3, <5>1, <5>2
            <4> QED BY <4>1, <4>2
        <3> QED BY <3>1, <3>2, <3>3
    <2>5. \A q, o : Receipt(q, o)' = Receipt(q, o)
        BY <2>2 DEF Receipt
    <2> QED BY <1>a, <2>2, <2>4, <2>5 DEF HitsInv
<1>11. CASE Tick \/ Crash
    BY <1>11, <1>b DEF Tick, Crash
<1>12. CASE UNCHANGED vars
    BY <1>12, <1>c DEF vars
<1>13. ASSUME NEW p \in Pairs, ChargeAnew(p) PROVE HitsInv'
    BY <1>13, <1>b DEF ChargeAnew
<1>14. CASE ReadFails
    <2>1. UNCHANGED <<dwConf, persistHits>> /\ unsettled' = Teams
        BY <1>14 DEF ReadFails
    <2> QED BY <1>a, <2>1, PairParts DEF HitsInv
<1>15. CASE SaveRowFails
    <2>1. /\ lpc = "settle" /\ left = {} /\ Len(records) \in Nat \ {0}
          /\ DOMAIN records = 1..Len(records) /\ DOMAIN records' = 1..(Len(records) - 1)
          /\ \A i \in DOMAIN records' : /\ i + 1 \in DOMAIN records
                                        /\ records'[i] = records[i + 1]
          /\ UNCHANGED <<dwConf, persists, persistHits, rounds, left>>
          /\ unsettled' = unsettled \cup {p.team : p \in records[1].persists}
        BY <1>15, <1>a, SaveRowFailsEffect
    <2>2. ASSUME NEW q \in Pairs, NEW o \in persistHits[q]
          PROVE  \/ Receipt(q, o) \in persists \/ q[1] \in unsettled'
                 \/ \E i \in DOMAIN records' : Receipt(q, o) \in records'[i].persists
        <3>1. \/ Receipt(q, o) \in persists \/ q[1] \in unsettled
              \/ \E i \in DOMAIN records : Receipt(q, o) \in records[i].persists
            BY <1>a, <2>1 DEF HitsInv
        <3>2. ASSUME NEW i \in DOMAIN records, Receipt(q, o) \in records[i].persists
              PROVE  \/ q[1] \in unsettled'
                     \/ \E j \in DOMAIN records' : Receipt(q, o) \in records'[j].persists
            <4>1. CASE i = 1
                <5>1. Receipt(q, o).team = q[1]
                    BY DEF Receipt
                <5> QED BY <2>1, <3>2, <4>1, <5>1
            <4>2. CASE i # 1
                <5>1. i - 1 \in DOMAIN records' /\ (i - 1) + 1 = i
                    BY <2>1, <4>2
                <5>2. records'[i - 1] = records[i]
                    BY <2>1, <5>1
                <5> QED BY <3>2, <5>1, <5>2
            <4> QED BY <4>1, <4>2
        <3> QED BY <2>1, <3>1, <3>2
    <2>3. \A q, o : Receipt(q, o)' = Receipt(q, o)
        BY <2>1 DEF Receipt
    <2> QED BY <1>a, <2>1, <2>2, <2>3 DEF HitsInv
<1>16. ASSUME NEW kept, ResetFails(kept) PROVE HitsInv'
    <2>1. persistHits' = NoHits
        BY <1>16, Zenon DEF ResetFails
    <2> QED BY <1>d, <2>1
<1> QED BY <1>1, <1>2, <1>3, <1>4, <1>5, <1>6, <1>7, <1>8, <1>9, <1>10, <1>11, <1>12, <1>13,
           <1>14, <1>15, <1>16, Zenon
        DEF Next, Uptime, Settlement, BoundReached

LEMMA CallsAreFinite ==
    ASSUME MemoryOK
    PROVE  /\ IsFiniteSet(Calls) /\ Cardinality(Calls) \in Nat
           /\ IsFiniteSet(Receipts) /\ Cardinality(Receipts) \in Nat
           /\ Cardinality(Receipts) <= Cardinality(Calls)
<1> DEFINE f == [call \in Calls |-> Receipt(call[1], call[2])]
<1>1. IsFiniteSet(Calls)
    <2>1. IsFiniteSet(Pairs \X Teams)
        BY FiniteParts, FS_Product
    <2>2. Calls \in SUBSET (Pairs \X Teams)
        BY DEF Calls
    <2> QED BY <2>1, <2>2, FS_Subset
<1>2. Receipts = Range(f) /\ f \in [Calls -> Range(f)]
    BY DEF Receipts, Range
<1> HIDE DEF f
<1>3. IsFiniteSet(Receipts) /\ Cardinality(Receipts) <= Cardinality(Calls)
    BY <1>1, <1>2, ImageIsSmaller
<1> QED BY <1>1, <1>3, FS_CardinalityType

LEMMA PaidStep == IInv /\ [Next]_vars => PaidInv'
<1> SUFFICES ASSUME IInv, [Next]_vars PROVE PaidInv'
    OBVIOUS
<1>a. /\ TablesOK /\ MemoryOK /\ PassOK /\ NumbersOK /\ RoundInv /\ RowsInv
      /\ IsFiniteSet(persists)
      /\ Cardinality(persists \ Receipts) + Cardinality(Calls) <= hits
      /\ lpc \notin {"settle", "down"} => Cardinality(persists) + Cardinality(Calls) <= hits
      /\ lpc = "settle" => \A i \in DOMAIN records : records[i].persists \subseteq Receipts
    BY DEF IInv, PaidInv
<1>b. /\ IsFiniteSet(Calls) /\ Cardinality(Calls) \in Nat
      /\ IsFiniteSet(Receipts) /\ Cardinality(Receipts) \in Nat
      /\ Cardinality(Receipts) <= Cardinality(Calls)
      /\ Cardinality(persists) \in Nat /\ Cardinality(persists \ Receipts) \in Nat
      /\ hits \in Nat
    BY <1>a, CallsAreFinite, FS_CardinalityType, FS_Difference DEF NumbersOK
<1>c. ASSUME UNCHANGED <<persists, persistHits, hits, rounds>>,
             lpc \in {"settle", "down"} => lpc' \in {"settle", "down"},
             lpc' = "settle" => lpc = "settle" /\ UNCHANGED records
      PROVE  PaidInv'
    <2>1. Calls' = Calls /\ Receipts' = Receipts
        BY <1>c DEF Calls, Receipts, Receipt
    <2> QED BY <1>a, <1>c, <2>1 DEF PaidInv
\* When persistHits is made anew, what is in persists is within the bound.
<1>d. Cardinality(persists) <= hits
    <2>1. Cardinality(persists \ Receipts) =
              Cardinality(persists) - Cardinality(persists \cap Receipts)
        BY <1>a, FS_Difference
    <2>2. /\ Cardinality(persists \cap Receipts) <= Cardinality(Receipts)
          /\ Cardinality(persists \cap Receipts) \in Nat
        BY <1>a, <1>b, FS_Intersection, FS_CardinalityType
    <2> QED BY <1>a, <1>b, <2>1, <2>2
<1>e. ASSUME persists' \subseteq persists, UNCHANGED hits, persistHits' = NoHits, lpc' # "settle"
      PROVE  PaidInv'
    <2>1. Calls' = {} /\ Receipts' = {}
        BY <1>e DEF Calls, Receipts, NoHits
    <2>2. persists' \ {} = persists' /\ Cardinality({}) = 0
        BY FS_EmptySet
    <2>3. /\ IsFiniteSet(persists') /\ Cardinality(persists') \in Nat
          /\ Cardinality(persists') <= Cardinality(persists)
        BY <1>a, <1>e, FS_Subset, FS_CardinalityType
    <2>4. Cardinality(persists') <= hits
        BY <1>b, <1>d, <2>3
    <2> QED BY <1>b, <1>e, <2>1, <2>2, <2>3, <2>4 DEF PaidInv
<1> USE DEF tables, memory, bounds, pass
<1>1. ASSUME NEW v \in Teams, NEW o \in Teams, NEW b \in Boxes, ScorePersist(v, b, o)
      PROVE  PaidInv'
    <2> DEFINE call == <<<<v, b>>, o>>
    <2>1. /\ lpc \in {"idle", "staged"} /\ lpc' = lpc /\ o \notin persistHits[<<v, b>>]
          /\ persistHits' = [persistHits EXCEPT ![<<v, b>>] = persistHits[<<v, b>>] \cup {o}]
          /\ hits' = hits + 1 /\ UNCHANGED <<persists, rounds>>
        BY <1>1 DEF ScorePersist, LockFree
    <2>2. Calls' = Calls \cup {call} /\ call \notin Calls
        <3>1. ASSUME NEW p \in Pairs, NEW u \in Teams
              PROVE  u \in persistHits'[p] <=> u \in persistHits[p] \/ (p = <<v, b>> /\ u = o)
            BY <1>a, <2>1 DEF MemoryOK, Pairs
        <3>2. call \in Pairs \X Teams /\ call[1] = <<v, b>> /\ call[2] = o
            BY DEF Pairs
        <3>3. call \notin Calls
            BY <2>1, <3>2 DEF Calls
        <3>4. ASSUME NEW c \in Pairs \X Teams
              PROVE  c \in Calls' <=> c \in Calls \/ c = call
            <4>1. c[1] \in Pairs /\ c[2] \in Teams /\ c = <<c[1], c[2]>>
                OBVIOUS
            <4>2. c = call <=> c[1] = <<v, b>> /\ c[2] = o
                BY <4>1
            <4> QED BY <3>1, <4>1, <4>2 DEF Calls
        <3>5. Calls' \subseteq Pairs \X Teams /\ Calls \subseteq Pairs \X Teams
            BY DEF Calls
        <3> HIDE DEF call
        <3> QED BY <3>2, <3>3, <3>4, <3>5
    <2>3. Cardinality(Calls') = Cardinality(Calls) + 1
        BY <1>b, <2>2, FS_AddElement
    <2>4. /\ Cardinality(persists \ Receipts') \in Nat
          /\ Cardinality(persists \ Receipts') <= Cardinality(persists)
        BY <1>a, <1>b, FS_Difference, FS_Subset, FS_CardinalityType
    <2>5. Cardinality(persists) + Cardinality(Calls') <= hits'
        BY <1>a, <1>b, <2>1, <2>3
    <2>6. Cardinality(persists') + Cardinality(Calls') <= hits' /\ persists' = persists
          /\ Cardinality(Calls') \in Nat /\ hits' \in Nat
        BY <1>b, <2>1, <2>3, <2>5
    <2>7. Cardinality(persists' \ Receipts') + Cardinality(Calls') <= hits'
        BY <1>b, <2>4, <2>6
    <2> QED BY <1>a, <2>1, <2>6, <2>7 DEF PaidInv
<1>2. ASSUME NEW t \in Teams, NEW b \in Boxes, ScoreAgent(t, b) PROVE PaidInv'
    BY <1>2, <1>c DEF ScoreAgent
<1>3. CASE Collect
    <2>1. UNCHANGED <<persists, persistHits, hits>> /\ lpc = "idle" /\ lpc' = "staged"
        BY <1>3 DEF Collect
    <2>2. Calls' = Calls
        BY <2>1 DEF Calls
    <2>3. /\ Cardinality(persists \ Receipts') \in Nat
          /\ Cardinality(persists \ Receipts') <= Cardinality(persists)
        BY <1>a, <1>b, FS_Difference, FS_Subset, FS_CardinalityType
    <2>4. Cardinality(persists' \ Receipts') + Cardinality(Calls') <= hits'
        BY <1>a, <1>b, <2>1, <2>2, <2>3
    <2> QED BY <1>a, <2>1, <2>2, <2>4 DEF PaidInv
<1>4. CASE DropRound \/ BeginUptime \/ BeginProcessing
    BY <1>4, <1>c DEF DropRound, BeginUptime, BeginProcessing
<1>5. CASE ReadRecords
    <2>1. \A i \in DOMAIN records' : records'[i].persists = {}
        BY <1>5, <1>a, ReadEffect
    <2>2. UNCHANGED <<persists, persistHits, hits, rounds>> /\ lpc' = "settle"
        BY <1>5 DEF ReadRecords
    <2>3. Calls' = Calls /\ Receipts' = Receipts
        BY <2>2 DEF Calls, Receipts, Receipt
    <2> QED BY <1>a, <2>1, <2>2, <2>3 DEF PaidInv
<1>6. CASE EndRound \/ Boot
    BY <1>6, <1>e DEF EndRound, Boot
<1>7. ASSUME NEW p \in Pairs, SkipBox(p) \/ ChargeFails(p) \/ ChargeBox(p) PROVE PaidInv'
    BY <1>7, <1>c DEF SkipBox, ChargeFails, ChargeBox
<1>8. ASSUME NEW p \in Pairs, Panic(p) PROVE PaidInv'
    BY <1>8, <1>c DEF Panic
<1>9. ASSUME NEW t \in Teams, CreateRecord(t) \/ RecordFails(t) PROVE PaidInv'
    BY <1>9, <1>c DEF CreateRecord, RecordFails
<1>10. ASSUME NEW p \in Pairs, Settle(p) PROVE PaidInv'
    <2>1. UNCHANGED <<persistHits, persists, rounds, hits, lpc>> /\ lpc = "settle"
        BY <1>10, Zenon DEF Settle
    <2>2. rounds \in 1..MaxRounds
        BY <1>a, <2>1, Bounds DEF RoundInv, NumbersOK
    <2>3. /\ DOMAIN records' = DOMAIN records
          /\ \A i \in DOMAIN records :
                records'[i].persists =
                    records[i].persists \cup
                        (IF i = p[1] THEN {Receipt(p, o) : o \in persistHits[p]} ELSE {})
        BY <1>10, <1>a, <2>2, SettleEffect
    <2>4. Calls' = Calls /\ Receipts' = Receipts
        BY <2>1 DEF Calls, Receipts, Receipt
    <2>5. \A o \in persistHits[p] : Receipt(p, o) \in Receipts
        <3> TAKE o \in persistHits[p]
        <3>1. <<p, o>> \in Calls
            BY <1>a DEF MemoryOK, Calls
        <3>2. Receipt(<<p, o>>[1], <<p, o>>[2]) \in Receipts
            BY <3>1, Zenon DEF Receipts
        <3> QED BY <3>2
    <2>6. \A i \in DOMAIN records' : records'[i].persists \subseteq Receipts
        BY <1>a, <2>1, <2>3, <2>5
    <2> QED BY <1>a, <2>1, <2>4, <2>6 DEF PaidInv
<1>11. CASE SaveRow
    <2>1. PICK rec \in Read :
              /\ lpc = "settle" /\ Len(records) \in Nat \ {0} /\ rec = records[1]
              /\ persists' = persists \cup rec.persists
              /\ \A i \in DOMAIN records' : /\ i + 1 \in DOMAIN records
                                            /\ records'[i] = records[i + 1]
        BY <1>11, <1>a, SaveEffect
    <2>2. UNCHANGED <<persistHits, rounds, hits, lpc>>
        BY <1>11 DEF SaveRow
    <2>3. Calls' = Calls /\ Receipts' = Receipts
        BY <2>2 DEF Calls, Receipts, Receipt
    <2>4. rec.persists \subseteq Receipts
        <3>1. 1 \in DOMAIN records
            BY <1>a, <2>1 DEF PassOK
        <3> QED BY <1>a, <2>1, <3>1
    <2>5. persists' \ Receipts = persists \ Receipts
        BY <2>1, <2>4
    <2>6. IsFiniteSet(persists')
        <3>1. rec.persists \in SUBSET Receipts
            BY <2>4
        <3> QED BY <1>a, <1>b, <2>1, <3>1, FS_Subset, FS_Union
    <2>7. \A i \in DOMAIN records' : records'[i].persists \subseteq Receipts
        BY <1>a, <2>1
    <2> QED BY <1>a, <2>1, <2>2, <2>3, <2>5, <2>6, <2>7 DEF PaidInv
<1>12. CASE Reset
    <2>1. persists' = {} /\ persistHits' = NoHits /\ lpc' = "idle" /\ hits' = hits
        BY <1>12 DEF Reset
    <2>2. Calls' = {}
        BY <2>1 DEF Calls, NoHits
    <2>3. {} \ Receipts' = {} /\ Cardinality({}) = 0 /\ IsFiniteSet({})
        BY FS_EmptySet
    <2> QED BY <1>b, <2>1, <2>2, <2>3 DEF PaidInv
<1>13. CASE Tick \/ Crash
    BY <1>13, <1>c DEF Tick, Crash
<1>14. CASE UNCHANGED vars
    BY <1>14, <1>c DEF vars
<1>15. ASSUME NEW p \in Pairs, ChargeAnew(p) PROVE PaidInv'
    BY <1>15, <1>c DEF ChargeAnew
<1>16. CASE ReadFails
    <2>1. UNCHANGED <<persists, persistHits, hits, rounds>> /\ lpc' = "settle" /\ records' = <<>>
        BY <1>16 DEF ReadFails, IInv, PastInv
    <2>2. Calls' = Calls /\ Receipts' = Receipts
        BY <2>1 DEF Calls, Receipts, Receipt
    <2> QED BY <1>a, <2>1, <2>2 DEF PaidInv
<1>17. CASE SaveRowFails
    <2>1. /\ lpc = "settle" /\ UNCHANGED <<persists, persistHits, hits, rounds, lpc>>
          /\ \A i \in DOMAIN records' : /\ i + 1 \in DOMAIN records
                                        /\ records'[i] = records[i + 1]
        BY <1>17, <1>a, SaveRowFailsEffect
    <2>2. Calls' = Calls /\ Receipts' = Receipts
        BY <2>1 DEF Calls, Receipts, Receipt
    <2> QED BY <1>a, <2>1, <2>2 DEF PaidInv
<1>18. ASSUME NEW kept, ResetFails(kept) PROVE PaidInv'
    <2>1. /\ persists' \subseteq persists /\ persistHits' = NoHits /\ lpc' = "idle"
          /\ hits' = hits
        BY <1>18 DEF ResetFails
    <2> QED BY <1>e, <2>1
<1> QED BY <1>1, <1>2, <1>3, <1>4, <1>5, <1>6, <1>7, <1>8, <1>9, <1>10, <1>11, <1>12, <1>13,
           <1>14, <1>15, <1>16, <1>17, <1>18, Zenon
        DEF Next, Uptime, Settlement, BoundReached

LEMMA PastStep == IInv /\ [Next]_vars => PastInv'
<1> SUFFICES ASSUME IInv, [Next]_vars PROVE PastInv'
    OBVIOUS
<1>a. /\ TablesOK /\ MemoryOK /\ PassOK /\ NumbersOK /\ RoundInv /\ PastInv /\ PaidInv
      /\ rounds \in Nat /\ \A p \in persists : p.round \in Nat
    BY DEF IInv, TablesOK, NumbersOK, Persist
<1>b. ASSUME UNCHANGED <<persistHits, persists, rounds>>, records' = records \/ records' = <<>>,
             lpc' = lpc \/ lpc' \notin {"staged", "uptime", "processing"}
                        \/ lpc \in {"staged", "uptime", "processing"},
             lpc = "settle" => lpc' = "settle" \/ records' = <<>>
      PROVE  PastInv'
    BY <1>a, <1>b DEF PastInv
<1> USE DEF tables, memory, bounds, pass
<1>1. ASSUME NEW v \in Teams, NEW o \in Teams, NEW b \in Boxes, ScorePersist(v, b, o)
      PROVE  PastInv'
    <2>1. /\ persistHits' = [persistHits EXCEPT ![<<v, b>>] = persistHits[<<v, b>>] \cup {o}]
          /\ v # o /\ UNCHANGED <<records, persists, rounds, lpc>>
        BY <1>1 DEF ScorePersist
    <2>2. ASSUME NEW p \in Pairs PROVE p[1] \notin persistHits'[p]
        <3>1. p[1] \notin persistHits[p]
            BY <1>a DEF PastInv
        <3>2. CASE p = <<v, b>>
            <4>1. p[1] = v /\ persistHits'[p] = persistHits[p] \cup {o}
                BY <1>a, <2>1, <3>2 DEF MemoryOK
            <4> QED BY <2>1, <3>1, <4>1
        <3>3. CASE p # <<v, b>>
            <4>1. persistHits'[p] = persistHits[p]
                BY <1>a, <2>1, <3>3 DEF MemoryOK
            <4> QED BY <3>1, <4>1
        <3> QED BY <3>2, <3>3
    <2> QED BY <1>a, <2>1, <2>2 DEF PastInv
<1>2. ASSUME NEW t \in Teams, NEW b \in Boxes, ScoreAgent(t, b) PROVE PastInv'
    BY <1>2, <1>b DEF ScoreAgent
<1>3. CASE Collect
    <2>1. rounds' = rounds + 1 /\ UNCHANGED <<persistHits, persists, records>> /\ lpc = "idle"
        BY <1>3 DEF Collect
    <2>2. \A p \in persists : p.round < rounds + 1
        BY <1>a DEF PastInv
    <2> QED BY <1>a, <2>1, <2>2 DEF PastInv
<1>4. CASE DropRound \/ BeginUptime \/ BeginProcessing
    BY <1>4, <1>b DEF DropRound, BeginUptime, BeginProcessing
<1>5. CASE ReadRecords
    BY <1>5, <1>a DEF ReadRecords, PastInv
<1>6. CASE EndRound
    BY <1>6, <1>a DEF EndRound, PastInv, NoHits
<1>7. ASSUME NEW p \in Pairs, SkipBox(p) \/ ChargeFails(p) \/ ChargeBox(p) PROVE PastInv'
    BY <1>7, <1>b DEF SkipBox, ChargeFails, ChargeBox
<1>8. ASSUME NEW p \in Pairs, Panic(p) PROVE PastInv'
    BY <1>8, <1>b DEF Panic
<1>9. ASSUME NEW t \in Teams, CreateRecord(t) \/ RecordFails(t) PROVE PastInv'
    BY <1>9, <1>b DEF CreateRecord, RecordFails
<1>10. ASSUME NEW p \in Pairs, Settle(p) PROVE PastInv'
    <2>1. UNCHANGED <<persistHits, persists, rounds, lpc>> /\ lpc = "settle"
        BY <1>10, Zenon DEF Settle
    <2> QED BY <1>a, <2>1 DEF PastInv
<1>11. CASE SaveRow
    <2>1. PICK rec \in Read :
              /\ lpc = "settle" /\ Len(records) \in Nat \ {0} /\ rec = records[1]
              /\ persists' = persists \cup rec.persists
        BY <1>11, <1>a, SaveEffect
    <2>2. UNCHANGED <<persistHits, rounds, lpc>>
        BY <1>11 DEF SaveRow
    <2>3. rec.persists \subseteq Receipts
        <3>1. 1 \in DOMAIN records
            BY <1>a, <2>1 DEF PassOK
        <3> QED BY <1>a, <2>1, <3>1 DEF PaidInv
    <2>4. \A p \in Receipts : p.round = rounds
        BY DEF Receipts, Receipt
    <2> QED BY <1>a, <2>1, <2>2, <2>3, <2>4 DEF PastInv
<1>12. CASE Reset
    BY <1>12, <1>a DEF Reset, PastInv, NoHits, LockFree
<1>13. CASE Tick
    BY <1>13, <1>b DEF Tick
<1>14. CASE Crash
    BY <1>14, <1>b DEF Crash
<1>15. CASE Boot
    BY <1>15, <1>a DEF Boot, PastInv, NoHits
<1>16. CASE UNCHANGED vars
    BY <1>16, <1>b DEF vars
<1>17. ASSUME NEW p \in Pairs, ChargeAnew(p) PROVE PastInv'
    BY <1>17, <1>b DEF ChargeAnew
<1>18. CASE ReadFails
    BY <1>18, <1>b DEF ReadFails
<1>19. CASE SaveRowFails
    BY <1>19, <1>a DEF SaveRowFails, PastInv
<1>20. ASSUME NEW kept, ResetFails(kept) PROVE PastInv'
    <2>1. /\ persists' \subseteq persists /\ persistHits' = NoHits /\ lpc' = "idle"
          /\ lpc # "settle" /\ UNCHANGED <<records, rounds>>
        BY <1>20 DEF ResetFails, LockFree
    <2> QED BY <1>a, <2>1 DEF PastInv, NoHits
<1> QED BY <1>1, <1>2, <1>3, <1>4, <1>5, <1>6, <1>7, <1>8, <1>9, <1>10, <1>11, <1>12, <1>13,
           <1>14, <1>15, <1>16, <1>17, <1>18, <1>19, <1>20, Zenon
        DEF Next, Uptime, Settlement, BoundReached

-----------------------------------------------------------------------------
(* What calculatePersists reads when no record is missing *)

\* A function that increases, from the first numbers to the first numbers, is the identity.
LEMMA IncreasingIsIdentity ==
    ASSUME NEW n \in Nat, NEW g \in [1..n -> 1..n],
           \A i, j \in 1..n : i < j => g[i] < g[j]
    PROVE  \A i \in 1..n : g[i] = i
<1> DEFINE below == {i \in 1..n : g[i] < i}
           above == {i \in 1..n : g[i] > i}
<1>1. below = {}
    <2> SUFFICES ASSUME below # {} PROVE FALSE
        OBVIOUS
    <2>1. below \subseteq Nat
        OBVIOUS
    <2>2. Min(below) \in below /\ \A y \in below : Min(below) <= y
        <3> HIDE DEF below
        <3> QED BY <2>1, MinOfNaturals
    <2> DEFINE m == Min(below)
    <2> HIDE DEF m
    <2>3. m \in 1..n /\ g[m] < m /\ g[m] \in 1..n
        BY <2>2 DEF m
    <2>4. g[g[m]] < g[m]
        BY <2>3
    <2>5. g[m] \in below
        BY <2>3, <2>4
    <2>6. m <= g[m]
        BY <2>2, <2>5 DEF m
    <2> QED BY <2>3, <2>6
<1>2. above = {}
    <2> SUFFICES ASSUME above # {} PROVE FALSE
        OBVIOUS
    <2>1. above \subseteq 0..n
        OBVIOUS
    <2>2. Max(above) \in above /\ \A y \in above : Max(above) >= y
        <3> HIDE DEF above
        <3> QED BY <2>1, MaxOfNaturals
    <2> DEFINE m == Max(above)
    <2> HIDE DEF m
    <2>3. m \in 1..n /\ g[m] > m /\ g[m] \in 1..n
        BY <2>2 DEF m
    <2>4. g[g[m]] > g[m]
        BY <2>3
    <2>5. g[m] \in above
        BY <2>3, <2>4
    <2>6. m >= g[m]
        BY <2>2, <2>5 DEF m
    <2> QED BY <2>3, <2>6
<1> QED
    <2> TAKE i \in 1..n
    <2>1. i \notin below /\ i \notin above
        BY <1>1, <1>2
    <2>2. ~(g[i] < i) /\ ~(g[i] > i)
        BY <2>1
    <2> QED BY <2>2

\* With a row of this round for each team, these rows are what calculatePersists reads, in the
\* order of the teams: none is older than any other row, and there are as many as it asks for.
LEMMA ReadsThisRound ==
    ASSUME TablesOK, NumbersOK, RowsInv, NEW s \in Latest,
           \A t \in Teams : HasRow(rows, rounds, t)
    PROVE  /\ s \in [1..N -> rows]
           /\ \A i \in 1..N : s[i].team = i /\ s[i].time = rounds
<1> DEFINE C == {r \in rows : r.time = rounds}
           f == [r \in C |-> r.team]
<1>a. /\ IsFiniteSet(rows) /\ Cardinality(rows) \in Nat /\ N \in Nat /\ rounds \in Nat
      /\ \A r, q \in rows : r.time = q.time /\ r.team = q.team => r = q
      /\ \A r \in rows : r.time <= rounds /\ r.team \in 1..N /\ r.time \in Nat
    <2>1. IsFiniteSet(rows) /\ Cardinality(rows) \in Nat
        BY FS_CardinalityType DEF RowsInv
    <2>2. /\ \A r, q \in rows : r.time = q.time /\ r.team = q.team => r = q
          /\ \A r \in rows : r.time <= rounds
        BY DEF RowsInv
    <2>3. \A r \in rows : r.team \in 1..N /\ r.time \in Nat
        BY Bounds DEF TablesOK, Row, Teams
    <2> QED BY <2>1, <2>2, <2>3, Bounds DEF NumbersOK
<1>b. /\ IsFiniteSet(C) /\ Cardinality(C) \in Nat
      /\ Cardinality(C) <= Cardinality(rows) /\ C \subseteq rows
    <2>1. C \subseteq rows
        OBVIOUS
    <2> HIDE DEF C
    <2> QED BY <1>a, <2>1, FS_Subset, FS_CardinalityType
<1>1. N <= Cardinality(C)
    <2>1. f \in [C -> Range(f)] /\ 1..N \subseteq Range(f)
        BY DEF Range, HasRow, Teams
    <2> HIDE DEF f, C
    <2>2. IsFiniteSet(Range(f)) /\ Cardinality(Range(f)) <= Cardinality(C)
        BY <1>b, <2>1, ImageIsSmaller
    <2>3. Cardinality(1..N) = N
        BY <1>a, FS_Interval
    <2>4. Cardinality(1..N) <= Cardinality(Range(f)) /\ Cardinality(Range(f)) \in Nat
        BY <2>1, <2>2, FS_Subset, FS_CardinalityType
    <2> QED BY <1>a, <1>b, <2>2, <2>3, <2>4
<1>2. /\ s \in [1..N -> rows]
      /\ \A i, j \in 1..N : i < j => \/ s[i].team < s[j].team
                                     \/ s[i].team = s[j].team /\ s[i].time > s[j].time
      /\ \A q \in rows \ Range(s), r \in Range(s) : q.time <= r.time
    <2> HIDE DEF C
    <2>1. ~(Cardinality(rows) < N)
        BY <1>a, <1>b, <1>1
    <2> QED BY <2>1 DEF Latest
<1>3. /\ Range(s) \subseteq rows /\ IsFiniteSet(Range(s)) /\ Cardinality(Range(s)) <= N
      /\ \A i \in 1..N : s[i] \in Range(s)
    <2>1. Range(s) \subseteq rows /\ s \in [1..N -> Range(s)] /\ \A i \in 1..N : s[i] \in Range(s)
        BY <1>2 DEF Range
    <2> HIDE DEF C, f
    <2>2. IsFiniteSet(1..N) /\ Cardinality(1..N) = N
        BY <1>a, FS_Interval
    <2> QED BY <2>1, <2>2, ImageIsSmaller
<1>4. ASSUME Range(s) \subseteq C PROVE \A i \in 1..N : s[i].team = i /\ s[i].time = rounds
    <2> DEFINE g == [i \in 1..N |-> s[i].team]
    <2>1. \A i \in 1..N : s[i].time = rounds /\ s[i].team \in 1..N
        BY <1>a, <1>3, <1>4
    <2>2. g \in [1..N -> 1..N] /\ \A i, j \in 1..N : i < j => g[i] < g[j]
        BY <1>a, <1>2, <2>1
    <2>3. \A i \in 1..N : g[i] = i
        <3> HIDE DEF g
        <3> QED BY <1>a, <2>2, IncreasingIsIdentity
    <2> QED BY <2>1, <2>3
<1>5. CASE C \subseteq Range(s)
    <2>1. C = Range(s)
        <3> HIDE DEF C
        <3>1. Cardinality(C) <= Cardinality(Range(s)) /\ Cardinality(Range(s)) \in Nat
            BY <1>3, <1>5, FS_Subset, FS_CardinalityType
        <3>2. Cardinality(C) = Cardinality(Range(s))
            BY <1>a, <1>b, <1>1, <1>3, <3>1
        <3> QED BY <1>3, <1>5, <3>2, FS_Subset
    <2> QED BY <1>2, <1>4, <2>1
<1>6. ASSUME NEW c \in C, c \notin Range(s) PROVE FALSE
    <2>1. \A r \in Range(s) : r.time = rounds
        <3> TAKE r \in Range(s)
        <3>1. c.time <= r.time /\ c.time = rounds /\ r.time <= rounds /\ r.time \in Nat
            BY <1>a, <1>2, <1>3, <1>6
        <3> QED BY <1>a, <3>1
    <2>2. Range(s) \subseteq C
        BY <1>3, <2>1
    <2>3. \A i \in 1..N : s[i].team = i /\ s[i].time = rounds
        BY <1>4, <2>2
    <2>4. c.team \in 1..N /\ c \in rows /\ c.time = rounds
        BY <1>a, <1>6
    <2>5. s[c.team] = c
        BY <1>a, <1>2, <2>3, <2>4
    <2> QED BY <1>3, <1>6, <2>4, <2>5
<1> QED BY <1>2, <1>5, <1>6

LEMMA FullRead ==
    ASSUME TablesOK, NumbersOK, RowsInv, ReadRecords, \A t \in Teams : HasRow(rows, rounds, t)
    PROVE  /\ DOMAIN records' = 1..N /\ Len(records') = N
           /\ \A i \in 1..N : /\ records'[i].row \in rows /\ records'[i].persists = {}
                              /\ records'[i].row.team = i /\ records'[i].row.time = rounds
<1>1. PICK s \in Latest : records' = [i \in DOMAIN s |-> [row |-> s[i], persists |-> {}]]
    BY DEF ReadRecords
<1>2. s \in [1..N -> rows] /\ \A i \in 1..N : s[i].team = i /\ s[i].time = rounds
    BY ReadsThisRound
<1> QED BY <1>1, <1>2, Bounds

\* What a round adds to the rows of persists when a box is settled.
Paid(p) == {Receipt(p, o) : o \in persistHits[p]}

\* Settling a box adds its rows of persists to those that are going to be saved.
LEMMA SettleSaving ==
    ASSUME MemoryOK, PassOK, rounds \in 1..MaxRounds, NEW p \in Pairs, Settle(p)
    PROVE  Saving' = Saving \cup Paid(p)
<1>1. /\ p[1] \in DOMAIN records /\ DOMAIN records' = DOMAIN records
      /\ \A i \in DOMAIN records :
            records'[i].persists = records[i].persists \cup (IF i = p[1] THEN Paid(p) ELSE {})
    BY SettleEffect DEF Paid
<1>2. persists' = persists
    BY Zenon DEF Settle, tables
<1>3. ASSUME NEW x PROVE x \in Saving' <=> x \in Saving \/ x \in Paid(p)
    <2>1. x \in Saving' <=> x \in persists \/ \E i \in DOMAIN records : x \in records'[i].persists
        BY <1>1, <1>2 DEF Saving
    <2>2. x \in Saving <=> x \in persists \/ \E i \in DOMAIN records : x \in records[i].persists
        BY DEF Saving
    <2>3. (\E i \in DOMAIN records : x \in records'[i].persists)
            <=> (\E i \in DOMAIN records : x \in records[i].persists) \/ x \in Paid(p)
        BY <1>1
    <2> QED BY <2>1, <2>2, <2>3
<1> HIDE DEF Saving, Paid
<1> QED BY <1>3

\* Saving a row moves its rows of persists to their table.
LEMMA SaveSaving ==
    ASSUME PassOK, SaveRow
    PROVE  Saving' = Saving
<1>1. PICK rec \in Read :
          /\ Len(records) \in Nat \ {0} /\ rec = records[1]
          /\ persists' = persists \cup rec.persists
          /\ DOMAIN records' = 1..(Len(records) - 1)
          /\ \A i \in DOMAIN records' : /\ i + 1 \in DOMAIN records
                                        /\ records'[i] = records[i + 1]
    BY SaveEffect
<1>2. DOMAIN records = 1..Len(records)
    BY DEF PassOK
<1>3. ASSUME NEW x PROVE x \in Saving' <=> x \in Saving
    <2>1. x \in Saving' <=> \/ x \in persists \/ x \in records[1].persists
                            \/ \E i \in DOMAIN records' : x \in records'[i].persists
        BY <1>1 DEF Saving
    <2>2. x \in Saving <=> x \in persists \/ \E i \in DOMAIN records : x \in records[i].persists
        BY DEF Saving
    <2>3. ASSUME NEW i \in DOMAIN records
          PROVE  i = 1 \/ (i - 1 \in DOMAIN records' /\ records'[i - 1] = records[i])
        <3>1. CASE i # 1
            <4>1. i - 1 \in DOMAIN records' /\ (i - 1) + 1 = i
                BY <1>1, <1>2, <3>1
            <4> QED BY <1>1, <4>1
        <3> QED BY <3>1
    <2>4. 1 \in DOMAIN records
        BY <1>1, <1>2
    <2> QED BY <1>1, <2>1, <2>2, <2>3, <2>4
<1> HIDE DEF Saving
<1> QED BY <1>3

LEMMA NothingToSave ==
    ASSUME records = <<>>
    PROVE  Saving = persists
BY DEF Saving

LEMMA NothingToSaveThen ==
    ASSUME records' = <<>>
    PROVE  Saving' = persists'
BY DEF Saving

LEMMA SliceStep == IInv /\ [Next]_vars => SliceInv'
<1> SUFFICES ASSUME IInv, [Next]_vars PROVE SliceInv'
    OBVIOUS
<1>a. /\ TablesOK /\ MemoryOK /\ PassOK /\ NumbersOK /\ RoundInv /\ RowsInv /\ PaidInv /\ PastInv
      /\ ~torn => /\ \A p \in Saving : HasRow(rows, p.round, p.team)
                  /\ lpc = "processing" => \A t \in Teams \ left : HasRow(rows, rounds, t)
                  /\ lpc = "settle" => /\ \A t \in Teams : HasRow(rows, rounds, t)
                                       /\ Len(records) <= N /\ (left # {} => Len(records) = N)
    BY DEF IInv, SliceInv
<1>b. ASSUME torn' PROVE SliceInv'
    BY <1>b DEF SliceInv
<1>c. ASSUME UNCHANGED <<rows, persists, records>>, torn' \/ torn' = torn,
             lpc' \notin {"processing", "settle"}
      PROVE  SliceInv'
    <2>1. Saving' = Saving
        BY <1>c DEF Saving
    <2> QED BY <1>a, <1>b, <1>c, <2>1 DEF SliceInv
<1>d. ASSUME UNCHANGED <<rows, persists, records, torn, rounds, left, lpc>> PROVE SliceInv'
    <2>1. Saving' = Saving /\ Saved' = Saved
        BY <1>d DEF Saving, Saved
    <2>2. SliceInv
        BY DEF IInv
    <2> QED BY <1>d, <2>1, <2>2 DEF SliceInv
<1> USE DEF tables, bounds, pass, memory
<1>1. ASSUME NEW v \in Teams, NEW o \in Teams, NEW b \in Boxes, ScorePersist(v, b, o)
      PROVE  SliceInv'
    BY <1>1, <1>d DEF ScorePersist
<1>2. ASSUME NEW t \in Teams, NEW b \in Boxes, ScoreAgent(t, b) PROVE SliceInv'
    BY <1>2, <1>d DEF ScoreAgent
<1>3. CASE Collect \/ DropRound \/ BeginUptime \/ EndRound
    BY <1>3, <1>c DEF Collect, DropRound, BeginUptime, EndRound
<1>4. CASE BeginProcessing
    <2>1. UNCHANGED <<rows, persists, records, torn>> /\ lpc' = "processing" /\ left' = Teams
        BY <1>4 DEF BeginProcessing
    <2>2. Saving' = Saving
        BY <2>1 DEF Saving
    <2> QED BY <1>a, <2>1, <2>2 DEF SliceInv
<1>5. ASSUME NEW p \in Pairs, SkipBox(p) \/ ChargeBox(p) PROVE SliceInv'
    BY <1>5, <1>c DEF SkipBox, ChargeBox
<1>6. ASSUME NEW p \in Pairs, ChargeFails(p) \/ Panic(p) PROVE SliceInv'
    BY <1>6, <1>b DEF ChargeFails, Panic
<1>7. ASSUME NEW t \in Teams, CreateRecord(t) PROVE SliceInv'
    <2>1. /\ rows' = rows \cup {CarryOn(t)} /\ left' = left \ {t} /\ lpc = "processing"
          /\ UNCHANGED <<lpc, persists, records, torn, rounds>>
        BY <1>7 DEF CreateRecord
    <2>2. rounds \in 1..MaxRounds
        BY <1>a, <2>1, Bounds DEF RoundInv, NumbersOK
    <2>3. CarryOn(t).time = rounds /\ CarryOn(t).team = t
        BY <1>a, <2>2, CarryOnIs
    <2>4. Saving' = Saving
        BY <2>1 DEF Saving
    <2>5. \A time, u : HasRow(rows, time, u) => HasRow(rows', time, u)
        BY <2>1 DEF HasRow
    <2>6. HasRow(rows', rounds, t)
        BY <2>1, <2>3 DEF HasRow
    <2>7. ASSUME ~torn
          PROVE  /\ \A p \in Saving : HasRow(rows', p.round, p.team)
                 /\ \A u \in Teams \ left' : HasRow(rows', rounds, u)
        BY <1>a, <2>1, <2>5, <2>6, <2>7
    <2> QED BY <2>1, <2>4, <2>7 DEF SliceInv
<1>8. ASSUME NEW t \in Teams, RecordFails(t) PROVE SliceInv'
    BY <1>8, <1>b DEF RecordFails
<1>9. CASE ReadRecords
    <2> SUFFICES ASSUME ~torn' PROVE SliceInv'
        BY DEF SliceInv
    <2>1. /\ lpc = "processing" /\ left = {} /\ lpc' = "settle"
          /\ UNCHANGED <<rows, persists, torn, rounds>>
        BY <1>9 DEF ReadRecords
    <2>2. \A t \in Teams : HasRow(rows, rounds, t)
        BY <1>a, <2>1
    <2>3. /\ DOMAIN records' = 1..N /\ Len(records') = N
          /\ \A i \in 1..N : /\ records'[i].row \in rows /\ records'[i].persists = {}
                             /\ records'[i].row.team = i /\ records'[i].row.time = rounds
        BY <1>9, <1>a, <2>2, FullRead
    <2>4. Saving' = persists /\ Saving = persists
        BY <1>a, <2>1, <2>3 DEF Saving, PastInv
    <2>5. Saved' = 0
        BY <2>3, Bounds DEF Saved
    <2>6. \A q \in persists : q.round # rounds
        <3>1. \A q \in persists : q.round < rounds /\ q.round \in Nat
            BY <1>a, <2>1 DEF PastInv, TablesOK, Persist
        <3> QED BY <1>a, <3>1 DEF NumbersOK
    <2> QED BY <1>a, <2>1, <2>2, <2>3, <2>4, <2>5, <2>6, Bounds DEF SliceInv
<1>10. ASSUME NEW p \in Pairs, Settle(p) PROVE SliceInv'
    <2> SUFFICES ASSUME ~torn' PROVE SliceInv'
        BY DEF SliceInv
    <2>1. UNCHANGED <<rows, persists, torn, rounds, lpc>> /\ lpc = "settle"
        BY <1>10, Zenon DEF Settle
    <2>2. rounds \in 1..MaxRounds
        BY <1>a, <2>1, Bounds DEF RoundInv, NumbersOK
    <2>3. /\ p \in left /\ left' = left \ {p}
          /\ DOMAIN records' = DOMAIN records /\ Len(records') = Len(records)
          /\ \A i \in DOMAIN records : Resembles(records'[i].row, records[i].row)
        BY <1>10, <1>a, <2>2, SettleEffect
    <2>4. Saving' = Saving \cup Paid(p) /\ Saved' = Saved
        BY <1>10, <1>a, <2>2, <2>3, SettleSaving DEF Saved
    <2>5. \A q \in Paid(p) : q.round = rounds /\ q.team = p[1] /\ q.box = p[2]
        BY DEF Paid, Receipt
    <2>6. SliceInv
        BY DEF IInv
    <2>7. \A q \in Saving' : HasRow(rows', q.round, q.team)
        BY <1>a, <2>1, <2>4, <2>5, PairParts
    <2>8. ASSUME NEW i \in DOMAIN records'
          PROVE  /\ records'[i].row.team = Saved' + i /\ records'[i].row.time = rounds'
                 /\ \E r \in rows' : /\ r.time = rounds' /\ r.team = Saved' + i
                                     /\ r.up = records'[i].row.up
        BY <2>1, <2>3, <2>4, <2>6 DEF SliceInv, Resembles
    <2>9. ASSUME NEW x \in left', NEW q \in Saving'
          PROVE  ~(q.round = rounds' /\ q.team = x[1] /\ q.box = x[2])
        <3>1. x \in left /\ x # p /\ x \in Pairs
            BY <1>a, <2>1, <2>3 DEF PassOK
        <3>2. ~(x[1] = p[1] /\ x[2] = p[2])
            BY <3>1, PairParts
        <3>3. q \in Saving => ~(q.round = rounds /\ q.team = x[1] /\ q.box = x[2])
            BY <2>1, <2>6, <3>1 DEF SliceInv
        <3> QED BY <2>1, <2>4, <2>5, <3>2, <3>3
    <2>10. \A t \in Teams : HasRow(rows', rounds', t)
        BY <1>a, <2>1
    <2>11. Len(records') <= N /\ (left' # {} => Len(records') = N)
        BY <1>a, <2>1, <2>3
    <2> HIDE DEF Saving, Saved
    <2> QED BY <2>1, <2>7, <2>8, <2>9, <2>10, <2>11 DEF SliceInv
<1>11. CASE SaveRow
    <2> SUFFICES ASSUME ~torn' PROVE SliceInv'
        BY DEF SliceInv
    <2>1. PICK rec \in Read :
              /\ lpc = "settle" /\ left = {} /\ Len(records) \in Nat \ {0} /\ rec = records[1]
              /\ rows' = {r \in rows : r.time # rec.row.time \/ r.team # rec.row.team}
                             \cup {rec.row}
              /\ records' \in Seq(Read) /\ DOMAIN records' = 1..(Len(records) - 1)
              /\ \A i \in DOMAIN records' : /\ i + 1 \in DOMAIN records
                                            /\ records'[i] = records[i + 1]
        BY <1>11, <1>a, SaveEffect
    <2>2. UNCHANGED <<rounds, lpc, left, torn>>
        BY <1>11 DEF SaveRow
    <2>3. Saving' = Saving
        BY <1>11, <1>a, SaveSaving
    <2>4. Len(records') = Len(records) - 1 /\ Saved' = Saved + 1 /\ Saved \in Int
        <3>1. records' = Tail(records) /\ records \in Seq(Read) /\ records # <<>>
            BY <1>11, <1>a DEF SaveRow, PassOK
        <3>2. Len(records') = Len(records) - 1
            BY <3>1
        <3> QED BY <2>1, <3>2, Bounds DEF Saved
    <2>5. \A time, t : HasRow(rows, time, t) => HasRow(rows', time, t)
        BY <2>1 DEF HasRow
    <2>6. SliceInv
        BY DEF IInv
    <2>7. rec.row.team = Saved + 1 /\ 1 \in DOMAIN records
        BY <1>a, <2>1, <2>2, <2>6 DEF SliceInv, PassOK
    <2>8. ASSUME NEW i \in DOMAIN records'
          PROVE  /\ records'[i].row.team = Saved' + i /\ records'[i].row.time = rounds'
                 /\ \E r \in rows' : /\ r.time = rounds' /\ r.team = Saved' + i
                                     /\ r.up = records'[i].row.up
        <3>1. /\ records'[i] = records[i + 1] /\ i + 1 \in DOMAIN records
              /\ Saved' + i = Saved + (i + 1) /\ i >= 1 /\ i \in Int
            BY <2>1, <2>4
        <3>2. /\ records[i + 1].row.team = Saved + (i + 1) /\ records[i + 1].row.time = rounds
              /\ \E r \in rows : /\ r.time = rounds /\ r.team = Saved + (i + 1)
                                 /\ r.up = records[i + 1].row.up
            BY <2>1, <2>2, <2>6, <3>1 DEF SliceInv
        <3>3. Saved + (i + 1) # Saved + 1
            BY <2>4, <3>1
        <3> QED BY <2>1, <2>2, <2>7, <3>1, <3>2, <3>3
    <2>9. /\ \A q \in Saving : HasRow(rows', q.round, q.team)
          /\ \A t \in Teams : HasRow(rows', rounds, t)
          /\ Len(records') <= N
        BY <1>a, <2>1, <2>2, <2>4, <2>5, Bounds
    <2> HIDE DEF Saving, Saved
    <2> QED BY <2>1, <2>2, <2>3, <2>8, <2>9 DEF SliceInv
<1>12. CASE Reset
    <2>1. rows' = {} /\ persists' = {} /\ lpc' = "idle" /\ records' = <<>>
        BY <1>12, <1>a DEF Reset, LockFree, PastInv
    <2>2. Saving' = {}
        BY <2>1, NothingToSaveThen
    <2> QED BY <2>1, <2>2 DEF SliceInv
<1>13. CASE Tick
    BY <1>13, <1>d DEF Tick
<1>14. CASE Crash
    <2>1. /\ UNCHANGED <<rows, persists>> /\ lpc' = "down" /\ records' = <<>>
          /\ torn' = (torn \/ ~LockFree)
        BY <1>14 DEF Crash
    <2>2. CASE LockFree
        <3>1. records' = records /\ torn' = torn
            BY <1>a, <2>1, <2>2 DEF LockFree, PastInv, MemoryOK
        <3> QED BY <1>c, <2>1, <3>1
    <2>3. CASE ~LockFree
        <3>1. torn'
            BY <2>1, <2>3, Zenon
        <3> QED BY <1>b, <3>1
    <2> QED BY <2>2, <2>3
<1>15. CASE Boot
    BY <1>15, <1>c DEF Boot
<1>16. CASE UNCHANGED vars
    BY <1>16, <1>d DEF vars
<1>17. ASSUME NEW p \in Pairs, ChargeAnew(p) PROVE SliceInv'
    BY <1>17, <1>c DEF ChargeAnew
<1>18. CASE ReadFails \/ SaveRowFails
    BY <1>18, <1>b DEF ReadFails, SaveRowFails
<1>19. ASSUME NEW kept, ResetFails(kept) PROVE SliceInv'
    <2>1. torn' = TRUE
        BY <1>19, Zenon DEF ResetFails
    <2> QED BY <1>b, <2>1
<1> QED BY <1>1, <1>2, <1>3, <1>4, <1>5, <1>6, <1>7, <1>8, <1>9, <1>10, <1>11, <1>12, <1>13,
           <1>14, <1>15, <1>16, <1>17, <1>18, <1>19, Zenon
        DEF Next, Uptime, Settlement, BoundReached

-----------------------------------------------------------------------------
(* What the rows of persists amount to *)

\* The row that a row of persists is about.
OneRow(R) == \A r, q \in R : r.time = q.time /\ r.team = q.team => r = q

LEMMA RowOfIs ==
    ASSUME NEW R, OneRow(R), NEW p, NEW r \in R, r.time = p.round, r.team = p.team
    PROVE  RowOf(R, p) = r
<1>1. \E x \in R : x.time = p.round /\ x.team = p.team
    OBVIOUS
<1>2. RowOf(R, p) \in R /\ RowOf(R, p).time = p.round /\ RowOf(R, p).team = p.team
    BY <1>1, Zenon DEF RowOf
<1> QED BY <1>2 DEF OneRow

LEMMA WorthType ==
    ASSUME NEW R \in SUBSET Row, NEW P \in SUBSET Persist, IsFiniteSet(P), NEW p \in P,
           HasRow(R, p.round, p.team)
    PROVE  WorthIn(R, P, p) \in Nat
<1>1. RowOf(R, p) \in Row
    <2>1. RowOf(R, p) \in R
        BY Zenon DEF RowOf, HasRow
    <2> QED BY <2>1
<1>2. RowOf(R, p).up[p.box] \in Nat
    <2>1. RowOf(R, p).up \in [Boxes -> 0..MaxUp] /\ p.box \in Boxes
        BY <1>1 DEF Row, Persist
    <2> QED BY <2>1, Bounds
<1>3. Cardinality(Parties(P, p)) \in Nat
    <2>1. Parties(P, p) \in SUBSET P
        BY DEF Parties
    <2> QED BY <2>1, FS_Subset, FS_CardinalityType
<1> QED BY <1>2, <1>3, ShareType DEF WorthIn

\* A share stays what it is while the row it is taken from keeps its results.
LEMMA SameWorth ==
    ASSUME NEW R, OneRow(R), NEW Q, OneRow(Q), NEW P, NEW p, NEW r \in R, NEW q \in Q,
           r.time = p.round, r.team = p.team, q.time = p.round, q.team = p.team, q.up = r.up
    PROVE  WorthIn(Q, P, p) = WorthIn(R, P, p)
<1>1. RowOf(R, p) = r /\ RowOf(Q, p) = q
    BY RowOfIs
<1> QED BY <1>1, Zenon DEF WorthIn

LEMMA SameTotal ==
    ASSUME NEW R, NEW Q, NEW P, NEW S, \A p \in S : WorthIn(Q, P, p) = WorthIn(R, P, p)
    PROVE  TotalOf(Q, P, S) = TotalOf(R, P, S)
<1>1. [p \in S |-> WorthIn(Q, P, p)] = [p \in S |-> WorthIn(R, P, p)]
    BY Zenon
<1> QED BY <1>1, Zenon DEF TotalOf

LEMMA SamePoints ==
    ASSUME NEW R, NEW Q, NEW P, \A p \in P : WorthIn(Q, P, p) = WorthIn(R, P, p)
    PROVE  \A t : Lost(Q, P, t) = Lost(R, P, t) /\ Stolen(Q, P, t) = Stolen(R, P, t)
<1> TAKE t
<1>1. TotalOf(Q, P, {p \in P : p.team = t}) = TotalOf(R, P, {p \in P : p.team = t})
    BY SameTotal
<1>2. TotalOf(Q, P, {p \in P : p.offender = t}) = TotalOf(R, P, {p \in P : p.offender = t})
    BY SameTotal
<1> QED BY <1>1, <1>2 DEF Lost, Stolen

LEMMA NoPoints == \A R, t : Lost(R, {}, t) = 0 /\ Stolen(R, {}, t) = 0
<1> SUFFICES ASSUME NEW R, NEW t PROVE TotalOf(R, {}, {}) = 0
    BY DEF Lost, Stolen
<1>1. [p \in {} |-> WorthIn(R, {}, p)] = [p \in {} |-> 0]
    BY Zenon
<1>2. SumOver([p \in {} |-> 0], {}) = 0
    BY SumOfZeroes, FS_EmptySet
<1>3. SumOf([p \in {} |-> 0]) = SumOver([p \in {} |-> 0], {})
    BY SumOfDomain
<1> QED BY <1>1, <1>2, <1>3, Zenon DEF TotalOf

\* A total grows by the same share for each of the rows X that are added to P, if these leave
\* the shares of the others alone.
Grows(R, P, X, c) ==
    /\ IsFiniteSet(P) /\ IsFiniteSet(X) /\ P \cap X = {} /\ c \in Int
    /\ \A p \in P : WorthIn(R, P, p) \in Int /\ WorthIn(R, P \cup X, p) = WorthIn(R, P, p)
    /\ \A p \in X : WorthIn(R, P \cup X, p) = c

Grown(R, P, X, c) ==
    \A S \in SUBSET P, Y \in SUBSET X :
        TotalOf(R, P \cup X, S \cup Y) = TotalOf(R, P, S) + c * Cardinality(Y)

LEMMA TotalGrows ==
    ASSUME NEW R, NEW P, NEW X, NEW c, Grows(R, P, X, c)
    PROVE  Grown(R, P, X, c)
<1> SUFFICES ASSUME NEW S \in SUBSET P, NEW Y \in SUBSET X
             PROVE  TotalOf(R, P \cup X, S \cup Y) = TotalOf(R, P, S) + c * Cardinality(Y)
    BY Zenon DEF Grown
<1> DEFINE T == P \cup X
           U == S \cup Y
           f == [p \in U |-> WorthIn(R, T, p)]
           g == [p \in S |-> WorthIn(R, P, p)]
<1>1. /\ f \in [U -> Int] /\ g \in [S -> Int]
      /\ (\A p \in S : g[p] = f[p]) /\ (\A p \in Y : f[p] = c)
    <2> HIDE DEF WorthIn
    <2> QED BY DEF Grows
<1>2. DOMAIN f = U /\ DOMAIN g = S
    OBVIOUS
<1>3. TotalOf(R, T, U) = SumOf(f) /\ TotalOf(R, P, S) = SumOf(g)
    BY Zenon DEF TotalOf
<1>4. IsFiniteSet(S) /\ IsFiniteSet(Y) /\ S \cap Y = {} /\ U = S \cup Y /\ c \in Int
    BY FS_Subset DEF Grows
<1> HIDE DEF f, g, T, U
<1>5. SumOver(f, U) = SumOver(g, S) + c * Cardinality(Y)
    BY <1>1, <1>4, SumOfManyMore
<1>6. SumOf(f) = SumOver(f, U) /\ SumOf(g) = SumOver(g, S)
    BY <1>2, SumOfDomain
<1> QED BY <1>3, <1>5, <1>6 DEF T, U

\* What a round is going to save is a finite number of rows of persists.
LEMMA SavingType ==
    ASSUME IInv
    PROVE  Saving \in SUBSET Persist /\ IsFiniteSet(Saving)
<1>a. TablesOK /\ MemoryOK /\ PassOK /\ PaidInv /\ PastInv
    BY DEF IInv
<1>1. Saving \subseteq persists \cup Receipts
    <2>1. \A i \in DOMAIN records : records[i].persists \subseteq Receipts
        BY <1>a DEF PaidInv, PastInv
    <2> QED BY <2>1 DEF Saving
<1>2. IsFiniteSet(persists \cup Receipts)
    BY <1>a, CallsAreFinite, FS_Union DEF PaidInv
<1>3. IsFiniteSet(Saving)
    BY <1>1, <1>2, FS_Subset
<1>4. \A i \in DOMAIN records : records[i].persists \subseteq Persist
    <2>1. \A i \in DOMAIN records : records[i] \in Read
        BY <1>a DEF PassOK
    <2> QED BY <2>1 DEF Read
<1>5. Saving \subseteq Persist
    BY <1>a, <1>4 DEF Saving, TablesOK
<1> QED BY <1>3, <1>5

\* What settling a box adds to the points that the rows of persists amount to.
LEMMA SettlePoints ==
    ASSUME IInv, ~torn, lpc = "settle", NEW p \in Pairs, p \in left
    PROVE  \A t \in Teams :
              /\ Lost(rows, Saving \cup Paid(p), t) =
                     Lost(rows, Saving, t) +
                         (IF t = p[1] THEN Shared(p) * Cardinality(persistHits[p]) ELSE 0)
              /\ Stolen(rows, Saving \cup Paid(p), t) =
                     Stolen(rows, Saving, t) + (IF t \in persistHits[p] THEN Shared(p) ELSE 0)
<1> DEFINE P == Saving
           X == Paid(p)
           T == P \cup X
           c == Shared(p)
<1>a. /\ TablesOK /\ MemoryOK /\ PassOK /\ NumbersOK /\ RoundInv /\ RowsInv
      /\ SliceInv /\ PastInv
    BY DEF IInv
<1>b. p[1] \in Teams /\ p[2] \in Boxes /\ persistHits[p] \in SUBSET Teams /\ IsFiniteSet(Teams)
    BY <1>a, PairParts, FiniteParts DEF MemoryOK
<1>1. P \in SUBSET Persist /\ IsFiniteSet(P)
    BY SavingType
<1>2. /\ IsFiniteSet(X) /\ Cardinality(X) = Cardinality(persistHits[p])
      /\ \A t \in Teams : {q \in X : q.offender = t} =
                              IF t \in persistHits[p] THEN {Receipt(p, t)} ELSE {}
      /\ \A q \in X : q.round = rounds /\ q.team = p[1] /\ q.box = p[2]
    <2> DEFINE f == [o \in persistHits[p] |-> Receipt(p, o)]
    <2>1. \A o : Receipt(p, o).offender = o
        BY DEF Receipt
    <2>2. \A q \in X : q.round = rounds /\ q.team = p[1] /\ q.box = p[2]
        BY DEF Paid, Receipt
    <2>3. \A q \in X : \E o \in persistHits[p] : q = Receipt(p, o)
        BY DEF Paid
    <2>4. \A o \in persistHits[p] : Receipt(p, o) \in X
        BY DEF Paid
    <2>5. f \in Bijection(persistHits[p], X)
        <3>1. f \in [persistHits[p] -> X]
            BY <2>4
        <3>2. \A q \in X : \E o \in persistHits[p] : f[o] = q
            BY <2>3
        <3>3. \A o, u \in persistHits[p] : f[o] = f[u] => o = u
            BY <2>1
        <3> HIDE DEF f, X
        <3> QED BY <3>1, <3>2, <3>3 DEF Bijection, Injection, Surjection, IsInjective
    <2>6. IsFiniteSet(persistHits[p])
        BY <1>b, FS_Subset
    <2> HIDE DEF f, X
    <2>7. IsFiniteSet(X) /\ Cardinality(X) = Cardinality(persistHits[p])
        <3>1. ExistsBijection(persistHits[p], X)
            BY <2>5, Zenon DEF ExistsBijection
        <3> QED BY <2>6, <3>1, FS_Bijection
    <2>8. ASSUME NEW t \in Teams
          PROVE  {q \in X : q.offender = t} = IF t \in persistHits[p] THEN {Receipt(p, t)} ELSE {}
        BY <2>1, <2>3, <2>4
    <2> QED BY <2>2, <2>7, <2>8
<1>3. \A q \in P : ~(q.round = rounds /\ q.team = p[1] /\ q.box = p[2])
    BY <1>a DEF SliceInv
<1>4. P \cap X = {}
    BY <1>2, <1>3
<1>5. PICK r \in rows : /\ r.time = rounds /\ r.team = p[1]
                        /\ r.up = records[p[1]].row.up
    <2>1. Len(records) = N /\ DOMAIN records = 1..N
        BY <1>a, Bounds DEF SliceInv, PassOK
    <2>2. Saved = 0 /\ p[1] \in DOMAIN records /\ Saved + p[1] = p[1]
        BY <1>b, <2>1, Bounds DEF Saved, Teams
    <2>3. \E r \in rows : /\ r.time = rounds /\ r.team = Saved + p[1]
                          /\ r.up = records[p[1]].row.up
        BY <1>a, <2>2 DEF SliceInv
    <2> QED BY <2>2, <2>3
<1>6. OneRow(rows)
    BY <1>a DEF RowsInv, OneRow
<1> HIDE DEF P, X
<1>7. ASSUME NEW q \in X PROVE WorthIn(rows, T, q) = c
    <2>1. q.round = rounds /\ q.team = p[1] /\ q.box = p[2]
        BY <1>2
    <2>2. RowOf(rows, q) = r
        BY <1>5, <1>6, <2>1, RowOfIs
    <2>3. Parties(T, q) = X
        BY <1>2, <1>3, <2>1 DEF Parties
    <2>4. WorthIn(rows, T, q) = Share(r.up[p[2]], Cardinality(X))
        BY <2>1, <2>2, <2>3 DEF WorthIn
    <2> QED BY <1>2, <1>5, <2>4 DEF Shared
<1>8. ASSUME NEW q \in P PROVE WorthIn(rows, T, q) = WorthIn(rows, P, q)
    <2>1. Parties(T, q) = Parties(P, q)
        BY <1>2, <1>3 DEF Parties
    <2> QED BY <2>1, Zenon DEF WorthIn
<1>9. ASSUME NEW q \in P PROVE WorthIn(rows, P, q) \in Int
    <2>1. HasRow(rows, q.round, q.team)
        BY <1>a DEF P, SliceInv
    <2>2. rows \in SUBSET Row
        BY <1>a DEF TablesOK
    <2>3. WorthIn(rows, P, q) \in Nat
        BY <1>1, <2>1, <2>2, WorthType
    <2> QED BY <2>3
<1>10. c \in Int
    <2>1. records[p[1]].row.up[p[2]] \in Nat
        <3>1. r.up \in [Boxes -> 0..MaxUp]
            BY <1>a, <1>5 DEF TablesOK, Row
        <3> QED BY <1>b, <1>5, <3>1, Bounds
    <2>2. Cardinality(persistHits[p]) \in Nat
        BY <1>b, FS_Subset, FS_CardinalityType
    <2>3. Shared(p) \in Nat
        BY <2>1, <2>2, ShareType, Zenon DEF Shared
    <2> QED BY <2>3 DEF c
<1> HIDE DEF T, c
<1>11. \A S \in SUBSET P, Y \in SUBSET X :
          TotalOf(rows, T, S \cup Y) = TotalOf(rows, P, S) + c * Cardinality(Y)
    <2>1. Grows(rows, P, X, c)
        BY <1>1, <1>2, <1>4, <1>7, <1>8, <1>9, <1>10, Zenon DEF Grows, T
    <2>2. Grown(rows, P, X, c)
        BY <2>1, TotalGrows
    <2> QED BY <2>2, Zenon DEF Grown, T
<1>12. Cardinality({}) = 0 /\ \A t : Cardinality({Receipt(p, t)}) = 1
    BY FS_EmptySet, FS_Singleton
<1>13. ASSUME NEW S \in SUBSET P PROVE TotalOf(rows, P, S) \in Int
    <2> DEFINE f == [q \in S |-> WorthIn(rows, P, q)]
    <2>1. f \in [S -> Int] /\ IsFiniteSet(S) /\ DOMAIN f = S
        BY <1>1, <1>9, FS_Subset
    <2>2. SumOf(f) = SumOver(f, S) /\ TotalOf(rows, P, S) = SumOf(f)
        BY <2>1, SumOfDomain DEF TotalOf
    <2> HIDE DEF f
    <2> QED BY <2>1, <2>2, SumType
<1>14. ASSUME NEW t \in Teams
       PROVE  /\ Lost(rows, T, t) =
                     Lost(rows, P, t) + (IF t = p[1] THEN c * Cardinality(X) ELSE 0)
              /\ Stolen(rows, T, t) =
                     Stolen(rows, P, t) + (IF t \in persistHits[p] THEN c ELSE 0)
    <2> DEFINE S == {q \in P : q.team = t}
               Y == {q \in X : q.team = t}
               U == {q \in T : q.team = t}
               S2 == {q \in P : q.offender = t}
               Y2 == {q \in X : q.offender = t}
               U2 == {q \in T : q.offender = t}
    <2>1. U = S \cup Y /\ U2 = S2 \cup Y2
        BY DEF T
    <2>2. S \in SUBSET P /\ S2 \in SUBSET P /\ Y \in SUBSET X /\ Y2 \in SUBSET X
        OBVIOUS
    <2>3. Y = IF t = p[1] THEN X ELSE {}
        BY <1>2
    <2>4. Y2 = IF t \in persistHits[p] THEN {Receipt(p, t)} ELSE {}
        BY <1>2
    <2>5. /\ Lost(rows, T, t) = TotalOf(rows, T, U) /\ Lost(rows, P, t) = TotalOf(rows, P, S)
          /\ Stolen(rows, T, t) = TotalOf(rows, T, U2) /\ Stolen(rows, P, t) = TotalOf(rows, P, S2)
        BY DEF Lost, Stolen
    <2> HIDE DEF S, Y, U, S2, Y2, U2
    <2>6. /\ TotalOf(rows, T, U) = TotalOf(rows, P, S) + c * Cardinality(Y)
          /\ TotalOf(rows, T, U2) = TotalOf(rows, P, S2) + c * Cardinality(Y2)
        BY <1>11, <2>1, <2>2
    <2>7. TotalOf(rows, P, S) \in Int /\ TotalOf(rows, P, S2) \in Int
        BY <1>13, <2>2
    <2>8. c * Cardinality(Y) = IF t = p[1] THEN c * Cardinality(X) ELSE 0
        BY <1>10, <1>12, <2>3
    <2>9. c * Cardinality(Y2) = IF t \in persistHits[p] THEN c ELSE 0
        BY <1>10, <1>12, <2>4
    <2> QED BY <2>5, <2>6, <2>7, <2>8, <2>9
<1> QED BY <1>2, <1>14 DEF P, X, T, c

LEMMA AccountHere ==
    \A t : Account(t) = IF t > Saved THEN records[t - Saved].row ELSE NewestOf(rows, t)
BY NewestHere DEF Account

LEMMA AccountThen ==
    \A t : Account(t)' = IF t > Saved' THEN records'[t - Saved'].row ELSE NewestOf(rows', t)
BY NewestThen DEF Account

LEMMA NothingLeft ==
    ASSUME records = <<>>
    PROVE  Saved = N /\ \A t \in Teams : ~(t > N)
BY Bounds DEF Saved, Teams

LEMMA PointsStep == IInv /\ [Next]_vars => PointsInv'
<1> SUFFICES ASSUME IInv, [Next]_vars PROVE PointsInv'
    OBVIOUS
<1>a. /\ TablesOK /\ MemoryOK /\ PassOK /\ NumbersOK /\ RoundInv /\ RowsInv /\ PaidInv /\ PastInv
      /\ SliceInv /\ rounds \in Nat
    BY DEF IInv, NumbersOK
<1>b. /\ rows \in SUBSET Row /\ rows' \in SUBSET Row /\ OneRow(rows) /\ OneRow(rows')
      /\ \A r \in rows : r.time <= rounds /\ r.time \in Nat
    BY <1>a, TablesStep, RowsStep DEF TablesOK, RowsInv, OneRow, Row
<1>c. ASSUME ~torn, NEW t \in Teams
      PROVE  Account(t).lost = Lost(rows, Saving, t) /\ Account(t).stolen = Stolen(rows, Saving, t)
    BY <1>c DEF IInv, PointsInv
<1>d. ASSUME UNCHANGED <<rows, persists, records>>, torn' \/ torn' = torn PROVE PointsInv'
    <2>1. Saving' = Saving /\ Saved' = Saved
        BY <1>d DEF Saving, Saved
    <2>2. \A t \in Teams : Account(t)' = Account(t)
        BY <1>d, <2>1, AccountHere, AccountThen
    <2> QED BY <1>c, <1>d, <2>1, <2>2 DEF PointsInv
<1>e. ASSUME torn' PROVE PointsInv'
    BY <1>e DEF PointsInv
<1> USE DEF tables, bounds, pass, memory
<1>1. ASSUME NEW v \in Teams, NEW o \in Teams, NEW b \in Boxes, ScorePersist(v, b, o)
      PROVE  PointsInv'
    BY <1>1, <1>d DEF ScorePersist
<1>2. ASSUME NEW t \in Teams, NEW b \in Boxes, ScoreAgent(t, b) PROVE PointsInv'
    BY <1>2, <1>d DEF ScoreAgent
<1>3. CASE Collect \/ DropRound \/ BeginUptime \/ BeginProcessing \/ EndRound
    BY <1>3, <1>d DEF Collect, DropRound, BeginUptime, BeginProcessing, EndRound
<1>4. ASSUME NEW p \in Pairs, SkipBox(p) \/ ChargeBox(p) PROVE PointsInv'
    BY <1>4, <1>d DEF SkipBox, ChargeBox
<1>5. ASSUME NEW p \in Pairs, ChargeFails(p) \/ Panic(p) PROVE PointsInv'
    BY <1>5, <1>e DEF ChargeFails, Panic
<1>6. ASSUME NEW t \in Teams, RecordFails(t) PROVE PointsInv'
    BY <1>6, <1>e DEF RecordFails
<1>7. ASSUME NEW t \in Teams, CreateRecord(t) PROVE PointsInv'
    <2> SUFFICES ASSUME ~torn PROVE PointsInv'
        BY <1>7, <1>e DEF CreateRecord
    <2> DEFINE r == CarryOn(t)
    <2>1. /\ rows' = rows \cup {r} /\ lpc = "processing" /\ t \in left
          /\ UNCHANGED <<persists, records>>
        BY <1>7 DEF CreateRecord
    <2>2. rounds \in 1..MaxRounds
        BY <1>a, <2>1, Bounds DEF RoundInv, NumbersOK
    <2>3. /\ r \in Row /\ r.time = rounds /\ r.team = t
          /\ r.lost = NewestOf(rows, t).lost /\ r.stolen = NewestOf(rows, t).stolen
        BY <1>a, <2>2, CarryOnIs, NewestHere
    <2> HIDE DEF r
    <2>4. records = <<>> /\ records' = <<>> /\ Saving' = Saving /\ Saving = persists
        BY <1>a, <2>1, NothingToSave, NothingToSaveThen DEF PastInv
    <2>5. Saved = N /\ Saved' = N /\ \A u \in Teams : ~(u > N)
        BY <2>1, <2>4, NothingLeft DEF Saved
    <2>6. NewestOf(rows', t) = r
        <3>1. \A q \in rows' : q.team = t => q = r \/ q.time < r.time
            BY <1>a, <2>1, <2>3 DEF RowsInv
        <3>2. r \in rows'
            BY <2>1
        <3> QED BY <1>b, <2>3, <3>1, <3>2, NewestUnique
    <2>7. ASSUME NEW u \in Teams, u # t PROVE NewestOf(rows', u) = NewestOf(rows, u)
        <3>1. Own(rows', u) = Own(rows, u)
            BY <2>1, <2>3, <2>7 DEF Own
        <3> QED BY <3>1 DEF NewestOf
    <2>8. ASSUME NEW u \in Teams
          PROVE  Account(u)'.lost = Account(u).lost /\ Account(u)'.stolen = Account(u).stolen
        <3>1. Account(u) = NewestOf(rows, u) /\ Account(u)' = NewestOf(rows', u)
            BY <2>5, AccountHere, AccountThen
        <3> QED BY <2>3, <2>6, <2>7, <3>1
    <2>9. \A p \in Saving : WorthIn(rows', Saving, p) = WorthIn(rows, Saving, p)
        <3> TAKE p \in Saving
        <3>1. PICK x \in rows : x.time = p.round /\ x.team = p.team
            BY <1>a DEF SliceInv, HasRow
        <3>2. x \in rows'
            BY <2>1
        <3> QED BY <1>b, <3>1, <3>2, SameWorth
    <2>10. \A u : /\ Lost(rows', Saving, u) = Lost(rows, Saving, u)
                  /\ Stolen(rows', Saving, u) = Stolen(rows, Saving, u)
        BY <2>9, SamePoints
    <2> HIDE DEF Saving, Account
    <2> QED BY <1>c, <2>4, <2>8, <2>10 DEF PointsInv
<1>8. CASE ReadRecords
    <2> SUFFICES ASSUME ~torn PROVE PointsInv'
        BY <1>8, <1>e DEF ReadRecords
    <2>1. /\ lpc = "processing" /\ left = {} /\ UNCHANGED <<rows, persists>>
        BY <1>8 DEF ReadRecords
    <2>2. \A t \in Teams : HasRow(rows, rounds, t)
        BY <1>a, <2>1 DEF SliceInv
    <2>3. /\ DOMAIN records' = 1..N /\ Len(records') = N
          /\ \A i \in 1..N : /\ records'[i].row \in rows /\ records'[i].persists = {}
                             /\ records'[i].row.team = i /\ records'[i].row.time = rounds
        BY <1>8, <1>a, <2>2, FullRead
    <2>4. records = <<>> /\ Saving = persists /\ Saving' = persists
        BY <1>a, <2>1, <2>3, NothingToSave DEF PastInv, Saving
    <2>5. Saved' = 0 /\ Saved = N /\ \A t \in Teams : ~(t > N)
        BY <2>3, <2>4, NothingLeft, Bounds DEF Saved
    <2>6. ASSUME NEW t \in Teams PROVE Account(t)' = Account(t)
        <3>1. /\ records'[t].row \in rows /\ records'[t].row.team = t
              /\ records'[t].row.time = rounds
            BY <2>3 DEF Teams
        <3>2. \A q \in rows : q.team = t => q = records'[t].row \/ q.time < rounds
            BY <1>a, <1>b, <3>1 DEF OneRow
        <3>3. NewestOf(rows, t) = records'[t].row
            BY <1>b, <3>1, <3>2, NewestUnique
        <3>4. Account(t) = NewestOf(rows, t)
            BY <2>5, AccountHere
        <3>5. t > Saved' /\ t - Saved' = t
            BY <2>5, Bounds DEF Teams
        <3>6. Account(t)' = records'[t].row
            BY <3>5, AccountThen
        <3> QED BY <3>3, <3>4, <3>6
    <2> HIDE DEF Saving, Account
    <2> QED BY <1>c, <2>1, <2>4, <2>6 DEF PointsInv
<1>9. ASSUME NEW p \in Pairs, Settle(p) PROVE PointsInv'
    <2>1. UNCHANGED <<rows, persists, torn>> /\ lpc = "settle"
        BY <1>9, Zenon DEF Settle
    <2> SUFFICES ASSUME ~torn PROVE PointsInv'
        BY <2>1, <1>e
    <2>2. rounds \in 1..MaxRounds
        BY <1>a, <2>1, Bounds DEF RoundInv, NumbersOK
    <2>3. /\ p \in left
          /\ Len(records') = Len(records)
          /\ \A i \in DOMAIN records :
                /\ records'[i].row.lost =
                       records[i].row.lost +
                           (IF i = p[1] THEN Shared(p) * Cardinality(persistHits[p]) ELSE 0)
                /\ records'[i].row.stolen =
                       records[i].row.stolen +
                           (IF i # p[1] /\ i \in persistHits[p] THEN Shared(p) ELSE 0)
        BY <1>9, <1>a, <2>2, SettleEffect
    <2>4. p[1] \notin persistHits[p]
        BY <1>a DEF PastInv
    <2>5. Len(records) = N /\ DOMAIN records = 1..N
        BY <1>a, <2>1, <2>3, Bounds DEF SliceInv, PassOK
    <2>6. Saved = 0 /\ Saved' = 0
        BY <2>3, <2>5, Bounds DEF Saved
    <2>7. Saving' = Saving \cup Paid(p)
        BY <1>9, <1>a, <2>2, SettleSaving
    <2>8. ASSUME NEW t \in Teams
          PROVE  /\ Account(t)'.lost = Lost(rows, Saving \cup Paid(p), t)
                 /\ Account(t)'.stolen = Stolen(rows, Saving \cup Paid(p), t)
        <3>1. t > 0 /\ t - 0 = t /\ t \in DOMAIN records
            BY <2>5, Bounds DEF Teams
        <3>2. Account(t) = records[t].row /\ Account(t)' = records'[t].row
            BY <2>6, <3>1, AccountHere, AccountThen
        <3>3. records[t].row.lost = Lost(rows, Saving, t)
              /\ records[t].row.stolen = Stolen(rows, Saving, t)
            BY <1>c, <3>2
        <3>4. /\ Lost(rows, Saving \cup Paid(p), t) =
                     Lost(rows, Saving, t) +
                         (IF t = p[1] THEN Shared(p) * Cardinality(persistHits[p]) ELSE 0)
              /\ Stolen(rows, Saving \cup Paid(p), t) =
                     Stolen(rows, Saving, t) + (IF t \in persistHits[p] THEN Shared(p) ELSE 0)
            BY <2>1, <2>3, SettlePoints
        <3> HIDE DEF Saving, Account
        <3>5. records'[t].row.lost =
                  records[t].row.lost +
                      (IF t = p[1] THEN Shared(p) * Cardinality(persistHits[p]) ELSE 0)
            BY <2>3, <3>1
        <3>6. records'[t].row.stolen =
                  records[t].row.stolen + (IF t \in persistHits[p] THEN Shared(p) ELSE 0)
            BY <2>3, <2>4, <3>1
        <3> QED BY <3>2, <3>3, <3>4, <3>5, <3>6
    <2> HIDE DEF Saving, Account
    <2> QED BY <2>1, <2>7, <2>8 DEF PointsInv
<1>10. CASE SaveRow
    <2> SUFFICES ASSUME ~torn PROVE PointsInv'
        BY <1>10, <1>e DEF SaveRow
    <2>1. PICK rec \in Read :
              /\ lpc = "settle" /\ left = {} /\ Len(records) \in Nat \ {0} /\ rec = records[1]
              /\ rows' = {r \in rows : r.time # rec.row.time \/ r.team # rec.row.team}
                             \cup {rec.row}
              /\ records' \in Seq(Read) /\ DOMAIN records' = 1..(Len(records) - 1)
              /\ \A i \in DOMAIN records' : /\ i + 1 \in DOMAIN records
                                            /\ records'[i] = records[i + 1]
        BY <1>10, <1>a, SaveEffect
    <2>2. Saving' = Saving
        BY <1>10, <1>a, SaveSaving
    <2>3. Saved' = Saved + 1 /\ Saved \in Int /\ DOMAIN records = 1..Len(records)
          /\ Saved + Len(records) = N
        <3>1. records' = Tail(records) /\ records \in Seq(Read) /\ records # <<>>
            BY <1>10, <1>a DEF SaveRow, PassOK
        <3>2. Len(records') = Len(records) - 1
            BY <3>1
        <3> QED BY <2>1, <3>1, <3>2, Bounds DEF Saved
    <2>4. /\ rec.row.team = Saved + 1 /\ rec.row.time = rounds
          /\ \E r \in rows : r.time = rounds /\ r.team = Saved + 1 /\ r.up = rec.row.up
        BY <1>a, <2>1, <2>3 DEF SliceInv
    <2>5. ASSUME NEW t \in Teams PROVE Account(t)' = Account(t)
        <3>1. t \in Int /\ t >= 1 /\ t <= N
            BY Bounds DEF Teams
        <3>2. CASE t > Saved + 1
            <4>1. t - Saved' \in DOMAIN records' /\ (t - Saved') + 1 = t - Saved
                BY <2>1, <2>3, <3>1, <3>2
            <4>2. records'[t - Saved'] = records[t - Saved]
                BY <2>1, <4>1
            <4>3. t > Saved /\ t > Saved'
                BY <2>3, <3>1, <3>2
            <4> HIDE DEF Saved, Account
            <4> QED BY <4>2, <4>3, AccountHere, AccountThen
        <3>3. CASE t = Saved + 1
            <4>1. ~(t > Saved') /\ t > Saved /\ t - Saved = 1
                BY <2>3, <3>1, <3>3
            <4>2. Account(t) = rec.row
                BY <2>1, <4>1, AccountHere
            <4>3. /\ rec.row \in rows'
                  /\ \A q \in rows' :
                        q.team = rec.row.team => q = rec.row \/ q.time < rec.row.time
                BY <1>b, <2>1, <2>4
            <4>4. NewestOf(rows', rec.row.team) = rec.row
                BY <1>b, <4>3, NewestUnique
            <4>5. Account(t)' = NewestOf(rows', t)
                BY <4>1, AccountThen
            <4> QED BY <2>4, <3>3, <4>2, <4>4, <4>5
        <3>4. CASE t <= Saved
            <4>1. ~(t > Saved') /\ ~(t > Saved) /\ t # Saved + 1
                BY <2>3, <3>1, <3>4
            <4>2. Own(rows', t) = Own(rows, t)
                BY <2>1, <2>4, <4>1 DEF Own
            <4>3. NewestOf(rows', t) = NewestOf(rows, t)
                BY <4>2 DEF NewestOf
            <4> QED BY <4>1, <4>3, AccountHere, AccountThen
        <3> QED BY <2>3, <3>1, <3>2, <3>3, <3>4
    <2>6. \A p \in Saving : WorthIn(rows', Saving, p) = WorthIn(rows, Saving, p)
        <3> TAKE p \in Saving
        <3>1. PICK x \in rows : x.time = p.round /\ x.team = p.team
            BY <1>a DEF SliceInv, HasRow
        <3>2. CASE x.time = rounds /\ x.team = Saved + 1
            <4>1. rec.row \in rows'
                BY <2>1
            <4>2. PICK r \in rows : r.time = rounds /\ r.team = Saved + 1 /\ r.up = rec.row.up
                BY <2>4
            <4>3. PICK q \in rows' : q = rec.row
                BY <4>1
            <4>4. /\ r.time = p.round /\ r.team = p.team /\ q.time = p.round /\ q.team = p.team
                  /\ q.up = r.up
                BY <2>4, <3>1, <3>2, <4>2, <4>3
            <4> QED BY <1>b, <4>4, SameWorth
        <3>3. CASE ~(x.time = rounds /\ x.team = Saved + 1)
            <4>1. x \in rows'
                BY <2>1, <2>4, <3>3
            <4> QED BY <1>b, <3>1, <4>1, SameWorth
        <3> QED BY <3>2, <3>3
    <2>7. \A t : /\ Lost(rows', Saving, t) = Lost(rows, Saving, t)
                 /\ Stolen(rows', Saving, t) = Stolen(rows, Saving, t)
        BY <2>6, SamePoints
    <2> HIDE DEF Saving, Account
    <2> QED BY <1>c, <2>2, <2>5, <2>7 DEF PointsInv
<1>11. CASE Reset
    <2>1. rows' = {} /\ persists' = {} /\ records' = <<>>
        BY <1>11, <1>a DEF Reset, LockFree, PastInv
    <2>2. Saving' = {}
        BY <2>1, NothingToSaveThen
    <2>3. Saved' = N /\ \A t \in Teams : ~(t > N)
        BY <2>1, Bounds DEF Saved, Teams
    <2>4. \A t \in Teams : Account(t)'.lost = 0 /\ Account(t)'.stolen = 0
        BY <2>1, <2>3, AccountThen DEF NewestOf, Own
    <2> HIDE DEF Saving, Account
    <2> QED BY <2>2, <2>4, NoPoints DEF PointsInv
<1>12. CASE Tick
    BY <1>12, <1>d DEF Tick
<1>13. CASE Crash
    <2>1. /\ UNCHANGED <<rows, persists>> /\ records' = <<>>
          /\ torn' = (torn \/ ~LockFree)
        BY <1>13 DEF Crash
    <2>2. CASE LockFree
        <3>1. records' = records /\ torn' = torn
            BY <1>a, <2>1, <2>2 DEF LockFree, PastInv, MemoryOK
        <3> QED BY <1>d, <2>1, <3>1
    <2>3. CASE ~LockFree
        <3>1. torn'
            BY <2>1, <2>3, Zenon
        <3> QED BY <1>e, <3>1
    <2> QED BY <2>2, <2>3
<1>14. CASE Boot
    BY <1>14, <1>d DEF Boot
<1>15. CASE UNCHANGED vars
    BY <1>15, <1>d DEF vars
<1>16. ASSUME NEW p \in Pairs, ChargeAnew(p) PROVE PointsInv'
    BY <1>16, <1>d DEF ChargeAnew
<1>17. CASE ReadFails \/ SaveRowFails
    BY <1>17, <1>e DEF ReadFails, SaveRowFails
<1>18. ASSUME NEW kept, ResetFails(kept) PROVE PointsInv'
    <2>1. torn' = TRUE
        BY <1>18, Zenon DEF ResetFails
    <2> QED BY <1>e, <2>1
<1> QED BY <1>1, <1>2, <1>3, <1>4, <1>5, <1>6, <1>7, <1>8, <1>9, <1>10, <1>11, <1>12, <1>13,
           <1>14, <1>15, <1>16, <1>17, <1>18, Zenon
        DEF Next, Uptime, Settlement, BoundReached

-----------------------------------------------------------------------------
(* The invariant holds throughout *)

LEMMA InitIInv == Init => IInv
<1> SUFFICES ASSUME Init PROVE IInv
    OBVIOUS
<1>1. Epoch \in Epoch..MaxClock /\ 0 \in 0..MaxClock
    BY Bounds DEF Epoch
<1>2. TablesOK
    BY <1>1 DEF Init, TablesOK, NoSla, SlaRow
<1>3. MemoryOK
    BY <1>1 DEF Init, MemoryOK, NoHits
<1>4. PassOK
    <2>1. NoResults \in [Teams -> Staged]
        BY Bounds DEF NoResults, NoneUp, Staged
    <2> QED BY <2>1 DEF Init, PassOK
<1>5. NumbersOK /\ RoundInv /\ ReadInv
    BY Bounds DEF Init, NumbersOK, RoundInv, ReadInv
<1>6. RowsInv
    BY FS_EmptySet DEF Init, RowsInv
<1>7. StagedInv
    BY DEF Init, StagedInv, NoResults
<1>8. ChargeInv
    <2> SUFFICES ASSUME NEW t \in Teams PROVE Charged(t) = 0 /\ Shown(t) = 0 /\ forgotten[t] = 0
        BY DEF ChargeInv
    <2>1. Newest(t).sla = 0
        BY DEF Init, Newest
    <2>2. ~Open(t)
        BY DEF Init, Open
    <2>3. [b \in Boxes |-> slas[<<t, b>>].violations] = [b \in Boxes |-> 0]
        BY DEF Init, NoSla, Pairs
    <2>4. SumOver([b \in Boxes |-> 0], Boxes) = 0
        BY Bounds, SumOfZeroes
    <2>5. SumOf([b \in Boxes |-> 0]) = SumOver([b \in Boxes |-> 0], Boxes)
        BY SumOfDomain
    <2>6. Shown(t) = SumOf([b \in Boxes |-> 0])
        BY <2>3, Zenon DEF Shown
    <2>7. Shown(t) = 0
        BY <2>4, <2>5, <2>6, Zenon
    <2>8. Charged(t) = 0
        BY <2>1, <2>2 DEF Init, Charged, Extra
    <2> QED BY <2>7, <2>8 DEF Init
<1>9. HitsInv
    BY DEF Init, HitsInv, NoHits
<1>10. PaidInv
    <2>1. Calls = {} /\ persists = {} /\ hits = 0 /\ lpc = "idle"
        BY DEF Init, Calls, NoHits
    <2>2. persists \ Receipts = {} /\ Cardinality({}) = 0 /\ IsFiniteSet({})
        BY <2>1, FS_EmptySet
    <2> QED BY <2>1, <2>2 DEF PaidInv
<1>11. records = <<>> /\ Saving = {} /\ rows = {} /\ persists = {}
    BY DEF Init, Saving
<1>12. PastInv /\ SliceInv
    BY <1>11 DEF Init, PastInv, SliceInv, NoHits
<1>13. PointsInv
    <2>1. \A t \in Teams : Account(t) = NewestOf(rows, t)
        BY <1>11, NothingLeft, AccountHere
    <2>2. \A t : NewestOf(rows, t).lost = 0 /\ NewestOf(rows, t).stolen = 0
        BY <1>11 DEF NewestOf, Own
    <2> HIDE DEF Account, Saving
    <2> QED BY <1>11, <2>1, <2>2, NoPoints DEF PointsInv
<1>14. BalanceOK
    BY DEF Init, BalanceOK
<1> QED BY <1>2, <1>3, <1>4, <1>5, <1>6, <1>7, <1>8, <1>9, <1>10, <1>12, <1>13, <1>14
        DEF IInv

LEMMA Inductive == IInv /\ [Next]_vars => IInv'
BY TablesStep, MemoryStep, PassStep, NumbersStep, BalanceStep, RowsStep, ReadStep, StagedStep,
   ChargeStep, HitsStep, PaidStep, PastStep, SliceStep, PointsStep, Zenon DEF IInv

LEMMA Invariance == Spec => []IInv
BY InitIInv, Inductive, PTL DEF Spec

-----------------------------------------------------------------------------
(* The theorems *)

\* The tables, what is in memory and the records a round works on keep their types.
THEOREM TypeCorrect == Spec => []TypeOK
<1>1. IInv => TypeOK
    BY TypeParts DEF IInv
<1> QED BY Invariance, <1>1, PTL

\* A call from another team's box is paid for in one round at most, however rounds are dropped
\* and whichever passes of calculatePersists errors and crashes cut short (score.go:310-358).
THEOREM PaidOnceAlways == Spec => []PaidOnce
<1>1. IInv => PaidOnce
    BY DEF IInv, PaidInv, PaidOnce, Between
<1> QED BY Invariance, <1>1, PTL

\* Between rounds the violations a team is charged with are those its slas rows show, but for the
\* ones that were in rows since overwritten by a failed query's fresh row or deleted, and the ones
\* whose record failed, was cut short or deleted: across rounds that are dropped, none is charged
\* twice and none is lost (score.go:129-165, 212-286).
THEOREM UptimeMatchesSlaAlways == Spec => []UptimeMatchesSla
<1>1. IInv => UptimeMatchesSla
    <2> SUFFICES ASSUME IInv, Between, NEW t \in Teams
                 PROVE  Newest(t).sla + uncharged[t] = Shown(t) + forgotten[t]
        BY DEF UptimeMatchesSla
    <2>1. Newest(t).sla \in Nat
        BY NewestHere, NewestType DEF IInv, TablesOK
    <2>2. Charged(t) = Newest(t).sla + uncharged[t]
        BY <2>1 DEF Charged, Extra, Open, Between
    <2> QED BY <2>2 DEF IInv, ChargeInv
<1> QED BY Invariance, <1>1, PTL

\* An accepted call stays in persistHits until its row of persists is saved; a reset and a restart
\* forget it, and the end of a round whose settlement failed in the database: calculatePersists
\* could not read the rows or save the victim's (routes.go:305-344, score.go:178-180, 310-358).
THEOREM NoHitForgottenAlways == Spec => NoHitForgotten
<1> DEFINE Remembered ==
               \A v \in Teams, b \in Boxes :
                  \A o \in persistHits[<<v, b>>] \ persistHits'[<<v, b>>] :
                      \/ lpc = "down"
                      \/ troubles' # troubles
                      \/ v \in unsettled
                      \/ [round |-> rounds, team |-> v, box |-> b, offender |-> o] \in persists'
<1>1. ASSUME IInv, [Next]_vars PROVE Remembered
    <2>a. MemoryOK /\ PassOK /\ NumbersOK /\ HitsInv
        BY <1>1 DEF IInv
    <2>b. ASSUME persistHits' = persistHits PROVE Remembered
        BY <2>b
    <2> USE DEF tables, memory, pass, bounds
    <2>1. ASSUME NEW v \in Teams, NEW o \in Teams, NEW b \in Boxes, ScorePersist(v, b, o)
          PROVE  Remembered
        <3>1. \A p \in Pairs : persistHits[p] \subseteq persistHits'[p]
            BY <2>1, <2>a DEF ScorePersist, MemoryOK
        <3> QED BY <3>1 DEF Pairs
    <2>2. CASE EndRound
        <3> SUFFICES ASSUME NEW v \in Teams, NEW b \in Boxes, NEW o \in persistHits[<<v, b>>]
                     PROVE  v \in unsettled \/ Receipt(<<v, b>>, o) \in persists'
            BY DEF Receipt
        <3>1. <<v, b>> \in Pairs
            BY DEF Pairs
        <3>2. dwConf.persists
            BY <2>a, <3>1 DEF HitsInv
        <3>3. lpc = "settle" /\ left = {} /\ records = <<>> /\ persists' = persists
            BY <2>2, <3>2 DEF EndRound
        <3> QED BY <2>a, <3>1, <3>3 DEF HitsInv
    <2>3. CASE Reset
        BY <2>3, <2>a DEF Reset, NumbersOK
    <2>4. CASE Boot
        BY <2>4 DEF Boot
    <2>5. ASSUME NEW t \in Teams, NEW b \in Boxes, ScoreAgent(t, b) PROVE Remembered
        BY <2>5, <2>b DEF ScoreAgent
    <2>6. CASE Collect \/ DropRound \/ BeginUptime \/ BeginProcessing
        BY <2>6, <2>b DEF Collect, DropRound, BeginUptime, BeginProcessing
    <2>7. CASE ReadRecords \/ ReadFails \/ SaveRow \/ SaveRowFails
        BY <2>7, <2>b DEF ReadRecords, ReadFails, SaveRow, SaveRowFails
    <2>8. ASSUME NEW p \in Pairs,
                 SkipBox(p) \/ ChargeBox(p) \/ ChargeAnew(p) \/ ChargeFails(p) \/ Settle(p)
                            \/ Panic(p)
          PROVE  Remembered
        <3>1. persistHits' = persistHits
            BY <2>8, Zenon DEF SkipBox, ChargeBox, ChargeAnew, ChargeFails, Settle, Panic
        <3> QED BY <2>b, <3>1
    <2>9. ASSUME NEW t \in Teams, CreateRecord(t) \/ RecordFails(t) PROVE Remembered
        BY <2>9, <2>b DEF CreateRecord, RecordFails
    <2>10. CASE Tick \/ Crash
        BY <2>10, <2>b DEF Tick, Crash
    <2>11. CASE UNCHANGED vars
        BY <2>11, <2>b DEF vars
    <2>12. ASSUME NEW kept, ResetFails(kept) PROVE Remembered
        <3>1. troubles' = troubles + 1
            BY <2>12, Zenon DEF ResetFails
        <3>2. troubles' # troubles
            BY <2>a, <3>1 DEF NumbersOK
        <3> QED BY <3>2
    <2> HIDE DEF Remembered
    <2> QED BY <1>1, <2>1, <2>2, <2>3, <2>4, <2>5, <2>6, <2>7, <2>8, <2>9, <2>10, <2>11,
               <2>12, Zenon DEF Next, Uptime, Settlement, BoundReached
<1> QED BY Invariance, <1>1, PTL DEF Spec, NoHitForgotten

\* What a team has lost and stolen by persists, added up by positions in a slice and carried from
\* row to row, is what the rows of persists say; and no position is out of range: unless a record
\* is missing or a pass was cut short (calculatePersists, score.go:310-358).
THEOREM PersistsExplainPointsAlways == Spec => []PersistsExplainPoints
<1>1. ASSUME IInv PROVE PersistsExplainPoints
    <2>a. PassOK /\ PastInv /\ SliceInv /\ PointsInv /\ MemoryOK
        BY <1>1 DEF IInv
    <2>1. \A S : Total(S) = TotalOf(rows, persists, S)
        <3>1. \A p : Worth(p) = WorthIn(rows, persists, p)
            BY Zenon DEF Worth, WorthIn, RowOf, Parties
        <3> HIDE DEF Worth, WorthIn
        <3>2. ASSUME NEW S PROVE [p \in S |-> Worth(p)] = [p \in S |-> WorthIn(rows, persists, p)]
            BY <3>1
        <3> QED BY <3>2, Zenon DEF Total, TotalOf
    <2>2. ASSUME ~torn, Between, NEW t \in Teams
          PROVE  /\ Newest(t).lost = Total({p \in persists : p.team = t})
                 /\ Newest(t).stolen = Total({p \in persists : p.offender = t})
        <3>1. records = <<>>
            BY <2>a, <2>2 DEF PastInv, Between
        <3>2. Saving = persists /\ Account(t) = Newest(t)
            BY <3>1, NothingToSave, NothingLeft DEF Account
        <3>3. Account(t).lost = Lost(rows, Saving, t) /\ Account(t).stolen = Stolen(rows, Saving, t)
            BY <2>a, <2>2 DEF PointsInv
        <3> QED BY <2>1, <3>2, <3>3 DEF Lost, Stolen
    <2>3. ASSUME ~torn, lpc = "settle", NEW p \in left
          PROVE  InRange(p)
        <3>1. Len(records) = N /\ DOMAIN records = 1..N
            BY <2>a, <2>3 DEF SliceInv, PassOK
        <3>2. p \in Pairs
            BY <2>a, <2>3 DEF PassOK
        <3>3. {p[1]} \cup persistHits[p] \subseteq Teams
            BY <2>a, <3>2, PairParts DEF MemoryOK
        <3> QED BY <3>1, <3>3 DEF InRange, Teams
    <2> QED BY <2>2, <2>3, Zenon DEF PersistsExplainPoints
<1> QED BY Invariance, <1>1, PTL
=============================================================================
