--------------------------- MODULE StartupProofs ---------------------------
(***************************************************************************)
(* TLAPS proofs about Startup, for any configuration files and lists of    *)
(* delayed boxes: what checkConfig makes of a configuration and that it    *)
(* does so once, what each kind of check sends, that nothing else ends the *)
(* process, and that going through the delayed boxes, against the clock,   *)
(* resets and restarts, implements Timetable.                              *)
(***************************************************************************)
EXTENDS Startup, SetLemmas, SequenceTheorems, TLAPS

-----------------------------------------------------------------------------
(* Sorting *)

\* The order StableSort goes by, and the sorted sequence, with the keys in a sequence.
Before(key, j, i) == key[j] < key[i] \/ (key[j] = key[i] /\ j < i)
RankOf(key, i) == Cardinality({j \in DOMAIN key : Before(key, j, i)}) + 1
SortedBy(s, key) == [k \in DOMAIN s |-> s[CHOOSE i \in DOMAIN s : RankOf(key, i) = k]]

\* A sequence with the elements of another in some order.
Reordered(s, t) ==
    \E p \in [DOMAIN s -> DOMAIN s] :
        /\ \A j, k \in DOMAIN s : p[j] = p[k] => j = k
        /\ \A i \in DOMAIN s : \E k \in DOMAIN s : p[k] = i
        /\ t = [k \in DOMAIN s |-> s[p[k]]]

\* No two indices have one rank, whatever the keys are.
LEMMA RanksDiffer ==
    ASSUME NEW n \in Nat, NEW key \in [1..n -> Int], NEW i \in 1..n, NEW j \in 1..n, i # j
    PROVE  RankOf(key, i) \in 1..n /\ RankOf(key, i) # RankOf(key, j)
<1> DEFINE Under(k) == {l \in 1..n : Before(key, l, k)}
<1>1. IsFiniteSet(1..n) /\ Cardinality(1..n) = n
    BY FS_Interval
<1>2. ASSUME NEW k \in 1..n
      PROVE  /\ IsFiniteSet(Under(k)) /\ Cardinality(Under(k)) \in Nat
             /\ RankOf(key, k) = Cardinality(Under(k)) + 1
    BY <1>1, FS_Subset, FS_CardinalityType DEF RankOf
<1>3. ASSUME NEW k \in 1..n, NEW l \in 1..n, Before(key, l, k)
      PROVE  Cardinality(Under(l)) < Cardinality(Under(k))
    <2>1. Under(l) \subseteq Under(k) /\ l \in Under(k) /\ l \notin Under(l)
        BY <1>3 DEF Before
    <2>2. Under(l) \in SUBSET Under(k) /\ Under(l) # Under(k)
        BY <2>1
    <2>3. IsFiniteSet(Under(k)) /\ Cardinality(Under(k)) \in Nat /\ Cardinality(Under(l)) \in Nat
        BY <1>2
    <2> HIDE DEF Under
    <2>4. /\ Cardinality(Under(l)) <= Cardinality(Under(k))
          /\ Cardinality(Under(l)) # Cardinality(Under(k))
        BY <2>2, <2>3, FS_Subset
    <2> QED BY <2>3, <2>4
<1>4. Under(i) \subseteq 1..n /\ i \notin Under(i)
    BY DEF Before
<1>5. Cardinality(Under(i)) < n
    <2>1. Under(i) \in SUBSET (1..n) /\ Under(i) # 1..n
        BY <1>4
    <2>2. Cardinality(Under(i)) \in Nat
        BY <1>2
    <2> HIDE DEF Under
    <2>3. Cardinality(Under(i)) <= n /\ Cardinality(Under(i)) # n
        BY <1>1, <2>1, FS_Subset
    <2> QED BY <2>2, <2>3
<1>6. Before(key, i, j) \/ Before(key, j, i)
    BY DEF Before
<1>7. /\ Cardinality(Under(i)) \in Nat /\ Cardinality(Under(j)) \in Nat
      /\ RankOf(key, i) = Cardinality(Under(i)) + 1
      /\ RankOf(key, j) = Cardinality(Under(j)) + 1
    BY <1>2
<1> HIDE DEF Under
<1>8. RankOf(key, i) # RankOf(key, j)
    BY <1>3, <1>6, <1>7
<1> QED BY <1>5, <1>7, <1>8

\* Sorting loses and doubles nothing: ranks that differ are all the ranks there are.
LEMMA SortReorders ==
    ASSUME NEW n \in Nat, NEW s, DOMAIN s = 1..n, NEW key \in [1..n -> Int]
    PROVE  Reordered(s, SortedBy(s, key))
<1> DEFINE f == [i \in 1..n |-> RankOf(key, i)]
           p == [k \in 1..n |-> CHOOSE i \in 1..n : RankOf(key, i) = k]
<1>1. \A i \in 1..n : f[i] \in 1..n
    <2> TAKE i \in 1..n
    <2>1. CASE n = 1
        <3>1. {j \in DOMAIN key : Before(key, j, i)} = {}
            BY <2>1 DEF Before
        <3>2. Cardinality({}) = 0
            BY FS_EmptySet
        <3>3. RankOf(key, i) = 0 + 1
            BY <3>1, <3>2, Zenon DEF RankOf
        <3> QED BY <2>1, <3>3
    <2>2. CASE n # 1
        <3>1. PICK j \in 1..n : j # i
            <4>1. (1 \in 1..n /\ 2 \in 1..n)
                BY <2>2
            <4> QED BY <4>1
        <3> QED BY <3>1, RanksDiffer
    <2> QED BY <2>1, <2>2
<1>2. \A i, j \in 1..n : f[i] = f[j] => i = j
    BY RanksDiffer
<1>3. \A k \in 1..n : \E i \in 1..n : RankOf(key, i) = k
    <2> SUFFICES ASSUME NEW k \in 1..n, \A i \in 1..n : RankOf(key, i) # k PROVE FALSE
        OBVIOUS
    <2>1. f \in [1..n -> (1..n) \ {k}]
        BY <1>1
    <2>2. IsFiniteSet(1..n) /\ Cardinality(1..n) = n
        BY FS_Interval
    <2>3. IsFiniteSet((1..n) \ {k}) /\ Cardinality((1..n) \ {k}) = n - 1
        BY <2>2, FS_RemoveElement
    <2> HIDE DEF f
    <2>4. \E i, j \in 1..n : i # j /\ f[i] = f[j]
        <3> DEFINE S == 1..n
                   T == (1..n) \ {k}
        <3>1. IsFiniteSet(S) /\ IsFiniteSet(T) /\ Cardinality(T) < Cardinality(S) /\ f \in [S -> T]
            BY <2>1, <2>2, <2>3
        <3> HIDE DEF S, T
        <3>2. \E i, j \in S : i # j /\ f[i] = f[j]
            BY <3>1, FS_PigeonHole
        <3> QED BY <3>2 DEF S
    <2> QED BY <1>2, <2>4
<1>4. \A k \in 1..n : p[k] \in 1..n /\ RankOf(key, p[k]) = k
    BY <1>3
<1>5. p \in [1..n -> 1..n]
    BY <1>4
<1>6. \A j, k \in 1..n : p[j] = p[k] => j = k
    BY <1>4, Zenon
<1>7. \A i \in 1..n : p[f[i]] = i
    BY <1>1, <1>2, <1>4
<1>8. SortedBy(s, key) = [k \in DOMAIN s |-> s[p[k]]]
    BY DEF SortedBy
<1> HIDE DEF p, f
<1>9. \A i \in 1..n : \E k \in 1..n : p[k] = i
    BY <1>1, <1>7
<1>10. /\ p \in [DOMAIN s -> DOMAIN s]
       /\ \A j, k \in DOMAIN s : p[j] = p[k] => j = k
       /\ \A i \in DOMAIN s : \E k \in DOMAIN s : p[k] = i
    BY <1>5, <1>6, <1>9
<1> QED BY <1>8, <1>10, Zenon DEF Reordered

\* A reordering has the same elements.
LEMMA ReorderedHas ==
    ASSUME NEW S, NEW s \in Seq(S), NEW t, Reordered(s, t)
    PROVE  t \in Seq(S) /\ DOMAIN t = DOMAIN s /\ Len(t) = Len(s) /\ ToSet(t) = ToSet(s)
<1>1. PICK p \in [DOMAIN s -> DOMAIN s] :
          /\ \A i \in DOMAIN s : \E k \in DOMAIN s : p[k] = i
          /\ t = [k \in DOMAIN s |-> s[p[k]]]
    BY DEF Reordered
<1>2. DOMAIN t = 1..Len(s) /\ \A k \in 1..Len(s) : t[k] \in S
    BY <1>1
<1>3. ToSet(t) = ToSet(s)
    BY <1>1, <1>2 DEF ToSet
<1>4. t \in [1..Len(s) -> S]
    BY <1>1, <1>2
<1>5. t \in Seq(S) /\ Len(t) = Len(s)
    BY <1>4
<1> QED BY <1>2, <1>3, <1>5

-----------------------------------------------------------------------------
(* validateChecks *)

Judgements == {"ok", "error", "panic"}

\* The first objection is one, if there is any.
LEMMA FirstObjectionIs ==
    ASSUME NEW n \in Nat, NEW v, DOMAIN v = 1..n
    PROVE  /\ FirstObjection(v) = "ok" <=> \A k \in 1..n : v[k] = "ok"
           /\ FirstObjection(v) # "ok" => \E k \in 1..n : v[k] = FirstObjection(v)
<1> DEFINE faults == {k \in 1..n : v[k] # "ok"}
<1>1. CASE faults = {}
    BY <1>1 DEF FirstObjection
<1>2. CASE faults # {}
    <2>1. faults \subseteq Nat
        OBVIOUS
    <2>2. Min(faults) \in faults
        BY <1>2, <2>1, MinOfNaturals
    <2>3. FirstObjection(v) = v[Min(faults)]
        BY <1>2, Zenon DEF FirstObjection
    <2> HIDE DEF faults
    <2>4. PICK m \in faults : FirstObjection(v) = v[m]
        BY <2>2, <2>3
    <2> QED BY <2>4 DEF faults
<1> QED BY <1>1, <1>2

\* Every kind of check has a rank.
LEMMA KindRankType == KindRank \in [ToSet(KindOrder) -> Int]
<1>1. DOMAIN KindOrder = 1..16
    BY DEF KindOrder
<1>2. \A kind \in ToSet(KindOrder) : \E n \in DOMAIN KindOrder : KindOrder[n] = kind
    BY Zenon DEF ToSet
<1>3. \A kind \in ToSet(KindOrder) : (CHOOSE n \in DOMAIN KindOrder : KindOrder[n] = kind) \in 1..16
    BY <1>1, <1>2
<1> DEFINE rank(kind) == CHOOSE n \in DOMAIN KindOrder : KindOrder[n] = kind
<1>4. KindRank = [kind \in ToSet(KindOrder) |-> rank(kind)]
    BY Zenon DEF KindRank
<1>5. \A kind \in ToSet(KindOrder) : rank(kind) \in 1..16
    BY <1>3, Zenon
<1> HIDE DEF rank
<1> QED BY <1>4, <1>5

\* The checks of a box are those of the file.
LEMMA BoxChecksReorder ==
    ASSUME NEW b \in ConfBox
    PROVE  Reordered(b.checks, getBoxChecks(b))
<1> DEFINE s == b.checks
           key == [i \in DOMAIN s |-> KindRank[s[i].kind]]
<1>1. s \in Seq(ConfCheck)
    BY DEF ConfBox
<1>2. DOMAIN s = 1..Len(s) /\ Len(s) \in Nat
    BY <1>1
<1>3. \A i \in DOMAIN s : s[i] \in ConfCheck /\ s[i].kind \in ToSet(KindOrder)
    <2>1. \A c \in ConfCheck : c.kind \in ToSet(KindOrder)
        BY DEF ConfCheck
    <2> QED BY <1>1, <2>1
<1>4. key \in [1..Len(s) -> Int]
    BY <1>2, <1>3, KindRankType
<1>5. getBoxChecks(b) = SortedBy(s, key)
    <2> DEFINE Precedes(j, i) ==
                  \/ KindRank[s[j].kind] < KindRank[s[i].kind]
                  \/ KindRank[s[j].kind] = KindRank[s[i].kind] /\ j < i
               Rank(i) == Cardinality({j \in DOMAIN s : Precedes(j, i)}) + 1
    <2>1. DOMAIN key = DOMAIN s /\ \A i, j \in DOMAIN s : Precedes(j, i) <=> Before(key, j, i)
        BY DEF Before
    <2>2. getBoxChecks(b) = [k \in DOMAIN s |-> s[CHOOSE i \in DOMAIN s : Rank(i) = k]]
        BY Zenon DEF getBoxChecks, StableSort
    <2> HIDE DEF Precedes, key
    <2>3. \A i \in DOMAIN s : {j \in DOMAIN s : Precedes(j, i)} = {j \in DOMAIN key : Before(key, j, i)}
        BY <2>1, Zenon
    <2>4. \A i \in DOMAIN s : Rank(i) = RankOf(key, i)
        BY <2>3, Zenon DEF RankOf
    <2> HIDE DEF Rank, s
    <2> DEFINE A(k) == CHOOSE i \in DOMAIN s : Rank(i) = k
               B(k) == CHOOSE i \in DOMAIN s : RankOf(key, i) = k
    <2>5. \A k : A(k) = B(k)
        BY <2>4
    <2>6. getBoxChecks(b) = [k \in DOMAIN s |-> s[A(k)]]
        BY <2>2, Zenon
    <2>7. SortedBy(s, key) = [k \in DOMAIN s |-> s[B(k)]]
        BY Zenon DEF SortedBy
    <2> HIDE DEF A, B
    <2> QED BY <2>5, <2>6, <2>7
<1> HIDE DEF key, s
<1>6. Reordered(s, getBoxChecks(b))
    BY <1>2, <1>4, <1>5, SortReorders
<1> QED BY <1>6 DEF s

\* A box is accepted if it has an address and each of its checks is accepted.
LEMMA BoxVerdictIs ==
    ASSUME NEW b \in ConfBox
    PROVE  /\ BoxVerdict(b) \in Judgements
           /\ BoxVerdict(b) = "ok" <=>
                  b.ip # NoName /\ \A c \in ToSet(b.checks) : CheckVerdict(c) = "ok"
<1> DEFINE list == getBoxChecks(b)
           v == [k \in DOMAIN list |-> CheckVerdict(list[k])]
<1>1. \A c : CheckVerdict(c) \in Judgements
    BY DEF CheckVerdict, Judgements
<1>2. b.checks \in Seq(ConfCheck)
    BY DEF ConfBox
<1>3. list \in Seq(ConfCheck) /\ ToSet(list) = ToSet(b.checks)
    BY <1>2, BoxChecksReorder, ReorderedHas
<1>4. DOMAIN list = 1..Len(list) /\ Len(list) \in Nat
    BY <1>3
<1>5. DOMAIN v = 1..Len(list)
    BY <1>4
<1>6. BoxVerdict(b) = IF b.ip = NoName THEN "error" ELSE FirstObjection(v)
    BY DEF BoxVerdict
<1>7. \A k \in 1..Len(list) : v[k] = CheckVerdict(list[k])
    BY <1>4
<1>8. (\A k \in 1..Len(list) : v[k] = "ok") <=> \A c \in ToSet(list) : CheckVerdict(c) = "ok"
    BY <1>4, <1>7 DEF ToSet
<1> HIDE DEF v, list
<1>9. /\ FirstObjection(v) = "ok" <=> \A k \in 1..Len(list) : v[k] = "ok"
      /\ FirstObjection(v) # "ok" => \E k \in 1..Len(list) : v[k] = FirstObjection(v)
    BY <1>4, <1>5, FirstObjectionIs
<1>10. FirstObjection(v) \in Judgements
    BY <1>1, <1>7, <1>9 DEF Judgements
<1> QED BY <1>3, <1>6, <1>8, <1>9, <1>10 DEF Judgements

\* validateChecks accepts what every box would be accepted of, and otherwise says what one of
\* them deserves.
LEMMA validateChecksIs ==
    ASSUME NEW bs \in Seq(ConfBox)
    PROVE  /\ validateChecks(bs) \in Judgements
           /\ validateChecks(bs) = "ok" <=> \A b \in ToSet(bs) : BoxVerdict(b) = "ok"
           /\ validateChecks(bs) # "ok" => \E b \in ToSet(bs) : BoxVerdict(b) = validateChecks(bs)
<1> DEFINE v == [n \in DOMAIN bs |-> BoxVerdict(bs[n])]
<1>1. DOMAIN bs = 1..Len(bs) /\ Len(bs) \in Nat /\ \A n \in DOMAIN bs : bs[n] \in ConfBox
    OBVIOUS
<1>2. DOMAIN v = 1..Len(bs) /\ \A n \in 1..Len(bs) : v[n] = BoxVerdict(bs[n])
    BY <1>1
<1>3. validateChecks(bs) = FirstObjection(v)
    BY DEF validateChecks
<1> HIDE DEF v
<1>4. /\ FirstObjection(v) = "ok" <=> \A k \in 1..Len(bs) : v[k] = "ok"
      /\ FirstObjection(v) # "ok" => \E k \in 1..Len(bs) : v[k] = FirstObjection(v)
    BY <1>1, <1>2, FirstObjectionIs
<1>5. FirstObjection(v) \in Judgements
    BY <1>1, <1>2, <1>4, BoxVerdictIs DEF Judgements
<1>6. ToSet(bs) = {bs[k] : k \in 1..Len(bs)}
    BY <1>1 DEF ToSet
<1> QED BY <1>2, <1>3, <1>4, <1>5, <1>6

-----------------------------------------------------------------------------
(* Checks, boxes and teams that are complete *)

\* The fields of a box.
LEMMA BoxParts ==
    ASSUME NEW b \in ConfBox
    PROVE  /\ b.checks \in Seq(ConfCheck) /\ b.list \in Seq(ConfCheck)
           /\ b.name \in STRING /\ b.time \in Int
           /\ b.ip \in {NoName} \cup ({"X", "x"} \X Nat)
BY DEF ConfBox

\* A check that is complete has the kind, items and display name it had.
LEMMA CompleteType ==
    ASSUME NEW b \in ConfBox, NEW c \in ConfCheck
    PROVE  /\ Complete(b, c) \in ConfCheck
           /\ Complete(b, c).kind = c.kind /\ Complete(b, c).items = c.items
           /\ Complete(b, c).display = c.display
<1> DEFINE Titles == STRING \cup ToSet(KindOrder)
           title == IF c.display = "" THEN c.kind ELSE c.display
<1>1. DefaultName(b, c) \in {NoName} \cup (STRING \X Titles)
    <2>1. b.name \in STRING /\ title \in Titles /\ c.name \in {NoName} \cup (STRING \X Titles)
        <3>1. /\ c.kind \in ToSet(KindOrder) /\ c.display \in STRING
              /\ c.name \in {NoName} \cup (STRING \X Titles)
            BY DEF ConfCheck
        <3>2. b.name \in STRING
            BY BoxParts
        <3>3. title \in Titles
            <4>1. c.kind \in Titles /\ c.display \in Titles
                BY <3>1
            <4>2. title = c.kind \/ title = c.display
                BY Zenon
            <4> HIDE DEF Titles, title
            <4> QED BY <4>1, <4>2, Zenon
        <3> HIDE DEF Titles, title
        <3> QED BY <3>1, <3>2, <3>3
    <2>2. DefaultName(b, c) = IF c.name # NoName THEN c.name ELSE <<b.name, title>>
        BY DEF DefaultName
    <2> HIDE DEF Titles, title
    <2> QED BY <2>1, <2>2
<1>2. c.opts \cup {"port"} \cup (IF NeverLogsIn(c) THEN {"anonymous"} ELSE {}) \in SUBSET Options
    BY DEF ConfCheck, Options
<1> QED BY <1>1, <1>2 DEF Complete, ConfCheck

\* A box that is complete has the checks of its lists, in order and each of them complete.
LEMMA CompleteBoxIs ==
    ASSUME NEW b \in ConfBox
    PROVE  /\ CompleteBox(b) \in ConfBox
           /\ CompleteBox(b).name = b.name /\ CompleteBox(b).checks = b.checks
           /\ CompleteBox(b).ip = Lower(b.ip)
           /\ DOMAIN CompleteBox(b).list = DOMAIN getBoxChecks(b)
           /\ \A k \in DOMAIN getBoxChecks(b) :
                  CompleteBox(b).list[k] = Complete(b, getBoxChecks(b)[k])
<1> DEFINE list == getBoxChecks(b)
           new == [k \in DOMAIN list |-> Complete(b, list[k])]
<1>1. list \in Seq(ConfCheck)
    BY BoxParts, BoxChecksReorder, ReorderedHas
<1>2. \A k \in DOMAIN list : list[k] \in ConfCheck
    BY <1>1
<1>3. new \in Seq(ConfCheck)
    <2>1. DOMAIN list = 1..Len(list) /\ Len(list) \in Nat
        BY <1>1
    <2>2. \A k \in DOMAIN list : Complete(b, list[k]) \in ConfCheck
        BY <1>2, CompleteType
    <2> HIDE DEF list
    <2>3. new \in [1..Len(list) -> ConfCheck]
        BY <2>1, <2>2
    <2> QED BY <2>1, <2>3
<1>4. Lower(b.ip) \in {NoName} \cup ({"X", "x"} \X Nat)
    BY BoxParts DEF Lower, NoName
<1>5. CompleteBox(b) = [b EXCEPT !.ip = Lower(b.ip), !.list = new]
    BY Zenon DEF CompleteBox
<1>6. \A k \in DOMAIN list : new[k] = Complete(b, list[k])
    OBVIOUS
<1>7. DOMAIN new = DOMAIN list
    OBVIOUS
<1> HIDE DEF new, list
<1>8. /\ CompleteBox(b) \in ConfBox
      /\ CompleteBox(b).name = b.name /\ CompleteBox(b).checks = b.checks
      /\ CompleteBox(b).ip = Lower(b.ip) /\ CompleteBox(b).list = new
    BY <1>3, <1>4, <1>5 DEF ConfBox
<1> QED BY <1>6, <1>7, <1>8 DEF list

\* A box that is complete stays as it is.
LEMMA CompleteTwice ==
    ASSUME NEW b \in ConfBox
    PROVE  /\ CompleteBox(CompleteBox(b)) = CompleteBox(b)
           /\ BoxVerdict(CompleteBox(b)) = BoxVerdict(b)
<1> DEFINE c == CompleteBox(b)
<1>1. c \in ConfBox /\ c.name = b.name /\ c.checks = b.checks /\ c.ip = Lower(b.ip)
    BY CompleteBoxIs
<1>2. getBoxChecks(c) = getBoxChecks(b)
    BY <1>1 DEF getBoxChecks
<1>3. Lower(c.ip) = c.ip /\ (c.ip = NoName <=> b.ip = NoName)
    BY <1>1, BoxParts DEF Lower, NoName
<1>4. \A d : Complete(c, d) = Complete(b, d)
    BY <1>1 DEF Complete, DefaultName
<1>5. c.list = [k \in DOMAIN getBoxChecks(b) |-> Complete(b, getBoxChecks(b)[k])]
    BY DEF CompleteBox, ConfBox
<1>6. CompleteBox(c) = [c EXCEPT !.ip = c.ip, !.list = c.list]
    <2> HIDE DEF c
    <2>1. CompleteBox(c) = [c EXCEPT !.ip = Lower(c.ip),
              !.list = [k \in DOMAIN getBoxChecks(c) |-> Complete(c, getBoxChecks(c)[k])]]
        BY Zenon DEF CompleteBox
    <2>2. [k \in DOMAIN getBoxChecks(c) |-> Complete(c, getBoxChecks(c)[k])] = c.list
        BY <1>2, <1>4, <1>5
    <2> QED BY <1>3, <2>1, <2>2, Zenon
<1>7. CompleteBox(c) = c
    <2> HIDE DEF c
    <2> QED BY <1>1, <1>6 DEF ConfBox
<1>8. BoxVerdict(c) = BoxVerdict(b)
    <2> HIDE DEF c
    <2> QED BY <1>2, <1>3, Zenon DEF BoxVerdict
<1> QED BY <1>7, <1>8

-----------------------------------------------------------------------------
\* Teams are given names, and tokens if they need them.
LEMMA CompleteTeamsAre ==
    ASSUME NEW f \in Configuration
    PROVE  LET C == CompleteTeams(f)
           IN  /\ C \in Seq(ConfTeam) /\ DOMAIN C = DOMAIN f.teams
               /\ \A i \in DOMAIN C : /\ C[i] \in ConfTeam /\ C[i].name # NoName
                                      /\ C[i].ip = f.teams[i].ip
                                      /\ f.persists => C[i].token # NoName
<1> DEFINE T == f.teams
           name(i) == IF T[i].name = NoName THEN <<"team", i>> ELSE T[i].name
           token(i) == IF f.persists /\ T[i].token = NoName THEN name(i) ELSE T[i].token
<1>1. T \in Seq(ConfTeam)
    BY DEF Configuration
<1>2. DOMAIN T = 1..Len(T) /\ Len(T) \in Nat
    BY <1>1
<1>3. \A i \in DOMAIN T : /\ T[i] \in ConfTeam /\ T[i].ip \in Int
                          /\ T[i].name \in TeamNames /\ T[i].token \in TeamNames
    <2>1. \A t \in ConfTeam : t.ip \in Int /\ t.name \in TeamNames /\ t.token \in TeamNames
        BY DEF ConfTeam
    <2> QED BY <1>1, <2>1
<1>4. ASSUME NEW i \in DOMAIN T
      PROVE  /\ name(i) \in TeamNames /\ token(i) \in TeamNames /\ name(i) # NoName
             /\ f.persists => token(i) # NoName
    <2>1. <<"team", i>> \in TeamNames /\ <<"team", i>> # NoName
        BY <1>2 DEF TeamNames, NoName
    <2>2. name(i) \in TeamNames /\ name(i) # NoName
        BY <1>3, <2>1, Zenon
    <2> HIDE DEF name
    <2> QED BY <1>3, <2>2, Zenon
<1> DEFINE named == NameTeams(T)
           new(i) == [named[i] EXCEPT !.token = token(i)]
<1>5. named = [i \in DOMAIN T |-> [T[i] EXCEPT !.name = name(i)]]
    BY Zenon DEF NameTeams
<1> HIDE DEF name
<1>6. \A i \in DOMAIN T : /\ named[i] \in ConfTeam /\ named[i].name = name(i)
                          /\ named[i].token = T[i].token /\ named[i].ip = T[i].ip
    BY <1>3, <1>4, <1>5 DEF ConfTeam
<1>7. DOMAIN named = DOMAIN T
    BY <1>5
<1> HIDE DEF named
<1>8. CompleteTeams(f) = [i \in DOMAIN T |-> new(i)]
    <2>1. CompleteTeams(f) = [i \in DOMAIN named |-> [named[i] EXCEPT !.token =
              IF f.persists /\ named[i].token = NoName THEN named[i].name ELSE named[i].token]]
        BY Zenon DEF CompleteTeams, TokenTeams, SortTeams, named
    <2>2. \A i \in DOMAIN T : token(i) =
              IF f.persists /\ named[i].token = NoName THEN named[i].name ELSE named[i].token
        BY <1>6
    <2> HIDE DEF token
    <2> QED BY <1>7, <2>1, <2>2
<1> HIDE DEF token
<1>9. \A i \in DOMAIN T : /\ new(i) \in ConfTeam /\ new(i).name = name(i)
                          /\ new(i).token = token(i) /\ new(i).ip = T[i].ip
    BY <1>4, <1>6 DEF ConfTeam
<1> HIDE DEF new
<1>10. CompleteTeams(f) \in Seq(ConfTeam)
    <2>1. CompleteTeams(f) \in [1..Len(T) -> ConfTeam]
        BY <1>2, <1>8, <1>9
    <2> QED BY <1>2, <2>1
<1>11. /\ DOMAIN CompleteTeams(f) = DOMAIN T
       /\ \A i \in DOMAIN T : CompleteTeams(f)[i] = new(i)
    BY <1>8
<1> QED BY <1>4, <1>9, <1>10, <1>11

\* The names and tokens that are given to teams are kept by a second call.
LEMMA CompleteTeamsTwice ==
    ASSUME NEW f \in Configuration, NEW g \in Configuration,
           g.teams = CompleteTeams(f), g.persists = f.persists
    PROVE  /\ CompleteTeams(g) = g.teams
           /\ Column(g.teams, LAMBDA t : t.ip) = Column(f.teams, LAMBDA t : t.ip)
<1> DEFINE G == g.teams
           T == f.teams
<1>11. /\ DOMAIN G = DOMAIN T /\ G \in Seq(ConfTeam)
       /\ \A i \in DOMAIN T : /\ G[i] \in ConfTeam /\ G[i].name # NoName /\ G[i].ip = T[i].ip
                              /\ f.persists => G[i].token # NoName
    BY CompleteTeamsAre
<1>12. Column(G, LAMBDA t : t.ip) = Column(T, LAMBDA t : t.ip)
    <2>1. /\ Column(G, LAMBDA t : t.ip) = [i \in DOMAIN G |-> G[i].ip]
          /\ Column(T, LAMBDA t : t.ip) = [i \in DOMAIN T |-> T[i].ip]
        BY Zenon DEF Column
    <2>2. DOMAIN G = DOMAIN T /\ \A i \in DOMAIN T : G[i].ip = T[i].ip
        BY <1>11
    <2> HIDE DEF G, T
    <2> QED BY <2>1, <2>2
<1>13. CompleteTeams(g) = G
    <2> HIDE DEF G
    <2> DEFINE newName(i) == IF G[i].name = NoName THEN <<"team", i>> ELSE G[i].name
               newToken(i) == IF f.persists /\ G[i].token = NoName THEN G[i].name ELSE G[i].token
               A(i) == [G[i] EXCEPT !.name = newName(i)]
               B(i) == [G[i] EXCEPT !.token = newToken(i)]
    <2>0. \A i \in DOMAIN G : /\ G[i] \in ConfTeam /\ G[i].name # NoName
                              /\ f.persists => G[i].token # NoName
        BY <1>11
    <2>1. \A t \in ConfTeam : [t EXCEPT !.name = t.name] = t /\ [t EXCEPT !.token = t.token] = t
        BY DEF ConfTeam
    <2>2. \A i \in DOMAIN G : newName(i) = G[i].name /\ newToken(i) = G[i].token
        BY <2>0, Zenon
    <2>3. NameTeams(G) = [i \in DOMAIN G |-> A(i)] /\ TokenTeams(G, f.persists) = [i \in DOMAIN G |-> B(i)]
        BY Zenon DEF NameTeams, TokenTeams
    <2> HIDE DEF newName, newToken
    <2>4. \A i \in DOMAIN G : A(i) = G[i] /\ B(i) = G[i]
        BY <2>0, <2>1, <2>2
    <2> HIDE DEF A, B
    <2>5. G = [i \in DOMAIN G |-> G[i]]
        BY <1>11
    <2>6. NameTeams(G) = G /\ TokenTeams(G, f.persists) = G
        BY <2>3, <2>4, <2>5
    <2> QED BY <2>6, Zenon DEF CompleteTeams, SortTeams, G
<1> QED BY <1>12, <1>13

-----------------------------------------------------------------------------
(* checkConfig *)

\* Sorting the boxes by address reorders them.
LEMMA BoxesReorder ==
    ASSUME NEW bs \in Seq(ConfBox)
    PROVE  Reordered(bs, StableSort(bs, IpKey))
<1> DEFINE key == [i \in DOMAIN bs |-> IpKey(bs[i])]
           Precedes(j, i) == \/ IpKey(bs[j]) < IpKey(bs[i])
                             \/ IpKey(bs[j]) = IpKey(bs[i]) /\ j < i
           Rank(i) == Cardinality({j \in DOMAIN bs : Precedes(j, i)}) + 1
           A(k) == CHOOSE i \in DOMAIN bs : Rank(i) = k
           B(k) == CHOOSE i \in DOMAIN bs : RankOf(key, i) = k
<1>1. DOMAIN bs = 1..Len(bs) /\ Len(bs) \in Nat /\ \A i \in DOMAIN bs : bs[i] \in ConfBox
    OBVIOUS
<1>2. \A b \in ConfBox : IpKey(b) \in Int
    <2> TAKE b \in ConfBox
    <2>1. b.ip \in {NoName} \cup ({"X", "x"} \X Nat)
        BY BoxParts
    <2> QED BY <2>1 DEF IpKey
<1>3. key \in [1..Len(bs) -> Int]
    BY <1>1, <1>2
<1>4. DOMAIN key = DOMAIN bs /\ \A i, j \in DOMAIN bs : Precedes(j, i) <=> Before(key, j, i)
    BY DEF Before
<1>5. StableSort(bs, IpKey) = [k \in DOMAIN bs |-> bs[A(k)]]
    BY Zenon DEF StableSort
<1> HIDE DEF Precedes, key
<1>6. \A i \in DOMAIN bs : {j \in DOMAIN bs : Precedes(j, i)} = {j \in DOMAIN key : Before(key, j, i)}
    BY <1>4, Zenon
<1>7. \A i \in DOMAIN bs : Rank(i) = RankOf(key, i)
    BY <1>6, Zenon DEF RankOf
<1> HIDE DEF Rank
<1>8. \A k : A(k) = B(k)
    BY <1>7
<1>9. SortedBy(bs, key) = [k \in DOMAIN bs |-> bs[B(k)]]
    BY Zenon DEF SortedBy
<1> HIDE DEF A, B
<1>10. StableSort(bs, IpKey) = SortedBy(bs, key)
    BY <1>5, <1>8, <1>9
<1> QED BY <1>1, <1>3, <1>10, SortReorders

\* The configuration with its defaults, and boxes in order.
LEMMA WithDefaultsIs ==
    ASSUME NEW f \in Configuration
    PROVE  LET w == WithDefaults(f)
           IN  /\ w \in Configuration
               /\ w.delay = Given(f.delay, DefaultDelay) /\ w.jitter = Given(f.jitter, DefaultJitter)
               /\ w.missing = f.missing /\ w.timeout = f.timeout /\ w.creds = f.creds
               /\ w.teams = f.teams /\ w.persists = f.persists
               /\ ToSet(w.boxes) = ToSet(f.boxes)
<1> DEFINE bs == StableSort(f.boxes, IpKey)
           d == Given(f.delay, DefaultDelay)
           j == Given(f.jitter, DefaultJitter)
<1>1. f.boxes \in Seq(ConfBox) /\ f.delay \in Int /\ f.jitter \in Int
    BY DEF Configuration
<1>2. bs \in Seq(ConfBox) /\ ToSet(bs) = ToSet(f.boxes)
    BY <1>1, BoxesReorder, ReorderedHas
<1>3. d \in Int /\ j \in Int
    BY <1>1 DEF Given, DefaultDelay, DefaultJitter
<1>4. WithDefaults(f) = [f EXCEPT !.delay = d, !.jitter = j, !.boxes = bs]
    BY Zenon DEF WithDefaults
<1> HIDE DEF bs, d, j
<1>5. LET w == WithDefaults(f)
      IN  /\ w \in Configuration /\ w.delay = d /\ w.jitter = j /\ w.missing = f.missing
          /\ w.timeout = f.timeout /\ w.creds = f.creds /\ w.teams = f.teams
          /\ w.persists = f.persists /\ w.boxes = bs
    BY <1>2, <1>3, <1>4 DEF Configuration
<1> QED BY <1>2, <1>5 DEF d, j

\* What checkConfig returns.
LEMMA checkConfigIs ==
    ASSUME NEW f \in Configuration
    PROVE  LET r == checkConfig(f)
               w == WithDefaults(f)
           IN  /\ r.verdict \in Judgements
               /\ r.verdict = "panic" => \E b \in ToSet(f.boxes) : BoxVerdict(b) = "panic"
               /\ r.verdict = "ok" <=>
                      /\ ~Complain(w) /\ \A b \in ToSet(f.boxes) : BoxVerdict(b) = "ok"
                      /\ CheckNamesDiffer(CompleteBoxes(w))
               /\ r.conf \in Configuration
               /\ r.conf = [w EXCEPT !.teams = CompleteTeams(w), !.boxes = CompleteBoxes(w)]
               /\ ToSet(CompleteBoxes(w)) = {CompleteBox(b) : b \in ToSet(f.boxes)}
<1> DEFINE w == WithDefaults(f)
           objection == validateChecks(w.boxes)
<1>1. w \in Configuration /\ ToSet(w.boxes) = ToSet(f.boxes) /\ w.boxes \in Seq(ConfBox)
    <2>1. w \in Configuration /\ ToSet(w.boxes) = ToSet(f.boxes)
        BY WithDefaultsIs
    <2> QED BY <2>1 DEF Configuration
<1>2. /\ checkConfig(f).verdict = CASE Complain(w) -> "error"
              [] ~Complain(w) /\ objection # "ok" -> objection
              [] OTHER -> IF CheckNamesDiffer(CompleteBoxes(w)) THEN "ok" ELSE "error"
      /\ checkConfig(f).conf = Completed(w)
    BY DEF checkConfig
<1> HIDE DEF w, objection
<1>3. /\ objection \in Judgements
      /\ objection = "ok" <=> \A b \in ToSet(f.boxes) : BoxVerdict(b) = "ok"
      /\ objection # "ok" => \E b \in ToSet(f.boxes) : BoxVerdict(b) = objection
    BY <1>1, validateChecksIs DEF objection
<1>4. /\ checkConfig(f).verdict \in Judgements
      /\ checkConfig(f).verdict = "panic" => \E b \in ToSet(f.boxes) : BoxVerdict(b) = "panic"
      /\ checkConfig(f).verdict = "ok" <=>
             /\ ~Complain(w) /\ \A b \in ToSet(f.boxes) : BoxVerdict(b) = "ok"
             /\ CheckNamesDiffer(CompleteBoxes(w))
    <2>1. CASE Complain(w)
        BY <1>2, <2>1 DEF Judgements
    <2>2. CASE ~Complain(w) /\ objection # "ok"
        BY <1>2, <1>3, <2>2
    <2>3. CASE ~Complain(w) /\ objection = "ok"
        BY <1>2, <1>3, <2>3 DEF Judgements
    <2> QED BY <2>1, <2>2, <2>3
<1>5. CompleteBoxes(w) \in Seq(ConfBox) /\ ToSet(CompleteBoxes(w)) = {CompleteBox(b) : b \in ToSet(f.boxes)}
    <2>1. DOMAIN w.boxes = 1..Len(w.boxes) /\ Len(w.boxes) \in Nat /\ \A k \in DOMAIN w.boxes : w.boxes[k] \in ConfBox
        BY <1>1
    <2>2. /\ DOMAIN CompleteBoxes(w) = DOMAIN w.boxes
          /\ \A k \in DOMAIN w.boxes : /\ CompleteBoxes(w)[k] = CompleteBox(w.boxes[k])
                                        /\ CompleteBoxes(w)[k] \in ConfBox
        BY <2>1, CompleteBoxIs DEF CompleteBoxes
    <2>3. CompleteBoxes(w) \in [1..Len(w.boxes) -> ConfBox]
        BY <2>1, <2>2 DEF CompleteBoxes
    <2>4. CompleteBoxes(w) \in Seq(ConfBox)
        BY <2>1, <2>3
    <2>5. ToSet(CompleteBoxes(w)) = {CompleteBox(b) : b \in ToSet(w.boxes)}
        BY <2>2 DEF ToSet
    <2> QED BY <1>1, <2>4, <2>5
<1>6. CompleteTeams(w) \in Seq(ConfTeam)
    BY <1>1, CompleteTeamsAre
<1>7. Completed(w) = [w EXCEPT !.teams = CompleteTeams(w), !.boxes = CompleteBoxes(w)]
    BY DEF Completed
<1>8. Completed(w) \in Configuration
    BY <1>1, <1>5, <1>6, <1>7 DEF Configuration
<1> QED BY <1>2, <1>4, <1>5, <1>7, <1>8 DEF w

\* Configurations that differ in the order of their boxes at most.
Same(g, h) ==
    /\ [h EXCEPT !.boxes = <<>>] = [g EXCEPT !.boxes = <<>>]
    /\ ToSet(h.boxes) = ToSet(g.boxes)

\* checkConfig accepts what it has returned, and changes nothing but the order of the boxes:
\* defaults, names, tokens and lists of checks that are there are found as they are made.
LEMMA SecondCheckKeeps ==
    ASSUME NEW f \in Configuration, checkConfig(f).verdict = "ok"
    PROVE  LET g == checkConfig(f).conf
           IN  checkConfig(g).verdict = "ok" /\ Same(g, checkConfig(g).conf)
<1> DEFINE g == checkConfig(f).conf
           h == checkConfig(g).conf
           w == WithDefaults(f)
           v == WithDefaults(g)
           Bs == ToSet(f.boxes)
<1>1. /\ ~Complain(w) /\ (\A b \in Bs : BoxVerdict(b) = "ok") /\ CheckNamesDiffer(CompleteBoxes(w))
      /\ g \in Configuration /\ g = [w EXCEPT !.teams = CompleteTeams(w), !.boxes = CompleteBoxes(w)]
      /\ ToSet(CompleteBoxes(w)) = {CompleteBox(b) : b \in Bs}
    BY checkConfigIs, Zenon
<1>2. /\ w \in Configuration /\ w.delay = Given(f.delay, DefaultDelay)
      /\ w.jitter = Given(f.jitter, DefaultJitter)
    BY WithDefaultsIs
<1>3. \A b \in Bs : b \in ConfBox
    <2>1. f.boxes \in Seq(ConfBox)
        BY DEF Configuration
    <2> QED BY <2>1 DEF ToSet
<1> HIDE DEF Bs, w
<1>4. /\ g.missing = w.missing /\ g.delay = w.delay /\ g.jitter = w.jitter
      /\ g.timeout = w.timeout /\ g.creds = w.creds /\ g.persists = w.persists
      /\ g.teams = CompleteTeams(w) /\ g.boxes = CompleteBoxes(w)
    BY <1>1, <1>2 DEF Configuration
<1> HIDE DEF g
<1>5. /\ v \in Configuration /\ v.delay = Given(g.delay, DefaultDelay)
      /\ v.jitter = Given(g.jitter, DefaultJitter) /\ v.missing = g.missing
      /\ v.timeout = g.timeout /\ v.creds = g.creds /\ v.teams = g.teams
      /\ v.persists = g.persists /\ ToSet(v.boxes) = ToSet(g.boxes)
    BY <1>1, WithDefaultsIs
<1>6. v.delay = w.delay /\ v.jitter = w.jitter
    <2>1. f.delay \in Int /\ f.jitter \in Int
        BY DEF Configuration
    <2> QED BY <1>2, <1>4, <1>5, <2>1 DEF Given, DefaultDelay, DefaultJitter
<1> HIDE DEF v
<1>7. CompleteTeams(v) = g.teams /\ Column(v.teams, LAMBDA t : t.ip) = Column(w.teams, LAMBDA t : t.ip)
    <2>1. v.teams = CompleteTeams(w) /\ v.persists = w.persists
        BY <1>4, <1>5
    <2> QED BY <1>2, <1>5, <2>1, CompleteTeamsTwice
<1>8. ~Complain(v)
    <2>1. TimesMatch(v) <=> TimesMatch(w)
        BY <1>4, <1>5, <1>6 DEF TimesMatch
    <2>2. UsernamesDiffer(v) <=> UsernamesDiffer(w)
        BY <1>4, <1>5 DEF UsernamesDiffer
    <2>3. TeamsDiffer(v) <=> TeamsDiffer(w)
        <3>1. CompleteTeams(v) = CompleteTeams(w) /\ v.persists = w.persists
            BY <1>4, <1>5, <1>7
        <3> QED BY <1>7, <3>1 DEF TeamsDiffer
    <2>4. v.missing = w.missing /\ v.creds = w.creds
        BY <1>4, <1>5
    <2> QED BY <1>1, <2>1, <2>2, <2>3, <2>4, Zenon DEF Complain, BoxNamesDiffer
<1>9. ToSet(g.boxes) = {CompleteBox(b) : b \in Bs} /\ \A b \in ToSet(g.boxes) : BoxVerdict(b) = "ok"
    BY <1>1, <1>3, <1>4, CompleteTwice
<1>10. {CompleteBox(b) : b \in ToSet(g.boxes)} = ToSet(g.boxes)
    BY <1>3, <1>9, CompleteTwice
<1>11. /\ checkConfig(g).verdict = "ok" <=>
              /\ ~Complain(v) /\ \A b \in ToSet(g.boxes) : BoxVerdict(b) = "ok"
              /\ CheckNamesDiffer(CompleteBoxes(v))
       /\ h = [v EXCEPT !.teams = CompleteTeams(v), !.boxes = CompleteBoxes(v)]
       /\ ToSet(CompleteBoxes(v)) = {CompleteBox(b) : b \in ToSet(g.boxes)}
    BY <1>1, checkConfigIs, Zenon DEF v
<1>12. CheckNamesDiffer(CompleteBoxes(v))
    <2>1. ToSet(CompleteBoxes(v)) = ToSet(CompleteBoxes(w))
        BY <1>4, <1>10, <1>11
    <2> QED BY <1>1, <2>1 DEF CheckNamesDiffer
<1>13. checkConfig(g).verdict = "ok"
    BY <1>8, <1>9, <1>11, <1>12
<1> HIDE DEF h
<1>14. /\ [h EXCEPT !.boxes = <<>>] = [g EXCEPT !.boxes = <<>>]
       /\ h.boxes = CompleteBoxes(v)
    <2> DEFINE ts == CompleteTeams(v)
               bs == CompleteBoxes(v)
    <2>1. /\ v.delay = g.delay /\ v.jitter = g.jitter /\ v.missing = g.missing
          /\ v.timeout = g.timeout /\ v.creds = g.creds /\ v.persists = g.persists
          /\ ts = g.teams
        BY <1>4, <1>5, <1>6, <1>7
    <2>2. h = [v EXCEPT !.teams = ts, !.boxes = bs]
        BY <1>11
    <2>3. v \in Configuration /\ g \in Configuration
        BY <1>1, <1>5
    <2> HIDE DEF ts, bs
    <2>4. \A x, y \in Configuration :
              /\ x.delay = y.delay /\ x.jitter = y.jitter /\ x.missing = y.missing
              /\ x.timeout = y.timeout /\ x.creds = y.creds /\ x.persists = y.persists
              => [[x EXCEPT !.teams = y.teams, !.boxes = bs] EXCEPT !.boxes = <<>>]
                     = [y EXCEPT !.boxes = <<>>]
        BY ZenonT(60) DEF Configuration
    <2>5. h.boxes = bs
        BY <2>2, <2>3 DEF Configuration
    <2>6. [[v EXCEPT !.teams = g.teams, !.boxes = bs] EXCEPT !.boxes = <<>>] = [g EXCEPT !.boxes = <<>>]
        BY <2>1, <2>3, <2>4, Zenon
    <2>7. [h EXCEPT !.boxes = <<>>] = [g EXCEPT !.boxes = <<>>]
        BY <2>1, <2>2, <2>6, Zenon
    <2> QED BY <2>5, <2>7 DEF bs
<1>15. ToSet(h.boxes) = ToSet(g.boxes)
    BY <1>10, <1>11, <1>14
<1> QED BY <1>13, <1>14, <1>15 DEF g, h, Same

-----------------------------------------------------------------------------
(* Verdicts *)

\* A check that validateChecks has let through.
Accepted(c) ==
    /\ c \in ConfCheck /\ SensibleCheck(c) /\ ~Breaks(c)
    /\ \A i \in c.items : ~RefusedItem(c.kind, i)

Meeting(c, i, s) == Accepted(c) /\ i \in Picks(c) /\ s \in Services(c, i)

\* What is asked of an item, one by one.
LEMMA ItemIs ==
    ASSUME NEW c, NEW i, NEW s, Meeting(c, i, s)
    PROVE  /\ i = NoItem \/ (i \subseteq KindAsks(c.kind) /\ i \in c.items)
           /\ ("malformed" \in i \/ "self" \in i) => "regex" \in i
           /\ c.kind \in {"sql", "ssh", "winrm"} /\ ("regex" \in i \/ "contains" \in i) =>
                  "output" \in i \/ "exists" \in i
           /\ c.kind = "irc" => i = {"contains"}
           /\ c.kind \in {"sql", "ssh", "winrm"} /\ "regex" \in i /\ "malformed" \in i => "exists" \in i
           /\ c.kind = "sql" /\ "exists" \in i => "output" \notin i
           /\ c.kind \in {"sql", "ssh", "winrm"} => ~("regex" \in i /\ "contains" \in i)
<1>1. CASE c.items = {}
    <2>1. i = {"none"} /\ c.kind # "irc"
        BY <1>1 DEF Meeting, Accepted, Picks, NoItem, SensibleCheck
    <2>2. /\ "malformed" \notin i /\ "self" \notin i /\ "regex" \notin i
          /\ "contains" \notin i /\ "exists" \notin i
        BY <2>1
    <2>3. i = NoItem
        BY <2>1 DEF NoItem
    <2> QED BY <2>1, <2>2, <2>3
<1>2. CASE c.items # {}
    <2>1. i \in c.items /\ Sensible(c.kind, i)
        BY <1>2 DEF Meeting, Accepted, Picks, SensibleCheck
    <2>2. /\ i \subseteq KindAsks(c.kind)
          /\ ("malformed" \in i \/ "self" \in i) => "regex" \in i
          /\ c.kind \in {"sql", "ssh", "winrm"} /\ ("regex" \in i \/ "contains" \in i) =>
                  "output" \in i \/ "exists" \in i
        BY <2>1 DEF Sensible
    <2>3. c.kind = "irc" => i = {"contains"}
        BY <2>1 DEF Meeting, Accepted, SensibleCheck
    <2>4. c.kind \in {"sql", "ssh", "winrm"} /\ "regex" \in i /\ "malformed" \in i => "exists" \in i
        BY <2>1 DEF Meeting, Accepted, Breaks
    <2>5. ~RefusedItem(c.kind, i)
        BY <2>1 DEF Meeting, Accepted
    <2>6. /\ c.kind = "sql" /\ "exists" \in i => "output" \notin i
          /\ c.kind \in {"sql", "ssh", "winrm"} => ~("regex" \in i /\ "contains" \in i)
        BY <2>5 DEF RefusedItem
    <2> QED BY <2>1, <2>2, <2>3, <2>4, <2>6
<1> QED BY <1>1, <1>2

\* The kinds of checks, one by one.
LEMMA KindIs ==
    ASSUME NEW c \in ConfCheck
    PROVE  c.kind \in {"cmd", "dns", "ftp", "imap", "irc", "ping", "ldap", "rdp", "smb", "smtp",
                       "sql", "ssh", "tcp", "vnc", "web", "winrm"}
<1>1. DOMAIN KindOrder = 1..16
    BY DEF KindOrder
<1>2. PICK n \in 1..16 : c.kind = KindOrder[n]
    BY <1>1 DEF ConfCheck, ToSet
<1> QED BY <1>2 DEF KindOrder

\* How far a service takes a check.
LEMMA ServiceIs ==
    ASSUME NEW c, NEW i, NEW s, Meeting(c, i, s)
    PROVE  /\ s.at = "end" \/ s.at \in Stages(c, i)
           /\ s.shows \in Shown(c)
           /\ s.open \in BOOLEAN
<1>1. Patient(c, i) \subseteq Stages(c, i)
    BY DEF Patient
<1> QED BY <1>1 DEF Meeting, Services

\* What is true of a verdict, as UpIsEarned, ServedIsUp, OneVerdict and DiesOnlyOf say.
Rightly(c, i, s, r) ==
    LET first(v) == r.sends # <<>> /\ Head(r.sends) = v
    IN  /\ r.end \in {"return", "hang", "panic"}
        /\ r.end = "panic" => Fatal(c, i, s)
        /\ first("up") =>
               \/ Deserves(c, i, s)
               \/ Unearned(c, i, s)
        /\ Deserves(c, i, s) => first("up") \/ Hopeless(c, i, s)
        /\ \/ Len(r.sends) = IF r.end = "return" THEN 1 ELSE 0
           \/ c.kind = "imap" /\ ~Anonymous(c) /\ s.at \in {"login", "end"}
           \/ c.kind = "irc" /\ s.at = "end"
           \/ c.kind = "winrm" /\ s.at = "create"

\* What the ends of a check send.
LEMMA OutcomesAre ==
    /\ Up.sends # <<>> /\ Head(Up.sends) = "up" /\ Len(Up.sends) = 1 /\ Up.end = "return"
    /\ Down.sends # <<>> /\ Head(Down.sends) = "down" /\ Len(Down.sends) = 1 /\ Down.end = "return"
    /\ Hang.sends = <<>> /\ Len(Hang.sends) = 0 /\ Hang.end = "hang"
    /\ Panic.sends = <<>> /\ Len(Panic.sends) = 0 /\ Panic.end = "panic"
BY DEF Up, Down, Hang, Panic

\* What excuses any check.
LEMMA ExcusesAre ==
    ASSUME NEW c, NEW i, NEW s
    PROVE  /\ s.how = "otherwise" => Unearned(c, i, s)
           /\ ~HasCreds(c) /\ s.open /\ s.at = "login" => Unearned(c, i, s)
           /\ "malformed" \in i => Hopeless(c, i, s)
           /\ ~HasCreds(c) /\ ~s.open => Hopeless(c, i, s)
           /\ s.how \in {"strictly", "early", "late", "preceded", "null", "selfsigned",
                         "redirects"} => Hopeless(c, i, s)
BY DEF Unearned, Hopeless

\* Each kind of check, whatever is asked of it and whatever its service does.
LEMMA RunRightly ==
    ASSUME NEW c, NEW i, NEW s, Meeting(c, i, s)
    PROVE  Rightly(c, i, s, Run(c, i, s))
<1> DEFINE k == c.kind
<1>1. /\ s.at = "end" \/ s.at \in Stages(c, i)
      /\ s.shows \in Shown(c)
      /\ s.open \in BOOLEAN
    BY ServiceIs
<1>2. /\ i = NoItem \/ (i \subseteq KindAsks(k) /\ i \in c.items)
      /\ ("malformed" \in i \/ "self" \in i) => "regex" \in i
      /\ k \in {"sql", "ssh", "winrm"} /\ ("regex" \in i \/ "contains" \in i) =>
             "output" \in i \/ "exists" \in i
      /\ k = "irc" => i = {"contains"}
      /\ k \in {"sql", "ssh", "winrm"} /\ "regex" \in i /\ "malformed" \in i => "exists" \in i
      /\ k = "sql" /\ "exists" \in i => "output" \notin i
      /\ k \in {"sql", "ssh", "winrm"} => ~("regex" \in i /\ "contains" \in i)
    BY ItemIs
<1> HIDE DEF Up, Down, Hang, Panic
<1>3. CASE k = "cmd"
    <2>1. Run(c, i, s) = CmdRun(c, i, s)
        BY <1>3 DEF Run
    <2> QED BY <1>1, <1>2, <1>3, <2>1, OutcomesAre
            DEF Rightly, CmdRun, Stages, Shown, Output, KindAsks, NoItem, Through, Enter, If, Matches,
                Deserves, Asked, Hopeless, Unearned, HasCreds
<1>4. CASE k = "dns"
    <2>1. Run(c, i, s) = DnsRun(c, i, s)
        BY <1>4 DEF Run
    <2> QED BY <1>1, <1>2, <1>4, <2>1, OutcomesAre
            DEF Rightly, DnsRun, Stages, Shown, Output, KindAsks, NoItem, Through, If, Matches, Deserves,
                Asked, Hopeless, Unearned, Equals
<1>5. CASE k = "ftp"
    <2>1. Run(c, i, s) = FtpRun(c, i, s)
        BY <1>5 DEF Run
    <2>2. /\ "regex" \notin i => "malformed" \notin i /\ "self" \notin i
          /\ i = NoItem => "regex" \notin i /\ "hash" \notin i
          /\ "contains" \notin i /\ "exists" \notin i /\ "output" \notin i
          /\ "answer" \notin i /\ "diff" \notin i /\ "file" \notin i
        BY <1>2, <1>5 DEF KindAsks, NoItem
    <2>3. "regex" \in i => "hash" \notin i
        BY <1>2, <1>5, <2>2 DEF Meeting, Accepted, RefusedItem
    <2> DEFINE verdict == IF i = NoItem THEN Up ELSE FileVerdict(i, s)
    <2>4. /\ verdict = Up \/ verdict = Down
          /\ verdict = Up <=> "malformed" \notin i /\ Asked(i, s)
        BY <1>1, <1>5, <2>2, <2>3 DEF FileVerdict, If, Up, Down, Asked, Shown, Output
    <2>5. FtpRun(c, i, s) = Through({"dial"}, s, Enter(Anonymous(c) \/ HasCreds(c), s,
              IF i = NoItem THEN verdict ELSE Through({"retrieve", "read"}, s, verdict)))
        BY DEF FtpRun
    <2> HIDE DEF verdict
    <2>6. \/ s.at \in {"dial", "login", "end"}
          \/ s.at \in {"retrieve", "read"} /\ i # NoItem
        BY <1>1, <1>5 DEF Stages, FileStages
    <2> QED BY <1>1, <1>5, <2>1, <2>4, <2>5, <2>6, OutcomesAre, ExcusesAre
            DEF Rightly, Through, Enter, Deserves
<1>6. CASE k = "imap"
    <2>1. Run(c, i, s) = ImapRun(c, i, s)
        BY <1>6 DEF Run
    <2> DEFINE two == [sends |-> <<"up", "up">>, end |-> "return"]
    <2>2. Head(two.sends) = "up" /\ two.sends # <<>> /\ two.end = "return"
        OBVIOUS
    <2>3. \/ s.at \in {"end", "dial"}
          \/ s.at \in {"login", "list"} /\ ~Anonymous(c)
        BY <1>1, <1>6 DEF Stages
    <2>4. Asked(i, s)
        BY <1>1, <1>2, <1>6 DEF Asked, Shown, KindAsks, NoItem
    <2>5. ImapRun(c, i, s) = IF "encrypted" \notin c.opts THEN Down
              ELSE IF s.how = "selfsigned" THEN Down
              ELSE Through({"dial"}, s, IF Anonymous(c) THEN Up ELSE Enter(HasCreds(c), s,
                       Through({"list"}, s, IF s.shows = "many" THEN Hang ELSE two)))
        BY DEF ImapRun, Connect
    <2>6. "encrypted" \notin c.opts \/ s.shows = "many" => Hopeless(c, i, s)
        BY <1>6 DEF Hopeless
    <2> HIDE DEF two
    <2>7. CASE "encrypted" \notin c.opts \/ s.how = "selfsigned"
        BY <1>6, <2>1, <2>5, <2>6, <2>7, OutcomesAre, ExcusesAre DEF Rightly
    <2>8. CASE "encrypted" \in c.opts /\ s.how # "selfsigned" /\ Anonymous(c)
        BY <1>6, <2>1, <2>3, <2>4, <2>5, <2>8, OutcomesAre, ExcusesAre
            DEF Rightly, Through, Deserves
    <2>9. CASE "encrypted" \in c.opts /\ s.how # "selfsigned" /\ ~Anonymous(c)
        BY <1>1, <1>6, <2>1, <2>2, <2>3, <2>4, <2>5, <2>6, <2>9, OutcomesAre, ExcusesAre
            DEF Rightly, Through, Enter, Deserves
    <2> QED BY <2>7, <2>8, <2>9
<1>7. CASE k = "irc"
    <2>1. Run(c, i, s) = IrcRun(c, i, s)
        BY <1>7 DEF Run
    <2> DEFINE two == [sends |-> <<"down", "up">>, end |-> "return"]
    <2>2. Head(two.sends) = "down" /\ two.sends # <<>> /\ two.end = "return"
        OBVIOUS
    <2>3. IrcRun(c, i, s) = IF s.how \in {"strictly", "early", "late"} THEN Down
              ELSE Through({"connect", "message"}, s,
                       IF Includes(s) /\ s.how # "preceded" THEN Up ELSE two)
        BY DEF IrcRun
    <2> HIDE DEF two
    <2>4. Includes(s) <=> Asked(i, s)
        BY <1>1, <1>2, <1>7 DEF Asked, Shown, Output, Includes
    <2>5. s.at = "end" \/ s.at \in {"connect", "message"}
        BY <1>1, <1>7 DEF Stages
    <2> QED BY <1>7, <2>1, <2>2, <2>3, <2>4, <2>5, OutcomesAre, ExcusesAre
            DEF Rightly, Through, Deserves
<1>8. CASE k = "ldap"
    <2>1. Run(c, i, s) = LdapRun(c, i, s)
        BY <1>8 DEF Run
    <2>2. s.at \in {"dial", "login", "end"}
        BY <1>1, <1>8 DEF Stages
    <2>3. Asked(i, s)
        BY <1>1, <1>2, <1>8 DEF Asked, Shown, KindAsks, NoItem
    <2>4. LdapRun(c, i, s) = IF s.how = "selfsigned" THEN Down
              ELSE Through({"dial"}, s,
                       IF "domain" \notin c.opts THEN Down ELSE Enter(HasCreds(c), s, Up))
        BY DEF LdapRun, Connect
    <2>5. "domain" \notin c.opts => Hopeless(c, i, s)
        BY <1>8 DEF Hopeless
    <2> QED BY <1>1, <1>8, <2>1, <2>2, <2>3, <2>4, <2>5, OutcomesAre, ExcusesAre
            DEF Rightly, Through, Enter, Deserves
<1>9. CASE k = "ping"
    <2>1. Run(c, i, s) = PingRun(c, i, s)
        BY <1>9 DEF Run
    <2> QED BY <1>1, <1>2, <1>9, <2>1, OutcomesAre
            DEF Rightly, PingRun, Stages, Shown, Output, KindAsks, NoItem, Through, If, Matches, Deserves,
                Asked, Hopeless, Unearned
<1>10. CASE k = "rdp"
    <2>1. Run(c, i, s) = RdpRun(c, i, s)
        BY <1>10 DEF Run
    <2> QED BY <1>1, <1>2, <1>10, <2>1, OutcomesAre
            DEF Rightly, RdpRun, Stages, Shown, Output, KindAsks, NoItem, Through, If, Matches, Deserves,
                Asked, Hopeless, Unearned
<1>11. CASE k = "smb"
    <2>1. Run(c, i, s) = SmbRun(c, i, s)
        BY <1>11 DEF Run
    <2>2. /\ "regex" \notin i => "malformed" \notin i /\ "self" \notin i
          /\ i = NoItem => "regex" \notin i /\ "hash" \notin i
          /\ "contains" \notin i /\ "exists" \notin i /\ "output" \notin i
          /\ "answer" \notin i /\ "diff" \notin i /\ "file" \notin i
        BY <1>2, <1>11 DEF KindAsks, NoItem
    <2>3. "hash" \in i /\ "regex" \in i /\ s.at = "end" => Unearned(c, i, s)
        BY <1>11 DEF Unearned
    <2> DEFINE verdict == IF i = NoItem THEN Up ELSE FileVerdict(i, s)
    <2>4. /\ verdict = Up \/ verdict = Down
          /\ verdict = Up => Asked(i, s) \/ ("hash" \in i /\ "regex" \in i)
          /\ "malformed" \notin i /\ Asked(i, s) => verdict = Up
        BY <1>1, <1>11, <2>2 DEF FileVerdict, If, Up, Down, Asked, Shown, Output
    <2>5. SmbRun(c, i, s) = Through({"dial"}, s, Enter(Anonymous(c) \/ HasCreds(c), s,
              IF i = NoItem THEN verdict ELSE Through({"mount", "open", "read"}, s, verdict)))
        BY DEF SmbRun
    <2> HIDE DEF verdict
    <2>6. \/ s.at \in {"dial", "login", "end"}
          \/ s.at \in {"mount", "open", "read"} /\ i # NoItem
        BY <1>1, <1>11 DEF Stages, FileStages
    <2> QED BY <1>1, <1>11, <2>1, <2>3, <2>4, <2>5, <2>6, OutcomesAre, ExcusesAre
            DEF Rightly, Through, Enter, Deserves
<1>12. CASE k = "smtp"
    <2>1. Run(c, i, s) = SmtpRun(c, i, s)
        BY <1>12 DEF Run
    <2> QED BY <1>1, <1>2, <1>12, <2>1, OutcomesAre
            DEF Rightly, SmtpRun, Stages, Shown, Output, KindAsks, NoItem, Through, If, Matches, Deserves,
                Asked, Hopeless, Unearned, Enter, HasCreds
<1>13. CASE k = "sql"
    <2>1. Run(c, i, s) = SqlRun(c, i, s)
        BY <1>13 DEF Run
    <2>2. \/ s.at \in {"login", "query", "end"}
          \/ s.at = "rows" /\ ("exists" \in i \/ "output" \in i)
        BY <1>1, <1>13 DEF Stages
    <2>3. CASE i = NoItem
        BY <1>13, <2>1, <2>3, OutcomesAre DEF Rightly, SqlRun, Hopeless, Fatal
    <2>4. CASE i # NoItem
        <3>1. /\ "hash" \notin i /\ "answer" \notin i /\ "diff" \notin i /\ "file" \notin i
              /\ "contains" \in i /\ "regex" \notin i => "exists" \in i \/ "output" \in i
            BY <1>2, <1>13, <2>4 DEF KindAsks
        <3>2. s.shows # "errors"
            BY <1>1, <1>13 DEF Shown
        <3>3. /\ SqlFound(i, s) => Asked(i, s) \/ ("exists" \in i /\ s.shows = "containing")
              /\ ("exists" \in i \/ "output" \in i) /\ Asked(i, s) => SqlFound(i, s)
              /\ SqlFound(i, s) \in BOOLEAN
            <4>1. CASE "regex" \in i
                BY <1>2, <1>13, <3>1, <3>2, <4>1 DEF SqlFound, Asked, Matches
            <4>2. CASE "regex" \notin i
                <5>1. /\ ({"exists", "contains"} \cap i # {}) <=> "exists" \in i \/ "contains" \in i
                      /\ ({"exists", "output"} \cap i # {}) <=> "exists" \in i \/ "output" \in i
                      /\ ({"regex", "contains"} \cap i = {}) <=> "contains" \notin i
                      /\ {"answer", "hash", "diff", "file"} \cap i = {}
                    BY <3>1, <4>2
                <5>2. Asked(i, s) <=> /\ "contains" \in i => Includes(s)
                                      /\ ("exists" \in i \/ "output" \in i) /\ "contains" \notin i
                                            => Equals(s)
                    BY <3>2, <4>2, <5>1 DEF Asked
                <5>3. SqlFound(i, s) = IF "exists" \in i \/ "contains" \in i
                                       THEN Includes(s) ELSE Equals(s)
                    BY <4>2, <5>1 DEF SqlFound
                <5>4. /\ Equals(s) => Includes(s)
                      /\ Includes(s) => Equals(s) \/ s.shows = "containing"
                      /\ Includes(s) \in BOOLEAN /\ Equals(s) \in BOOLEAN
                    BY DEF Includes, Equals
                <5> QED BY <3>1, <4>2, <5>2, <5>3, <5>4
            <4> QED BY <4>1, <4>2
        <3>4. "exists" \notin i /\ "output" \notin i => Asked(i, s)
            BY <1>2, <1>13, <3>1, <3>2 DEF Asked
        <3>5. SqlRun(c, i, s) = IF "driver" \notin c.opts THEN Down
                  ELSE Enter(HasCreds(c), s, Through({"query"}, s,
                      IF "exists" \notin i /\ "output" \notin i THEN Up
                      ELSE Through({"rows"}, s,
                          IF s.how = "null" THEN Down
                          ELSE IF "regex" \in i /\ "malformed" \in i THEN Panic
                          ELSE If(SqlFound(i, s)))))
            BY <2>4 DEF SqlRun
        <3>6. /\ "regex" \in i /\ "malformed" \in i => Fatal(c, i, s)
              /\ "driver" \notin c.opts => Hopeless(c, i, s)
              /\ "exists" \in i /\ s.shows = "containing" => Unearned(c, i, s)
            BY <1>2, <1>13 DEF Fatal, Hopeless, Unearned
        <3> DEFINE found == SqlFound(i, s)
        <3> HIDE DEF found
        <3>7. CASE "exists" \notin i /\ "output" \notin i
            BY <1>1, <1>13, <2>1, <2>2, <3>4, <3>5, <3>6, <3>7, OutcomesAre, ExcusesAre
                DEF Rightly, Through, Enter, Deserves
        <3>8. CASE "exists" \in i \/ "output" \in i
            BY <1>1, <1>13, <2>1, <2>2, <3>3, <3>5, <3>6, <3>8, OutcomesAre, ExcusesAre
                DEF Rightly, Through, Enter, If, Deserves, found
        <3> QED BY <3>7, <3>8
    <2> QED BY <2>3, <2>4
<1>14. CASE k = "ssh"
    <2>1. Run(c, i, s) = SshRun(c, i, s)
        BY <1>14 DEF Run
    <2>2. s.at \in {"login", "session", "shell", "end"}
        BY <1>1, <1>14 DEF Stages
    <2>3. /\ i = NoItem => "regex" \notin i /\ "contains" \notin i
          /\ "hash" \notin i /\ "exists" \notin i /\ "answer" \notin i
          /\ "diff" \notin i /\ "file" \notin i
        BY <1>2, <1>14 DEF KindAsks, NoItem
    <2> DEFINE verdict ==
            CASE i = NoItem -> Up
              [] "contains" \in i -> If(Includes(s) /\ s.how # "late")
              [] "regex" \in i /\ "contains" \notin i ->
                    IF "malformed" \in i THEN Panic
                    ELSE If(Matches(i, s) /\ Equals(s) /\ s.how # "late")
              [] OTHER -> If(s.shows # "errors" \/ s.how = "late")
    <2>4. SshRun(c, i, s) = IF "badkey" \in c.opts THEN Down
              ELSE Enter(HasCreds(c), s, Through({"session", "shell"}, s, verdict))
        BY DEF SshRun
    <2>5. /\ verdict = Up \/ verdict = Down
          /\ "regex" \in i \/ "contains" \in i => (verdict = Up => Asked(i, s))
          /\ Asked(i, s) /\ s.how # "late" /\ ("regex" \in i => Equals(s)) => verdict = Up
        <3>1. CASE i = NoItem
            BY <2>3, <3>1
        <3>2. CASE "contains" \in i /\ i # NoItem
            BY <1>2, <1>14, <2>3, <3>2 DEF Asked, If, Includes, Up, Down
        <3>3. CASE "regex" \in i /\ "contains" \notin i /\ i # NoItem
            BY <1>2, <1>14, <2>3, <3>3 DEF Asked, If, Matches, Equals, Up, Down
        <3>4. CASE "regex" \notin i /\ "contains" \notin i /\ i # NoItem
            BY <2>3, <3>4 DEF Asked, If
        <3> QED BY <3>1, <3>2, <3>3, <3>4
    <2> HIDE DEF verdict
    <2>6. /\ "regex" \notin i /\ "contains" \notin i /\ s.at = "end" => Unearned(c, i, s)
          /\ "badkey" \in c.opts => Hopeless(c, i, s)
          /\ "regex" \in i /\ ~Equals(s) => Hopeless(c, i, s)
        BY <1>14 DEF Unearned, Hopeless
    <2> QED BY <1>1, <1>14, <2>1, <2>2, <2>4, <2>5, <2>6, OutcomesAre, ExcusesAre
            DEF Rightly, Through, Enter, Deserves
<1>15. CASE k = "tcp"
    <2>1. Run(c, i, s) = TcpRun(c, i, s)
        BY <1>15 DEF Run
    <2> QED BY <1>1, <1>2, <1>15, <2>1, OutcomesAre
            DEF Rightly, TcpRun, Stages, Shown, Output, KindAsks, NoItem, Through, If, Matches, Deserves,
                Asked, Hopeless, Unearned
<1>16. CASE k = "vnc"
    <2>1. Run(c, i, s) = VncRun(c, i, s)
        BY <1>16 DEF Run
    <2> QED BY <1>1, <1>2, <1>16, <2>1, OutcomesAre
            DEF Rightly, VncRun, Stages, Shown, Output, KindAsks, NoItem, Through, If, Matches, Deserves,
                Asked, Hopeless, Unearned, Enter, HasCreds
<1>17. CASE k = "web"
    <2>1. Run(c, i, s) = WebRun(c, i, s)
        BY <1>17 DEF Run
    <2> QED BY <1>1, <1>2, <1>17, <2>1, OutcomesAre
            DEF Rightly, WebRun, Stages, Shown, Output, KindAsks, NoItem, Through, If, Matches, Deserves,
                Asked, Hopeless, Unearned
<1>18. CASE k = "winrm"
    <2>1. Run(c, i, s) = WinRMRun(c, i, s)
        BY <1>18 DEF Run
    <2>2. s.at \in {"create", "login", "end"}
        BY <1>1, <1>18 DEF Stages
    <2>3. CASE s.at = "create"
        <3> DEFINE two == <<"down", "up">>
                   one == <<"down">>
        <3>1. Head(two) = "down" /\ two # <<>> /\ Head(one) = "down" /\ one # <<>>
            OBVIOUS
        <3>2. WinRMRun(c, i, s) = IF i = NoItem THEN [sends |-> two, end |-> "return"]
                                                ELSE [sends |-> one, end |-> "panic"]
            BY <2>3 DEF WinRMRun
        <3> HIDE DEF two, one
        <3> QED BY <1>18, <2>1, <2>3, <3>1, <3>2 DEF Rightly, Fatal, Deserves
    <2>4. CASE s.at # "create" /\ i = NoItem
        BY <1>18, <2>1, <2>4, OutcomesAre DEF Rightly, WinRMRun, Unearned
    <2>5. CASE s.at # "create" /\ i # NoItem
        <3>1. /\ "hash" \notin i /\ "exists" \notin i /\ "answer" \notin i
              /\ "diff" \notin i /\ "file" \notin i
            BY <1>2, <1>18, <2>5 DEF KindAsks
        <3> DEFINE verdict == WinRMVerdict(i, s)
        <3>2. /\ verdict = Up \/ verdict = Down
              /\ verdict = Up <=> Asked(i, s)
            BY <1>2, <1>18, <3>1
                DEF WinRMVerdict, If, Asked, Matches, Includes, Equals, Up, Down
        <3>3. WinRMRun(c, i, s) = Enter(HasCreds(c), s, verdict)
            BY <2>5 DEF WinRMRun
        <3> HIDE DEF verdict
        <3> QED BY <1>1, <1>18, <2>1, <2>2, <2>5, <3>2, <3>3, OutcomesAre, ExcusesAre
                DEF Rightly, Through, Enter, Deserves
    <2> QED BY <2>3, <2>4, <2>5
<1> QED BY <1>3, <1>4, <1>5, <1>6, <1>7, <1>8, <1>9, <1>10, <1>11, <1>12, <1>13, <1>14, <1>15,
           <1>16, <1>17, <1>18, KindIs DEF Meeting, Accepted

-----------------------------------------------------------------------------
(* Boxes and their lists of checks *)

\* What TrialsAssumption says of a trial.
LEMMA TrialIs ==
    ASSUME NEW t \in Trials
    PROVE  /\ t.conf \in Configuration /\ t.delayed \in Seq(ConfBox)
           /\ t.horizon \in Nat /\ t.horizon >= 1 /\ t.restarts \in Nat /\ t.resets \in Nat
           /\ t.pauses \in BOOLEAN /\ Len(t.delayed) <= MaxDelayed
           /\ \A b \in ToSet(t.conf.boxes) \cup ToSet(t.delayed) :
                 b.list = <<>> /\ \A c \in ToSet(b.checks) : SensibleCheck(c)
<1> DEFINE T == [conf : Configuration, delayed : Seq(ConfBox), horizon : Nat \ {0},
                 restarts : Nat, resets : Nat, pauses : BOOLEAN]
<1>1. /\ t \in T /\ Len(t.delayed) <= MaxDelayed
      /\ \A b \in ToSet(t.conf.boxes) \cup ToSet(t.delayed) :
            b.list = <<>> /\ \A c \in ToSet(b.checks) : SensibleCheck(c)
    BY TrialsAssumption, Zenon
<1>2. \A u \in T : /\ u.conf \in Configuration /\ u.delayed \in Seq(ConfBox)
                   /\ u.horizon \in Nat \ {0} /\ u.restarts \in Nat /\ u.resets \in Nat
                   /\ u.pauses \in BOOLEAN
    OBVIOUS
<1> HIDE DEF T
<1>3. t.horizon \in Nat \ {0}
    BY <1>1, <1>2
<1> QED BY <1>1, <1>2, <1>3

\* A box whose checks are acceptable.
Accepts(b) == \A c \in ToSet(b.list) : Accepted(c)

\* The checks of a valid box are acceptable once the box is complete.
LEMMA CompleteAccepts ==
    ASSUME NEW b \in ConfBox, \A c \in ToSet(b.checks) : SensibleCheck(c), BoxVerdict(b) = "ok"
    PROVE  Accepts(CompleteBox(b))
<1> DEFINE list == getBoxChecks(b)
<1>1. b.checks \in Seq(ConfCheck) /\ list \in Seq(ConfCheck) /\ ToSet(list) = ToSet(b.checks)
    BY BoxParts, BoxChecksReorder, ReorderedHas
<1>2. \A c \in ToSet(b.checks) : c \in ConfCheck /\ CheckVerdict(c) = "ok"
    BY <1>1, BoxVerdictIs DEF ToSet
<1>3. \A k \in DOMAIN list : list[k] \in ToSet(b.checks)
    BY <1>1 DEF ToSet
<1>4. ASSUME NEW c \in ToSet(b.checks)
      PROVE  Accepted(Complete(b, c))
    <2> DEFINE d == Complete(b, c)
    <2>1. c \in ConfCheck /\ SensibleCheck(c)
        BY <1>2
    <2>2. d \in ConfCheck /\ d.kind = c.kind /\ d.items = c.items
        BY <2>1, CompleteType
    <2> HIDE DEF d
    <2>3. ~Breaks(c) /\ ~Refused(c)
        BY <1>2 DEF CheckVerdict
    <2>4. SensibleCheck(d) /\ ~Breaks(d)
        BY <2>1, <2>2, <2>3, Zenon DEF SensibleCheck, Breaks
    <2>5. \A i \in d.items : ~RefusedItem(d.kind, i)
        BY <2>2, <2>3, Zenon DEF Refused
    <2> QED BY <2>2, <2>4, <2>5 DEF Accepted, d
<1>5. /\ DOMAIN CompleteBox(b).list = DOMAIN list
      /\ \A k \in DOMAIN list : CompleteBox(b).list[k] = Complete(b, list[k])
    BY CompleteBoxIs
<1> HIDE DEF list
<1> QED BY <1>3, <1>4, <1>5 DEF Accepts, ToSet

\* The boxes once a box has been added to them.
LEMMA TakeIs ==
    ASSUME NEW b \in ConfBox, conf.boxes \in Seq(ConfBox)
    PROVE  /\ Take(b) \in Seq(ConfBox)
           /\ \/ Take(b) = Append(Boxes, b)
              \/ \E m \in DOMAIN Boxes : Take(b) = [Boxes EXCEPT ![m].list = Boxes[m].list \o b.list]
<1> DEFINE named == {j \in DOMAIN Boxes : Boxes[j].name = b.name}
<1>1. Boxes \in Seq(ConfBox) /\ DOMAIN Boxes = 1..Len(Boxes) /\ Len(Boxes) \in Nat
    BY DEF Boxes
<1>2. CASE named = {}
    <2>1. Take(b) = Append(Boxes, b)
        BY <1>2, Zenon DEF Take
    <2> QED BY <1>1, <2>1
<1>3. CASE named # {}
    <2>1. named \subseteq 0..Len(Boxes)
        BY <1>1
    <2>2. Max(named) \in named
        BY <1>1, <1>3, <2>1, MaxOfNaturals
    <2>3. Take(b) = [Boxes EXCEPT ![Max(named)].list = @ \o b.list]
        BY <1>3, Zenon DEF Take
    <2> HIDE DEF named
    <2>4. PICK m \in named : Take(b) = [Boxes EXCEPT ![m].list = @ \o b.list]
        BY <2>2, <2>3
    <2>5. m \in DOMAIN Boxes
        BY <2>4 DEF named
    <2> DEFINE new == Boxes[m].list \o b.list
               box == [Boxes[m] EXCEPT !.list = new]
    <2>6. Take(b) = [Boxes EXCEPT ![m] = box]
        BY <2>4, Zenon
    <2>7. Boxes[m] \in ConfBox
        BY <1>1, <2>5
    <2>8. new \in Seq(ConfCheck)
        BY <2>7, BoxParts
    <2> HIDE DEF new
    <2>9. box \in ConfBox
        BY <2>7, <2>8 DEF ConfBox
    <2> HIDE DEF box
    <2>10. Take(b) \in Seq(ConfBox)
        <3>1. Take(b) \in [1..Len(Boxes) -> ConfBox]
            BY <1>1, <2>5, <2>6, <2>9
        <3> QED BY <1>1, <3>1
    <2> QED BY <2>4, <2>5, <2>10
<1> QED BY <1>2, <1>3

-----------------------------------------------------------------------------
(* The inductive invariant *)

\* Where the process is while the loop of Score runs.
Running == {"top", "adding", "checks", "ran", "sleep"}

Types ==
    /\ trial \in Trials
    /\ spc \in {"main", "load", "score", "exited", "dead"} \cup Running
    /\ conf \in Configuration
    /\ clock \in Nat /\ 1 <= clock /\ clock <= trial.horizon
    /\ startTime \in Nat /\ startTime <= clock
    /\ roundTime \in Nat /\ roundTime <= clock
    /\ firstRecord \in Nat /\ firstRecord <= clock
    /\ restarts \in 0..trial.restarts /\ resets \in 0..trial.resets

Flags == running \in BOOLEAN /\ resetIssued \in BOOLEAN

\* The list that waits.
ListInv ==
    /\ delayed \in Seq(ConfBox)
    /\ Len(delayed) <= Len(trial.delayed)
    /\ \A k \in DOMAIN delayed : \E j \in DOMAIN trial.delayed : delayed[k] = trial.delayed[j]
    /\ idx \in 0..Len(delayed)
    /\ dueAtTop \subseteq DOMAIN trial.delayed

\* What the configuration has come to.
ConfInv ==
    /\ spc = "main" => conf = trial.conf
    /\ spc \in {"load", "score"} =>
           checkConfig(trial.conf).verdict = "ok" /\ conf = checkConfig(trial.conf).conf
    /\ spc \in {"load", "score"} \cup Running => \A b \in ToSet(Boxes) : Accepts(b)

\* The check that was run, if one was.
LastInv ==
    \/ last.end = "none"
    \/ /\ Meeting(last.check, last.item, last.service)
       /\ Rightly(last.check, last.item, last.service, last)

\* The boxes that were due wait below the index only.
RoundInv ==
    ~resetIssued =>
        /\ spc = "adding" => \A k \in dueAtTop \cap Waiting :
               /\ Due(trial.delayed[k])
               /\ \A j \in DOMAIN delayed : delayed[j] = trial.delayed[k] => j <= idx
        /\ spc \in {"checks", "ran"} => dueAtTop \cap Waiting = {}

Inv == Types /\ Flags /\ ListInv /\ ConfInv /\ LastInv

\* Boxes can be replaced by other boxes.
LEMMA BoxesIs ==
    ASSUME NEW f \in Configuration
    PROVE  /\ f.boxes \in Seq(ConfBox)
           /\ \A bs \in Seq(ConfBox) : /\ [f EXCEPT !.boxes = bs] \in Configuration
                                       /\ [f EXCEPT !.boxes = bs].boxes = bs
BY DEF Configuration

\* The invariants hold at first.
LEMMA InitInv == Init => Inv /\ RoundInv
<1> SUFFICES ASSUME Init PROVE Inv /\ RoundInv
    OBVIOUS
<1>1. /\ trial \in Trials /\ spc = "main" /\ conf = trial.conf /\ delayed = <<>> /\ idx = 0
      /\ dueAtTop = {} /\ running = FALSE /\ resetIssued = FALSE /\ clock = 1 /\ firstRecord = 0
      /\ startTime = 0 /\ roundTime = 0 /\ last = NotRun /\ restarts = 0 /\ resets = 0
    BY DEF Init
<1>2. /\ trial.conf \in Configuration /\ trial.delayed \in Seq(ConfBox) /\ trial.horizon \in Nat
      /\ trial.horizon >= 1 /\ trial.restarts \in Nat /\ trial.resets \in Nat
    BY <1>1, TrialIs
<1>3. Types
    BY <1>1, <1>2 DEF Types
<1>8. Flags
    BY <1>1, Zenon DEF Flags
<1>4. ListInv
    BY <1>1, <1>2 DEF ListInv
<1>5. ConfInv
    BY <1>1 DEF ConfInv, Running
<1>6. LastInv
    BY <1>1 DEF LastInv, NotRun
<1>7. RoundInv
    BY <1>1 DEF RoundInv
<1> QED BY <1>3, <1>4, <1>5, <1>6, <1>7, <1>8, Zenon DEF Inv

\* Every step keeps the types.
LEMMA TypesStep == Inv /\ [Next]_vars => Types'
<1> SUFFICES ASSUME Inv, [Next]_vars PROVE Types'
    OBVIOUS
<1>1. Types /\ ListInv
    BY DEF Inv
<1>2. /\ trial.conf \in Configuration /\ trial.horizon \in Nat /\ trial.horizon >= 1
      /\ trial.restarts \in Nat /\ trial.resets \in Nat
    BY <1>1, TrialIs DEF Types
<1>3. ASSUME MainCheck \/ ScoreCheck PROVE Types'
    <2>1. conf \in Configuration
        BY <1>1 DEF Types
    <2> DEFINE r == checkConfig(conf)
    <2>2. r.conf \in Configuration /\ r.verdict \in Judgements
        BY <2>1, checkConfigIs, Zenon
    <2>3. conf' = r.conf /\ spc' \in {Onward(r.verdict, "load"), Onward(r.verdict, "top")}
        BY <1>3 DEF MainCheck, ScoreCheck
    <2>4. startTime' \in {startTime, firstRecord, clock}
        BY <1>3 DEF MainCheck, ScoreCheck
    <2>5. UNCHANGED <<trial, clock, roundTime, firstRecord, restarts, resets>>
        BY <1>3 DEF MainCheck, ScoreCheck
    <2> HIDE DEF r
    <2>6. spc' \in {"load", "top", "exited", "dead"}
        BY <2>2, <2>3 DEF Onward, Judgements
    <2> QED BY <1>1, <2>2, <2>3, <2>4, <2>5, <2>6 DEF Types, Running
<1>4. ASSUME AddStep PROVE Types'
    <2>1. conf \in Configuration /\ conf.boxes \in Seq(ConfBox)
        BY <1>1, BoxesIs DEF Types
    <2>2. idx \in DOMAIN delayed /\ delayed[idx] \in ConfBox
        BY <1>1, <1>4 DEF AddStep, ListInv
    <2>3. Take(CompleteBox(delayed[idx])) \in Seq(ConfBox)
        BY <2>1, <2>2, CompleteBoxIs, TakeIs
    <2>4. /\ conf' \in {conf, [conf EXCEPT !.boxes = Take(CompleteBox(delayed[idx]))]}
          /\ spc' \in {"adding", "dead"}
          /\ UNCHANGED <<trial, clock, startTime, roundTime, firstRecord, restarts, resets>>
        BY <1>4 DEF AddStep
    <2>5. conf' \in Configuration
        BY <2>1, <2>3, <2>4, BoxesIs
    <2> QED BY <1>1, <2>4, <2>5 DEF Types, Running
<1>5. ASSUME LoadDelayed PROVE Types'
    <2>1. /\ spc' \in {"exited", "score"}
          /\ UNCHANGED <<trial, conf, clock, startTime, roundTime, firstRecord, restarts, resets>>
        BY <1>5 DEF LoadDelayed
    <2> QED BY <1>1, <2>1 DEF Types
<1>6. ASSUME RunCheck PROVE Types'
    <2>1. /\ spc' \in {"ran", "dead"}
          /\ UNCHANGED <<trial, conf, clock, startTime, roundTime, firstRecord, restarts, resets>>
        BY <1>6 DEF RunCheck
    <2> QED BY <1>1, <2>1 DEF Types, Running
<1>7. ASSUME LoopTop \/ BeginRound \/ EndRound \/ Wake PROVE Types'
    BY <1>1, <1>7 DEF LoopTop, BeginRound, EndRound, Wake, Types, Running
<1>8. ASSUME Tick \/ Reset \/ Pause \/ Resume PROVE Types'
    BY <1>1, <1>2, <1>8 DEF Tick, Reset, Pause, Resume, Types
<1>9. ASSUME Restart PROVE Types'
    BY <1>1, <1>2, <1>9 DEF Restart, Types
<1>10. ASSUME UNCHANGED vars PROVE Types'
    BY <1>1, <1>10 DEF vars, Types
<1> QED BY <1>3, <1>4, <1>5, <1>6, <1>7, <1>8, <1>9, <1>10, Zenon DEF Next, LoopStep

\* Every step keeps the flags Boolean.
LEMMA FlagsStep == Inv /\ [Next]_vars => Flags'
<1> SUFFICES ASSUME Flags, [Next]_vars PROVE Flags'
    BY Zenon DEF Inv
<1>1. ASSUME LoadDelayed PROVE Flags'
    <2>1. running' \in BOOLEAN
        <3>1. CASE trial.pauses /\ running' # running
            BY <1>1, <3>1, Zenon DEF LoadDelayed
        <3>2. CASE ~trial.pauses /\ running' # running
            BY <1>1, <3>2, Zenon DEF LoadDelayed
        <3> QED BY <3>1, <3>2, Zenon DEF Flags
    <2> QED BY <1>1, <2>1, Zenon DEF LoadDelayed, Flags
<1>2. MainCheck \/ ScoreCheck \/ LoopTop \/ AddStep \/ BeginRound \/ RunCheck \/ Tick
          => UNCHANGED <<running, resetIssued>>
    BY Zenon DEF MainCheck, ScoreCheck, LoopTop, AddStep, BeginRound, RunCheck, Tick
<1>3. ASSUME EndRound \/ Wake \/ Reset \/ Pause \/ Resume \/ Restart PROVE Flags'
    BY <1>3, Zenon DEF EndRound, Wake, Reset, Pause, Resume, Restart, Flags
<1> QED BY <1>1, <1>2, <1>3, Zenon DEF Next, LoopStep, Flags, vars

\* What the list is like without a box, and the list as Without leaves it.
LEMMA WithoutIs ==
    ASSUME NEW i \in DOMAIN delayed, delayed \in Seq(ConfBox)
    PROVE  /\ Without(i) \in Seq(ConfBox) /\ Len(Without(i)) = Len(delayed) - 1
           /\ DOMAIN Without(i) = 1..(Len(delayed) - 1)
           /\ \A k \in 1..(Len(delayed) - 1) :
                 Without(i)[k] = IF k = i THEN delayed[Len(delayed)] ELSE delayed[k]
<1>1. Len(delayed) \in Nat /\ Len(delayed) >= 1 /\ DOMAIN delayed = 1..Len(delayed)
    OBVIOUS
<1> DEFINE moved == [delayed EXCEPT ![i] = delayed[Len(delayed)]]
<1>2. /\ moved \in Seq(ConfBox) /\ Len(moved) = Len(delayed)
      /\ \A k \in DOMAIN delayed : moved[k] = IF k = i THEN delayed[Len(delayed)] ELSE delayed[k]
    BY <1>1
<1>3. Without(i) = SubSeq(moved, 1, Len(delayed) - 1)
    BY DEF Without
<1> HIDE DEF moved
<1>4. \A k \in 1..(Len(delayed) - 1) : moved[k] \in ConfBox
    BY <1>1, <1>2
<1> DEFINE n == Len(delayed) - 1
<1>5. n \in Int /\ 1 \in Int /\ \A k \in 1..n : moved[k] \in ConfBox
    BY <1>1, <1>4
<1> HIDE DEF n
<1>6. /\ SubSeq(moved, 1, n) \in Seq(ConfBox)
      /\ Len(SubSeq(moved, 1, n)) = IF 1 <= n THEN n - 1 + 1 ELSE 0
      /\ \A k \in 1..(n - 1 + 1) : SubSeq(moved, 1, n)[k] = moved[1 + k - 1]
    BY <1>5, SubSeqProperties
<1>7. /\ Len(SubSeq(moved, 1, n)) = n
      /\ \A k \in 1..n : SubSeq(moved, 1, n)[k] = moved[k]
    BY <1>1, <1>6 DEF n
<1>8. DOMAIN SubSeq(moved, 1, n) = 1..n
    BY <1>6, <1>7
<1>9. n = Len(delayed) - 1 /\ Without(i) = SubSeq(moved, 1, n)
    BY <1>3 DEF n
<1> QED BY <1>1, <1>2, <1>6, <1>7, <1>8, <1>9

\* Every step keeps the list of delayed boxes, and the index within it.
LEMMA ListStep == Inv /\ [Next]_vars => ListInv'
<1> SUFFICES ASSUME Inv, [Next]_vars PROVE ListInv'
    OBVIOUS
<1>1. ListInv /\ trial \in Trials
    BY DEF Inv, Types
<1>2. trial.delayed \in Seq(ConfBox)
    BY <1>1, TrialIs
<1>3. ASSUME AddStep PROVE ListInv'
    <2>1. idx \in DOMAIN delayed /\ delayed \in Seq(ConfBox) /\ idx > 0 /\ idx \in Nat
        BY <1>1, <1>3 DEF AddStep, ListInv
    <2>2. trial' = trial /\ dueAtTop' = dueAtTop /\ idx' = idx - 1 /\ delayed' \in {delayed, Without(idx)}
        BY <1>3 DEF AddStep, After
    <2>3. CASE delayed' = delayed
        BY <1>1, <2>1, <2>2, <2>3 DEF ListInv
    <2>4. CASE delayed' = Without(idx)
        <3>1. /\ delayed' \in Seq(ConfBox) /\ Len(delayed') = Len(delayed) - 1
              /\ DOMAIN delayed' = 1..(Len(delayed) - 1)
              /\ \A k \in 1..(Len(delayed) - 1) :
                    delayed'[k] = IF k = idx THEN delayed[Len(delayed)] ELSE delayed[k]
            BY <2>1, <2>4, WithoutIs
        <3>2. Len(delayed) \in Nat /\ DOMAIN delayed = 1..Len(delayed)
            BY <2>1
        <3>3. \A k \in DOMAIN delayed' : \E j \in DOMAIN delayed : delayed'[k] = delayed[j]
            BY <2>1, <3>1, <3>2
        <3>4. \A k \in DOMAIN delayed' : \E j \in DOMAIN trial.delayed : delayed'[k] = trial.delayed[j]
            BY <1>1, <3>3 DEF ListInv
        <3>5. Len(trial.delayed) \in Nat
            BY <1>2
        <3> QED BY <1>1, <2>1, <2>2, <3>1, <3>2, <3>4, <3>5 DEF ListInv
    <2> QED BY <2>2, <2>3, <2>4
<1>4. ASSUME LoadDelayed PROVE ListInv'
    <2>1. /\ delayed' \in {delayed, trial.delayed} /\ idx' = idx /\ trial' = trial
          /\ dueAtTop' = dueAtTop
        BY <1>4 DEF LoadDelayed
    <2>2. CASE delayed' = delayed
        BY <1>1, <2>1, <2>2 DEF ListInv
    <2>3. CASE delayed' = trial.delayed
        <3>1. idx \in 0..Len(trial.delayed)
            BY <1>1, <1>2 DEF ListInv
        <3> QED BY <1>1, <1>2, <2>1, <2>3, <3>1 DEF ListInv
    <2> QED BY <2>1, <2>2, <2>3
<1>5. ASSUME LoopTop PROVE ListInv'
    <2>1. /\ delayed' = delayed /\ trial' = trial /\ idx' \in {0, Len(delayed)}
          /\ dueAtTop' \subseteq DOMAIN trial.delayed
        BY <1>5 DEF LoopTop, Waiting, LastIndex
    <2> QED BY <1>1, <2>1 DEF ListInv
<1>6. ASSUME EndRound PROVE ListInv'
    BY <1>1, <1>6 DEF EndRound, ListInv
<1>7. ASSUME Restart PROVE ListInv'
    <2>1. delayed' = <<>> /\ trial' = trial /\ idx' = 0 /\ dueAtTop' = {}
        BY <1>7 DEF Restart
    <2> QED BY <1>2, <2>1 DEF ListInv
<1>8. ASSUME UNCHANGED <<trial, delayed, idx, dueAtTop>> PROVE ListInv'
    BY <1>1, <1>8 DEF ListInv
<1>9. MainCheck \/ ScoreCheck \/ BeginRound \/ RunCheck \/ Wake \/ Tick \/ Reset \/ Pause \/ Resume
          \/ UNCHANGED vars => UNCHANGED <<trial, delayed, idx, dueAtTop>>
    BY DEF MainCheck, ScoreCheck, BeginRound, RunCheck, Wake, Tick, Reset, Pause, Resume, vars
<1> QED BY <1>3, <1>4, <1>5, <1>6, <1>7, <1>8, <1>9, Zenon DEF Next, LoopStep

\* All checks of a configuration that checkConfig has accepted are acceptable.
LEMMA CheckedAccepts ==
    ASSUME NEW f \in Configuration, checkConfig(f).verdict = "ok",
           \A b \in ToSet(f.boxes) : \A c \in ToSet(b.checks) : SensibleCheck(c)
    PROVE  \A b \in ToSet(checkConfig(f).conf.boxes) : Accepts(b)
<1> DEFINE w == WithDefaults(f)
           ts == CompleteTeams(w)
           bs == CompleteBoxes(w)
           g == checkConfig(f).conf
<1>1. /\ \A b \in ToSet(f.boxes) : BoxVerdict(b) = "ok"
      /\ g = [w EXCEPT !.teams = ts, !.boxes = bs]
      /\ ToSet(bs) = {CompleteBox(b) : b \in ToSet(f.boxes)}
    BY checkConfigIs, Zenon
<1>2. w \in Configuration
    BY WithDefaultsIs
<1>3. \A b \in ToSet(f.boxes) : b \in ConfBox
    <2>1. f.boxes \in Seq(ConfBox)
        BY BoxesIs
    <2> QED BY <2>1 DEF ToSet
<1>4. \A b \in ToSet(f.boxes) : Accepts(CompleteBox(b))
    BY <1>1, <1>3, CompleteAccepts
<1> HIDE DEF w, ts, bs, g
<1>5. g.boxes = bs
    BY <1>1, <1>2 DEF Configuration
<1>6. \A b \in ToSet(g.boxes) : Accepts(b)
    BY <1>1, <1>4, <1>5
<1> QED BY <1>6 DEF g

\* Adding a valid box to the boxes leaves all checks acceptable.
LEMMA TakeAccepts ==
    ASSUME NEW b \in ConfBox, conf.boxes \in Seq(ConfBox), Accepts(b),
           \A x \in ToSet(Boxes) : Accepts(x)
    PROVE  \A x \in ToSet(Take(b)) : Accepts(x)
<1>1. Boxes \in Seq(ConfBox) /\ DOMAIN Boxes = 1..Len(Boxes) /\ Len(Boxes) \in Nat
    BY DEF Boxes
<1>2. \A k \in DOMAIN Boxes : Accepts(Boxes[k])
    BY DEF ToSet
<1>3. CASE Take(b) = Append(Boxes, b)
    <2>1. \A k \in DOMAIN Append(Boxes, b) : Accepts(Append(Boxes, b)[k])
        <3> DEFINE B == Boxes
        <3> HIDE DEF B
        <3>2. B \in Seq(ConfBox)
            BY <1>1 DEF B
        <3>3. DOMAIN Append(B, b) = 1..(Len(B) + 1) /\ DOMAIN B = 1..Len(B) /\ Len(B) \in Nat
            BY <3>2
        <3>4. \A k \in 1..(Len(B) + 1) : Append(B, b)[k] = IF k <= Len(B) THEN B[k] ELSE b
            BY <3>2, <3>3
        <3>1. \A k \in DOMAIN Append(Boxes, b) :
                  Append(Boxes, b)[k] = b \/ (k \in DOMAIN Boxes /\ Append(Boxes, b)[k] = Boxes[k])
            BY <3>3, <3>4 DEF B
        <3> QED BY <1>2, <3>1
    <2> QED BY <1>3, <2>1 DEF ToSet
<1>4. ASSUME NEW m \in DOMAIN Boxes, Take(b) = [Boxes EXCEPT ![m].list = Boxes[m].list \o b.list]
      PROVE  \A x \in ToSet(Take(b)) : Accepts(x)
    <2> DEFINE new == Boxes[m].list \o b.list
               box == [Boxes[m] EXCEPT !.list = new]
    <2>1. Take(b) = [Boxes EXCEPT ![m] = box]
        BY <1>4, Zenon
    <2>2. Boxes[m] \in ConfBox /\ Boxes[m].list \in Seq(ConfCheck) /\ b.list \in Seq(ConfCheck)
        BY <1>1, BoxParts
    <2>3. ToSet(new) = ToSet(Boxes[m].list) \cup ToSet(b.list)
        <3> DEFINE p == Boxes[m].list
                   q == b.list
        <3>1. p \in Seq(ConfCheck) /\ q \in Seq(ConfCheck)
            BY <2>2
        <3> HIDE DEF p, q
        <3>2. /\ Len(p) \in Nat /\ Len(q) \in Nat /\ DOMAIN p = 1..Len(p) /\ DOMAIN q = 1..Len(q)
              /\ DOMAIN (p \o q) = 1..(Len(p) + Len(q))
              /\ \A k \in 1..(Len(p) + Len(q)) :
                    (p \o q)[k] = IF k <= Len(p) THEN p[k] ELSE q[k - Len(p)]
            BY <3>1
        <3>3. \A k \in DOMAIN (p \o q) : (p \o q)[k] \in ToSet(p) \cup ToSet(q)
            BY <3>2 DEF ToSet
        <3>4. \A k \in DOMAIN p : \E l \in DOMAIN (p \o q) : (p \o q)[l] = p[k]
            BY <3>2
        <3>5. \A k \in DOMAIN q : \E l \in DOMAIN (p \o q) : (p \o q)[l] = q[k]
            <4> TAKE k \in DOMAIN q
            <4>1. k + Len(p) \in DOMAIN (p \o q) /\ (p \o q)[k + Len(p)] = q[k]
                BY <3>2
            <4> QED BY <4>1
        <3>6. ToSet(p \o q) = ToSet(p) \cup ToSet(q)
            BY <3>3, <3>4, <3>5 DEF ToSet
        <3> QED BY <3>6 DEF p, q
    <2> HIDE DEF new
    <2>4. box.list = new
        BY <2>2 DEF ConfBox
    <2>5. Accepts(box)
        BY <1>2, <2>3, <2>4 DEF Accepts
    <2> HIDE DEF box
    <2>6. \A k \in DOMAIN Take(b) : Accepts(Take(b)[k])
        BY <1>1, <1>2, <2>1, <2>5
    <2> QED BY <2>6 DEF ToSet
<1> QED BY <1>3, <1>4, TakeIs

\* What a box that waits is like, and what comes of its validation.
LEMMA WaitingBoxIs ==
    ASSUME Types, ListInv, NEW k \in DOMAIN delayed
    PROVE  LET b == delayed[k]
               v == validateChecks(<<b>>)
           IN  /\ b \in ConfBox /\ b \in ToSet(trial.delayed) /\ v \in Judgements
               /\ v = BoxVerdict(b)
               /\ v = "ok" => Accepts(CompleteBox(b))
<1> DEFINE b == delayed[k]
           bs == <<b>>
<1>1. b \in ConfBox /\ b \in ToSet(trial.delayed)
    BY DEF ListInv, ToSet
<1>2. \A c \in ToSet(b.checks) : SensibleCheck(c)
    BY <1>1, TrialIs DEF Types
<1> HIDE DEF b
<1>3. bs \in Seq(ConfBox) /\ ToSet(bs) = {b}
    BY <1>1 DEF ToSet
<1> HIDE DEF bs
<1>4. /\ validateChecks(bs) \in Judgements /\ BoxVerdict(b) \in Judgements
      /\ validateChecks(bs) = "ok" <=> BoxVerdict(b) = "ok"
      /\ validateChecks(bs) # "ok" => BoxVerdict(b) = validateChecks(bs)
    BY <1>1, <1>3, validateChecksIs, BoxVerdictIs
<1> QED BY <1>1, <1>2, <1>4, CompleteAccepts DEF b, bs

\* Every step keeps the checks that are scored acceptable.
LEMMA ConfStep == Inv /\ [Next]_vars => ConfInv'
<1> SUFFICES ASSUME Inv, [Next]_vars PROVE ConfInv'
    OBVIOUS
<1>1. Types /\ ListInv /\ ConfInv /\ trial \in Trials /\ conf \in Configuration
    BY DEF Inv, Types
<1>2. /\ trial.conf \in Configuration
      /\ \A b \in ToSet(trial.conf.boxes) : \A c \in ToSet(b.checks) : SensibleCheck(c)
    BY <1>1, TrialIs
<1>3. ASSUME MainCheck PROVE ConfInv'
    <2> DEFINE r == checkConfig(trial.conf)
    <2>1. conf' = r.conf /\ spc' = Onward(r.verdict, "load") /\ trial' = trial
        BY <1>1, <1>3 DEF MainCheck, ConfInv
    <2>2. r.verdict \in Judgements
        BY <1>2, checkConfigIs, Zenon
    <2>3. r.verdict = "ok" => \A b \in ToSet(r.conf.boxes) : Accepts(b)
        BY <1>2, CheckedAccepts
    <2> HIDE DEF r
    <2>4. \/ spc' \in {"exited", "dead"}
          \/ spc' = "load" /\ r.verdict = "ok"
        BY <2>1, <2>2 DEF Onward, Judgements
    <2> QED BY <2>1, <2>3, <2>4 DEF ConfInv, Running, Boxes, r
<1>4. ASSUME ScoreCheck PROVE ConfInv'
    <2> DEFINE r == checkConfig(conf)
               g == checkConfig(trial.conf).conf
    <2>1. /\ conf' = r.conf /\ spc' = Onward(r.verdict, "top") /\ trial' = trial
          /\ checkConfig(trial.conf).verdict = "ok" /\ conf = g
          /\ \A b \in ToSet(Boxes) : Accepts(b)
        BY <1>1, <1>4 DEF ScoreCheck, ConfInv
    <2>2. checkConfig(g).verdict = "ok" /\ Same(g, checkConfig(g).conf)
        BY <1>2, <2>1, SecondCheckKeeps
    <2>3. r.verdict = "ok" /\ ToSet(r.conf.boxes) = ToSet(conf.boxes)
        BY <2>1, <2>2 DEF Same
    <2> HIDE DEF r
    <2>4. spc' = "top"
        BY <2>1, <2>3 DEF Onward
    <2> QED BY <2>1, <2>3, <2>4 DEF ConfInv, Running, Boxes
<1>5. ASSUME AddStep PROVE ConfInv'
    <2>1. idx \in DOMAIN delayed /\ spc = "adding"
        BY <1>1, <1>5 DEF AddStep, ListInv
    <2> DEFINE b == delayed[idx]
               taken == Take(CompleteBox(b))
               v == validateChecks(<<b>>)
    <2>2. /\ trial' = trial /\ spc' \in {"adding", "dead"}
          /\ \/ conf' = conf
             \/ v = "ok" /\ conf' = [conf EXCEPT !.boxes = taken]
        BY <1>5 DEF AddStep
    <2>3. b \in ConfBox /\ (v = "ok" => Accepts(CompleteBox(b)))
        BY <1>1, <2>1, WaitingBoxIs, Zenon
    <2>4. CompleteBox(b) \in ConfBox /\ conf.boxes \in Seq(ConfBox) /\ \A x \in ToSet(Boxes) : Accepts(x)
        BY <1>1, <2>1, <2>3, CompleteBoxIs, BoxesIs DEF ConfInv, Running
    <2> HIDE DEF b
    <2>5. taken \in Seq(ConfBox) /\ (v = "ok" => \A x \in ToSet(taken) : Accepts(x))
        BY <2>3, <2>4, TakeIs, TakeAccepts
    <2> HIDE DEF taken, v
    <2>6. [conf EXCEPT !.boxes = taken].boxes = taken
        BY <1>1, <2>5, BoxesIs
    <2>7. \A x \in ToSet(conf'.boxes) : Accepts(x)
        BY <2>2, <2>4, <2>5, <2>6 DEF Boxes
    <2> QED BY <2>2, <2>7 DEF ConfInv, Boxes, Running
<1>6. ASSUME LoadDelayed PROVE ConfInv'
    <2>1. trial' = trial /\ conf' = conf /\ spc = "load" /\ spc' \in {"exited", "score"}
        BY <1>6 DEF LoadDelayed
    <2> QED BY <1>1, <2>1 DEF ConfInv, Boxes, Running
<1>7. ASSUME RunCheck PROVE ConfInv'
    <2>1. trial' = trial /\ conf' = conf /\ spc = "checks" /\ spc' \in {"ran", "dead"}
        BY <1>7 DEF RunCheck
    <2> QED BY <1>1, <2>1 DEF ConfInv, Boxes, Running
<1>8. ASSUME LoopTop \/ BeginRound \/ EndRound \/ Wake PROVE ConfInv'
    <2>1. trial' = trial /\ conf' = conf /\ spc \in Running /\ spc' \in Running \cup {"dead"}
        BY <1>8 DEF LoopTop, BeginRound, EndRound, Wake, Running
    <2> QED BY <1>1, <2>1 DEF ConfInv, Boxes, Running
<1>9. ASSUME Restart PROVE ConfInv'
    BY <1>9 DEF Restart, ConfInv, Running
<1>10. ASSUME UNCHANGED <<trial, spc, conf>> PROVE ConfInv'
    BY <1>1, <1>10 DEF ConfInv, Boxes
<1>11. Tick \/ Reset \/ Pause \/ Resume \/ UNCHANGED vars => UNCHANGED <<trial, spc, conf>>
    BY DEF Tick, Reset, Pause, Resume, vars
<1> QED BY <1>3, <1>4, <1>5, <1>6, <1>7, <1>8, <1>9, <1>10, <1>11, Zenon DEF Next, LoopStep

\* Every check that is run is judged rightly.
LEMMA LastStep == Inv /\ [Next]_vars => LastInv'
<1> SUFFICES ASSUME Inv, [Next]_vars PROVE LastInv'
    OBVIOUS
<1>1. ConfInv /\ LastInv
    BY DEF Inv
<1>2. ASSUME RunCheck PROVE LastInv'
    <2>1. PICK p \in Places(Boxes) :
              LET c == Boxes[p[1]].list[p[2]]
              IN  \E i \in Picks(c) : \E s \in Services(c, i) :
                     last' = [check |-> c, item |-> i, service |-> s,
                              sends |-> Run(c, i, s).sends, end |-> Run(c, i, s).end]
        BY <1>2, Zenon DEF RunCheck
    <2> DEFINE c == Boxes[p[1]].list[p[2]]
    <2>2. PICK i \in Picks(c) : \E s \in Services(c, i) :
              last' = [check |-> c, item |-> i, service |-> s,
                       sends |-> Run(c, i, s).sends, end |-> Run(c, i, s).end]
        BY <2>1
    <2>3. PICK s \in Services(c, i) :
              last' = [check |-> c, item |-> i, service |-> s,
                       sends |-> Run(c, i, s).sends, end |-> Run(c, i, s).end]
        BY <2>2
    <2>4. Accepted(c)
        <3>1. p[1] \in DOMAIN Boxes /\ p[2] \in DOMAIN Boxes[p[1]].list
            BY DEF Places
        <3>2. Boxes[p[1]] \in ToSet(Boxes) /\ c \in ToSet(Boxes[p[1]].list)
            BY <3>1 DEF ToSet
        <3>3. spc = "checks"
            BY <1>2 DEF RunCheck
        <3> QED BY <1>1, <3>2, <3>3 DEF ConfInv, Running, Accepts
    <2> HIDE DEF c
    <2>5. Meeting(c, i, s)
        BY <2>4 DEF Meeting
    <2> DEFINE r == Run(c, i, s)
    <2>6. Rightly(c, i, s, r)
        BY <2>5, RunRightly
    <2> HIDE DEF r
    <2>7. /\ last'.check = c /\ last'.item = i /\ last'.service = s
          /\ last'.sends = r.sends /\ last'.end = r.end
        BY <2>3 DEF r
    <2>8. Rightly(c, i, s, last')
        BY <2>6, <2>7 DEF Rightly
    <2> QED BY <2>5, <2>7, <2>8 DEF LastInv
<1>3. ASSUME EndRound \/ Restart PROVE LastInv'
    BY <1>3 DEF EndRound, Restart, LastInv, NotRun
<1>4. ASSUME UNCHANGED last PROVE LastInv'
    BY <1>1, <1>4, Zenon DEF LastInv
<1>5. MainCheck \/ LoadDelayed \/ ScoreCheck \/ LoopTop \/ AddStep \/ BeginRound \/ Wake \/ Tick
          \/ Reset \/ Pause \/ Resume \/ UNCHANGED vars => UNCHANGED last
    BY DEF MainCheck, LoadDelayed, ScoreCheck, LoopTop, AddStep, BeginRound, Wake, Tick, Reset,
           Pause, Resume, vars
<1> QED BY <1>2, <1>3, <1>4, <1>5, Zenon DEF Next, LoopStep

\* Types, the list that waits, acceptable checks and right verdicts, of every state; the
\* theorems below follow from it.
THEOREM Invariant == Spec => []Inv
<1>1. Init => Inv
    BY InitInv
<1>2. Inv /\ [Next]_vars => Inv'
    BY TypesStep, FlagsStep, ListStep, ConfStep, LastStep, Zenon DEF Inv
<1> QED BY <1>1, <1>2, PTL DEF Spec

\* Every state is as the constants and the bounds say.
THEOREM TypeCorrect == Spec => []TypeOK
<1>1. Inv => TypeOK
    <2> SUFFICES ASSUME Inv PROVE TypeOK
        OBVIOUS
    <2>1. Types /\ Flags /\ ListInv /\ LastInv /\ trial.delayed \in Seq(ConfBox)
        BY TrialIs DEF Inv, Types
    <2>2. /\ spc \in {"main", "load", "score", "top", "adding", "checks", "ran", "sleep",
                      "exited", "dead"}
          /\ restarts \in 0..trial.restarts /\ resets \in 0..trial.resets
        BY <2>1 DEF Types, Running
    <2>3. clock \in 1..trial.horizon /\ {startTime, roundTime, firstRecord} \subseteq 0..clock
        <3>1. trial.horizon \in Nat
            BY TrialIs, <2>1 DEF Types
        <3> QED BY <2>1, <3>1 DEF Types
    <2>4. {running, resetIssued} \subseteq BOOLEAN
        BY <2>1, Zenon DEF Flags
    <2>5. last.end \in {"none", "return", "hang", "panic"}
        BY <2>1 DEF LastInv, Rightly
    <2>6. /\ idx \in 0..Len(trial.delayed) /\ dueAtTop \subseteq DOMAIN trial.delayed
          /\ \A k \in DOMAIN delayed : \E j \in DOMAIN trial.delayed : delayed[k] = trial.delayed[j]
        BY <2>1 DEF ListInv
    <2> QED BY <2>2, <2>3, <2>4, <2>5, <2>6, Zenon DEF TypeOK
<1> QED BY <1>1, Invariant, PTL

\* A service is up only if it did all that is asked of it, but for what Unearned lists:
\* whatever a check asks for and whatever its service does (checks/*.go).
THEOREM UpIsEarnedAlways == Spec => []UpIsEarned
<1>1. Inv => UpIsEarned
    <2> SUFFICES ASSUME LastInv PROVE UpIsEarned
        BY DEF Inv
    <2> QED BY DEF LastInv, Rightly, UpIsEarned, Ran, FirstIs
<1> QED BY <1>1, Invariant, PTL

\* A service that does all that is asked of it is up, but for what Hopeless lists.
THEOREM ServedIsUpAlways == Spec => []ServedIsUp
<1>1. Inv => ServedIsUp
    BY Zenon DEF Inv, LastInv, Rightly, ServedIsUp, Ran, FirstIs
<1> QED BY <1>1, Invariant, PTL

\* A check sends one verdict, or none if it hangs or panics, but for the double senders.
THEOREM OneVerdictAlways == Spec => []OneVerdict
<1>1. Inv => OneVerdict
    BY Zenon DEF Inv, LastInv, Rightly, OneVerdict, Ran
<1> QED BY <1>1, Invariant, PTL

\* Score's check accepts whatever configuration main's check has accepted, and keeps it.
THEOREM SecondCheckAgreesAlways == Spec => []SecondCheckAgrees
<1>1. Inv => SecondCheckAgrees
    <2> SUFFICES ASSUME Inv, spc = "score"
                 PROVE  checkConfig(conf).verdict = "ok" /\ Same(conf, checkConfig(conf).conf)
        BY Zenon DEF SecondCheckAgrees, Same
    <2>1. trial.conf \in Configuration
        BY TrialIs DEF Inv, Types
    <2>2. checkConfig(trial.conf).verdict = "ok" /\ conf = checkConfig(trial.conf).conf
        BY DEF Inv, ConfInv
    <2> QED BY <2>1, <2>2, SecondCheckKeeps, Zenon
<1> QED BY <1>1, Invariant, PTL

-----------------------------------------------------------------------------
(* What ends the process *)

\* No step ends the process but those DiesOnlyOf names.
LEMMA DiesStep == Inv /\ DiesOnlyOf /\ [Next]_vars => DiesOnlyOf'
<1> SUFFICES ASSUME Inv, DiesOnlyOf, [Next]_vars PROVE DiesOnlyOf'
    OBVIOUS
<1>1. /\ Types /\ ListInv /\ ConfInv /\ LastInv' /\ trial \in Trials
      /\ trial.conf \in Configuration
    BY LastStep, TrialIs DEF Inv, Types
<1>2. CASE MainCheck
    <2> DEFINE r == checkConfig(trial.conf)
    <2>1. spc' = Onward(r.verdict, "load") /\ trial' = trial
        BY <1>1, <1>2 DEF MainCheck, ConfInv
    <2>2. /\ r.verdict \in Judgements
          /\ r.verdict = "panic" => \E b \in ToSet(trial.conf.boxes) : BoxVerdict(b) = "panic"
        BY <1>1, checkConfigIs, Zenon
    <2> HIDE DEF r
    <2>3. spc' = "dead" => r.verdict = "panic"
        BY <2>1, <2>2 DEF Onward, Judgements
    <2> QED BY <2>1, <2>2, <2>3 DEF DiesOnlyOf
<1>3. CASE ScoreCheck
    <2> DEFINE r == checkConfig(conf)
    <2>1. /\ spc' = Onward(r.verdict, "top")
          /\ checkConfig(trial.conf).verdict = "ok" /\ conf = checkConfig(trial.conf).conf
        BY <1>1, <1>3 DEF ScoreCheck, ConfInv
    <2>2. r.verdict = "ok"
        BY <1>1, <2>1, SecondCheckKeeps, Zenon
    <2> HIDE DEF r
    <2> QED BY <2>1, <2>2 DEF DiesOnlyOf, Onward
<1>4. CASE AddStep
    <2>1. idx \in DOMAIN delayed
        BY <1>1, <1>4 DEF AddStep, ListInv
    <2> DEFINE b == delayed[idx]
               v == validateChecks(<<b>>)
    <2>2. trial' = trial /\ spc = "adding" /\ (spc' = spc \/ v = "panic")
        BY <1>4 DEF AddStep
    <2>3. b \in ToSet(trial.delayed) /\ v = BoxVerdict(b)
        BY <1>1, <2>1, WaitingBoxIs, Zenon
    <2> HIDE DEF b, v
    <2> QED BY <2>2, <2>3 DEF DiesOnlyOf
<1>5. CASE RunCheck
    <2>1. spc' = "dead" => last'.end = "panic"
        BY <1>5 DEF RunCheck
    <2>2. last'.end = "panic" => Fatal(last'.check, last'.item, last'.service)
        BY <1>1 DEF LastInv, Rightly
    <2> QED BY <2>1, <2>2 DEF DiesOnlyOf
<1>6. CASE Wake
    BY <1>6 DEF Wake, DiesOnlyOf
<1>7. CASE LoadDelayed \/ LoopTop \/ BeginRound \/ EndRound \/ Restart
    BY <1>7 DEF LoadDelayed, LoopTop, BeginRound, EndRound, Restart, DiesOnlyOf
<1>8. ASSUME UNCHANGED <<trial, spc, conf, last>> PROVE DiesOnlyOf'
    BY <1>8, Zenon DEF DiesOnlyOf
<1>9. Tick \/ Reset \/ Pause \/ Resume \/ UNCHANGED vars => UNCHANGED <<trial, spc, conf, last>>
    BY DEF Tick, Reset, Pause, Resume, vars
<1> QED BY <1>2, <1>3, <1>4, <1>5, <1>6, <1>7, <1>8, <1>9, Zenon DEF Next, LoopStep

\* No configuration that was accepted and no answer of a service ends the process, but for
\* the panics DiesOnlyOf names.
THEOREM DiesOnlyOfAlways == Spec => []DiesOnlyOf
<1>1. Init => Inv /\ DiesOnlyOf
    BY InitInv DEF Init, DiesOnlyOf
<1>2. Inv /\ DiesOnlyOf /\ [Next]_vars => DiesOnlyOf'
    BY DiesStep
<1> QED BY <1>1, <1>2, Invariant, PTL DEF Spec

-----------------------------------------------------------------------------
(* Boxes that are due join *)

\* Every step keeps boxes that are due below the index, if they still wait.
LEMMA RoundStep == Inv /\ RoundInv /\ [Next]_vars => RoundInv'
<1> SUFFICES ASSUME Inv, RoundInv, [Next]_vars PROVE RoundInv'
    OBVIOUS
<1>1. Types /\ ListInv
    BY DEF Inv
<1>2. CASE LoopTop
    <2>1. /\ UNCHANGED <<trial, delayed, clock, startTime, resetIssued>> /\ spc' \in {"adding", "sleep"}
          /\ spc' = "adding" => /\ idx' = Len(delayed)
                                /\ dueAtTop' = {k \in Waiting : Due(trial.delayed[k])}
        BY <1>2 DEF LoopTop, LastIndex
    <2>2. \A j \in DOMAIN delayed : j <= Len(delayed)
        BY <1>1 DEF ListInv
    <2> QED BY <2>1, <2>2 DEF RoundInv, Due, InjectTime, Waiting
<1>3. CASE AddStep
    <2> SUFFICES ASSUME ~resetIssued', spc' = "adding",
                        NEW k \in dueAtTop' \cap Waiting'
                 PROVE  /\ Due(trial.delayed[k])'
                        /\ \A j \in DOMAIN delayed' : delayed'[j] = trial'.delayed[k] => j <= idx'
        BY <1>3 DEF RoundInv, AddStep
    <2>1. /\ UNCHANGED <<trial, dueAtTop, resetIssued, clock, startTime>> /\ spc = "adding"
          /\ idx' = idx - 1
          /\ \/ delayed' = delayed /\ ~Due(delayed[idx])
             \/ delayed' = Without(idx)
        BY <1>3 DEF AddStep, After
    <2>2. idx \in DOMAIN delayed /\ delayed \in Seq(ConfBox) /\ idx \in Nat
        BY <1>1, <1>3 DEF AddStep, ListInv
    <2>3. Len(delayed) \in Nat /\ DOMAIN delayed = 1..Len(delayed)
        BY <2>2
    <2> DEFINE b == trial.delayed[k]
    <2>4. CASE delayed' = delayed /\ ~Due(delayed[idx])
        <3>1. k \in dueAtTop \cap Waiting
            BY <2>1, <2>4 DEF Waiting
        <3>2. Due(b) /\ \A j \in DOMAIN delayed : delayed[j] = b => j <= idx
            BY <2>1, <3>1 DEF RoundInv
        <3>3. delayed[idx] # b
            BY <2>4, <3>2
        <3>4. \A j \in DOMAIN delayed : delayed[j] = b => j <= idx - 1
            BY <2>2, <2>3, <3>2, <3>3
        <3> QED BY <2>1, <2>4, <3>2, <3>4 DEF Due, InjectTime
    <2>5. CASE delayed' = Without(idx)
        <3>1. /\ DOMAIN delayed' = 1..(Len(delayed) - 1)
              /\ \A j \in 1..(Len(delayed) - 1) :
                    delayed'[j] = IF j = idx THEN delayed[Len(delayed)] ELSE delayed[j]
            BY <2>2, <2>5, WithoutIs
        <3>2. \A j \in DOMAIN delayed' : \E l \in DOMAIN delayed : delayed'[j] = delayed[l]
            BY <2>3, <3>1
        <3>3. k \in dueAtTop \cap Waiting
            BY <2>1, <3>2 DEF Waiting, ToSet
        <3>4. Due(b) /\ \A j \in DOMAIN delayed : delayed[j] = b => j <= idx
            BY <2>1, <3>3 DEF RoundInv
        <3>5. \A j \in DOMAIN delayed' : delayed'[j] = b => j <= idx - 1
            BY <2>2, <2>3, <3>1, <3>4
        <3> QED BY <2>1, <3>4, <3>5 DEF Due, InjectTime
    <2> QED BY <2>1, <2>4, <2>5
<1>4. CASE BeginRound
    <2> SUFFICES ASSUME ~resetIssued', spc' = "checks" PROVE dueAtTop' \cap Waiting' = {}
        BY <1>4 DEF RoundInv, BeginRound
    <2>1. UNCHANGED <<trial, delayed, dueAtTop, resetIssued>> /\ spc = "adding" /\ idx = 0
        BY <1>4 DEF BeginRound
    <2>2. \A k \in dueAtTop \cap Waiting : \A j \in DOMAIN delayed : delayed[j] = trial.delayed[k] => j <= 0
        BY <2>1 DEF RoundInv
    <2>3. \A k \in Waiting : \E j \in DOMAIN delayed : delayed[j] = trial.delayed[k]
        BY DEF Waiting, ToSet
    <2>4. \A j \in DOMAIN delayed : ~(j <= 0)
        BY <1>1 DEF ListInv
    <2>5. dueAtTop \cap Waiting = {}
        BY <2>2, <2>3, <2>4
    <2> QED BY <2>1, <2>5 DEF Waiting
<1>5. CASE RunCheck
    BY <1>5 DEF RunCheck, RoundInv, Waiting
<1>6. CASE Tick
    <2>1. /\ UNCHANGED <<trial, spc, delayed, idx, startTime, resetIssued, dueAtTop>>
          /\ clock' = clock + 1 /\ clock \in Nat /\ startTime \in Nat
        BY <1>1, <1>6 DEF Tick, Types
    <2>2. ASSUME NEW k \in dueAtTop \cap Waiting, ~resetIssued, spc = "adding"
          PROVE  Due(trial.delayed[k])'
        <3>1. Due(trial.delayed[k])
            BY <2>2 DEF RoundInv
        <3>2. trial.delayed[k].time \in Int
            <4>1. trial.delayed \in Seq(ConfBox) /\ k \in DOMAIN trial.delayed
                BY <1>1, TrialIs DEF Types, Waiting
            <4> QED BY <4>1, BoxParts
        <3> QED BY <2>1, <3>1, <3>2 DEF Due, InjectTime
    <2> QED BY <2>1, <2>2 DEF RoundInv, Waiting
<1>7. CASE Reset \/ Pause
    BY <1>7 DEF Reset, Pause, RoundInv
<1>8. CASE MainCheck \/ LoadDelayed \/ ScoreCheck \/ EndRound \/ Wake \/ Restart
    <2>1. spc' \notin {"adding", "checks", "ran"}
        <3>1. MainCheck => spc' \in {"load", "exited", "dead"}
            <4> SUFFICES ASSUME MainCheck PROVE spc' \in {"load", "exited", "dead"}
                OBVIOUS
            <4>1. spc' = Onward(checkConfig(conf).verdict, "load")
                BY DEF MainCheck
            <4>2. checkConfig(conf).verdict \in Judgements
                BY <1>1, checkConfigIs, Zenon DEF Types
            <4> QED BY <4>1, <4>2 DEF Onward, Judgements
        <3>2. ScoreCheck => spc' \in {"top", "exited", "dead"}
            <4> SUFFICES ASSUME ScoreCheck PROVE spc' \in {"top", "exited", "dead"}
                OBVIOUS
            <4>1. spc' = Onward(checkConfig(conf).verdict, "top")
                BY DEF ScoreCheck
            <4>2. checkConfig(conf).verdict \in Judgements
                BY <1>1, checkConfigIs, Zenon DEF Types
            <4> QED BY <4>1, <4>2 DEF Onward, Judgements
        <3>3. LoadDelayed \/ EndRound \/ Wake \/ Restart =>
                  spc' \in {"exited", "score", "sleep", "dead", "top", "main"}
            BY DEF LoadDelayed, EndRound, Wake, Restart
        <3> QED BY <1>8, <3>1, <3>2, <3>3
    <2> QED BY <2>1 DEF RoundInv
<1>9. CASE Resume \/ UNCHANGED vars
    BY <1>9 DEF Resume, vars, RoundInv, Waiting, Due, InjectTime
<1> QED BY <1>2, <1>3, <1>4, <1>5, <1>6, <1>7, <1>8, <1>9, Zenon DEF Next, LoopStep

\* A box that is due as a round begins is scored or refused in this round, unless it is reset.
THEOREM DueHaveJoinedAlways == Spec => []DueHaveJoined
<1>1. Init => Inv /\ RoundInv
    BY InitInv
<1>2. Inv /\ RoundInv /\ [Next]_vars => RoundInv'
    BY RoundStep
<1>3. RoundInv => DueHaveJoined
    BY DEF RoundInv, DueHaveJoined
<1> QED BY <1>1, <1>2, <1>3, Invariant, PTL DEF Spec

-----------------------------------------------------------------------------
(* Where the checks of delayed boxes are *)

\* The places of the checks with a display name.
Hits(bs, name) == {p \in Places(bs) : bs[p[1]].list[p[2]].display = name}

Label(k) == trial.delayed[k].checks[1].display

\* No check of a box, or of what is to be made of it, has a display name.
ListLacks(b, name) == \A c \in ToSet(b.list) : c.display # name
ChecksLack(b, name) == \A c \in ToSet(b.checks) : c.display # name

\* Where checks stand.
LEMMA PlacesAre ==
    ASSUME NEW bs \in Seq(ConfBox)
    PROVE  /\ \A n \in DOMAIN bs : \A m \in DOMAIN bs[n].list : <<n, m>> \in Places(bs)
           /\ \A p \in Places(bs) : /\ p[1] \in DOMAIN bs /\ p[2] \in DOMAIN bs[p[1]].list
                                    /\ p = <<p[1], p[2]>>
BY DEF Places

\* A name that no list has stands nowhere.
LEMMA NoHits ==
    ASSUME NEW bs \in Seq(ConfBox), NEW name, \A b \in ToSet(bs) : ListLacks(b, name)
    PROVE  Hits(bs, name) = {}
<1>1. ASSUME NEW p \in Places(bs) PROVE bs[p[1]].list[p[2]].display # name
    <2>1. p[1] \in DOMAIN bs /\ p[2] \in DOMAIN bs[p[1]].list
        BY PlacesAre
    <2>2. bs[p[1]] \in ToSet(bs) /\ bs[p[1]].list[p[2]] \in ToSet(bs[p[1]].list)
        BY <2>1 DEF ToSet
    <2> QED BY <2>2 DEF ListLacks
<1> QED BY <1>1 DEF Hits

\* The display names of a box that is complete are those of the file.
LEMMA CompleteDisplays ==
    ASSUME NEW b \in ConfBox
    PROVE  \E p \in [DOMAIN b.checks -> DOMAIN b.checks] :
              /\ \A j, k \in DOMAIN b.checks : p[j] = p[k] => j = k
              /\ \A i \in DOMAIN b.checks : \E k \in DOMAIN b.checks : p[k] = i
              /\ DOMAIN CompleteBox(b).list = DOMAIN b.checks
              /\ \A k \in DOMAIN b.checks :
                    CompleteBox(b).list[k].display = b.checks[p[k]].display
<1>1. PICK p \in [DOMAIN b.checks -> DOMAIN b.checks] :
          /\ \A j, k \in DOMAIN b.checks : p[j] = p[k] => j = k
          /\ \A i \in DOMAIN b.checks : \E k \in DOMAIN b.checks : p[k] = i
          /\ getBoxChecks(b) = [k \in DOMAIN b.checks |-> b.checks[p[k]]]
    BY BoxChecksReorder, Zenon DEF Reordered
<1>2. /\ DOMAIN getBoxChecks(b) = DOMAIN b.checks
      /\ \A k \in DOMAIN b.checks : getBoxChecks(b)[k] = b.checks[p[k]]
    BY <1>1
<1>3. /\ DOMAIN CompleteBox(b).list = DOMAIN b.checks
      /\ \A k \in DOMAIN b.checks : CompleteBox(b).list[k] = Complete(b, b.checks[p[k]])
    BY <1>2, CompleteBoxIs
<1>4. \A k \in DOMAIN b.checks : b.checks[p[k]] \in ConfCheck
    <2>1. b.checks \in Seq(ConfCheck)
        BY BoxParts
    <2> QED BY <2>1
<1>5. \A k \in DOMAIN b.checks : CompleteBox(b).list[k].display = b.checks[p[k]].display
    BY <1>3, <1>4, CompleteType
<1> QED BY <1>1, <1>3, <1>5

\* A box that is complete has no display name it had not before.
LEMMA CompleteLacks ==
    ASSUME NEW b \in ConfBox, NEW name, ChecksLack(b, name)
    PROVE  ListLacks(CompleteBox(b), name)
<1>1. PICK p \in [DOMAIN b.checks -> DOMAIN b.checks] :
          /\ DOMAIN CompleteBox(b).list = DOMAIN b.checks
          /\ \A k \in DOMAIN b.checks : CompleteBox(b).list[k].display = b.checks[p[k]].display
    BY CompleteDisplays
<1>2. \A k \in DOMAIN b.checks : b.checks[p[k]].display # name
    BY <1>1 DEF ChecksLack, ToSet
<1> QED BY <1>1, <1>2 DEF ListLacks, ToSet

\* checkConfig adds no display name.
LEMMA CheckedLacks ==
    ASSUME NEW f \in Configuration, NEW name, \A b \in ToSet(f.boxes) : ChecksLack(b, name)
    PROVE  \A b \in ToSet(checkConfig(f).conf.boxes) : ListLacks(b, name)
<1> DEFINE w == WithDefaults(f)
           ts == CompleteTeams(w)
           bs == CompleteBoxes(w)
           g == checkConfig(f).conf
<1>1. /\ g = [w EXCEPT !.teams = ts, !.boxes = bs]
      /\ ToSet(bs) = {CompleteBox(b) : b \in ToSet(f.boxes)}
    BY checkConfigIs, Zenon
<1>2. w \in Configuration
    BY WithDefaultsIs
<1>3. \A b \in ToSet(f.boxes) : b \in ConfBox
    <2>1. f.boxes \in Seq(ConfBox)
        BY BoxesIs
    <2> QED BY <2>1 DEF ToSet
<1>4. \A b \in ToSet(f.boxes) : ListLacks(CompleteBox(b), name)
    BY <1>3, CompleteLacks
<1> HIDE DEF w, ts, bs, g
<1>5. g.boxes = bs
    BY <1>1, <1>2 DEF Configuration
<1>6. \A b \in ToSet(g.boxes) : ListLacks(b, name)
    BY <1>1, <1>4, <1>5
<1> QED BY <1>6 DEF g

\* The places of what is added come after those there are, which stay.
LEMMA TakePlaces ==
    ASSUME NEW b \in ConfBox, conf.boxes \in Seq(ConfBox)
    PROVE  \E q \in Nat, off \in Nat :
              /\ \A p \in Places(Boxes) :
                    p \in Places(Take(b)) /\ Take(b)[p[1]].list[p[2]] = Boxes[p[1]].list[p[2]]
              /\ \A n \in DOMAIN b.list :
                    <<q, off + n>> \in Places(Take(b)) /\ Take(b)[q].list[off + n] = b.list[n]
              /\ \A p \in Places(Take(b)) :
                    p \in Places(Boxes) \/ \E n \in DOMAIN b.list : p = <<q, off + n>>
<1> DEFINE B == Boxes
           T == Take(b)
           l == b.list
           Holds(q, off) ==
              /\ \A p \in Places(B) : p \in Places(T) /\ T[p[1]].list[p[2]] = B[p[1]].list[p[2]]
              /\ \A n \in DOMAIN l : <<q, off + n>> \in Places(T) /\ T[q].list[off + n] = l[n]
              /\ \A p \in Places(T) : p \in Places(B) \/ \E n \in DOMAIN l : p = <<q, off + n>>
<1>1. B \in Seq(ConfBox) /\ T \in Seq(ConfBox) /\ l \in Seq(ConfCheck)
    BY TakeIs, BoxParts DEF Boxes
<1>2. /\ DOMAIN B = 1..Len(B) /\ Len(B) \in Nat /\ DOMAIN l = 1..Len(l) /\ Len(l) \in Nat
    BY <1>1
<1>3. /\ \A n \in DOMAIN B : \A m \in DOMAIN B[n].list : <<n, m>> \in Places(B)
      /\ \A p \in Places(B) : /\ p[1] \in DOMAIN B /\ p[2] \in DOMAIN B[p[1]].list
                              /\ p = <<p[1], p[2]>>
      /\ \A n \in DOMAIN T : \A m \in DOMAIN T[n].list : <<n, m>> \in Places(T)
      /\ \A p \in Places(T) : /\ p[1] \in DOMAIN T /\ p[2] \in DOMAIN T[p[1]].list
                              /\ p = <<p[1], p[2]>>
    BY <1>1, PlacesAre
<1>4. \/ T = Append(B, b)
      \/ \E m \in DOMAIN B : T = [B EXCEPT ![m].list = B[m].list \o l]
    BY TakeIs
<1> HIDE DEF B, T, l
<1>5. ASSUME T = Append(B, b)
      PROVE  \E q, off \in Nat : Holds(q, off)
    <2>1. /\ DOMAIN T = 1..(Len(B) + 1) /\ T[Len(B) + 1] = b
          /\ \A n \in DOMAIN B : n \in DOMAIN T /\ T[n] = B[n]
        BY <1>1, <1>2, <1>5
    <2>2. \A n \in DOMAIN T : n \in DOMAIN B \/ n = Len(B) + 1
        BY <1>2, <2>1
    <2>3. Len(B) + 1 \in DOMAIN T /\ T[Len(B) + 1].list = l
        BY <1>2, <2>1 DEF l
    <2>4. \A n \in DOMAIN l : 0 + n = n
        BY <1>2
    <2>5. Holds(Len(B) + 1, 0)
        BY <1>3, <2>1, <2>2, <2>3, <2>4
    <2>6. Len(B) + 1 \in Nat /\ 0 \in Nat
        BY <1>2
    <2> HIDE DEF Holds
    <2> QED BY <2>5, <2>6
<1>6. ASSUME NEW m \in DOMAIN B, T = [B EXCEPT ![m].list = B[m].list \o l]
      PROVE  \E q, off \in Nat : Holds(q, off)
    <2> DEFINE old == B[m].list
               new == old \o l
               box == [B[m] EXCEPT !.list = new]
    <2>1. T = [B EXCEPT ![m] = box]
        BY <1>6, Zenon
    <2>2. B[m] \in ConfBox /\ old \in Seq(ConfCheck)
        BY <1>1, BoxParts
    <2> HIDE DEF old
    <2>3. /\ Len(old) \in Nat /\ DOMAIN old = 1..Len(old) /\ DOMAIN new = 1..(Len(old) + Len(l))
          /\ \A k \in DOMAIN old : new[k] = old[k]
          /\ \A k \in DOMAIN l : new[Len(old) + k] = l[k]
        <3>1. /\ Len(old) \in Nat /\ DOMAIN old = 1..Len(old)
              /\ DOMAIN new = 1..(Len(old) + Len(l))
            BY <1>1, <1>2, <2>2
        <3>2. \A k \in 1..(Len(old) + Len(l)) :
                  new[k] = IF k <= Len(old) THEN old[k] ELSE l[k - Len(old)]
            BY <1>1, <1>2, <2>2
        <3> HIDE DEF new
        <3>3. \A k \in DOMAIN old : new[k] = old[k]
            BY <1>2, <3>1, <3>2
        <3>4. \A k \in DOMAIN l : new[Len(old) + k] = l[k]
            <4> TAKE k \in DOMAIN l
            <4>1. /\ Len(old) + k \in 1..(Len(old) + Len(l)) /\ ~(Len(old) + k <= Len(old))
                  /\ Len(old) + k - Len(old) = k
                BY <1>2, <3>1
            <4> QED BY <3>2, <4>1
        <3> QED BY <3>1, <3>3, <3>4
    <2> HIDE DEF new
    <2>4. \A k \in DOMAIN new : k \in DOMAIN old \/ \E n \in DOMAIN l : k = Len(old) + n
        <3> SUFFICES ASSUME NEW k \in DOMAIN new, k \notin DOMAIN old
                     PROVE  \E n \in DOMAIN l : k = Len(old) + n
            OBVIOUS
        <3>1. k - Len(old) \in DOMAIN l /\ k = Len(old) + (k - Len(old))
            BY <1>2, <2>3
        <3> QED BY <3>1
    <2>5. box.list = new
        BY <2>2 DEF ConfBox
    <2>6. /\ DOMAIN T = DOMAIN B /\ T[m].list = new
          /\ \A n \in DOMAIN B : n # m => T[n] = B[n]
        BY <1>2, <2>1, <2>5
    <2>7. \A k \in DOMAIN old : k \in DOMAIN new
        BY <1>2, <2>3
    <2>8. \A k \in DOMAIN l : Len(old) + k \in DOMAIN new
        BY <1>2, <2>3
    <2>9. \A p \in Places(B) : p \in Places(T) /\ T[p[1]].list[p[2]] = B[p[1]].list[p[2]]
        <3> TAKE p \in Places(B)
        <3>1. p[1] \in DOMAIN B /\ p[2] \in DOMAIN B[p[1]].list /\ p = <<p[1], p[2]>>
            BY <1>3
        <3>2. p[2] \in DOMAIN T[p[1]].list /\ T[p[1]].list[p[2]] = B[p[1]].list[p[2]]
            BY <2>3, <2>6, <2>7, <3>1 DEF old
        <3> QED BY <1>3, <2>6, <3>1, <3>2
    <2>10. \A n \in DOMAIN l : <<m, Len(old) + n>> \in Places(T) /\ T[m].list[Len(old) + n] = l[n]
        BY <1>3, <2>3, <2>6, <2>8
    <2>11. \A p \in Places(T) : p \in Places(B) \/ \E n \in DOMAIN l : p = <<m, Len(old) + n>>
        <3> TAKE p \in Places(T)
        <3>1. p[1] \in DOMAIN B /\ p[2] \in DOMAIN T[p[1]].list /\ p = <<p[1], p[2]>>
            BY <1>3, <2>6
        <3>2. CASE p[1] # m
            BY <1>3, <2>6, <3>1, <3>2
        <3>3. CASE p[1] = m
            <4>1. p[2] \in DOMAIN old \/ \E n \in DOMAIN l : p[2] = Len(old) + n
                BY <2>4, <2>6, <3>1, <3>3
            <4>2. p[2] \in DOMAIN old => p \in Places(B)
                BY <1>3, <3>1, <3>3 DEF old
            <4> QED BY <3>1, <3>3, <4>1, <4>2
        <3> QED BY <3>2, <3>3
    <2>12. m \in Nat /\ Len(old) \in Nat
        BY <1>2, <2>3
    <2>13. Holds(m, Len(old))
        BY <2>9, <2>10, <2>11
    <2> HIDE DEF Holds
    <2> QED BY <2>12, <2>13
<1>7. \E q, off \in Nat : Holds(q, off)
    BY <1>2, <1>4, <1>5, <1>6 DEF B, T, l
<1> QED BY <1>7 DEF B, T, l

\* What is added has a name once, or not at all.
LEMMA TakeHits ==
    ASSUME NEW b \in ConfBox, conf.boxes \in Seq(ConfBox), NEW name
    PROVE  /\ (\A n \in DOMAIN b.list : b.list[n].display # name) =>
                  Hits(Take(b), name) = Hits(Boxes, name)
           /\ \A n \in DOMAIN b.list :
                  /\ Hits(Boxes, name) = {} /\ b.list[n].display = name
                  /\ \A m \in DOMAIN b.list : b.list[m].display = name => m = n
                  => Cardinality(Hits(Take(b), name)) = 1
<1> DEFINE T == Take(b)
<1>1. PICK q \in Nat, off \in Nat :
          /\ \A p \in Places(Boxes) :
                p \in Places(T) /\ T[p[1]].list[p[2]] = Boxes[p[1]].list[p[2]]
          /\ \A n \in DOMAIN b.list :
                <<q, off + n>> \in Places(T) /\ T[q].list[off + n] = b.list[n]
          /\ \A p \in Places(T) :
                p \in Places(Boxes) \/ \E n \in DOMAIN b.list : p = <<q, off + n>>
    BY TakePlaces
<1> HIDE DEF T
<1>2. \A n \in DOMAIN b.list : <<q, off + n>>[1] = q /\ <<q, off + n>>[2] = off + n
    OBVIOUS
<1>3. ASSUME \A n \in DOMAIN b.list : b.list[n].display # name
      PROVE  Hits(T, name) = Hits(Boxes, name)
    <2>1. \A p \in Places(Boxes) : p \in Hits(T, name) <=> p \in Hits(Boxes, name)
        BY <1>1 DEF Hits
    <2>2. \A p \in Hits(T, name) : p \in Places(Boxes)
        <3> TAKE p \in Hits(T, name)
        <3>1. p \in Places(T) /\ T[p[1]].list[p[2]].display = name
            BY DEF Hits
        <3>2. ASSUME NEW n \in DOMAIN b.list, p = <<q, off + n>> PROVE FALSE
            <4>1. T[q].list[off + n].display = name
                BY <3>1, <3>2
            <4> QED BY <1>1, <1>3, <4>1
        <3> QED BY <1>1, <3>1, <3>2
    <2>3. \A p \in Hits(Boxes, name) : p \in Places(Boxes)
        BY DEF Hits
    <2> QED BY <2>1, <2>2, <2>3
<1>4. ASSUME NEW n \in DOMAIN b.list, Hits(Boxes, name) = {}, b.list[n].display = name,
             \A m \in DOMAIN b.list : b.list[m].display = name => m = n
      PROVE  Cardinality(Hits(T, name)) = 1
    <2>1. <<q, off + n>> \in Hits(T, name)
        <3>1. T[q].list[off + n].display = name /\ <<q, off + n>> \in Places(T)
            BY <1>1, <1>4
        <3> QED BY <3>1 DEF Hits
    <2>2. ASSUME NEW p \in Hits(T, name) PROVE p = <<q, off + n>>
        <3>1. p \in Places(T) /\ T[p[1]].list[p[2]].display = name
            BY DEF Hits
        <3>2. p \notin Places(Boxes)
            BY <1>1, <1>4, <3>1 DEF Hits
        <3>3. PICK m \in DOMAIN b.list : p = <<q, off + m>>
            BY <1>1, <3>1, <3>2
        <3>4. T[q].list[off + m].display = name
            BY <3>1, <3>3
        <3>5. m = n
            BY <1>1, <1>4, <3>4
        <3> QED BY <3>3, <3>5
    <2> DEFINE only == <<q, off + n>>
    <2>3. Hits(T, name) = {only}
        BY <2>1, <2>2
    <2> HIDE DEF only
    <2> QED BY <2>3, FS_Singleton
<1> QED BY <1>3, <1>4 DEF T

\* The display name of a delayed box's first check is its own.
LEMMA LabelIs ==
    ASSUME Types, NEW k \in DOMAIN trial.delayed
    PROVE  /\ trial.delayed[k] \in ConfBox /\ 1 \in DOMAIN trial.delayed[k].checks
           /\ \A b \in ToSet(trial.conf.boxes) : ChecksLack(b, Label(k))
           /\ \A j \in DOMAIN trial.delayed : j # k => ChecksLack(trial.delayed[j], Label(k))
           /\ \A n \in DOMAIN trial.delayed[k].checks :
                 trial.delayed[k].checks[n].display = Label(k) => n = 1
           /\ \A j \in DOMAIN trial.delayed : trial.delayed[j] = trial.delayed[k] => j = k
           /\ k \in Ids
<1>1. trial \in Trials /\ trial.delayed \in Seq(ConfBox) /\ Len(trial.delayed) <= MaxDelayed
    BY TrialIs DEF Types
<1>2. MaxDelayed \in Nat
    BY TrialsAssumption
<1>3. k \in Ids
    BY <1>1, <1>2 DEF Ids
<1>4. /\ trial.delayed[k].checks # <<>>
      /\ \A b \in ToSet(trial.conf.boxes) : \A c \in ToSet(b.checks) :
            c.display # trial.delayed[k].checks[1].display
      /\ \A j \in DOMAIN trial.delayed : \A n \in DOMAIN trial.delayed[j].checks :
            trial.delayed[j].checks[n].display = trial.delayed[k].checks[1].display =>
                j = k /\ n = 1
    BY <1>1, LabelsAssumption, Zenon
<1>5. trial.delayed[k] \in ConfBox
    BY <1>1
<1>6. 1 \in DOMAIN trial.delayed[k].checks
    <2>1. trial.delayed[k].checks \in Seq(ConfCheck)
        BY <1>5, BoxParts
    <2> QED BY <1>4, <2>1
<1>7. \A b \in ToSet(trial.conf.boxes) : ChecksLack(b, Label(k))
    BY <1>4 DEF ChecksLack, Label
<1>8. \A j \in DOMAIN trial.delayed : j # k => ChecksLack(trial.delayed[j], Label(k))
    BY <1>4 DEF ChecksLack, Label, ToSet
<1>9. \A n \in DOMAIN trial.delayed[k].checks :
          trial.delayed[k].checks[n].display = Label(k) => n = 1
    BY <1>4 DEF Label
<1>10. \A j \in DOMAIN trial.delayed : trial.delayed[j] = trial.delayed[k] => j = k
    BY <1>4, <1>6
<1> QED BY <1>3, <1>5, <1>6, <1>7, <1>8, <1>9, <1>10

\* The list of a box that is complete has its label once, and no other's.
LEMMA CompleteLabels ==
    ASSUME Types, NEW k \in DOMAIN trial.delayed
    PROVE  LET l == CompleteBox(trial.delayed[k]).list
           IN  /\ \E n \in DOMAIN l : /\ l[n].display = Label(k)
                                      /\ \A m \in DOMAIN l : l[m].display = Label(k) => m = n
               /\ \A j \in DOMAIN trial.delayed : j # k =>
                     \A n \in DOMAIN l : l[n].display # Label(j)
<1> DEFINE b == trial.delayed[k]
           l == CompleteBox(b).list
<1>1. /\ b \in ConfBox /\ 1 \in DOMAIN b.checks /\ b.checks[1].display = Label(k)
      /\ \A n \in DOMAIN b.checks : b.checks[n].display = Label(k) => n = 1
    BY LabelIs DEF Label
<1>2. \A j \in DOMAIN trial.delayed : j # k => ChecksLack(b, Label(j))
    BY LabelIs
<1> HIDE DEF b
<1>3. PICK p \in [DOMAIN b.checks -> DOMAIN b.checks] :
          /\ \A j, m \in DOMAIN b.checks : p[j] = p[m] => j = m
          /\ \A i \in DOMAIN b.checks : \E m \in DOMAIN b.checks : p[m] = i
          /\ DOMAIN l = DOMAIN b.checks
          /\ \A m \in DOMAIN b.checks : l[m].display = b.checks[p[m]].display
    BY <1>1, CompleteDisplays
<1> HIDE DEF l
<1>4. PICK n \in DOMAIN b.checks : p[n] = 1
    BY <1>1, <1>3
<1>5. l[n].display = Label(k) /\ n \in DOMAIN l
    BY <1>1, <1>3, <1>4
<1>6. ASSUME NEW m \in DOMAIN l, l[m].display = Label(k)
      PROVE  m = n
    <2>1. m \in DOMAIN b.checks /\ p[m] \in DOMAIN b.checks
        BY <1>3
    <2>2. b.checks[p[m]].display = Label(k)
        BY <1>3, <1>6, <2>1
    <2>3. p[m] = 1
        BY <1>1, <2>1, <2>2
    <2> QED BY <1>3, <1>4, <2>1, <2>3
<1>7. \A j \in DOMAIN trial.delayed : j # k => \A m \in DOMAIN l : l[m].display # Label(j)
    <2>1. \A m \in DOMAIN l : b.checks[p[m]] \in ToSet(b.checks)
        BY <1>3 DEF ToSet
    <2>2. \A m \in DOMAIN l : l[m].display = b.checks[p[m]].display
        BY <1>3
    <2>3. \A j \in DOMAIN trial.delayed : j # k =>
              \A c \in ToSet(b.checks) : c.display # Label(j)
        BY <1>2, Zenon DEF ChecksLack
    <2> QED BY <2>1, <2>2, <2>3
<1> QED BY <1>5, <1>6, <1>7 DEF l, b

\* Where delayed boxes and their labels are.
LabelInv ==
    /\ spc \in {"main", "load"} => delayed = <<>>
    /\ \A i, j \in DOMAIN delayed : delayed[i] = delayed[j] => i = j
    /\ spc \in {"main", "load", "score"} =>
           \A k \in DOMAIN trial.delayed : \A b \in ToSet(Boxes) : ListLacks(b, Label(k))
    /\ \A k \in Waiting : Hits(Boxes, Label(k)) = {}

IInv == Inv /\ LabelInv

\* AddStep when a box leaves: which one, and what comes of its checks.
LEMMA LeavingIs ==
    ASSUME Inv, LabelInv, AddStep, Due(delayed[idx])
    PROVE  \E k \in DOMAIN trial.delayed :
              /\ k \in Waiting /\ trial.delayed[k] = delayed[idx]
              /\ Waiting' = Waiting \ {k}
              /\ \A i, j \in DOMAIN delayed' : delayed'[i] = delayed'[j] => i = j
              /\ \A j \in DOMAIN trial.delayed \ {k} :
                    Hits(Boxes', Label(j)) = Hits(Boxes, Label(j))
              /\ Cardinality(Hits(Boxes', Label(k))) = IF Valid(trial.delayed[k]) THEN 1 ELSE 0
<1>1. Types /\ ListInv /\ ConfInv /\ conf \in Configuration /\ conf.boxes \in Seq(ConfBox)
    BY BoxesIs DEF Inv, Types
<1>2. /\ idx \in DOMAIN delayed /\ delayed \in Seq(ConfBox) /\ trial' = trial
      /\ delayed' = Without(idx)
      /\ conf' = IF validateChecks(<<delayed[idx]>>) # "ok" THEN conf
                 ELSE [conf EXCEPT !.boxes = Take(CompleteBox(delayed[idx]))]
    BY <1>1 DEF AddStep, ListInv
<1>3. PICK k \in DOMAIN trial.delayed : delayed[idx] = trial.delayed[k]
    BY <1>1, <1>2 DEF ListInv
<1>4. Len(delayed) \in Nat /\ DOMAIN delayed = 1..Len(delayed) /\ idx \in Nat
    BY <1>2
<1>5. /\ DOMAIN delayed' = 1..(Len(delayed) - 1)
      /\ \A j \in 1..(Len(delayed) - 1) :
            delayed'[j] = IF j = idx THEN delayed[Len(delayed)] ELSE delayed[j]
    BY <1>2, WithoutIs
<1>6. \A i, j \in DOMAIN delayed : delayed[i] = delayed[j] => i = j
    BY DEF LabelInv
<1> DEFINE from(j) == IF j = idx THEN Len(delayed) ELSE j
<1>7. \A j \in DOMAIN delayed' : /\ from(j) \in DOMAIN delayed /\ from(j) # idx
                                 /\ delayed'[j] = delayed[from(j)]
    BY <1>2, <1>4, <1>5
<1>8. \A i, j \in DOMAIN delayed' : from(i) = from(j) => i = j
    BY <1>4, <1>5
<1>9. \A l \in DOMAIN delayed : l # idx => \E j \in DOMAIN delayed' : from(j) = l
    <2> SUFFICES ASSUME NEW l \in DOMAIN delayed, l # idx
                 PROVE  \E j \in DOMAIN delayed' : from(j) = l
        OBVIOUS
    <2>1. CASE l = Len(delayed)
        <3>1. idx \in DOMAIN delayed' /\ from(idx) = l
            BY <1>2, <1>4, <1>5, <2>1
        <3> QED BY <3>1
    <2>2. CASE l # Len(delayed)
        <3>1. l \in DOMAIN delayed' /\ from(l) = l
            BY <1>4, <1>5, <2>2
        <3> QED BY <3>1
    <2> QED BY <2>1, <2>2
<1> HIDE DEF from
<1>10. \A i, j \in DOMAIN delayed' : delayed'[i] = delayed'[j] => i = j
    BY <1>6, <1>7, <1>8
<1>11. /\ \A j \in Waiting : \E l \in DOMAIN delayed : delayed[l] = trial.delayed[j]
       /\ \A l \in DOMAIN delayed : \A j \in DOMAIN trial.delayed :
             delayed[l] = trial.delayed[j] => j \in Waiting
       /\ Waiting' = {j \in DOMAIN trial.delayed : \E l \in DOMAIN delayed' : delayed'[l] = trial.delayed[j]}
    BY <1>2 DEF Waiting, ToSet
<1>12. \A j \in DOMAIN trial.delayed : trial.delayed[j] = trial.delayed[k] => j = k
    BY <1>1, LabelIs
<1>13. k \in Waiting
    BY <1>2, <1>3, <1>11
<1>14. Waiting' \subseteq Waiting \ {k}
    <2> SUFFICES ASSUME NEW j \in Waiting' PROVE j \in Waiting /\ j # k
        OBVIOUS
    <2>1. PICK l \in DOMAIN delayed' : delayed'[l] = trial.delayed[j]
        BY <1>11
    <2>2. from(l) \in DOMAIN delayed /\ from(l) # idx /\ delayed[from(l)] = trial.delayed[j]
        BY <1>7, <2>1
    <2>3. j \in DOMAIN trial.delayed
        BY <1>11
    <2> QED BY <1>2, <1>3, <1>6, <1>11, <2>2, <2>3
<1>15. \A j \in Waiting \ {k} : j \in Waiting'
    <2> SUFFICES ASSUME NEW j \in Waiting, j # k PROVE j \in Waiting'
        OBVIOUS
    <2>1. PICK l \in DOMAIN delayed : delayed[l] = trial.delayed[j]
        BY <1>11
    <2>2. j \in DOMAIN trial.delayed
        BY DEF Waiting
    <2>3. l # idx
        BY <1>3, <1>12, <2>1, <2>2
    <2>4. PICK i \in DOMAIN delayed' : from(i) = l
        BY <1>9, <2>1, <2>3
    <2>5. delayed'[i] = trial.delayed[j]
        BY <1>7, <2>1, <2>4
    <2> QED BY <1>11, <2>2, <2>5
<1> DEFINE b == trial.delayed[k]
           v == validateChecks(<<delayed[idx]>>)
           taken == Take(CompleteBox(b))
<1>16. v = BoxVerdict(b) /\ b \in ConfBox
    BY <1>1, <1>2, <1>3, WaitingBoxIs, Zenon
<1>17. (v = "ok") <=> Valid(b)
    <2>1. (v = "ok") <=> b.ip # NoName /\ \A c \in ToSet(b.checks) : CheckVerdict(c) = "ok"
        BY <1>16, BoxVerdictIs
    <2> HIDE DEF v, b
    <2> QED BY <2>1 DEF Valid, ToSet
<1>18. conf' = IF v # "ok" THEN conf ELSE [conf EXCEPT !.boxes = taken]
    BY <1>2, <1>3
<1>19. CompleteBox(b) \in ConfBox /\ taken \in Seq(ConfBox)
    BY <1>1, <1>16, CompleteBoxIs, TakeIs
<1>20. Hits(Boxes, Label(k)) = {}
    BY <1>13 DEF LabelInv
<1>21. /\ Cardinality(Hits(taken, Label(k))) = 1
       /\ \A j \in DOMAIN trial.delayed : j # k => Hits(taken, Label(j)) = Hits(Boxes, Label(j))
    <2> DEFINE c == CompleteBox(b)
    <2>1. /\ \E n \in DOMAIN c.list : /\ c.list[n].display = Label(k)
                                      /\ \A m \in DOMAIN c.list : c.list[m].display = Label(k) => m = n
          /\ \A j \in DOMAIN trial.delayed : j # k =>
                \A n \in DOMAIN c.list : c.list[n].display # Label(j)
        BY <1>1, CompleteLabels
    <2>2. c \in ConfBox
        BY <1>19
    <2> HIDE DEF c, b
    <2>3. taken = Take(c)
        BY DEF c
    <2> HIDE DEF taken
    <2> QED BY <1>1, <1>20, <2>1, <2>2, <2>3, TakeHits
<1> HIDE DEF v, taken, b
<1>22. Boxes' = IF v # "ok" THEN Boxes ELSE taken
    BY <1>1, <1>18, <1>19, BoxesIs DEF Boxes
<1>23. Cardinality({}) = 0
    BY FS_EmptySet
<1>24. Cardinality(Hits(Boxes', Label(k))) = IF Valid(b) THEN 1 ELSE 0
    BY <1>17, <1>20, <1>21, <1>22, <1>23
<1>25. \A j \in DOMAIN trial.delayed \ {k} : Hits(Boxes', Label(j)) = Hits(Boxes, Label(j))
    BY <1>21, <1>22
<1> QED BY <1>3, <1>10, <1>13, <1>14, <1>15, <1>24, <1>25 DEF b

\* The boxes of the file have no label of a delayed box, checked or not.
LEMMA FileBoxesLack ==
    ASSUME Types, NEW k \in DOMAIN trial.delayed
    PROVE  /\ \A b \in ToSet(trial.conf.boxes) : ListLacks(b, Label(k))
           /\ \A b \in ToSet(checkConfig(trial.conf).conf.boxes) : ListLacks(b, Label(k))
<1>1. trial \in Trials /\ trial.conf \in Configuration
    BY TrialIs DEF Types
<1>2. \A b \in ToSet(trial.conf.boxes) : b.list = <<>> /\ ChecksLack(b, Label(k))
    BY <1>1, TrialIs, LabelIs
<1>3. \A b \in ToSet(trial.conf.boxes) : ListLacks(b, Label(k))
    BY <1>2 DEF ListLacks, ToSet
<1> QED BY <1>1, <1>2, <1>3, CheckedLacks

\* While the process is at these steps, the boxes and their lists are left alone.
LEMMA StayLemma ==
    LoopTop \/ BeginRound \/ RunCheck \/ EndRound \/ Wake \/ Tick \/ Reset \/ Pause \/ Resume
        \/ UNCHANGED vars =>
            /\ UNCHANGED <<trial, delayed, conf>>
            /\ spc' = spc \/ (/\ spc \notin {"main", "load", "score"}
                              /\ spc' \notin {"main", "load", "score"})
BY DEF LoopTop, BeginRound, RunCheck, EndRound, Wake, Tick, Reset, Pause, Resume, vars

\* Nothing waits at first, and no label is scored.
LEMMA InitLabels == Init => LabelInv
<1> SUFFICES ASSUME Init PROVE LabelInv
    OBVIOUS
<1>1. Types
    BY InitInv DEF Inv
<1>2. delayed = <<>> /\ spc = "main" /\ conf = trial.conf
    BY DEF Init
<1>3. DOMAIN delayed = {} /\ Waiting = {}
    BY <1>2 DEF Waiting, ToSet
<1>4. \A k \in DOMAIN trial.delayed : \A b \in ToSet(Boxes) : ListLacks(b, Label(k))
    BY <1>1, <1>2, FileBoxesLack DEF Boxes
<1> QED BY <1>2, <1>3, <1>4, Zenon DEF LabelInv

\* Every step keeps each label of a box that waits unscored.
LEMMA LabelStep == IInv /\ [Next]_vars => LabelInv'
<1> SUFFICES ASSUME IInv, [Next]_vars PROVE LabelInv'
    OBVIOUS
<1>1. /\ Inv /\ Types /\ ListInv /\ ConfInv /\ LabelInv /\ trial.conf \in Configuration
      /\ conf \in Configuration /\ conf.boxes \in Seq(ConfBox)
    BY TrialIs, BoxesIs DEF IInv, Inv, Types
<1>2. CASE MainCheck
    <2>1. /\ delayed' = delayed /\ trial' = trial /\ delayed = <<>>
          /\ conf' = checkConfig(trial.conf).conf
        BY <1>1, <1>2 DEF MainCheck, ConfInv, LabelInv
    <2>2. DOMAIN delayed' = {} /\ Waiting' = {} /\ delayed' = <<>>
        BY <2>1 DEF Waiting, ToSet
    <2>3. \A k \in DOMAIN trial'.delayed : \A b \in ToSet(Boxes') : ListLacks(b, Label(k)')
        BY <1>1, <2>1, FileBoxesLack DEF Boxes, Label
    <2> QED BY <2>2, <2>3, Zenon DEF LabelInv
<1>3. CASE Restart
    <2>1. delayed' = <<>> /\ trial' = trial /\ conf' = trial.conf
        BY <1>3 DEF Restart
    <2>2. DOMAIN delayed' = {} /\ Waiting' = {}
        BY <2>1 DEF Waiting, ToSet
    <2>3. \A k \in DOMAIN trial'.delayed : \A b \in ToSet(Boxes') : ListLacks(b, Label(k)')
        BY <1>1, <2>1, FileBoxesLack DEF Boxes, Label
    <2> QED BY <2>1, <2>2, <2>3, Zenon DEF LabelInv
<1>4. CASE LoadDelayed
    <2>1. trial' = trial /\ conf' = conf /\ spc = "load" /\ delayed = <<>>
        BY <1>1, <1>4 DEF LoadDelayed, LabelInv
    <2>2. \A k \in DOMAIN trial.delayed : \A b \in ToSet(Boxes) : ListLacks(b, Label(k))
        BY <1>1, <2>1 DEF LabelInv
    <2>3. \A k \in DOMAIN trial.delayed : Hits(Boxes, Label(k)) = {}
        BY <1>1, <2>2, NoHits DEF Boxes
    <2>4. /\ \A k \in DOMAIN trial'.delayed : \A b \in ToSet(Boxes') : ListLacks(b, Label(k)')
          /\ \A k \in DOMAIN trial'.delayed : Hits(Boxes', Label(k)') = {}
        BY <2>1, <2>2, <2>3 DEF Boxes, Label
    <2>5. \A k \in Waiting' : k \in DOMAIN trial'.delayed
        BY DEF Waiting
    <2>6. \A i, j \in DOMAIN delayed' : delayed'[i] = delayed'[j] => i = j
        <3>1. CASE delayed' = delayed
            <4>1. DOMAIN delayed' = {}
                BY <2>1, <3>1
            <4> QED BY <4>1, Zenon
        <3>2. CASE delayed' = trial.delayed
            BY <1>1, <3>2, LabelIs
        <3>3. delayed' = delayed \/ delayed' = trial.delayed
            BY <1>4 DEF LoadDelayed
        <3> QED BY <3>1, <3>2, <3>3
    <2>7. spc' \notin {"main", "load"}
        BY <1>4 DEF LoadDelayed
    <2> QED BY <2>4, <2>5, <2>6, <2>7, Zenon DEF LabelInv
<1>5. CASE ScoreCheck
    <2>1. /\ trial' = trial /\ delayed' = delayed /\ spc = "score"
          /\ conf' = checkConfig(conf).conf
          /\ checkConfig(trial.conf).verdict = "ok" /\ conf = checkConfig(trial.conf).conf
        BY <1>1, <1>5 DEF ScoreCheck, ConfInv
    <2>2. checkConfig(conf).verdict = "ok" /\ ToSet(conf'.boxes) = ToSet(conf.boxes)
        BY <1>1, <2>1, SecondCheckKeeps, Zenon DEF Same
    <2>3. conf'.boxes \in Seq(ConfBox)
        <3>1. checkConfig(conf).conf \in Configuration
            BY <1>1, checkConfigIs, Zenon
        <3> QED BY <2>1, <3>1, BoxesIs
    <2>4. \A k \in DOMAIN trial.delayed : \A b \in ToSet(Boxes') : ListLacks(b, Label(k))
        BY <1>1, <2>1, <2>2 DEF LabelInv, Boxes
    <2>5. \A k \in DOMAIN trial.delayed : Hits(Boxes', Label(k)) = {}
        BY <2>3, <2>4, NoHits DEF Boxes
    <2>6. spc' = "top"
        BY <1>5, <2>2 DEF ScoreCheck, Onward
    <2>7. \A k \in Waiting' : k \in DOMAIN trial.delayed
        BY <2>1 DEF Waiting
    <2>8. \A k \in DOMAIN trial.delayed : Label(k)' = Label(k)
        BY <2>1 DEF Label
    <2> QED BY <1>1, <2>1, <2>5, <2>6, <2>7, <2>8 DEF LabelInv
<1>6. CASE AddStep /\ Due(delayed[idx])
    <2>1. PICK k \in DOMAIN trial.delayed :
              /\ Waiting' = Waiting \ {k}
              /\ \A i, j \in DOMAIN delayed' : delayed'[i] = delayed'[j] => i = j
              /\ \A j \in DOMAIN trial.delayed \ {k} :
                    Hits(Boxes', Label(j)) = Hits(Boxes, Label(j))
        BY <1>1, <1>6, LeavingIs
    <2>2. trial' = trial /\ spc' \notin {"main", "load", "score"}
        BY <1>6 DEF AddStep
    <2>3. Waiting \subseteq DOMAIN trial.delayed
        BY DEF Waiting
    <2>4. \A j \in Waiting' : Hits(Boxes', Label(j)) = {}
        BY <1>1, <2>1, <2>3 DEF LabelInv
    <2>5. \A j \in Waiting' : Hits(Boxes', Label(j)') = {}
        BY <2>2, <2>4 DEF Label
    <2> QED BY <2>1, <2>2, <2>5 DEF LabelInv
<1>7. ASSUME UNCHANGED <<trial, delayed, conf>>,
             spc' = spc \/ spc' \notin {"main", "load", "score"}
      PROVE  LabelInv'
    <2>1. Waiting' = Waiting /\ Boxes' = Boxes /\ \A k : Label(k)' = Label(k)
        BY <1>7 DEF Waiting, Boxes, Label
    <2> QED BY <1>1, <1>7, <2>1 DEF LabelInv
<1>8. CASE AddStep /\ ~Due(delayed[idx])
    <2>1. UNCHANGED <<trial, delayed, conf>> /\ spc' = spc
        BY <1>8 DEF AddStep
    <2> QED BY <1>7, <2>1
<1> QED BY <1>2, <1>3, <1>4, <1>5, <1>6, <1>7, <1>8, StayLemma, Zenon DEF Next, LoopStep

\* The invariant with the labels of the boxes that wait.
THEOREM LabelInvariance == Spec => []IInv
<1>1. Init => LabelInv
    BY InitLabels
<1>2. IInv /\ [Next]_vars => LabelInv'
    BY LabelStep
<1> QED BY <1>1, <1>2, Invariant, PTL DEF Spec, IInv

\* What Standing counts: a box waits once or not at all.
StandingKnown ==
    \A k \in Ids :
        Standing(k) =
            IF k \notin DOMAIN trial.delayed THEN [waiting |-> 0, scored |-> 0]
            ELSE [waiting |-> IF k \in Waiting THEN 1 ELSE 0,
                  scored |-> Cardinality(Hits(Boxes, Label(k)))]

\* A box waits once or not at all, and its standing is whether it waits and its hits.
LEMMA StandingIs == IInv => StandingKnown
<1> SUFFICES ASSUME IInv, NEW k \in Ids, k \in DOMAIN trial.delayed
             PROVE  Standing(k) = [waiting |-> IF k \in Waiting THEN 1 ELSE 0,
                                   scored |-> Cardinality(Hits(Boxes, Label(k)))]
    BY DEF StandingKnown, Standing
<1>1. \A i, j \in DOMAIN delayed : delayed[i] = delayed[j] => i = j
    BY DEF IInv, LabelInv
<1> DEFINE at == {j \in DOMAIN delayed : delayed[j] = trial.delayed[k]}
<1>2. Cardinality(at) = IF k \in Waiting THEN 1 ELSE 0
    <2>1. CASE k \in Waiting
        <3>1. PICK j \in DOMAIN delayed : delayed[j] = trial.delayed[k]
            BY <2>1 DEF Waiting, ToSet
        <3>2. at = {j}
            BY <1>1, <3>1
        <3> HIDE DEF at
        <3> QED BY <2>1, <3>2, FS_Singleton
    <2>2. CASE k \notin Waiting
        <3>1. at = {}
            BY <2>2 DEF Waiting, ToSet
        <3> HIDE DEF at
        <3> QED BY <2>2, <3>1, FS_EmptySet
    <2> QED BY <2>1, <2>2
<1>3. Standing(k) = [waiting |-> Cardinality(at), scored |-> Cardinality(Hits(Boxes, Label(k)))]
    BY Zenon DEF Standing, Hits, Label
<1> HIDE DEF at
<1> QED BY <1>2, <1>3

-----------------------------------------------------------------------------
(* The steps of Timetable *)

\* What the refinement mapping of Plan substitutes.
Loaded == spc \notin {"main", "load"}
Place == [k \in Ids |-> Standing(k)]
DueIds == {k \in Ids \cap DOMAIN trial.delayed : Due(trial.delayed[k])}
ValidIds == {k \in Ids \cap DOMAIN trial.delayed : Valid(trial.delayed[k])}

\* A step that leaves boxes where they are is an Elapse of the plan.
LEMMA ElapseMaps ==
    ASSUME trial' = trial, Loaded' = Loaded, Place' = Place
    PROVE  Plan!Elapse
<1>1. ValidIds' = ValidIds /\ DueIds' \subseteq Ids
    BY DEF ValidIds, DueIds, Valid
<1> QED BY <1>1, Zenon DEF Plan!Elapse, Loaded, Place, DueIds, ValidIds

\* Loading the list is a Load of the plan.
LEMMA LoadMaps ==
    ASSUME ~Loaded, Loaded', UNCHANGED <<trial, clock, startTime>>,
           Place' \in [Ids -> {Plan!Nowhere, Plan!Waiting}]
    PROVE  Plan!Load
<1>1. ValidIds' = ValidIds /\ DueIds' = DueIds
    BY DEF ValidIds, DueIds, Valid, Due, InjectTime
<1> QED BY <1>1, Zenon DEF Plan!Load, Loaded, Place, DueIds, ValidIds

\* A restart is a Restart of the plan.
LEMMA RestartMaps ==
    ASSUME trial' = trial, ~Loaded', Place' = [k \in Ids |-> Plan!Nowhere]
    PROVE  Plan!Restart
<1>1. ValidIds' = ValidIds /\ DueIds' \subseteq Ids
    BY DEF ValidIds, DueIds, Valid
<1> QED BY <1>1, Zenon DEF Plan!Restart, Loaded, Place, DueIds, ValidIds

\* A box that leaves the list is a Leave of the plan.
LEMMA LeaveMaps ==
    ASSUME NEW k \in DueIds, UNCHANGED <<trial, clock, startTime>>, Loaded' = Loaded,
           Place[k] = Plan!Waiting,
           Place' = [Place EXCEPT ![k] = IF k \in ValidIds THEN Plan!Scored ELSE Plan!Nowhere]
    PROVE  Plan!Leave(k)
<1>1. ValidIds' = ValidIds /\ DueIds' = DueIds
    BY DEF ValidIds, DueIds, Valid, Due, InjectTime
<1> QED BY <1>1, Zenon DEF Plan!Leave, Loaded, Place, DueIds, ValidIds

\* Nothing waits, and no label is scored.
LEMMA NowhereMaps ==
    ASSUME StandingKnown, delayed = <<>>,
           \A k \in DOMAIN trial.delayed : Hits(Boxes, Label(k)) = {}
    PROVE  Place = [k \in Ids |-> Plan!Nowhere]
<1>1. Waiting = {}
    BY DEF Waiting, ToSet
<1>2. Cardinality({}) = 0
    BY FS_EmptySet
<1>3. \A k \in Ids : Standing(k) = Plan!Nowhere
    BY <1>1, <1>2 DEF StandingKnown, Plan!Nowhere
<1> QED BY <1>3 DEF Place

\* After a step, too.
LEMMA StandingNext == IInv' => StandingKnown'
BY StandingIs, PTL

\* Every step is a step of the plan, or changes nothing of it.
LEMMA MapStep == IInv /\ IInv' /\ [Next]_vars => [Plan!Next]_(Plan!vars)
<1> SUFFICES ASSUME IInv, IInv', [Next]_vars
             PROVE  Plan!Next
    BY Zenon
<1>1. /\ Inv /\ Types /\ ListInv /\ ConfInv /\ LabelInv /\ trial \in Trials
      /\ trial.conf \in Configuration /\ conf \in Configuration /\ conf.boxes \in Seq(ConfBox)
    BY TrialIs, BoxesIs DEF IInv, Inv, Types
<1>2. StandingKnown /\ StandingKnown'
    BY StandingIs, StandingNext
<1>3. ASSUME UNCHANGED <<trial, delayed, conf>>, Loaded' = Loaded PROVE Plan!Next
    <2>1. \A k \in Ids : Standing(k)' = Standing(k)
        BY <1>3 DEF Standing, Places, Boxes
    <2>2. Place' = Place
        BY <2>1 DEF Place, Ids
    <2> QED BY <1>3, <2>2, ElapseMaps, Zenon DEF Plan!Next
<1>4. CASE MainCheck
    <2>1. /\ delayed' = <<>> /\ UNCHANGED <<trial, clock, startTime>> /\ spc = "main"
          /\ conf = trial.conf /\ delayed = <<>> /\ conf' = checkConfig(trial.conf).conf
        BY <1>1, <1>4 DEF MainCheck, ConfInv, LabelInv
    <2>2. conf'.boxes \in Seq(ConfBox)
        <3>1. checkConfig(trial.conf).conf \in Configuration
            BY <1>1, checkConfigIs, Zenon
        <3> QED BY <2>1, <3>1, BoxesIs
    <2>3. \A k \in DOMAIN trial.delayed : Hits(Boxes, Label(k)) = {} /\ Hits(Boxes', Label(k)) = {}
        <3> TAKE k \in DOMAIN trial.delayed
        <3>1. \A b \in ToSet(Boxes) : ListLacks(b, Label(k))
            BY <1>1, <2>1, FileBoxesLack DEF Boxes
        <3>2. \A b \in ToSet(Boxes') : ListLacks(b, Label(k))
            BY <1>1, <2>1, FileBoxesLack DEF Boxes
        <3> QED BY <1>1, <2>2, <3>1, <3>2, NoHits DEF Boxes
    <2>4. Place = [k \in Ids |-> Plan!Nowhere]
        BY <1>2, <2>1, <2>3, NowhereMaps
    <2>5. Place' = [k \in Ids |-> Plan!Nowhere]
        <3>1. Waiting' = {} /\ \A k : Label(k)' = Label(k)
            BY <2>1 DEF Waiting, ToSet, Label
        <3>2. Cardinality({}) = 0
            BY FS_EmptySet
        <3>3. \A k \in Ids : Standing(k)' = Plan!Nowhere
            BY <1>2, <2>1, <2>3, <3>1, <3>2 DEF StandingKnown, Plan!Nowhere, Ids
        <3> QED BY <3>3 DEF Place, Ids
    <2>6. CASE Loaded'
        <3>1. Place' \in [Ids -> {Plan!Nowhere, Plan!Waiting}]
            BY <2>5
        <3> QED BY <2>1, <2>6, <3>1, LoadMaps, Zenon DEF Plan!Next, Loaded
    <2>7. CASE ~Loaded'
        BY <2>1, <2>5, <2>7, RestartMaps, Zenon DEF Plan!Next
    <2> QED BY <2>6, <2>7
<1>5. CASE Restart
    <2>1. delayed' = <<>> /\ trial' = trial /\ conf' = trial.conf /\ spc' = "main"
        BY <1>5 DEF Restart
    <2>2. \A k \in DOMAIN trial.delayed : Hits(Boxes', Label(k)) = {}
        <3> TAKE k \in DOMAIN trial.delayed
        <3>1. \A b \in ToSet(Boxes') : ListLacks(b, Label(k))
            BY <1>1, <2>1, FileBoxesLack DEF Boxes
        <3>2. Boxes' \in Seq(ConfBox)
            BY <1>1, <2>1, BoxesIs DEF Boxes
        <3> QED BY <3>1, <3>2, NoHits
    <2>3. Waiting' = {} /\ \A k : Label(k)' = Label(k)
        BY <2>1 DEF Waiting, ToSet, Label
    <2>4. Cardinality({}) = 0
        BY FS_EmptySet
    <2>5. \A k \in Ids : Standing(k)' = Plan!Nowhere
        BY <1>2, <2>1, <2>2, <2>3, <2>4 DEF StandingKnown, Plan!Nowhere, Ids
    <2>6. Place' = [k \in Ids |-> Plan!Nowhere]
        BY <2>5 DEF Place, Ids
    <2>7. ~Loaded'
        BY <2>1 DEF Loaded
    <2> QED BY <2>1, <2>6, <2>7, RestartMaps, Zenon DEF Plan!Next
<1>6. CASE LoadDelayed
    <2>1. /\ UNCHANGED <<trial, conf, clock, startTime>> /\ spc = "load"
          /\ spc' \in {"exited", "score"}
        BY <1>6 DEF LoadDelayed
    <2>2. \A k \in DOMAIN trial.delayed : Hits(Boxes, Label(k)) = {}
        <3> TAKE k \in DOMAIN trial.delayed
        <3>1. \A b \in ToSet(Boxes) : ListLacks(b, Label(k))
            BY <1>1, <2>1 DEF LabelInv
        <3> QED BY <1>1, <3>1, NoHits DEF Boxes
    <2>3. \A k : Label(k)' = Label(k) /\ Boxes' = Boxes
        BY <2>1 DEF Label, Boxes
    <2>4. Cardinality({}) = 0
        BY FS_EmptySet
    <2>5. \A k \in Ids : Standing(k)' \in {Plan!Nowhere, Plan!Waiting}
        BY <1>2, <2>1, <2>2, <2>3, <2>4 DEF StandingKnown, Plan!Nowhere, Plan!Waiting, Ids
    <2>6. Place' \in [Ids -> {Plan!Nowhere, Plan!Waiting}]
        BY <2>5 DEF Place, Ids
    <2>7. ~Loaded /\ Loaded'
        BY <2>1 DEF Loaded
    <2> QED BY <2>1, <2>6, <2>7, LoadMaps, Zenon DEF Plan!Next
<1>7. CASE ScoreCheck
    <2>1. /\ trial' = trial /\ delayed' = delayed /\ spc = "score"
          /\ conf' = checkConfig(conf).conf
          /\ checkConfig(trial.conf).verdict = "ok" /\ conf = checkConfig(trial.conf).conf
        BY <1>1, <1>7 DEF ScoreCheck, ConfInv
    <2>2. checkConfig(conf).verdict = "ok" /\ ToSet(conf'.boxes) = ToSet(conf.boxes)
        BY <1>1, <2>1, SecondCheckKeeps, Zenon DEF Same
    <2>3. conf'.boxes \in Seq(ConfBox)
        <3>1. checkConfig(conf).conf \in Configuration
            BY <1>1, checkConfigIs, Zenon
        <3> QED BY <2>1, <3>1, BoxesIs
    <2>4. \A k \in DOMAIN trial.delayed : \A b \in ToSet(Boxes) : ListLacks(b, Label(k))
        BY <1>1, <2>1 DEF LabelInv
    <2>5. \A k \in DOMAIN trial.delayed : Hits(Boxes, Label(k)) = {} /\ Hits(Boxes', Label(k)) = {}
        BY <1>1, <2>2, <2>3, <2>4, NoHits DEF Boxes
    <2>6. Waiting' = Waiting /\ \A k : Label(k)' = Label(k)
        BY <2>1 DEF Waiting, Label
    <2>7. \A k \in Ids : Standing(k)' = Standing(k)
        BY <1>2, <2>1, <2>5, <2>6 DEF StandingKnown, Ids
    <2>8. Place' = Place
        BY <2>7 DEF Place, Ids
    <2>9. Loaded' = Loaded
        BY <1>7, <2>1, <2>2 DEF ScoreCheck, Onward, Loaded
    <2> QED BY <2>1, <2>8, <2>9, ElapseMaps, Zenon DEF Plan!Next
<1>8. CASE AddStep /\ Due(delayed[idx])
    <2>1. PICK k \in DOMAIN trial.delayed :
              /\ k \in Waiting /\ trial.delayed[k] = delayed[idx] /\ Waiting' = Waiting \ {k}
              /\ \A j \in DOMAIN trial.delayed \ {k} :
                    Hits(Boxes', Label(j)) = Hits(Boxes, Label(j))
              /\ Cardinality(Hits(Boxes', Label(k))) = IF Valid(trial.delayed[k]) THEN 1 ELSE 0
        BY <1>1, <1>8, LeavingIs
    <2>2. UNCHANGED <<trial, clock, startTime>> /\ \A j : Label(j)' = Label(j)
        BY <1>8 DEF AddStep, Label
    <2>3. Loaded' = Loaded
        BY <1>8 DEF AddStep, Loaded
    <2>4. k \in Ids
        BY <1>1, LabelIs
    <2>5. k \in DueIds
        BY <1>8, <2>1, <2>4 DEF DueIds
    <2>6. k \in ValidIds <=> Valid(trial.delayed[k])
        BY <2>4 DEF ValidIds
    <2>7. Cardinality(Hits(Boxes, Label(k))) = 0
        <3>1. Hits(Boxes, Label(k)) = {}
            BY <1>1, <2>1 DEF LabelInv
        <3> QED BY <3>1, FS_EmptySet
    <2>8. Standing(k) = Plan!Waiting
        BY <1>2, <2>1, <2>4, <2>7 DEF StandingKnown, Plan!Waiting
    <2>9. Standing(k)' = IF k \in ValidIds THEN Plan!Scored ELSE Plan!Nowhere
        <3>1. Standing(k)' = [waiting |-> 0, scored |-> Cardinality(Hits(Boxes', Label(k)))]
            BY <1>2, <2>1, <2>2, <2>4 DEF StandingKnown, Ids
        <3> QED BY <2>1, <2>6, <3>1 DEF Plan!Scored, Plan!Nowhere
    <2>10. \A j \in Ids : j # k => Standing(j)' = Standing(j)
        BY <1>2, <2>1, <2>2 DEF StandingKnown, Ids
    <2>11. Place[k] = Plan!Waiting
        BY <2>4, <2>8 DEF Place
    <2>12. Place' = [Place EXCEPT ![k] = IF k \in ValidIds THEN Plan!Scored ELSE Plan!Nowhere]
        <3> DEFINE new == IF k \in ValidIds THEN Plan!Scored ELSE Plan!Nowhere
        <3>1. Standing(k)' = new
            BY <2>9
        <3> HIDE DEF new
        <3>2. Place' = [Place EXCEPT ![k] = new]
            BY <2>4, <2>10, <3>1 DEF Place, Ids
        <3> QED BY <3>2 DEF new
    <2>13. Plan!Leave(k)
        BY <2>2, <2>3, <2>5, <2>11, <2>12, LeaveMaps
    <2> QED BY <2>4, <2>13, Zenon DEF Plan!Next
<1>9. CASE AddStep /\ ~Due(delayed[idx])
    <2>1. UNCHANGED <<trial, delayed, conf>> /\ Loaded' = Loaded
        BY <1>9 DEF AddStep, Loaded
    <2> QED BY <1>3, <2>1
<1>10. ASSUME UNCHANGED <<trial, delayed, conf>>,
              spc' = spc \/ (/\ spc \notin {"main", "load", "score"}
                             /\ spc' \notin {"main", "load", "score"})
       PROVE  Plan!Next
    <2>1. Loaded' = Loaded
        BY <1>10 DEF Loaded
    <2> QED BY <1>3, <1>10, <2>1
<1> QED BY <1>4, <1>5, <1>6, <1>7, <1>8, <1>9, <1>10, StayLemma, Zenon DEF Next, LoopStep

\* Going through the list of delayed boxes implements Timetable, for any list and any clock.
THEOREM TimetableImplemented == Spec => TimetableRefinement
<1>1. Init => Plan!Init
    <2> SUFFICES ASSUME Init PROVE Plan!Init
        OBVIOUS
    <2>1. IInv
        BY InitInv, InitLabels DEF IInv
    <2>2. spc = "main" /\ delayed = <<>> /\ Types
        BY <2>1 DEF Init, IInv, Inv
    <2>3. \A k \in DOMAIN trial.delayed : Hits(Boxes, Label(k)) = {}
        <3> TAKE k \in DOMAIN trial.delayed
        <3>1. \A b \in ToSet(Boxes) : ListLacks(b, Label(k))
            BY <2>1, <2>2 DEF IInv, LabelInv
        <3>2. Boxes \in Seq(ConfBox)
            BY <2>2, BoxesIs DEF Types, Boxes
        <3> QED BY <3>1, <3>2, NoHits
    <2>4. Place = [k \in Ids |-> Plan!Nowhere]
        BY <2>1, <2>2, <2>3, StandingIs, NowhereMaps
    <2>5. ~Loaded /\ DueIds \subseteq Ids /\ ValidIds \subseteq Ids
        BY <2>2 DEF Loaded, DueIds, ValidIds
    <2> QED BY <2>4, <2>5, Zenon DEF Plan!Init, Place, Loaded, DueIds, ValidIds
<1>2. IInv /\ IInv' /\ [Next]_vars => [Plan!Next]_(Plan!vars)
    BY MapStep
<1> QED BY <1>1, <1>2, LabelInvariance, PTL DEF Spec, TimetableRefinement, Plan!Spec

=============================================================================
