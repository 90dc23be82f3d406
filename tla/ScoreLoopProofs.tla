--------------------------- MODULE ScoreLoopProofs ---------------------------
(***************************************************************************)
(* TLAPS proofs about ScoreLoop, for any number of teams, views, rounds,   *)
(* resets, pauses, crashes and failures of the database: what is in        *)
(* team_records, and what is in the cache of the status pages.             *)
(***************************************************************************)
EXTENDS ScoreLoop, FiniteSetTheorems, FunctionTheorems, TLAPS

\* Who holds teamMutex: the loop while it saves, the reset from its first to its last
\* statement.
MutexInv ==
    /\ teamMutex = "loop" <=> lpc = "saving"
    /\ teamMutex = "reset" <=> rpc # "idle"

\* What is staged during a round is what the teams that are done have put there; between
\* rounds nothing is.
StagedInv ==
    /\ lpc \in {"checks", "decide", "saving"} =>
          recordsStaging = {[team |-> t, round |-> label[t], time |-> clock] :
                                t \in {u \in Teams : tpc[u] = "staged"}}
    /\ lpc \in {"decide", "saving"} => \A t \in Teams : tpc[t] = "staged"
    /\ lpc \in {"boot", "top", "sleep"} => recordsStaging = {}

\* While a round is saved, the records it has come to are either in the table or refused, those
\* it has not come to are neither; and no row is of a team and a round refused.
UnsavedInv ==
    /\ unsaved \subseteq recordsStaging
    /\ lpc # "saving" => unsaved = {}
    /\ \A r \in unsaved : r \notin records /\ <<r.team, r.time>> \notin refused
    /\ lpc = "saving" => \A r \in recordsStaging \ unsaved :
                             r \in records \/ <<r.team, r.time>> \in refused
    /\ \A t \in Teams, n \in Nat :
          <<t, n>> \in refused => n <= clock /\ (lpc \in {"checks", "decide"} => n < clock)
    /\ \A r \in records : <<r.team, r.time>> \notin refused

\* The clock is ahead of what is in the table, except for the round that is being saved;
\* round numbers never get ahead of the clock.
ClockInv ==
    /\ \A r \in records : r.time <= clock /\ r.round <= r.time
    /\ lpc \in {"checks", "decide"} => \A r \in records : r.time < clock
    /\ lpc = "saving" => \A r \in records : r.time = clock => r \in recordsStaging
    /\ lpc \in {"checks", "decide", "saving"} => clock >= 1 /\ roundNumber <= clock
    /\ \A t \in Teams : label[t] <= clock
    /\ roundNumber <= clock + 1
    /\ lpc = "boot" => roundNumber = 0

\* A round that a reset meets is going to be dropped.
HorizonInv ==
    /\ horizon <= lockedAt /\ lockedAt <= clock
    /\ lpc \in {"checks", "decide"} => resetIssued \/ lockedAt < clock
    /\ lpc = "saving" => lockedAt < clock
    /\ (rpc \in {"status", "cached", "number"} /\ (~numberLost \/ ~spoiled)) => records = {}
    /\ \A r \in records : r.time > horizon

\* A round that a pause or reset has met has resetIssued set until it is dropped.
DropInv ==
    /\ lpc \in {"checks", "decide"} => (interrupted => resetIssued) /\ clock \notin dropped
    /\ lpc = "saving" => ~interrupted /\ clock \notin dropped
    /\ \A n \in dropped : n <= clock
    /\ \A r \in records : r.time \notin dropped

\* Each team has one row of a round at most, and each round that is neither torn nor being
\* saved has a row for every team it was not refused for.
WholeInv ==
    /\ IsFiniteSet(records)
    /\ \A r, q \in records : r.time = q.time /\ r.team = q.team => r = q
    /\ \A r \in records : \A t \in Teams :
          \/ r.time \in torn
          \/ <<t, r.time>> \in refused
          \/ lpc = "saving" /\ r.time = clock
          \/ \E q \in records : q.time = r.time /\ q.team = t

\* As long as no flag was lost: a reset at work has its flag set, a round that is not to be
\* dropped bears the number the loop has, which is greater than that of all saved ones,
\* and numbers grow with time.
NumberInv ==
    ~numberLost =>
        /\ rpc # "idle" => resetIssued
        /\ lpc \in {"checks", "decide"} /\ ~resetIssued =>
              \A t \in Teams : tpc[t] # "spawned" => label[t] = roundNumber
        /\ lpc = "saving" => /\ \A t \in Teams : label[t] = roundNumber
                             /\ \A r \in records : r.round <= roundNumber
                             /\ \A r \in records : r.time < clock => r.round < roundNumber
        /\ lpc \notin {"boot", "saving"} => \A r \in records : r.round < roundNumber
        /\ \A r, q \in records : r.time <= q.time => r.round <= q.round

\* What a query for the newest rows of all teams may yield.
Query == Newest(Cardinality(Teams))

\* A view that refreshes the cache undisturbed has rows that are still what a query yields,
\* the cache is never stamped with a number that is still to come, and a stamp that is the
\* present number vouches for the cached rows.
CacheOK ==
    /\ Refreshing => teamMutex = "free"
    /\ \A v \in Views : vpc[v] = "fill" => fetched[v] \in Query
    /\ \A v \in Views : vpc[v] = "stamp" => cachedStatus \in Query
    /\ cachedRound <= roundNumber
    /\ (teamMutex = "free" /\ lpc # "boot" /\ cachedRound = roundNumber) => cachedStatus \in Query
    /\ rpc \in {"cached", "number"} => cachedStatus = {}
    /\ rpc = "number" => cachedRound = 0

CacheInv == ~spoiled => CacheOK

IInv ==
    /\ TypeOK /\ MutexInv /\ StagedInv /\ UnsavedInv /\ ClockInv /\ HorizonInv /\ DropInv /\ WholeInv
    /\ NumberInv /\ CacheInv

-----------------------------------------------------------------------------
\* A query for one row yields none exactly if there is none, and the newest otherwise.
LEMMA NewestOne ==
    ASSUME IsFiniteSet(records), NEW s \in Newest(1)
    PROVE  /\ s = {} => records = {}
           /\ s # {} => \E r \in records : /\ s = {r}
                                          /\ \A q \in records \ s : q.time <= r.time
<1>1. s \subseteq records /\ IsFiniteSet(s)
    BY FS_Subset DEF Newest
<1>2. CASE records = {}
    BY <1>1, <1>2
<1>3. CASE records # {}
    <2>1. Cardinality(records) \in Nat /\ Cardinality(records) # 0
        BY <1>3, FS_EmptySet, FS_CardinalityType
    <2>2. Cardinality(s) = 1
        BY <2>1 DEF Newest
    <2>3. PICK r : s = {r}
        BY <1>1, <2>2, FS_Singleton
    <2> QED BY <1>1, <2>3 DEF Newest
<1> QED BY <1>2, <1>3

\* A query on the empty table yields nothing.
LEMMA NewestOfNone ==
    ASSUME records = {}
    PROVE  {} \in Query
<1>1. Cardinality(Teams) \in Nat
    BY ConstantsAssumption, FS_CardinalityType
<1>2. Cardinality(records) = 0
    BY FS_EmptySet
<1> QED BY <1>1, <1>2, FS_EmptySet DEF Query, Newest

\* The bounds of the instance are numbers.
LEMMA Bounds ==
        /\ MaxTime \in Nat /\ MaxPauses \in Nat /\ MaxResets \in Nat
    /\ MaxCrashes \in Nat /\ MaxFailures \in Nat
BY ConstantsAssumption

\* TypeOK in two parts, which the provers take one at a time.
FlagsOK ==
    /\ running \in BOOLEAN /\ resetIssued \in BOOLEAN
    /\ interrupted \in BOOLEAN /\ numberLost \in BOOLEAN /\ spoiled \in BOOLEAN

StoreOK ==
    /\ records \subseteq Record /\ recordsStaging \subseteq Record /\ cachedStatus \subseteq Record
    /\ unsaved \subseteq Record
    /\ roundNumber \in 0..(MaxTime + 1) /\ cachedRound \in 0..(MaxTime + 1)
    /\ clock \in 0..MaxTime
    /\ resets \in 0..MaxResets /\ pauses \in 0..MaxPauses /\ crashes \in 0..MaxCrashes
    /\ failures \in 0..MaxFailures
    /\ horizon \in 0..MaxTime /\ lockedAt \in 0..MaxTime
    /\ dropped \subseteq 1..MaxTime /\ torn \subseteq 1..MaxTime
    /\ refused \subseteq Teams \X (1..MaxTime)

PlacesOK ==
    /\ teamMutex \in {"free", "loop", "reset"}
    /\ lpc \in {"boot", "top", "checks", "decide", "saving", "sleep"}
    /\ tpc \in [Teams -> {"spawned", "running", "staged"}]
    /\ label \in [Teams -> 0..(MaxTime + 1)]
    /\ rpc \in {"idle", "delete", "status", "cached", "number"}
    /\ ppc \in {"idle", "flag"}
    /\ vpc \in [Views -> {"idle", "read", "fill", "stamp", "copy"}]
    /\ fetched \in [Views -> SUBSET Record]

LEMMA TypeParts == TypeOK <=> FlagsOK /\ StoreOK /\ PlacesOK
<1>1. TypeOK => FlagsOK /\ StoreOK
    BY Zenon DEF TypeOK, FlagsOK, StoreOK
<1>2. TypeOK => PlacesOK
    BY Zenon DEF TypeOK, PlacesOK
<1>3. FlagsOK /\ StoreOK /\ PlacesOK => TypeOK
    BY Zenon DEF TypeOK, FlagsOK, StoreOK, PlacesOK
<1> QED BY <1>1, <1>2, <1>3

\* The initial state satisfies the inductive invariant.
LEMMA InitIInv == Init => IInv
<1> SUFFICES ASSUME Init PROVE IInv
    OBVIOUS
<1>1. TypeOK
    <2>1. FlagsOK
        BY ConstantsAssumption DEF Init, FlagsOK
    <2>2. StoreOK
        BY Bounds DEF Init, StoreOK
    <2>3. PlacesOK
        BY Bounds DEF Init, PlacesOK
    <2> QED BY <2>1, <2>2, <2>3, TypeParts
<1>2. MutexInv /\ StagedInv /\ UnsavedInv /\ ClockInv /\ HorizonInv /\ DropInv /\ NumberInv
    BY DEF Init, MutexInv, StagedInv, UnsavedInv, ClockInv, HorizonInv, DropInv, NumberInv
<1>3. WholeInv
    BY FS_EmptySet DEF Init, WholeInv
<1>4. CacheInv
    BY DEF Init, CacheInv, CacheOK, Refreshing
<1> QED BY <1>1, <1>2, <1>3, <1>4 DEF IInv

\* No step makes a flag anything but TRUE or FALSE.
LEMMA FlagsStep == FlagsOK /\ [Next]_vars => FlagsOK'
<1> SUFFICES ASSUME FlagsOK, [Next]_vars PROVE FlagsOK'
    OBVIOUS
<1> USE ConstantsAssumption DEF FlagsOK, shared, history
<1>1. CASE Boot \/ BootFails \/ StartRound \/ SkipRound \/ RoundDone
    BY <1>1 DEF Boot, BootFails, StartRound, SkipRound, RoundDone
<1>2. CASE DropRound \/ KeepRound \/ NextRound \/ Wake
    BY <1>2 DEF DropRound, KeepRound, NextRound, Wake
<1>3. ASSUME NEW t \in Teams,
             SaveRecord(t) \/ RecordFails(t) \/ TeamStarts(t) \/ TeamStages(t)
      PROVE  FlagsOK'
    BY <1>3 DEF SaveRecord, RecordFails, TeamStarts, TeamStages
<1>4. CASE ResetStep
    BY <1>4 DEF ResetStep, ResetLock, ResetDelete, ResetDeleteFails,
        ResetStatus, ResetCached, ResetNumber
<1>5. CASE PauseStop \/ PauseFlag \/ StartEvent
    BY <1>5 DEF PauseStop, PauseFlag, StartEvent
<1>6. ASSUME NEW v \in Views, ViewStep(v) PROVE FlagsOK'
    BY <1>6 DEF ViewStep, ViewCheck, ViewRead, ViewReadFails, ViewFill, ViewStamp, ViewCopy
<1>7. CASE Crash
    BY <1>7 DEF Crash, FreshProcess
<1>8. CASE UNCHANGED vars
    BY <1>8 DEF vars
<1> QED BY <1>1, <1>2, <1>3, <1>4, <1>5, <1>6, <1>7, <1>8 DEF Next, LoopStep, TeamStep

\* No step moves a goroutine to a place it does not have.
LEMMA PlacesStep == StoreOK /\ PlacesOK /\ [Next]_vars => PlacesOK'
<1> SUFFICES ASSUME StoreOK, PlacesOK, [Next]_vars PROVE PlacesOK'
    OBVIOUS
<1> USE Bounds DEF PlacesOK, shared, teams, pages
<1>1. CASE Boot \/ BootFails \/ StartRound \/ SkipRound \/ RoundDone
    BY <1>1 DEF Boot, BootFails, StartRound, SkipRound, RoundDone
<1>2. CASE DropRound \/ KeepRound \/ NextRound \/ Wake
    BY <1>2 DEF DropRound, KeepRound, NextRound, Wake
<1>3. ASSUME NEW t \in Teams,
             SaveRecord(t) \/ RecordFails(t) \/ TeamStarts(t) \/ TeamStages(t)
      PROVE  PlacesOK'
    BY <1>3 DEF SaveRecord, RecordFails, TeamStarts, TeamStages, StoreOK
<1>4. CASE ResetStep
    BY <1>4 DEF ResetStep, ResetLock, ResetDelete, ResetDeleteFails,
        ResetStatus, ResetCached, ResetNumber
<1>5. CASE PauseStop \/ PauseFlag \/ StartEvent
    BY <1>5 DEF PauseStop, PauseFlag, StartEvent
<1>6. ASSUME NEW v \in Views, ViewStep(v) PROVE PlacesOK'
    <2>1. CASE ViewRead(v)
        <3>1. Newest(Cardinality(Teams)) \subseteq SUBSET Record
            BY DEF Newest, StoreOK
        <3> QED BY <2>1, <3>1 DEF ViewRead
    <2>2. CASE ViewReadFails(v)
        <3>1. {} \in SUBSET Record
            OBVIOUS
        <3> QED BY <2>2, <3>1 DEF ViewReadFails
    <2> QED BY <1>6, <2>1, <2>2 DEF ViewStep, ViewCheck, ViewFill, ViewStamp, ViewCopy
<1>7. CASE Crash
    BY <1>7 DEF Crash, FreshProcess
<1>8. CASE UNCHANGED vars
    BY <1>8 DEF vars
<1> QED BY <1>1, <1>2, <1>3, <1>4, <1>5, <1>6, <1>7, <1>8 DEF Next, LoopStep, TeamStep

\* The rows and numbers a step writes are within the bounds of the instance: a round number
\* is never ahead of the rounds started by more than one.
LEMMA StoreStep == IInv /\ [Next]_vars => StoreOK'
<1> SUFFICES ASSUME IInv, [Next]_vars PROVE StoreOK'
    OBVIOUS
<1>a. FlagsOK /\ StoreOK /\ PlacesOK /\ StagedInv /\ ClockInv /\ WholeInv
    BY TypeParts DEF IInv
<1> USE <1>a, Bounds DEF StoreOK, shared, cache, bounds, history
<1>1. CASE Boot
    <2>1. PICK s \in Newest(1) :
             roundNumber' = IF s = {} THEN 1 ELSE (CHOOSE r \in s : TRUE).round + 1
        BY <1>1 DEF Boot
    <2>2. roundNumber' \in 0..(MaxTime + 1)
        <3>1. CASE s = {}
            BY <2>1, <3>1
        <3>2. CASE s # {}
            <4>1. PICK r \in records : s = {r}
                BY <3>2, NewestOne DEF WholeInv
            <4>2. roundNumber' = r.round + 1
                BY <2>1, <4>1
            <4>3. r.round <= clock /\ r.round \in Nat
                BY <4>1 DEF ClockInv, Record
            <4> QED BY <4>2, <4>3
        <3> QED BY <3>1, <3>2
    <2> QED BY <1>1, <2>2 DEF Boot
<1>2. CASE StartRound
    BY <1>2 DEF StartRound
<1>3. CASE SkipRound \/ RoundDone \/ KeepRound \/ Wake
    BY <1>3, Zenon DEF SkipRound, RoundDone, KeepRound, Wake
<1>14. CASE BootFails
    BY <1>14 DEF BootFails
<1>4. CASE DropRound
    BY <1>4 DEF DropRound, ClockInv
<1>5. CASE NextRound
    BY <1>5 DEF NextRound, ClockInv
<1>6. ASSUME NEW t \in Teams, SaveRecord(t) \/ TeamStarts(t) PROVE StoreOK'
    BY <1>6 DEF SaveRecord, TeamStarts
<1>15. ASSUME NEW t \in Teams, RecordFails(t) PROVE StoreOK'
    <2>1. clock \in 1..MaxTime
        BY <1>15 DEF RecordFails, ClockInv
    <2> QED BY <1>15, <2>1 DEF RecordFails
<1>7. ASSUME NEW t \in Teams, TeamStages(t) PROVE StoreOK'
    <2>1. [team |-> t, round |-> label[t], time |-> clock] \in Record
        BY <1>7 DEF TeamStages, PlacesOK, ClockInv, Record
    <2> QED BY <1>7, <2>1 DEF TeamStages
<1>8. CASE ResetStep
    <2>1. CASE ResetLock
        BY <1>8, <2>1 DEF ResetLock
    <2>2. CASE ResetDelete
        BY <2>2 DEF ResetDelete
    <2>6. CASE ResetDeleteFails
        BY <2>6 DEF ResetDeleteFails
    <2>3. CASE ResetStatus
        BY <2>3 DEF ResetStatus
    <2>4. CASE ResetCached
        BY <2>4 DEF ResetCached
    <2>5. CASE ResetNumber
        BY <2>5 DEF ResetNumber
    <2> QED BY <1>8, <2>1, <2>2, <2>3, <2>4, <2>5, <2>6 DEF ResetStep
<1>9. CASE PauseStop
    BY <1>9 DEF PauseStop
<1>10. CASE PauseFlag \/ StartEvent
    BY <1>10, Zenon DEF PauseFlag, StartEvent
<1>11. ASSUME NEW v \in Views, ViewStep(v) PROVE StoreOK'
    <2>1. CASE ViewReadFails(v)
        BY <2>1 DEF ViewReadFails
    <2> QED BY <1>11, <2>1 DEF ViewStep, ViewCheck, ViewRead, ViewFill, ViewStamp, ViewCopy, PlacesOK
<1>12. CASE Crash
    BY <1>12 DEF Crash, FreshProcess, ClockInv
<1>13. CASE UNCHANGED vars
    BY <1>13 DEF vars
<1> QED BY <1>1, <1>2, <1>3, <1>4, <1>5, <1>6, <1>7, <1>8, <1>9, <1>10, <1>11, <1>12, <1>13,
        <1>14, <1>15 DEF Next, LoopStep, TeamStep

LEMMA TypeStep == IInv /\ [Next]_vars => TypeOK'
<1>1. (TypeOK <=> FlagsOK /\ StoreOK /\ PlacesOK)'
    BY TypeParts, PTL
<1> QED BY <1>1, TypeParts, FlagsStep, PlacesStep, StoreStep DEF IInv

\* teamMutex is taken and given back by its holder only.
LEMMA MutexStep == IInv /\ [Next]_vars => MutexInv'
<1> SUFFICES ASSUME IInv, [Next]_vars PROVE MutexInv'
    OBVIOUS
<1>a. MutexInv /\ PlacesOK
    BY TypeParts DEF IInv
<1> USE <1>a DEF MutexInv, PlacesOK, shared
<1>1. CASE Boot \/ BootFails \/ StartRound \/ SkipRound \/ RoundDone
    BY <1>1 DEF Boot, BootFails, StartRound, SkipRound, RoundDone
<1>2. CASE DropRound \/ KeepRound \/ NextRound \/ Wake
    BY <1>2 DEF DropRound, KeepRound, NextRound, Wake
<1>3. ASSUME NEW t \in Teams,
             SaveRecord(t) \/ RecordFails(t) \/ TeamStarts(t) \/ TeamStages(t)
      PROVE  MutexInv'
    BY <1>3 DEF SaveRecord, RecordFails, TeamStarts, TeamStages
<1>4. CASE ResetStep
    BY <1>4 DEF ResetStep, ResetLock, ResetDelete, ResetDeleteFails,
        ResetStatus, ResetCached, ResetNumber
<1>5. CASE PauseStop \/ PauseFlag \/ StartEvent
    BY <1>5 DEF PauseStop, PauseFlag, StartEvent
<1>6. ASSUME NEW v \in Views, ViewStep(v) PROVE MutexInv'
    BY <1>6 DEF ViewStep, ViewCheck, ViewRead, ViewReadFails, ViewFill, ViewStamp, ViewCopy
<1>7. CASE Crash
    BY <1>7 DEF Crash, FreshProcess
<1>8. CASE UNCHANGED vars
    BY <1>8 DEF vars
<1> QED BY <1>1, <1>2, <1>3, <1>4, <1>5, <1>6, <1>7, <1>8 DEF Next, LoopStep, TeamStep

\* Staging holds one record for each team that is done, and only those.
LEMMA StagedStep == IInv /\ [Next]_vars => StagedInv'
<1> SUFFICES ASSUME IInv, [Next]_vars PROVE StagedInv'
    OBVIOUS
<1>a. StagedInv /\ MutexInv /\ PlacesOK
    BY TypeParts DEF IInv
<1> USE <1>a DEF StagedInv, shared, teams
<1>1. CASE Boot \/ BootFails \/ SkipRound \/ RoundDone
    BY <1>1 DEF Boot, BootFails, SkipRound, RoundDone
<1>2. CASE StartRound
    BY <1>2 DEF StartRound
<1>3. CASE DropRound \/ KeepRound \/ NextRound \/ Wake
    BY <1>3 DEF DropRound, KeepRound, NextRound, Wake
<1>4. ASSUME NEW t \in Teams, SaveRecord(t) \/ RecordFails(t) PROVE StagedInv'
    BY <1>4 DEF SaveRecord, RecordFails
<1>5. ASSUME NEW t \in Teams, TeamStarts(t) PROVE StagedInv'
    <2>1. {u \in Teams : tpc'[u] = "staged"} = {u \in Teams : tpc[u] = "staged"}
        BY <1>5 DEF TeamStarts, PlacesOK
    <2>2. \A u \in {w \in Teams : tpc[w] = "staged"} : label'[u] = label[u]
        BY <1>5 DEF TeamStarts, PlacesOK
    <2> QED BY <1>5, <2>1, <2>2 DEF TeamStarts
<1>6. ASSUME NEW t \in Teams, TeamStages(t) PROVE StagedInv'
    <2>1. {u \in Teams : tpc'[u] = "staged"} = {u \in Teams : tpc[u] = "staged"} \cup {t}
        BY <1>6 DEF TeamStages, PlacesOK
    <2> QED BY <1>6, <2>1 DEF TeamStages
<1>7. CASE ResetStep
    BY <1>7 DEF ResetStep, ResetLock, ResetDelete, ResetDeleteFails,
        ResetStatus, ResetCached, ResetNumber
<1>8. CASE PauseStop \/ PauseFlag \/ StartEvent
    BY <1>8 DEF PauseStop, PauseFlag, StartEvent
<1>9. ASSUME NEW v \in Views, ViewStep(v) PROVE StagedInv'
    BY <1>9 DEF ViewStep, ViewCheck, ViewRead, ViewReadFails, ViewFill, ViewStamp, ViewCopy
<1>10. CASE Crash
    BY <1>10 DEF Crash, FreshProcess
<1>11. CASE UNCHANGED vars
    BY <1>11 DEF vars
<1> QED BY <1>1, <1>2, <1>3, <1>4, <1>5, <1>6, <1>7, <1>8, <1>9, <1>10, <1>11
        DEF Next, LoopStep, TeamStep

\* Saving takes the records out of unsaved one by one, into the table or among the refused.
LEMMA UnsavedStep == IInv /\ [Next]_vars => UnsavedInv'
<1> SUFFICES ASSUME IInv, [Next]_vars PROVE UnsavedInv'
    OBVIOUS
<1>a. UnsavedInv /\ StagedInv /\ MutexInv /\ ClockInv /\ StoreOK /\ PlacesOK /\ clock \in Nat
    BY TypeParts, Bounds DEF IInv, StoreOK
<1> USE <1>a DEF UnsavedInv, shared, teams
<1>1. CASE Boot \/ BootFails \/ SkipRound \/ RoundDone
    BY <1>1 DEF Boot, BootFails, SkipRound, RoundDone, history
<1>2. CASE StartRound
    BY <1>2 DEF StartRound, history
<1>3. CASE DropRound \/ Wake
    BY <1>3 DEF DropRound, Wake, StagedInv
<1>4. CASE KeepRound
    <2>1. \A q \in recordsStaging : q.time = clock /\ q.team \in Teams
        BY <1>4 DEF KeepRound, StagedInv
    <2>2. \A q \in recordsStaging : q \notin records /\ <<q.team, q.time>> \notin refused
        <3> SUFFICES ASSUME NEW q \in recordsStaging
                     PROVE  q \notin records /\ <<q.team, q.time>> \notin refused
            OBVIOUS
        <3>1. q \notin records
            BY <1>4, <2>1 DEF KeepRound, ClockInv
        <3>2. ASSUME <<q.team, q.time>> \in refused PROVE FALSE
            <4>1. q.team \in Teams /\ q.time = clock
                BY <2>1
            <4>2. clock < clock
                BY <1>4, <3>2, <4>1 DEF KeepRound
            <4> QED BY <4>2
        <3> QED BY <3>1, <3>2
    <2> QED BY <1>4, <2>2 DEF KeepRound
<1>5. CASE NextRound
    BY <1>5 DEF NextRound, history
<1>6. ASSUME NEW t \in Teams, SaveRecord(t) PROVE UnsavedInv'
    BY <1>6 DEF SaveRecord, history
<1>7. ASSUME NEW t \in Teams, RecordFails(t) PROVE UnsavedInv'
    <2>1. PICK r \in unsaved : /\ r.team = t
                               /\ unsaved' = unsaved \ {r}
                               /\ refused' = refused \cup {<<t, clock>>}
        BY <1>7 DEF RecordFails
    <2>2. lpc = "saving" /\ UNCHANGED <<lpc, recordsStaging, clock, records>>
        BY <1>7 DEF RecordFails
    <2>3. \A q \in recordsStaging : q.time = clock /\ (q.team = t => q = r)
        BY <2>1, <2>2 DEF StagedInv
    <2>4. \A q \in records : q.time = clock => q.team # t
        BY <2>1, <2>2, <2>3 DEF ClockInv
    <2>5. \A q \in unsaved' : q \notin records /\ <<q.team, q.time>> \notin refused'
        BY <2>1, <2>3
    <2>6. \A q \in recordsStaging \ unsaved' : q \in records \/ <<q.team, q.time>> \in refused'
        BY <2>1, <2>2, <2>3
    <2>7. \A q \in records : <<q.team, q.time>> \notin refused'
        BY <2>1, <2>4
    <2> QED BY <2>1, <2>2, <2>5, <2>6, <2>7
<1>8. ASSUME NEW t \in Teams, TeamStarts(t) PROVE UnsavedInv'
    BY <1>8 DEF TeamStarts, history
<1>9. ASSUME NEW t \in Teams, TeamStages(t) PROVE UnsavedInv'
    BY <1>9 DEF TeamStages, history
<1>10. CASE ResetStep
    BY <1>10 DEF ResetStep, ResetLock, ResetDelete, ResetDeleteFails, ResetStatus, ResetCached,
        ResetNumber, history, MutexInv
<1>11. CASE PauseStop \/ PauseFlag \/ StartEvent
    BY <1>11 DEF PauseStop, PauseFlag, StartEvent, history
<1>12. ASSUME NEW v \in Views, ViewStep(v) PROVE UnsavedInv'
    BY <1>12 DEF ViewStep, ViewCheck, ViewRead, ViewReadFails, ViewFill, ViewStamp, ViewCopy, history
<1>13. CASE Crash
    BY <1>13 DEF Crash, FreshProcess
<1>14. CASE UNCHANGED vars
    BY <1>14 DEF vars, history
<1> QED BY <1>1, <1>2, <1>3, <1>4, <1>5, <1>6, <1>7, <1>8, <1>9, <1>10, <1>11, <1>12, <1>13,
        <1>14 DEF Next, LoopStep, TeamStep

\* Rows are of rounds that have been started, and bear no number greater than their round's
\* place in time.
LEMMA ClockStep == IInv /\ [Next]_vars => ClockInv'
<1> SUFFICES ASSUME IInv, [Next]_vars PROVE ClockInv'
    OBVIOUS
<1>a. ClockInv /\ StagedInv /\ MutexInv /\ StoreOK /\ PlacesOK
    BY TypeParts DEF IInv
<1> USE <1>a DEF ClockInv, shared, teams
<1>b. /\ \A r \in records : r.time \in Nat /\ r.round \in Nat
      /\ clock \in Nat /\ roundNumber \in Nat /\ \A t \in Teams : label[t] \in Nat
    BY Bounds DEF StoreOK, PlacesOK, Record
<1>1. CASE Boot
    <2>1. PICK s \in Newest(1) :
             roundNumber' = IF s = {} THEN 1 ELSE (CHOOSE r \in s : TRUE).round + 1
        BY <1>1 DEF Boot
    <2>2. roundNumber' <= clock + 1
        <3>1. CASE s = {}
            BY <1>b, <2>1, <3>1
        <3>2. CASE s # {}
            <4>1. PICK r \in records : s = {r}
                BY <3>2, NewestOne DEF IInv, WholeInv
            <4>2. roundNumber' = r.round + 1
                BY <2>1, <4>1
            <4> QED BY <1>b, <4>2
        <3> QED BY <3>1, <3>2
    <2> QED BY <1>1, <2>2 DEF Boot
<1>14. CASE BootFails
    BY <1>b, <1>14 DEF BootFails
<1>2. CASE StartRound
    BY <1>b, <1>2 DEF StartRound
<1>3. CASE SkipRound \/ RoundDone \/ DropRound \/ Wake
    BY <1>3 DEF SkipRound, RoundDone, DropRound, Wake
<1>4. CASE KeepRound
    BY <1>b, <1>4 DEF KeepRound
<1>5. CASE NextRound
    BY <1>b, <1>5 DEF NextRound
<1>20. ASSUME NEW t \in Teams, RecordFails(t) PROVE ClockInv'
    BY <1>20 DEF RecordFails
<1>6. ASSUME NEW t \in Teams, SaveRecord(t) PROVE ClockInv'
    <2>1. PICK r \in recordsStaging : records' = records \cup {r}
        BY <1>6 DEF SaveRecord, IInv, UnsavedInv
    <2>2. r.time = clock /\ r.round <= clock
        BY <1>6, <2>1 DEF SaveRecord, StagedInv
    <2> QED BY <1>b, <1>6, <2>1, <2>2 DEF SaveRecord
<1>7. ASSUME NEW t \in Teams, TeamStarts(t) PROVE ClockInv'
    BY <1>b, <1>7 DEF TeamStarts, PlacesOK
<1>8. ASSUME NEW t \in Teams, TeamStages(t) PROVE ClockInv'
    BY <1>b, <1>8 DEF TeamStages
<1>9. CASE ResetStep
    BY <1>b, <1>9 DEF ResetStep, ResetLock, ResetDelete, ResetDeleteFails,
        ResetStatus, ResetCached, ResetNumber
<1>10. CASE PauseStop \/ PauseFlag \/ StartEvent
    BY <1>10 DEF PauseStop, PauseFlag, StartEvent
<1>11. ASSUME NEW v \in Views, ViewStep(v) PROVE ClockInv'
    BY <1>11 DEF ViewStep, ViewCheck, ViewRead, ViewReadFails, ViewFill, ViewStamp, ViewCopy
<1>12. CASE Crash
    BY <1>b, <1>12 DEF Crash, FreshProcess
<1>13. CASE UNCHANGED vars
    BY <1>13 DEF vars
<1> QED BY <1>1, <1>2, <1>3, <1>4, <1>5, <1>6, <1>7, <1>8, <1>9, <1>10, <1>11, <1>12, <1>13,
        <1>14, <1>20 DEF Next, LoopStep, TeamStep

\* A round that meets a reset, and is not yet decided, keeps resetIssued set.
LEMMA HorizonStep == IInv /\ [Next]_vars => HorizonInv'
<1> SUFFICES ASSUME IInv, [Next]_vars PROVE HorizonInv'
    OBVIOUS
<1>a. HorizonInv /\ MutexInv /\ FlagsOK /\ PlacesOK /\ {clock, horizon, lockedAt} \subseteq Nat
    BY TypeParts, Bounds DEF IInv, StoreOK
<1> USE <1>a DEF HorizonInv, shared, history
<1>1. CASE Boot \/ BootFails \/ SkipRound \/ RoundDone
    BY <1>1 DEF Boot, BootFails, SkipRound, RoundDone
<1>2. CASE StartRound
    BY <1>2 DEF StartRound
<1>3. CASE DropRound \/ KeepRound \/ NextRound \/ Wake
    BY <1>3 DEF DropRound, KeepRound, NextRound, Wake
<1>20. ASSUME NEW t \in Teams, RecordFails(t) PROVE HorizonInv'
    BY <1>20 DEF RecordFails
<1>4. ASSUME NEW t \in Teams, SaveRecord(t) PROVE HorizonInv'
    <2>1. PICK r \in recordsStaging : records' = records \cup {r}
        BY <1>4 DEF SaveRecord, IInv, UnsavedInv
    <2>2. r.time = clock
        BY <1>4, <2>1 DEF SaveRecord, IInv, StagedInv
    <2> QED BY <1>4, <2>1, <2>2 DEF SaveRecord, MutexInv
<1>5. ASSUME NEW t \in Teams, TeamStarts(t) \/ TeamStages(t) PROVE HorizonInv'
    BY <1>5 DEF TeamStarts, TeamStages
<1>6. CASE ResetLock
    BY <1>6 DEF ResetLock, MutexInv
<1>7. CASE ResetDelete \/ ResetDeleteFails \/ ResetStatus \/ ResetCached \/ ResetNumber
    BY <1>7 DEF ResetDelete, ResetDeleteFails,
        ResetStatus, ResetCached, ResetNumber
<1>8. CASE PauseStop \/ PauseFlag \/ StartEvent
    BY <1>8 DEF PauseStop, PauseFlag, StartEvent
<1>9. ASSUME NEW v \in Views, ViewStep(v) PROVE HorizonInv'
    BY <1>9 DEF ViewStep, ViewCheck, ViewRead, ViewReadFails, ViewFill, ViewStamp, ViewCopy
<1>10. CASE Crash
    BY <1>10 DEF Crash, FreshProcess
<1>11. CASE UNCHANGED vars
    BY <1>11 DEF vars
<1> QED BY <1>1, <1>2, <1>3, <1>4, <1>5, <1>6, <1>7, <1>8, <1>9, <1>10, <1>11, <1>20
        DEF Next, LoopStep, TeamStep, ResetStep

\* A pause or reset during a round sets resetIssued, and only the round's own end clears it.
LEMMA DropStep == IInv /\ [Next]_vars => DropInv'
<1> SUFFICES ASSUME IInv, [Next]_vars PROVE DropInv'
    OBVIOUS
<1>a. DropInv /\ FlagsOK /\ clock \in Nat
    BY TypeParts, Bounds DEF IInv, StoreOK
<1> USE <1>a DEF DropInv, FlagsOK, shared, history
<1>1. CASE Boot \/ BootFails \/ SkipRound \/ RoundDone
    BY <1>1 DEF Boot, BootFails, SkipRound, RoundDone
<1>2. CASE StartRound
    <2>1. \A n \in dropped : n \in Nat
        BY TypeParts, Bounds DEF IInv, StoreOK
    <2> QED BY <1>2, <2>1 DEF StartRound
<1>3. CASE DropRound
    <2>1. \A r \in records : r.time # clock
        BY <1>3 DEF DropRound, IInv, ClockInv
    <2> QED BY <1>3, <2>1 DEF DropRound
<1>4. CASE KeepRound
    BY <1>4 DEF KeepRound
<1>5. CASE NextRound \/ Wake
    BY <1>5 DEF NextRound, Wake
<1>20. ASSUME NEW t \in Teams, RecordFails(t) PROVE DropInv'
    BY <1>20 DEF RecordFails
<1>6. ASSUME NEW t \in Teams, SaveRecord(t) PROVE DropInv'
    <2>1. PICK r \in recordsStaging : records' = records \cup {r}
        BY <1>6 DEF SaveRecord, IInv, UnsavedInv
    <2>2. r.time = clock
        BY <1>6, <2>1 DEF SaveRecord, IInv, StagedInv
    <2> QED BY <1>6, <2>1, <2>2 DEF SaveRecord
<1>14. ASSUME NEW t \in Teams, TeamStarts(t) \/ TeamStages(t) PROVE DropInv'
    BY <1>14 DEF TeamStarts, TeamStages
<1>7. CASE ResetLock
    BY <1>7 DEF IInv, ResetLock, MutexInv, RoundInFlight
<1>8. CASE ResetDelete \/ ResetDeleteFails \/ ResetStatus \/ ResetCached \/ ResetNumber
    BY <1>8 DEF ResetDelete, ResetDeleteFails,
        ResetStatus, ResetCached, ResetNumber
<1>9. CASE PauseFlag
    BY <1>9 DEF PauseFlag, RoundInFlight
<1>10. CASE PauseStop \/ StartEvent
    BY <1>10 DEF PauseStop, StartEvent
<1>11. ASSUME NEW v \in Views, ViewStep(v) PROVE DropInv'
    BY <1>11 DEF ViewStep, ViewCheck, ViewRead, ViewReadFails, ViewFill, ViewStamp, ViewCopy
<1>12. CASE Crash
    BY <1>12 DEF Crash, FreshProcess
<1>13. CASE UNCHANGED vars
    BY <1>13 DEF vars
<1> QED BY <1>1, <1>2, <1>3, <1>4, <1>5, <1>6, <1>7, <1>8, <1>9, <1>10, <1>11, <1>12, <1>13, <1>14,
        <1>20 DEF Next, LoopStep, TeamStep, ResetStep

\* Saving goes through the staged records, one for each team, each once.
LEMMA WholeStep == IInv /\ [Next]_vars => WholeInv'
<1> SUFFICES ASSUME IInv, [Next]_vars PROVE WholeInv'
    OBVIOUS
<1>a. WholeInv /\ UnsavedInv /\ StagedInv /\ ClockInv /\ StoreOK /\ PlacesOK
    BY TypeParts DEF IInv
<1> USE <1>a DEF WholeInv, history
<1>1. CASE Boot \/ BootFails \/ StartRound \/ SkipRound \/ RoundDone
    BY <1>1 DEF Boot, BootFails, StartRound, SkipRound, RoundDone
<1>2. CASE DropRound \/ KeepRound \/ Wake
    BY <1>2 DEF DropRound, KeepRound, Wake
<1>3. CASE NextRound
    <2>1. ASSUME NEW t \in Teams, <<t, clock>> \notin refused
          PROVE  \E q \in records : q.time = clock /\ q.team = t
        <3> DEFINE r == [team |-> t, round |-> label[t], time |-> clock]
        <3>1. r \in recordsStaging /\ unsaved = {}
            BY <1>3 DEF NextRound, StagedInv
        <3>2. r \in records \/ <<r.team, r.time>> \in refused
            BY <1>3, <3>1 DEF NextRound, UnsavedInv
        <3> QED BY <2>1, <3>2
    <2> QED BY <1>3, <2>1 DEF NextRound
<1>4. ASSUME NEW t \in Teams, SaveRecord(t) PROVE WholeInv'
    <2>1. PICK r \in unsaved : r.team = t /\ records' = records \cup {r}
        BY <1>4 DEF SaveRecord
    <2>2. lpc = "saving" /\ lpc' = lpc /\ clock' = clock /\ torn' = torn /\ refused' = refused
        BY <1>4 DEF SaveRecord
    <2>3. r \notin records /\ r = [team |-> t, round |-> label[t], time |-> clock]
        <3>1. r \in recordsStaging /\ r \notin records
            BY <2>1 DEF UnsavedInv
        <3>2. PICK u \in Teams : r = [team |-> u, round |-> label[u], time |-> clock]
            BY <2>2, <3>1 DEF StagedInv
        <3> QED BY <2>1, <3>1, <3>2
    <2>4. ASSUME NEW q \in records, q.time = clock, q.team = t PROVE FALSE
        <3>1. q \in recordsStaging
            BY <2>2, <2>4 DEF ClockInv
        <3>2. q = r
            BY <2>2, <2>3, <2>4, <3>1 DEF StagedInv
        <3> QED BY <2>3, <3>2
    <2>5. IsFiniteSet(records')
        BY <2>1, FS_AddElement
    <2>6. \A p, q \in records' : p.time = q.time /\ p.team = q.team => p = q
        BY <2>1, <2>3, <2>4
    <2>7. \A p \in records' : \A u \in Teams :
              \/ p.time \in torn'
              \/ <<u, p.time>> \in refused'
              \/ lpc' = "saving" /\ p.time = clock'
              \/ \E q \in records' : q.time = p.time /\ q.team = u
        <3>1. r.time = clock
            BY <2>3
        <3>2. \A p \in records : \A u \in Teams :
                  \/ p.time \in torn
                  \/ <<u, p.time>> \in refused
                  \/ p.time = clock
                  \/ \E q \in records : q.time = p.time /\ q.team = u
            OBVIOUS
        <3> SUFFICES ASSUME NEW p \in records', NEW u \in Teams,
                            p.time \notin torn', <<u, p.time>> \notin refused', p.time # clock'
                     PROVE  \E q \in records' : q.time = p.time /\ q.team = u
            BY <2>2
        <3>3. p \in records
            BY <2>1, <2>2, <3>1
        <3> QED BY <2>1, <2>2, <3>2, <3>3
    <2> QED BY <2>5, <2>6, <2>7
<1>12. ASSUME NEW t \in Teams, RecordFails(t) PROVE WholeInv'
    BY <1>12 DEF RecordFails
<1>5. ASSUME NEW t \in Teams, TeamStarts(t) \/ TeamStages(t) PROVE WholeInv'
    BY <1>5 DEF TeamStarts, TeamStages
<1>6. CASE ResetDelete
    BY <1>6, FS_EmptySet DEF ResetDelete
<1>7. CASE ResetLock \/ ResetDeleteFails \/ ResetStatus \/ ResetCached \/ ResetNumber
    BY <1>7 DEF ResetLock, ResetDeleteFails, ResetStatus, ResetCached, ResetNumber
<1>8. CASE PauseStop \/ PauseFlag \/ StartEvent
    BY <1>8 DEF PauseStop, PauseFlag, StartEvent
<1>9. ASSUME NEW v \in Views, ViewStep(v) PROVE WholeInv'
    BY <1>9 DEF ViewStep, ViewCheck, ViewRead, ViewReadFails, ViewFill, ViewStamp, ViewCopy
<1>10. CASE Crash
    BY <1>10 DEF Crash, FreshProcess
<1>11. CASE UNCHANGED vars
    BY <1>11 DEF vars
<1> QED BY <1>1, <1>2, <1>3, <1>4, <1>5, <1>6, <1>7, <1>8, <1>9, <1>10, <1>11, <1>12
        DEF Next, LoopStep, TeamStep, ResetStep

\* Numbers grow with time: Boot takes up the newest row's, each saved round has the loop's
\* number, and the loop's number is set back only while resetIssued keeps the round under way
\* from being saved.
LEMMA NumberStep == IInv /\ [Next]_vars => NumberInv'
<1> SUFFICES ASSUME IInv, [Next]_vars, ~numberLost' PROVE NumberInv'
    BY DEF NumberInv
<1>a. MutexInv /\ FlagsOK /\ PlacesOK
    BY TypeParts DEF IInv
<1>b. \A r \in records : r.time \in Nat /\ r.round \in Nat
    BY TypeParts DEF IInv, StoreOK, Record
<1>c. clock \in Nat /\ roundNumber \in Nat
    BY TypeParts, Bounds DEF IInv, StoreOK
<1>d. ~numberLost
    BY <1>a, Zenon DEF Next, LoopStep, TeamStep, ResetStep, ViewStep, vars, history, FlagsOK, Boot,
        BootFails, StartRound, SkipRound, RoundDone, DropRound, KeepRound, NextRound, Wake,
        SaveRecord, RecordFails, ResetDeleteFails,
        TeamStarts, TeamStages, ResetLock, ResetDelete, ResetStatus, ResetCached, ResetNumber,
        PauseStop, PauseFlag, StartEvent, ViewCheck, ViewRead, ViewReadFails, ViewFill, ViewStamp, ViewCopy, Crash
<1>e. /\ rpc # "idle" => resetIssued
      /\ lpc \in {"checks", "decide"} /\ ~resetIssued =>
            \A t \in Teams : tpc[t] # "spawned" => label[t] = roundNumber
      /\ lpc = "saving" => /\ \A t \in Teams : label[t] = roundNumber
                           /\ \A r \in records : r.round <= roundNumber
                           /\ \A r \in records : r.time < clock => r.round < roundNumber
      /\ lpc \notin {"boot", "saving"} => \A r \in records : r.round < roundNumber
      /\ \A r, q \in records : r.time <= q.time => r.round <= q.round
    BY <1>d DEF IInv, NumberInv
<1> USE <1>a, <1>e DEF NumberInv, FlagsOK, shared, teams
<1>1. CASE Boot
    <2>1. PICK s \in Newest(1) :
             roundNumber' = IF s = {} THEN 1 ELSE (CHOOSE r \in s : TRUE).round + 1
        BY <1>1 DEF Boot
    <2>2. \A q \in records : q.round < roundNumber'
        <3>1. CASE s = {}
            BY <3>1, NewestOne DEF IInv, WholeInv
        <3>2. CASE s # {}
            <4>1. PICK r \in records : s = {r} /\ \A q \in records \ s : q.time <= r.time
                BY <3>2, NewestOne DEF IInv, WholeInv
            <4>2. roundNumber' = r.round + 1
                BY <2>1, <4>1
            <4>3. \A q \in records : q.time <= r.time
                BY <1>b, <4>1
            <4>4. \A q \in records : q.round <= r.round
                BY <4>3
            <4> QED BY <1>b, <4>2, <4>4
        <3> QED BY <3>1, <3>2
    <2> QED BY <1>1, <2>2 DEF Boot
<1>20. CASE BootFails \/ ResetDeleteFails
    BY <1>20 DEF BootFails, ResetDeleteFails
<1>2. CASE StartRound
    BY <1>2 DEF StartRound
<1>3. CASE SkipRound \/ RoundDone
    BY <1>3 DEF SkipRound, RoundDone
<1>4. CASE DropRound
    BY <1>4 DEF DropRound, MutexInv
<1>5. CASE KeepRound
    <2>1. \A t \in Teams : tpc[t] = "staged"
        BY <1>5 DEF KeepRound, IInv, StagedInv
    <2>2. \A r \in records : r.round <= roundNumber
        BY <1>5, <1>b, <1>c DEF KeepRound
    <2>3. \A t \in Teams : label[t] = roundNumber
        BY <1>5, <2>1 DEF KeepRound
    <2>4. \A r \in records : r.round < roundNumber
        BY <1>5 DEF KeepRound
    <2> QED BY <1>5, <2>2, <2>3, <2>4 DEF KeepRound
<1>6. CASE NextRound
    <2>1. \A r \in records : r.round < roundNumber + 1
        BY <1>6, <1>b, <1>c DEF NextRound
    <2> QED BY <1>6, <2>1 DEF NextRound
<1>7. CASE Wake
    BY <1>7 DEF Wake
<1>8. ASSUME NEW t \in Teams, SaveRecord(t) PROVE NumberInv'
    <2>1. PICK r \in recordsStaging : records' = records \cup {r}
        BY <1>8 DEF SaveRecord, IInv, UnsavedInv
    <2>2. lpc = "saving" /\ UNCHANGED <<lpc, roundNumber, resetIssued, clock, label, rpc>>
        BY <1>8 DEF SaveRecord
    <2>3. \A q \in recordsStaging : q.time = clock /\ q.round = roundNumber
        BY <2>2 DEF IInv, StagedInv
    <2>4. \A q \in records : q.time <= clock /\ (q.time = clock => q.round = roundNumber)
        BY <2>2, <2>3 DEF IInv, ClockInv
    <2>5. \A p, q \in records' : p.time <= q.time => p.round <= q.round
        <3> SUFFICES ASSUME NEW p \in records', NEW q \in records', p.time <= q.time
                     PROVE  p.round <= q.round
            OBVIOUS
        <3>1. CASE p \in records /\ q \in records
            BY <3>1
        <3>2. CASE q = r
            BY <1>c, <2>1, <2>2, <2>3, <3>2
        <3>3. CASE p = r /\ q \in records
            BY <1>b, <1>c, <2>1, <2>3, <2>4, <3>3
        <3> QED BY <2>1, <3>1, <3>2, <3>3
    <2>6. \A q \in records' : q.round <= roundNumber /\ (q.time < clock => q.round < roundNumber)
        BY <1>c, <2>1, <2>2, <2>3
    <2> QED BY <2>2, <2>5, <2>6
<1>19. ASSUME NEW t \in Teams, RecordFails(t) PROVE NumberInv'
    BY <1>19 DEF RecordFails
<1>9. ASSUME NEW t \in Teams, TeamStarts(t) PROVE NumberInv'
    BY <1>9 DEF TeamStarts, PlacesOK
<1>10. ASSUME NEW t \in Teams, TeamStages(t) PROVE NumberInv'
    BY <1>10 DEF TeamStages, PlacesOK
<1>11. CASE ResetLock
    BY <1>11 DEF ResetLock
<1>12. CASE ResetDelete
    BY <1>12 DEF ResetDelete
<1>13. CASE ResetStatus \/ ResetCached
    BY <1>13 DEF ResetStatus, ResetCached
<1>14. CASE ResetNumber
    BY <1>14, <1>d DEF ResetNumber, IInv, HorizonInv, MutexInv
<1>15. CASE PauseStop \/ PauseFlag \/ StartEvent
    BY <1>15 DEF PauseStop, PauseFlag, StartEvent
<1>16. ASSUME NEW v \in Views, ViewStep(v) PROVE NumberInv'
    BY <1>16 DEF ViewStep, ViewCheck, ViewRead, ViewReadFails, ViewFill, ViewStamp, ViewCopy
<1>17. CASE Crash
    BY <1>17 DEF Crash, FreshProcess
<1>18. CASE UNCHANGED vars
    BY <1>18 DEF vars
<1> QED BY <1>1, <1>2, <1>3, <1>4, <1>5, <1>6, <1>7, <1>8, <1>9, <1>10, <1>11, <1>12, <1>13,
        <1>14, <1>15, <1>16, <1>17, <1>18, <1>19, <1>20 DEF Next, LoopStep, TeamStep, ResetStep

\* Whoever changes the table, the round number or the cache either holds teamMutex, which no
\* undisturbed view does, or is such a view, and leaves the stamp right.
LEMMA CacheStep == IInv /\ [Next]_vars => CacheInv'
<1> SUFFICES ASSUME IInv, [Next]_vars, ~spoiled' PROVE CacheOK'
    BY DEF CacheInv
<1>a. MutexInv /\ FlagsOK /\ PlacesOK
    BY TypeParts DEF IInv
<1>b. roundNumber \in Nat /\ cachedRound \in Nat
    BY TypeParts, Bounds DEF IInv, StoreOK
<1>c. CASE Crash
    BY <1>c DEF Crash, FreshProcess, CacheOK, Refreshing
<1> SUFFICES ASSUME ~Crash PROVE CacheOK'
    BY <1>c
<1>d. ~spoiled
    BY <1>a, Zenon DEF Next, LoopStep, TeamStep, ResetStep, ViewStep, vars, history, FlagsOK, Boot,
        BootFails, StartRound, SkipRound, RoundDone, DropRound, KeepRound, NextRound, Wake,
        SaveRecord, RecordFails, ResetDeleteFails,
        TeamStarts, TeamStages, ResetLock, ResetDelete, ResetStatus, ResetCached, ResetNumber,
        PauseStop, PauseFlag, StartEvent, ViewCheck, ViewRead, ViewReadFails, ViewFill, ViewStamp, ViewCopy
<1>e. CacheOK
    BY <1>d DEF IInv, CacheInv
<1>f. records' = records => Query' = Query
    BY DEF Query, Newest
<1>g. records = {} => {} \in Query
    BY NewestOfNone
<1> USE <1>a, <1>e, <1>f DEF CacheOK, Refreshing, shared, cache, pages
<1>1. CASE Boot
    <2>1. roundNumber = 0 /\ cachedRound = 0
        BY <1>1, <1>b DEF Boot, IInv, ClockInv
    <2>2. roundNumber' # 0 /\ roundNumber' \in Nat
        <3>1. PICK s \in Newest(1) :
                 roundNumber' = IF s = {} THEN 1 ELSE (CHOOSE r \in s : TRUE).round + 1
            BY <1>1 DEF Boot
        <3>2. CASE s = {}
            BY <3>1, <3>2
        <3>3. CASE s # {}
            <4>1. PICK r \in records : s = {r}
                BY <3>3, NewestOne DEF IInv, WholeInv
            <4>2. roundNumber' = r.round + 1 /\ r.round \in Nat
                BY <3>1, <4>1, TypeParts DEF IInv, StoreOK, Record
            <4> QED BY <4>2
        <3> QED BY <3>2, <3>3
    <2> QED BY <1>1, <2>1, <2>2 DEF Boot
<1>20. CASE BootFails
    BY <1>20, <1>b DEF BootFails, IInv, ClockInv
<1>2. CASE StartRound \/ SkipRound \/ RoundDone
    BY <1>2 DEF StartRound, SkipRound, RoundDone
<1>3. CASE DropRound \/ Wake
    BY <1>3 DEF DropRound, Wake
<1>4. CASE KeepRound
    BY <1>4 DEF KeepRound
<1>5. CASE NextRound
    BY <1>5, <1>b DEF NextRound, MutexInv
<1>6. ASSUME NEW t \in Teams, SaveRecord(t) \/ RecordFails(t) PROVE CacheOK'
    BY <1>6 DEF SaveRecord, RecordFails, MutexInv
<1>7. ASSUME NEW t \in Teams, TeamStarts(t) \/ TeamStages(t) PROVE CacheOK'
    BY <1>7 DEF TeamStarts, TeamStages
<1>8. CASE ResetLock
    BY <1>8 DEF ResetLock
<1>9. CASE ResetDelete
    BY <1>9 DEF ResetDelete, MutexInv
<1>21. CASE ResetDeleteFails
    BY <1>21 DEF ResetDeleteFails
<1>10. CASE ResetStatus
    BY <1>10 DEF ResetStatus, MutexInv
<1>11. CASE ResetCached
    BY <1>11, <1>b DEF ResetCached, MutexInv
<1>12. CASE ResetNumber
    <2>1. records = {} /\ cachedStatus = {}
        BY <1>12, <1>d DEF ResetNumber, IInv, HorizonInv
    <2> QED BY <1>12, <2>1, <1>g DEF ResetNumber, MutexInv
<1>13. CASE PauseStop \/ PauseFlag \/ StartEvent
    BY <1>13 DEF PauseStop, PauseFlag, StartEvent
<1>14. ASSUME NEW v \in Views, ViewCheck(v) PROVE CacheOK'
    BY <1>14 DEF ViewCheck, PlacesOK
<1>15. ASSUME NEW v \in Views, ViewRead(v) PROVE CacheOK'
    BY <1>15 DEF ViewRead, PlacesOK, Query
<1>22. ASSUME NEW v \in Views, ViewReadFails(v) PROVE CacheOK'
    BY <1>22 DEF ViewReadFails
<1>16. ASSUME NEW v \in Views, ViewFill(v) PROVE CacheOK'
    BY <1>16 DEF ViewFill, PlacesOK, MutexInv
<1>17. ASSUME NEW v \in Views, ViewStamp(v) PROVE CacheOK'
    BY <1>17, <1>b DEF ViewStamp, PlacesOK, MutexInv
<1>18. ASSUME NEW v \in Views, ViewCopy(v) PROVE CacheOK'
    BY <1>18 DEF ViewCopy, PlacesOK
<1>19. CASE UNCHANGED vars
    BY <1>19 DEF vars
<1> QED BY <1>1, <1>2, <1>3, <1>4, <1>5, <1>6, <1>7, <1>8, <1>9, <1>10, <1>11, <1>12, <1>13,
        <1>14, <1>15, <1>16, <1>17, <1>18, <1>19, <1>20,
        <1>21, <1>22 DEF Next, LoopStep, TeamStep, ResetStep, ViewStep

-----------------------------------------------------------------------------
\* Every reachable state satisfies the inductive invariant.
LEMMA Inductive == Spec => []IInv
<1>1. IInv /\ [Next]_vars => IInv'
    BY TypeStep, MutexStep, StagedStep, UnsavedStep, ClockStep, HorizonStep, DropStep, WholeStep, NumberStep,
        CacheStep DEF IInv
<1> QED BY InitIInv, <1>1, PTL DEF Spec

\* The variables keep their types; in particular the round number (score.go:185) is never ahead
\* of the rounds started by more than one, crashes and resets included.
THEOREM TypeCorrect == Spec => []TypeOK
<1>1. IInv => TypeOK
    BY DEF IInv
<1> QED BY Inductive, <1>1, PTL

\* No record of a round that was started before a reset took teamMutex is in the table once
\* the reset has emptied it (util.go:208-223), wherever the loop, the teams' goroutines, pauses
\* and a crash meet the reset.
THEOREM ResetIsolatesAlways == Spec => []ResetIsolates
<1>1. IInv => ResetIsolates
    BY DEF IInv, HorizonInv, ResetIsolates
<1> QED BY Inductive, <1>1, PTL

\* Whenever the loop does not hold teamMutex, each round in the table that no crash interrupted
\* while it was being saved (score.go:167-194) has exactly one row for every team, but for those
\* whose record the database refused (score.go:217-220, 256-259, 282).
THEOREM WholeRoundsAlways == Spec => []WholeRounds
<1>1. IInv => WholeRounds
    <2> SUFFICES ASSUME IInv, teamMutex # "loop", NEW n \in (1..MaxTime) \ torn,
                        {r \in records : r.time = n} # {}
                 PROVE  LET due == {t \in Teams : <<t, n>> \notin refused}
                        IN  /\ {r.team : r \in {q \in records : q.time = n}} = due
                            /\ Cardinality({r \in records : r.time = n}) = Cardinality(due)
        BY DEF WholeRounds
    <2> DEFINE rows == {r \in records : r.time = n}
               due == {t \in Teams : <<t, n>> \notin refused}
               of == [r \in rows |-> r.team]
    <2>1. WholeInv /\ UnsavedInv /\ lpc # "saving"
        BY DEF IInv, MutexInv
    <2>2. \A r \in rows : r.team \in due
        BY <2>1, TypeParts DEF IInv, StoreOK, Record, UnsavedInv
    <2>3. \A t \in due : \E r \in rows : r.team = t
        BY <2>1 DEF WholeInv
    <2>4. \A r, q \in rows : r.team = q.team => r = q
        BY <2>1 DEF WholeInv
    <2>5. of \in Bijection(rows, due)
        BY <2>2, <2>3, <2>4, Fun_IsBij
    <2>6. IsFiniteSet(rows)
        BY <2>1, FS_Subset DEF WholeInv
    <2>7. Cardinality(rows) = Cardinality(due)
        BY <2>5, <2>6, FS_Bijection, Fun_ExistsBij DEF ExistsBijection
    <2> QED BY <2>2, <2>3, <2>7
<1> QED BY Inductive, <1>1, PTL

\* A round during which a pause or a reset was issued is never saved, nothing of a dropped round
\* is ever in the table, and what is staged is of the present round (score.go:113-128).
THEOREM SavedOrDroppedAlways == Spec => []SavedOrDropped
<1>1. IInv => SavedOrDropped
    <2> SUFFICES ASSUME IInv PROVE SavedOrDropped
        OBVIOUS
    <2>1. lpc = "saving" => ~interrupted
        BY DEF IInv, DropInv
    <2>2. \A r \in records : r.time \notin dropped
        BY DEF IInv, DropInv
    <2>3. \A r \in recordsStaging : r.time = clock
        BY TypeParts DEF IInv, StagedInv, PlacesOK
    <2> QED BY <2>1, <2>2, <2>3 DEF SavedOrDropped
<1> QED BY Inductive, <1>1, PTL

\* The number the next round gets (score.go:19-25, 185) is greater than that of every saved
\* record, unless the loop has cleared resetIssued under a reset that was still at work,
\* or the database failed a reset's DELETE or a start's query.
THEOREM RoundNumberAheadAlways == Spec => []RoundNumberAhead
<1>1. IInv => RoundNumberAhead
    BY DEF IInv, NumberInv, RoundNumberAhead
<1> QED BY Inductive, <1>1, PTL

\* A cache stamped with the present round number holds what a query would yield, unless a view
\* refreshed it while the loop or a reset held teamMutex, or the database failed a view or a
\* reset (routes.go:36-58).
THEOREM CacheIsCurrentAlways == Spec => []CacheIsCurrent
<1>1. IInv => CacheIsCurrent
    BY DEF IInv, CacheInv, CacheOK, CacheIsCurrent, Query
<1> QED BY Inductive, <1>1, PTL
=============================================================================
