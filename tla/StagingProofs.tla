---------------------------- MODULE StagingProofs ----------------------------
(***************************************************************************)
(* What Staging promises, for any number of cycles, any length of time, any *)
(* resolution of a key, day and window, and any amount of damage to the     *)
(* stored window.                                                           *)
(***************************************************************************)
EXTENDS Staging, FiniteSetTheorems, TLAPS

Begun(c) == step[c] # "idle"

-----------------------------------------------------------------------------
(***************************************************************************)
(* Time: keys and days, and the newest of some cycles.                      *)
(***************************************************************************)
LEMMA DayIsNatural ==
    ASSUME NEW n \in Nat
    PROVE  DayOf(n) \in Nat
BY StagingAssumption DEF DayOf

\* From an instant to the next the day stays or is followed by the next one.
LEMMA DaysAdvance ==
    ASSUME NEW n \in Nat
    PROVE  DayOf(n + 1) \in {DayOf(n), DayOf(n) + 1}
BY StagingAssumption DEF DayOf

LEMMA DaysAreOrdered ==
    ASSUME NEW m \in Nat, NEW n \in Nat, m <= n
    PROVE  DayOf(m) <= DayOf(n)
BY StagingAssumption DEF DayOf

LEMMA Smallest ==
    ASSUME NEW S \in SUBSET Nat, S # {}
    PROVE  \E x \in S : \A y \in S : x <= y
<1> DEFINE Upto == {0 .. x : x \in S}
<1>1. Upto \subseteq FiniteSubsetsOf(Nat) /\ Upto # {}
  <2>1. ASSUME NEW x \in S PROVE 0 .. x \in FiniteSubsetsOf(Nat)
    BY FS_Interval DEF FiniteSubsetsOf
  <2>2. QED
    BY <2>1
<1>2. PICK U \in Upto : \A V \in Upto : ~ (<<V, U>> \in StrictSubsetOrdering(Nat))
  <2> HIDE DEF Upto
  <2>1. QED
    BY <1>1, FS_StrictSubsetOrderingWellFounded, WFMin
<1>3. PICK x \in S : U = 0 .. x
  BY <1>2
<1>4. ASSUME NEW y \in S, y < x PROVE FALSE
  <2>1. 0 .. y \in Upto
    OBVIOUS
  <2>2. <<0 .. y, 0 .. x>> \in StrictSubsetOrdering(Nat)
    BY <1>3, <1>4 DEF StrictSubsetOrdering
  <2>3. QED
    BY <1>2, <1>3, <2>1, <2>2
<1>5. QED
  BY <1>4

\* The newest instant of cycles that have begun is that of one of them.
LEMMA NewestOf ==
    ASSUME NEW S \in SUBSET Cycles, S # {}, \A c \in S : observedAt[c] \in Time
    PROVE  /\ \E c \in S : Newest(S) = observedAt[c]
           /\ \A b \in S : observedAt[b] <= Newest(S)
<1> DEFINE Ages == {MaxTime - observedAt[c] : c \in S}
<1>1. Ages \in SUBSET Nat /\ Ages # {}
  BY StagingAssumption DEF Time
<1>2. \E x \in Ages : \A y \in Ages : x <= y
  <2> HIDE DEF Ages
  <2> QED BY <1>1, Smallest
<1>3. PICK c \in S : \A b \in S : MaxTime - observedAt[c] <= MaxTime - observedAt[b]
  BY <1>2
<1>4. \A b \in S : observedAt[b] <= observedAt[c]
  BY <1>3, StagingAssumption DEF Time
<1>5. \E m \in {observedAt[d] : d \in S} : \A b \in S : observedAt[b] <= m
  BY <1>4
<1>6. QED
  BY <1>5 DEF Newest

\* What is left of a set of cycles after trimming: the ones within the window
\* of the newest, which is among them.
LEMMA TrimmedToWindow ==
    ASSUME NEW S \in SUBSET Cycles, S # {}, \A c \in S : observedAt[c] \in Time
    PROVE  /\ TrimToWindow(S) = {c \in S : observedAt[c] >= Newest(S) - Window}
           /\ \A b, c \in TrimToWindow(S) : observedAt[c] - observedAt[b] <= Window
<1>1. TrimToWindow(S) = {c \in S : observedAt[c] >= Newest(S) - Window}
  BY DEF TrimToWindow
<1>2. Newest(S) \in Time /\ \A b \in S : observedAt[b] <= Newest(S)
  BY NewestOf
<1>3. ASSUME NEW b \in S, NEW c \in S, observedAt[b] >= Newest(S) - Window
      PROVE  observedAt[c] - observedAt[b] <= Window
  <2>1. observedAt[b] \in Time /\ observedAt[c] \in Time /\ observedAt[c] <= Newest(S)
    BY <1>2
  <2>2. QED
    BY <1>2, <1>3, <2>1, StagingAssumption DEF Time
<1>4. QED
  BY <1>1, <1>3

-----------------------------------------------------------------------------
(***************************************************************************)
(* Types.                                                                   *)
(***************************************************************************)
LEMMA TypeOKInit == Init => TypeOK
<1>1. 0 \in Time /\ 0 \in 0..MaxCorrupt
  BY StagingAssumption DEF Time
<1>2. ASSUME Init PROVE snapshots \in [ARCHIVED_TABLES -> [Keys -> Cycles \cup {None}]]
  BY <1>2 DEF Init
<1>3. ASSUME Init PROVE readable \in BOOLEAN /\ overlapped \in BOOLEAN
  BY <1>3 DEF Init
<1>4. QED
  BY <1>1, <1>2, <1>3 DEF Init, TypeOK, Steps

LEMMA TypeOKStep ==
    ASSUME TypeOK, [Next]_vars
    PROVE  TypeOK'
<1>1. CASE Tick
  BY <1>1, StagingAssumption DEF Tick, TypeOK, Time
<1>2. CASE Corrupt
  <2>1. corrupted' \in 0..MaxCorrupt
    BY <1>2, StagingAssumption DEF Corrupt, TypeOK
  <2>2. QED
    BY <1>2, <2>1 DEF Corrupt, TypeOK
<1>3. ASSUME NEW c \in Cycles, Begin(c) PROVE TypeOK'
  BY <1>3 DEF Begin, Go, TypeOK, Steps
<1>4. ASSUME NEW c \in Cycles, Fail(c) PROVE TypeOK'
  BY <1>4 DEF Fail, Go, TypeOK, Steps
<1>5. ASSUME NEW c \in Cycles, WriteStatus(c) PROVE TypeOK'
  BY <1>5 DEF WriteStatus, WriteSnapshot, Go, TypeOK, Steps, ARCHIVED_TABLES
<1>6. ASSUME NEW c \in Cycles, WriteStations(c) PROVE TypeOK'
  BY <1>6 DEF WriteStations, WriteSnapshot, Go, TypeOK, Steps, ARCHIVED_TABLES
<1>7. ASSUME NEW c \in Cycles, ServeStations(c) PROVE TypeOK'
  BY <1>7 DEF ServeStations, Go, TypeOK, Steps
<1>8. ASSUME NEW c \in Cycles, GetWindow(c) PROVE TypeOK'
  BY <1>8 DEF GetWindow, Go, TypeOK, Steps
<1>9. ASSUME NEW c \in Cycles, PutWindow(c) PROVE TypeOK'
  <2>1. window' \in SUBSET Cycles
    BY <1>9 DEF PutWindow, Merge, TrimToWindow, TypeOK
  <2>2. QED
    BY <1>9, <2>1 DEF PutWindow, Go, TypeOK, Steps
<1>10. CASE UNCHANGED vars
  BY <1>10 DEF vars, TypeOK
<1>11. QED
  BY <1>1, <1>2, <1>3, <1>4, <1>5, <1>6, <1>7, <1>8, <1>9, <1>10 DEF Next, Advance

\* Every object has a key of an instant so far and holds the rows of a cycle.
THEOREM TypeCorrect == Spec => []TypeOK
<1>1. TypeOK /\ [Next]_vars => TypeOK'
  BY TypeOKStep
<1>2. QED
  BY <1>1, TypeOKInit, PTL DEF Spec

-----------------------------------------------------------------------------
(***************************************************************************)
(* Cycles begin in the order of their numbers, no two in one second, and no *)
(* object holds the rows of a cycle that has not begun.                     *)
(***************************************************************************)
BeginningsInOrder ==
    \A c \in Cycles :
        /\ Begun(c) <=> observedAt[c] # Never
        /\ observedAt[c] <= now
        /\ \A b \in Cycles : b < c /\ Begun(c) =>
              /\ Begun(b)
              /\ observedAt[b] <= observedAt[c]
              /\ KeyOf(observedAt[b]) # KeyOf(observedAt[c])

NothingUnbegun ==
    \A t \in ARCHIVED_TABLES : \A k \in Keys :
        snapshots[t][k] # None => Begun(snapshots[t][k])

\* What every later proof needs of a cycle: when it began, and how it differs
\* from the others.
LEMMA BegunCycles ==
    ASSUME TypeOK, BeginningsInOrder, NEW c \in Cycles
    PROVE  /\ Begun(c) <=> observedAt[c] \in Time
           /\ Begun(c) => KeyOf(observedAt[c]) \in Keys
           /\ \A b \in Cycles : b # c /\ Begun(b) /\ Begun(c) =>
                 KeyOf(observedAt[b]) # KeyOf(observedAt[c])
<1>1. Begun(c) <=> observedAt[c] \in Time
  BY StagingAssumption DEF TypeOK, BeginningsInOrder, Never, Time
<1>2. Begun(c) => KeyOf(observedAt[c]) \in Keys
  BY <1>1 DEF Keys
<1>3. ASSUME NEW b \in Cycles, b # c, Begun(b), Begun(c)
      PROVE  KeyOf(observedAt[b]) # KeyOf(observedAt[c])
  <2>1. b < c \/ c < b
    BY <1>3, StagingAssumption DEF Cycles
  <2>2. QED
    BY <1>3, <2>1 DEF BeginningsInOrder
<1>4. QED
  BY <1>1, <1>2, <1>3

\* A step leaves the beginnings alone, unless it is a beginning.
LEMMA OnlyBeginBegins ==
    ASSUME TypeOK, [Next]_vars
    PROVE  \/ \E c \in Cycles : Begin(c)
           \/ /\ observedAt' = observedAt
              /\ \A c \in Cycles : Begun(c)' <=> Begun(c)
              /\ now' \in {now, now + 1}
<1>1. CASE Tick
  BY <1>1 DEF Tick, Begun
<1>2. CASE Corrupt
  BY <1>2 DEF Corrupt, Begun
<1>3. ASSUME NEW c \in Cycles, Advance(c)
      PROVE  /\ observedAt' = observedAt
             /\ \A b \in Cycles : Begun(b)' <=> Begun(b)
             /\ now' = now
  BY <1>3 DEF Advance, WriteStatus, WriteStations, ServeStations, GetWindow, PutWindow,
              WriteSnapshot, At, Go, Begun, TypeOK
<1>4. ASSUME NEW c \in Cycles, Fail(c)
      PROVE  /\ observedAt' = observedAt
             /\ \A b \in Cycles : Begun(b)' <=> Begun(b)
             /\ now' = now
  BY <1>4 DEF Fail, Running, Go, Begun, TypeOK
<1>5. CASE UNCHANGED vars
  BY <1>5 DEF vars, Begun
<1>6. QED
  BY <1>1, <1>2, <1>3, <1>4, <1>5 DEF Next

LEMMA BeginningsStayInOrder ==
    ASSUME TypeOK, BeginningsInOrder, [Next]_vars
    PROVE  BeginningsInOrder'
<1>1. now \in Nat
  BY StagingAssumption DEF TypeOK, Time
<1>2. \A c \in Cycles : observedAt[c] \in Int
  BY StagingAssumption DEF TypeOK, Time, Never
<1>3. ASSUME NEW c \in Cycles, Begin(c)
      PROVE  BeginningsInOrder'
  <2>1. /\ ~ Begun(c) /\ now' = now
        /\ step' = [step EXCEPT ![c] = "fetch"]
        /\ observedAt' = [observedAt EXCEPT ![c] = now]
        /\ \A b \in Cycles : b < c => Begun(b) /\ KeyOf(observedAt[b]) # KeyOf(now)
    BY <1>3 DEF Begin, Begun, At, Go
  <2>2. /\ Begun(c)' /\ observedAt'[c] = now
        /\ \A b \in Cycles \ {c} : (Begun(b)' <=> Begun(b)) /\ observedAt'[b] = observedAt[b]
    BY <2>1 DEF TypeOK, Begun
  <2>3. \A d \in Cycles : c < d => ~ Begun(d)
    BY <2>1 DEF BeginningsInOrder
  <2>4. ASSUME NEW d \in Cycles
        PROVE  /\ Begun(d)' <=> observedAt'[d] # Never
               /\ observedAt'[d] <= now
    BY <1>1, <2>2 DEF BeginningsInOrder, Never
  <2>5. ASSUME NEW d \in Cycles, NEW b \in Cycles, b < d, Begun(d)'
        PROVE  /\ Begun(b)'
               /\ observedAt'[b] <= observedAt'[d]
               /\ KeyOf(observedAt'[b]) # KeyOf(observedAt'[d])
    <3>1. b # d
      BY <2>5, StagingAssumption DEF Cycles
    <3>2. CASE d = c
      BY <2>1, <2>2, <2>5, <3>1, <3>2 DEF BeginningsInOrder
    <3>3. CASE d # c
      <4>1. Begun(d) /\ b # c
        BY <2>2, <2>3, <2>5, <3>3
      <4>2. QED
        BY <2>2, <2>5, <3>3, <4>1 DEF BeginningsInOrder
    <3>4. QED
      BY <3>2, <3>3
  <2>6. QED
    BY <2>1, <2>4, <2>5 DEF BeginningsInOrder, KeyOf
<1>4. ASSUME observedAt' = observedAt,
             \A c \in Cycles : Begun(c)' <=> Begun(c),
             now' \in {now, now + 1}
      PROVE  BeginningsInOrder'
  <2>1. \A c \in Cycles : observedAt[c] <= now'
    BY <1>1, <1>2, <1>4 DEF BeginningsInOrder
  <2>2. QED
    BY <1>4, <2>1 DEF BeginningsInOrder, KeyOf
<1>5. QED
  BY <1>3, <1>4, OnlyBeginBegins

-----------------------------------------------------------------------------
(***************************************************************************)
(* What a step puts in the bucket.                                          *)
(***************************************************************************)
\* A cycle's snapshot replaces no other's: it is added to what was put before.
LEMMA SnapshotIsAdded ==
    ASSUME TypeOK, BeginningsInOrder, observedAt' = observedAt,
           NEW t \in ARCHIVED_TABLES, NEW c \in Cycles, Begun(c), WriteSnapshot(t, c)
    PROVE  /\ Put(t)' = Put(t) \cup {c}
           /\ \A u \in ARCHIVED_TABLES \ {t} : Put(u)' = Put(u)
<1>1. KeyOf(observedAt[c]) \in Keys /\ observedAt[c] # Never
  BY BegunCycles DEF BeginningsInOrder
<1>2. /\ snapshots'[t] = [snapshots[t] EXCEPT ![KeyOf(observedAt[c])] = c]
      /\ \A u \in ARCHIVED_TABLES \ {t} : snapshots'[u] = snapshots[u]
  BY DEF WriteSnapshot, TypeOK
<1>3. ASSUME NEW b \in Cycles, b # c, observedAt[b] # Never
      PROVE  snapshots'[t][KeyOf(observedAt[b])] = snapshots[t][KeyOf(observedAt[b])]
  <2>1. Begun(b)
    BY <1>3 DEF BeginningsInOrder
  <2>2. KeyOf(observedAt[b]) \in Keys /\ KeyOf(observedAt[b]) # KeyOf(observedAt[c])
    BY <1>3, <2>1, BegunCycles
  <2>3. QED
    BY <1>2, <2>2 DEF TypeOK
<1>4. snapshots'[t][KeyOf(observedAt[c])] = c
  BY <1>1, <1>2 DEF TypeOK
<1>5. QED
  BY <1>1, <1>2, <1>3, <1>4 DEF Put, KeyOf

\* A cycle that begins finds no object of its own.
LEMMA BeginPutsNothing ==
    ASSUME TypeOK, BeginningsInOrder, NothingUnbegun, NEW c \in Cycles, Begin(c),
           NEW t \in ARCHIVED_TABLES
    PROVE  Put(t)' = Put(t)
<1>1. /\ ~ Begun(c) /\ snapshots' = snapshots
      /\ observedAt' = [observedAt EXCEPT ![c] = now]
  BY DEF Begin, Begun, At
<1>2. /\ observedAt[c] = Never
      /\ observedAt'[c] = now
      /\ \A b \in Cycles \ {c} : observedAt'[b] = observedAt[b]
  BY <1>1 DEF BeginningsInOrder, TypeOK
<1>3. snapshots[t][KeyOf(now)] # c
  <2>1. KeyOf(now) \in Keys /\ c # None
    BY StagingAssumption DEF TypeOK, Keys, Cycles, None
  <2>2. QED
    BY <1>1, <2>1 DEF NothingUnbegun
<1>4. c \notin Put(t) /\ c \notin Put(t)'
  BY <1>1, <1>2, <1>3 DEF Put, KeyOf
<1>5. QED
  BY <1>1, <1>2, <1>4 DEF Put, KeyOf

\* Every step: two of them put one object each, the others none.
LEMMA WhatAStepPuts ==
    ASSUME TypeOK, BeginningsInOrder, NothingUnbegun, [Next]_vars
    PROVE  \/ \E c \in Cycles : /\ WriteStatus(c)
                              /\ Put(STATION_STATUS)' = Put(STATION_STATUS) \cup {c}
                              /\ Put(STATIONS)' = Put(STATIONS)
           \/ \E c \in Cycles : /\ WriteStations(c)
                              /\ Put(STATIONS)' = Put(STATIONS) \cup {c}
                              /\ Put(STATION_STATUS)' = Put(STATION_STATUS)
           \/ /\ \A c \in Cycles : ~ WriteStatus(c) /\ ~ WriteStations(c)
              /\ \A t \in ARCHIVED_TABLES : Put(t)' = Put(t)
           \/ UNCHANGED vars
<1>1. /\ STATION_STATUS \in ARCHIVED_TABLES /\ STATIONS \in ARCHIVED_TABLES
      /\ STATION_STATUS # STATIONS
  BY DEF ARCHIVED_TABLES, STATION_STATUS, STATIONS
<1>2. ASSUME NEW c \in Cycles, WriteStatus(c)
      PROVE  /\ Put(STATION_STATUS)' = Put(STATION_STATUS) \cup {c}
             /\ Put(STATIONS)' = Put(STATIONS)
  <2>1. Begun(c) /\ observedAt' = observedAt /\ WriteSnapshot(STATION_STATUS, c)
    BY <1>2 DEF WriteStatus, At, Begun
  <2>2. QED
    BY <1>1, <2>1, SnapshotIsAdded
<1>3. ASSUME NEW c \in Cycles, WriteStations(c)
      PROVE  /\ Put(STATIONS)' = Put(STATIONS) \cup {c}
             /\ Put(STATION_STATUS)' = Put(STATION_STATUS)
  <2>1. Begun(c) /\ observedAt' = observedAt /\ WriteSnapshot(STATIONS, c)
    BY <1>3 DEF WriteStations, At, Begun
  <2>2. QED
    BY <1>1, <2>1, SnapshotIsAdded
<1>4. ASSUME snapshots' = snapshots, observedAt' = observedAt
      PROVE  \A t \in ARCHIVED_TABLES : Put(t)' = Put(t)
  BY <1>4 DEF Put
<1>5. ASSUME NEW c \in Cycles,
             Begin(c) \/ ServeStations(c) \/ GetWindow(c) \/ PutWindow(c) \/ Fail(c)
      PROVE  \A t \in ARCHIVED_TABLES : Put(t)' = Put(t)
  <2>1. CASE Begin(c)
    BY <2>1, BeginPutsNothing
  <2>2. CASE ~ Begin(c)
    BY <1>4, <1>5, <2>2 DEF ServeStations, GetWindow, PutWindow, Fail
  <2>3. QED
    BY <2>1, <2>2
<1>6. ASSUME Tick \/ Corrupt PROVE \A t \in ARCHIVED_TABLES : Put(t)' = Put(t)
  BY <1>4, <1>6 DEF Tick, Corrupt
<1>7. CASE \E c \in Cycles : WriteStatus(c) \/ WriteStations(c)
  BY <1>2, <1>3, <1>7
<1>8. CASE \A c \in Cycles : ~ WriteStatus(c) /\ ~ WriteStations(c)
  BY <1>5, <1>6, <1>8 DEF Next, Advance
<1>9. QED
  BY <1>7, <1>8

LEMMA NothingUnbegunIsPut ==
    ASSUME TypeOK, BeginningsInOrder, NothingUnbegun, [Next]_vars
    PROVE  NothingUnbegun'
<1> SUFFICES ASSUME NEW t \in ARCHIVED_TABLES, NEW k \in Keys, snapshots'[t][k] # None
             PROVE  step'[snapshots'[t][k]] # "idle"
  BY DEF NothingUnbegun, Begun, Keys, KeyOf
<1>1. \A c \in Cycles : Begun(c) => Begun(c)'
  BY OnlyBeginBegins DEF Begin, At, Go, Begun, TypeOK
<1>2. \/ snapshots'[t][k] = snapshots[t][k]
      \/ \E c \in Cycles : Begun(c) /\ snapshots'[t][k] = c
  <2>1. CASE \E c \in Cycles : WriteStatus(c) \/ WriteStations(c)
    <3>1. PICK c \in Cycles, u \in {STATION_STATUS, STATIONS} : Begun(c) /\ WriteSnapshot(u, c)
      BY <2>1 DEF WriteStatus, WriteStations, At, Begun
    <3>2. QED
      BY <3>1 DEF WriteSnapshot, TypeOK
  <2>2. CASE \A c \in Cycles : ~ WriteStatus(c) /\ ~ WriteStations(c)
    BY <2>2 DEF Next, vars, Tick, Corrupt, Begin, Advance, ServeStations, GetWindow, PutWindow,
                Fail
  <2>3. QED
    BY <2>1, <2>2
<1>3. snapshots[t][k] \in Cycles \cup {None}
  BY DEF TypeOK
<1>4. QED
  BY <1>1, <1>2, <1>3 DEF NothingUnbegun, Begun

-----------------------------------------------------------------------------
(***************************************************************************)
(* The durable copies come first.                                           *)
(***************************************************************************)
\* How far a cycle has come says which of its objects are in the bucket.
ProgressIsPut ==
    \A c \in Cycles :
        /\ step[c] \in {"idle", "fetch"} => c \notin Put(STATION_STATUS)
        /\ step[c] \in {"idle", "fetch", "stations"} => c \notin Put(STATIONS)
        /\ step[c] \in {"stations", "serve", "get", "put", "done"} => c \in Put(STATION_STATUS)
        /\ step[c] \in {"serve", "get", "put", "done"} => c \in Put(STATIONS)

\* What readers and cycles hold of the serving files was put before.
CopiesArePut ==
    /\ window \subseteq Put(STATION_STATUS)
    /\ served # None => served \in Put(STATIONS)
    /\ \A c \in Cycles : read[c] \subseteq Put(STATION_STATUS)

DurabilityInv ==
    TypeOK /\ BeginningsInOrder /\ NothingUnbegun /\ ProgressIsPut /\ CopiesArePut

LEMMA PutsAreKept ==
    ASSUME TypeOK, BeginningsInOrder, NothingUnbegun, [Next]_vars
    PROVE  /\ Put(STATION_STATUS) \subseteq Put(STATION_STATUS)'
           /\ Put(STATIONS) \subseteq Put(STATIONS)'
BY WhatAStepPuts DEF vars, Put, ARCHIVED_TABLES

LEMMA ProgressStaysPut ==
    ASSUME TypeOK, BeginningsInOrder, NothingUnbegun, ProgressIsPut, [Next]_vars
    PROVE  ProgressIsPut'
<1>1. ASSUME NEW c \in Cycles, WriteStatus(c),
             Put(STATION_STATUS)' = Put(STATION_STATUS) \cup {c},
             Put(STATIONS)' = Put(STATIONS)
      PROVE  ProgressIsPut'
  BY <1>1 DEF WriteStatus, At, Go, TypeOK, ProgressIsPut
<1>2. ASSUME NEW c \in Cycles, WriteStations(c),
             Put(STATIONS)' = Put(STATIONS) \cup {c},
             Put(STATION_STATUS)' = Put(STATION_STATUS)
      PROVE  ProgressIsPut'
  BY <1>2 DEF WriteStations, At, Go, TypeOK, ProgressIsPut
<1>3. ASSUME \A c \in Cycles : ~ WriteStatus(c) /\ ~ WriteStations(c),
             Put(STATION_STATUS)' = Put(STATION_STATUS), Put(STATIONS)' = Put(STATIONS)
      PROVE  ProgressIsPut'
  <2>1. CASE Tick \/ Corrupt
    BY <1>3, <2>1 DEF Tick, Corrupt, ProgressIsPut
  <2>2. ASSUME NEW c \in Cycles, Begin(c) PROVE ProgressIsPut'
    BY <1>3, <2>2 DEF Begin, At, Go, TypeOK, ProgressIsPut
  <2>3. ASSUME NEW c \in Cycles, ServeStations(c) \/ GetWindow(c) \/ PutWindow(c)
        PROVE  ProgressIsPut'
    BY <1>3, <2>3 DEF ServeStations, GetWindow, PutWindow, At, Go, TypeOK, ProgressIsPut
  <2>4. ASSUME NEW c \in Cycles, Fail(c) PROVE ProgressIsPut'
    BY <1>3, <2>4 DEF Fail, Running, Go, TypeOK, ProgressIsPut
  <2>5. CASE UNCHANGED vars
    BY <1>3, <2>5 DEF vars, ProgressIsPut
  <2>6. QED
    BY <1>3, <2>1, <2>2, <2>3, <2>4, <2>5 DEF Next, Advance
<1>4. CASE UNCHANGED vars
  BY <1>4 DEF vars, ProgressIsPut, Put
<1>5. QED
  BY <1>1, <1>2, <1>3, <1>4, WhatAStepPuts DEF ARCHIVED_TABLES

LEMMA CopiesStayPut ==
    ASSUME DurabilityInv, [Next]_vars
    PROVE  CopiesArePut'
<1> USE DEF DurabilityInv
<1>1. /\ Put(STATION_STATUS) \subseteq Put(STATION_STATUS)'
      /\ Put(STATIONS) \subseteq Put(STATIONS)'
  BY PutsAreKept
<1>2. ASSUME window' = window, served' = served, read' = read
      PROVE  CopiesArePut'
  BY <1>1, <1>2 DEF CopiesArePut
<1>3. ASSUME NEW c \in Cycles, ServeStations(c) PROVE CopiesArePut'
  BY <1>1, <1>3 DEF ServeStations, At, CopiesArePut, ProgressIsPut
<1>4. ASSUME NEW c \in Cycles, GetWindow(c) PROVE CopiesArePut'
  BY <1>1, <1>4 DEF GetWindow, CopiesArePut, TypeOK
<1>5. ASSUME NEW c \in Cycles, PutWindow(c) PROVE CopiesArePut'
  <2>1. window' \subseteq read[c] \cup {c}
    BY <1>5 DEF PutWindow, Merge, TrimToWindow
  <2>2. c \in Put(STATION_STATUS)
    BY <1>5 DEF PutWindow, At, ProgressIsPut
  <2>3. served' = served /\ \A b \in Cycles : read'[b] \subseteq read[b]
    BY <1>5 DEF PutWindow, TypeOK
  <2>4. QED
    BY <1>1, <2>1, <2>2, <2>3 DEF CopiesArePut
<1>6. ASSUME NEW c \in Cycles, Fail(c) PROVE CopiesArePut'
  BY <1>1, <1>6 DEF Fail, CopiesArePut, TypeOK
<1>7. QED
  BY <1>2, <1>3, <1>4, <1>5, <1>6 DEF Next, Advance, vars, Tick, Corrupt, Begin, WriteStatus,
                                      WriteStations

LEMMA DurabilityInvHolds == Spec => []DurabilityInv
<1>1. Init => DurabilityInv
  <2> SUFFICES ASSUME Init PROVE DurabilityInv
    OBVIOUS
  <2>1. TypeOK
    BY TypeOKInit
  <2>2. BeginningsInOrder
    BY DEF Init, BeginningsInOrder, Begun, Never
  <2>3. NothingUnbegun
    BY DEF Init, NothingUnbegun
  <2>4. \A t \in ARCHIVED_TABLES : Put(t) = {}
    BY DEF Init, Put
  <2>5. ProgressIsPut /\ CopiesArePut
    BY <2>4 DEF Init, ProgressIsPut, CopiesArePut, ARCHIVED_TABLES
  <2>6. QED
    BY <2>1, <2>2, <2>3, <2>5 DEF DurabilityInv
<1>2. DurabilityInv /\ [Next]_vars => DurabilityInv'
  BY TypeOKStep, BeginningsStayInOrder, NothingUnbegunIsPut, ProgressStaysPut, CopiesStayPut
  DEF DurabilityInv
<1>3. QED
  BY <1>1, <1>2, PTL DEF Spec

\* What a reader gets from the serving files has its snapshot in the bucket: each
\* cycle puts it there first (_publish_stations, write_snapshot before
\* update_recent_window), and no other cycle has its key.
THEOREM ServingDurable == Spec => []ServingIsDurable
<1>1. DurabilityInv => ServingIsDurable
  BY DEF DurabilityInv, CopiesArePut, ServingIsDurable, Put
<1>2. QED
  BY <1>1, DurabilityInvHolds, PTL

-----------------------------------------------------------------------------
(***************************************************************************)
(* The serving window.                                                      *)
(***************************************************************************)
\* What PutWindow merges: cycles that have begun, the one that puts among them.
LEMMA MergedCyclesHaveBegun ==
    ASSUME DurabilityInv, NEW c \in Cycles, PutWindow(c)
    PROVE  LET S == {b \in read[c] : observedAt[b] # observedAt[c]} \cup {c}
           IN  /\ S \in SUBSET Cycles /\ S # {}
               /\ \A b \in S : observedAt[b] \in Time
               /\ S = read[c] \cup {c}
<1> DEFINE S == {b \in read[c] : observedAt[b] # observedAt[c]} \cup {c}
<1>1. TypeOK /\ BeginningsInOrder
  BY DEF DurabilityInv
<1>2. read[c] \subseteq Cycles
  BY <1>1 DEF TypeOK
<1>3. \A b \in read[c] \cup {c} : b \in Cycles /\ Begun(b) /\ observedAt[b] \in Time
  <2>1. Begun(c)
    BY DEF PutWindow, At, Begun
  <2>2. \A b \in read[c] : observedAt[b] # Never
    BY DEF DurabilityInv, CopiesArePut, Put
  <2>3. \A b \in read[c] \cup {c} : b \in Cycles /\ Begun(b)
    BY <1>1, <1>2, <2>1, <2>2 DEF BeginningsInOrder
  <2>4. QED
    BY <1>1, <2>3, BegunCycles
<1>4. S = read[c] \cup {c}
  <2>1. \A b \in read[c] : b # c => KeyOf(observedAt[b]) # KeyOf(observedAt[c])
    BY <1>1, <1>3, BegunCycles
  <2>2. \A b \in read[c] : b # c => observedAt[b] # observedAt[c]
    BY <2>1
  <2>3. QED
    BY <2>2
<1>5. QED
  BY <1>3, <1>4

\* Only PutWindow writes the window, and only Begin a cycle's observed_at: that of
\* a cycle no window holds yet.
LEMMA WindowRests ==
    ASSUME DurabilityInv, [Next]_vars, \A c \in Cycles : ~ PutWindow(c)
    PROVE  /\ window' = window
           /\ \A c \in Cycles : Begun(c) => observedAt'[c] = observedAt[c]
           /\ \A c \in window : Begun(c) /\ observedAt[c] \in Time
<1>1. window' = window
  BY DEF Next, vars, Advance, Tick, Corrupt, Begin, WriteStatus, WriteStations, ServeStations,
         GetWindow, Fail
<1>2. \A c \in Cycles : Begun(c) => observedAt'[c] = observedAt[c]
  <2>1. TypeOK
    BY DEF DurabilityInv
  <2>2. ASSUME NEW b \in Cycles, Begin(b), NEW c \in Cycles, Begun(c)
        PROVE  observedAt'[c] = observedAt[c]
    BY <2>1, <2>2 DEF Begin, At, Begun, TypeOK
  <2>3. QED
    BY <2>1, <2>2, OnlyBeginBegins
<1>3. \A c \in window : Begun(c) /\ observedAt[c] \in Time
  BY BegunCycles DEF DurabilityInv, CopiesArePut, Put, BeginningsInOrder
<1>4. QED
  BY <1>1, <1>2, <1>3

\* The window a reader gets never spans more than RECENT_WINDOW_MINUTES, whichever
\* cycle wrote it last and whatever it had read (_trim_to_window).
THEOREM WindowNarrow == Spec => []WindowIsNarrow
<1>1. Init => WindowIsNarrow
  BY DEF Init, WindowIsNarrow
<1>2. DurabilityInv /\ WindowIsNarrow /\ [Next]_vars => WindowIsNarrow'
  <2> SUFFICES ASSUME DurabilityInv, WindowIsNarrow, [Next]_vars PROVE WindowIsNarrow'
    OBVIOUS
  <2>1. ASSUME NEW c \in Cycles, PutWindow(c) PROVE WindowIsNarrow'
    <3> DEFINE S == {b \in read[c] : observedAt[b] # observedAt[c]} \cup {c}
    <3>1. window' = TrimToWindow(S) /\ observedAt' = observedAt
      BY <2>1 DEF PutWindow, Merge
    <3>2. S \in SUBSET Cycles /\ S # {} /\ \A b \in S : observedAt[b] \in Time
      BY <2>1, MergedCyclesHaveBegun
    <3>3. \A a, b \in TrimToWindow(S) : observedAt[b] - observedAt[a] <= Window
      BY <3>2, TrimmedToWindow
    <3>4. QED
      BY <3>1, <3>3 DEF WindowIsNarrow
  <2>2. CASE \A c \in Cycles : ~ PutWindow(c)
    BY <2>2, WindowRests DEF WindowIsNarrow, DurabilityInv, TypeOK
  <2>3. QED
    BY <2>1, <2>2
<1>3. QED
  BY <1>1, <1>2, DurabilityInvHolds, PTL DEF Spec

\* Without overlaps a running cycle is the only one, and the latest to have begun.
OneAtATime ==
    ~ overlapped =>
        \A c \in Running : \A b \in Cycles \ {c} : b \notin Running /\ (Begun(b) => b < c)

LEMMA StaysOneAtATime ==
    ASSUME TypeOK, BeginningsInOrder, OneAtATime, [Next]_vars
    PROVE  OneAtATime'
<1> SUFFICES ASSUME ~ overlapped'
             PROVE  \A c \in Running' : \A b \in Cycles \ {c} :
                       b \notin Running' /\ (Begun(b)' => b < c)
  BY DEF OneAtATime
<1>1. ASSUME NEW c \in Cycles, Begin(c)
      PROVE  \A d \in Running' : \A b \in Cycles \ {d} :
                b \notin Running' /\ (Begun(b)' => b < d)
  <2>1. /\ Running = {} /\ ~ Begun(c)
        /\ step' = [step EXCEPT ![c] = "fetch"]
        /\ \A b \in Cycles : b < c => Begun(b)
    BY <1>1 DEF Begin, At, Go, Begun
  <2>2. Running' = {c}
    BY <2>1 DEF Running, TypeOK
  <2>3. ASSUME NEW b \in Cycles \ {c}, Begun(b)' PROVE b < c
    <3>1. Begun(b)
      BY <2>1, <2>3 DEF Begun, TypeOK
    <3>2. ~ (c < b)
      BY <2>1, <3>1 DEF BeginningsInOrder
    <3>3. QED
      BY <3>2, StagingAssumption DEF Cycles
  <2>4. QED
    BY <2>2, <2>3
<1>2. ASSUME overlapped' = overlapped, Running' \subseteq Running,
             \A c \in Cycles : Begun(c)' <=> Begun(c)
      PROVE  \A d \in Running' : \A b \in Cycles \ {d} :
                b \notin Running' /\ (Begun(b)' => b < d)
  BY <1>2 DEF OneAtATime
<1>3. ASSUME NEW c \in Cycles, Advance(c) \/ Fail(c)
      PROVE  overlapped' = overlapped /\ Running' \subseteq Running
  BY <1>3 DEF Advance, WriteStatus, WriteStations, ServeStations, GetWindow, PutWindow, Fail,
              At, Go, Running, TypeOK
<1>4. CASE \A c \in Cycles : ~ Begin(c)
  <2>1. overlapped' = overlapped /\ Running' \subseteq Running
    BY <1>3, <1>4 DEF Next, vars, Tick, Corrupt, Running
  <2>2. QED
    BY <1>2, <1>4, <2>1, OnlyBeginBegins
<1>5. QED
  BY <1>1, <1>4

\* Undamaged, the stored window is a Parquet file; and without overlaps it is
\* still what the cycle about to put it has read.
ReadIsCurrent ==
    /\ corrupted = 0 => readable
    /\ ~ overlapped /\ corrupted = 0 => \A c \in Cycles : At(c, "put") => read[c] = window

ExactInv == DurabilityInv /\ OneAtATime /\ ReadIsCurrent /\ WindowIsExact

LEMMA HistoryGrows ==
    ASSUME TypeOK, [Next]_vars
    PROVE  /\ ~ overlapped' => ~ overlapped
           /\ corrupted' = 0 => corrupted = 0
<1>1. ~ overlapped' => ~ overlapped
  BY DEF Next, vars, Advance, Tick, Corrupt, Begin, WriteStatus, WriteStations, ServeStations,
         GetWindow, PutWindow, Fail
<1>2. \/ corrupted' = corrupted
      \/ corrupted \in Nat /\ corrupted' = corrupted + 1
  BY DEF Next, vars, Advance, Tick, Corrupt, Begin, WriteStatus, WriteStations, ServeStations,
         GetWindow, PutWindow, Fail, TypeOK
<1>3. QED
  BY <1>1, <1>2

LEMMA ReadStaysCurrent ==
    ASSUME ExactInv, [Next]_vars
    PROVE  ReadIsCurrent'
<1>1. TypeOK /\ OneAtATime /\ ReadIsCurrent
  BY DEF ExactInv, DurabilityInv
<1>2. ASSUME corrupted' = 0 PROVE readable'
  <2>1. ~ Corrupt
    BY <1>1, <1>2 DEF Corrupt, TypeOK
  <2>2. readable
    BY <1>1, <1>2, HistoryGrows DEF ReadIsCurrent
  <2>3. QED
    BY <2>1, <2>2 DEF Next, vars, Advance, Tick, Begin, WriteStatus, WriteStations,
                      ServeStations, GetWindow, PutWindow, Fail
<1>3. ASSUME ~ overlapped', corrupted' = 0, NEW c \in Cycles, step'[c] = "put"
      PROVE  read'[c] = window'
  <2>1. ~ overlapped /\ corrupted = 0 /\ readable
    BY <1>1, <1>3, HistoryGrows DEF ReadIsCurrent
  <2>2. CASE GetWindow(c)
    BY <1>1, <2>1, <2>2 DEF GetWindow, TypeOK
  <2>3. CASE ~ GetWindow(c)
    <3>1. step[c] = "put"
      BY <1>1, <1>3, <2>3 DEF Next, vars, Advance, Tick, Corrupt, Begin, WriteStatus,
            WriteStations, ServeStations, GetWindow, PutWindow, Fail, Go, TypeOK
    <3>2. \A b \in Cycles \ {c} : b \notin Running
      BY <1>1, <2>1, <3>1 DEF OneAtATime, Running
    <3>3. \A b \in Cycles : ~ PutWindow(b)
      BY <1>1, <1>3, <3>1, <3>2 DEF PutWindow, At, Go, Running, TypeOK
    <3>4. ~ Fail(c) /\ \A b \in Cycles \ {c} : ~ Fail(b) /\ ~ GetWindow(b)
      BY <1>1, <1>3, <3>1, <3>2 DEF Fail, GetWindow, At, Go, Running, TypeOK
    <3>5. read' = read
      BY <2>3, <3>3, <3>4 DEF Next, vars, Advance, Tick, Corrupt, Begin, WriteStatus,
            WriteStations, ServeStations
    <3>6. window' = window
      BY <3>3, WindowRests DEF ExactInv
    <3>7. QED
      BY <1>1, <2>1, <3>1, <3>5, <3>6 DEF ReadIsCurrent, At
  <2>4. QED
    BY <2>2, <2>3
<1>4. QED
  BY <1>2, <1>3 DEF ReadIsCurrent, At

\* A put by the only running cycle: the finished ones and it, within the width
\* of it, since it is the newest.
LEMMA PutIsExact ==
    ASSUME ExactInv, ~ overlapped, corrupted = 0, NEW c \in Cycles, PutWindow(c)
    PROVE  WindowIsExact'
<1> DEFINE S == {b \in read[c] : observedAt[b] # observedAt[c]} \cup {c}
<1>1. TypeOK /\ BeginningsInOrder /\ OneAtATime /\ ReadIsCurrent /\ WindowIsExact
  BY DEF ExactInv, DurabilityInv
<1>2. /\ step[c] = "put"
      /\ step' = [step EXCEPT ![c] = "done"]
      /\ observedAt' = observedAt
      /\ window' = TrimToWindow(S)
  BY DEF PutWindow, At, Go, Merge
<1>3. /\ S = window \cup {c} /\ S \in SUBSET Cycles /\ S # {}
      /\ \A b \in S : observedAt[b] \in Time
  <2>1. read[c] = window
    BY <1>1, <1>2 DEF ReadIsCurrent, At
  <2>2. QED
    BY <2>1, MergedCyclesHaveBegun DEF ExactInv
<1>4. Done' = Done \cup {c}
  BY <1>1, <1>2 DEF Done, TypeOK
<1>5. ASSUME NEW b \in Done \cup {c}
      PROVE  observedAt[b] \in Time /\ observedAt[b] <= observedAt[c]
  <2>1. b \in Cycles /\ Begun(b) /\ Begun(c) /\ c \in Running
    BY <1>2 DEF Done, Begun, Running
  <2>2. b = c \/ b < c
    BY <1>1, <2>1 DEF OneAtATime
  <2>3. observedAt[b] \in Time /\ observedAt[c] \in Time
    BY <1>1, <2>1, BegunCycles
  <2>4. QED
    BY <1>1, <2>1, <2>2, <2>3, StagingAssumption DEF BeginningsInOrder, Time
<1>6. window = {b \in Done : \A d \in Done : observedAt[b] >= observedAt[d] - Window}
  BY <1>1 DEF WindowIsExact
<1>7. Newest(S) = observedAt[c]
  <2>1. PICK n \in S : Newest(S) = observedAt[n]
    BY <1>3, NewestOf
  <2>2. observedAt[c] <= Newest(S)
    BY <1>3, NewestOf
  <2>3. n \in Done \cup {c}
    BY <1>3, <1>6
  <2>4. observedAt[n] <= observedAt[c] /\ observedAt[n] \in Time /\ observedAt[c] \in Time
    BY <1>5, <2>3
  <2>5. QED
    BY <2>1, <2>2, <2>4, StagingAssumption DEF Time
<1>8. window' = {b \in window \cup {c} : observedAt[b] >= observedAt[c] - Window}
  BY <1>2, <1>3, <1>7, TrimmedToWindow
<1>9. ASSUME NEW b \in Done \cup {c}
      PROVE  b \in window' <=> \A d \in Done \cup {c} : observedAt[b] >= observedAt[d] - Window
  <2>1. \A d \in Done \cup {c} : observedAt[d] \in Int /\ observedAt[d] <= observedAt[c]
    BY <1>5, StagingAssumption DEF Time
  <2>2. (\A d \in Done \cup {c} : observedAt[b] >= observedAt[d] - Window)
           <=> observedAt[b] >= observedAt[c] - Window
    BY <1>9, <2>1, StagingAssumption
  <2>3. observedAt[b] >= observedAt[c] - Window => b \in window \cup {c}
    BY <1>6, <1>9, <2>2
  <2>4. QED
    BY <1>8, <2>2, <2>3
<1>10. window' \subseteq Done \cup {c}
  BY <1>6, <1>8
<1>11. window' = {b \in Done' : \A d \in Done' : observedAt'[b] >= observedAt'[d] - Window}
  BY <1>2, <1>4, <1>9, <1>10
<1>12. QED
  BY <1>11 DEF WindowIsExact

\* While nobody writes the window the finished cycles stay the same ones.
LEMMA RestIsExact ==
    ASSUME ExactInv, [Next]_vars, \A c \in Cycles : ~ PutWindow(c)
    PROVE  WindowIsExact'
<1>1. TypeOK /\ WindowIsExact
  BY DEF ExactInv, DurabilityInv
<1>2. /\ window' = window
      /\ \A c \in Done : observedAt'[c] = observedAt[c]
  BY WindowRests DEF ExactInv, Done, Begun
<1>3. Done' = Done
  BY <1>1 DEF Next, vars, Advance, Tick, Corrupt, Begin, WriteStatus, WriteStations,
              ServeStations, GetWindow, Fail, At, Go, Running, Done, TypeOK
<1>4. QED
  BY <1>1, <1>2, <1>3, HistoryGrows DEF WindowIsExact

\* Readers find the rows of every finished cycle within the width of the newest,
\* and no others, as long as no cycles overlapped and nothing damaged the stored
\* window: cycles that failed half-way take nothing away
\* (update_recent_window reads, merges and puts the whole file).
THEOREM WindowExact == Spec => []WindowIsExact
<1>1. Init => OneAtATime /\ ReadIsCurrent /\ WindowIsExact
  BY DEF Init, OneAtATime, Running, ReadIsCurrent, At, WindowIsExact, Done
<1>2. ExactInv /\ DurabilityInv' /\ [Next]_vars => (OneAtATime /\ ReadIsCurrent /\ WindowIsExact)'
  <2> SUFFICES ASSUME ExactInv, [Next]_vars
               PROVE  OneAtATime' /\ ReadIsCurrent' /\ WindowIsExact'
    OBVIOUS
  <2>1. OneAtATime'
    BY StaysOneAtATime DEF ExactInv, DurabilityInv
  <2>2. ASSUME NEW c \in Cycles, PutWindow(c) PROVE WindowIsExact'
    <3>1. CASE ~ overlapped /\ corrupted = 0
      BY <2>2, <3>1, PutIsExact
    <3>2. CASE overlapped \/ corrupted # 0
      BY <3>2, HistoryGrows DEF ExactInv, DurabilityInv, WindowIsExact
    <3>3. QED
      BY <3>1, <3>2
  <2>3. WindowIsExact'
    BY <2>2, RestIsExact
  <2>4. QED
    BY <2>1, <2>3, ReadStaysCurrent
<1>3. QED
  BY <1>1, <1>2, DurabilityInvHolds, PTL DEF Spec, ExactInv

-----------------------------------------------------------------------------
(***************************************************************************)
(* To the archive, ingestion is SnapshotFeed.                               *)
(***************************************************************************)
\* The state SnapshotFeed sees, with names.
Observed == [c \in Cycles |-> IF observedAt[c] = Never THEN -1 ELSE DayOf(observedAt[c])]
Active   == {c \in Cycles : step[c] \in {"fetch", "stations"}}
Objects  == [t \in ARCHIVED_TABLES |-> Put(t)]

LEMMA FeedStarts == Init => Feed!FeedInit
<1> SUFFICES ASSUME Init PROVE Feed!FeedInit
  OBVIOUS
<1>1. DayOf(0) = 0
  BY StagingAssumption DEF DayOf
<1>2. Observed = [c \in Cycles |-> -1] /\ Active = {}
  BY DEF Init, Observed, Active
<1>3. Objects = [t \in ARCHIVED_TABLES |-> {}]
  BY DEF Init, Objects, Put
<1>4. QED
  BY <1>1, <1>2, <1>3
  DEF Init, Feed!FeedInit, Feed!Cycles, Cycles, Feed!NoDay, Feed!ARCHIVED_TABLES,
      Feed!STATION_STATUS, Feed!STATIONS, ARCHIVED_TABLES, STATION_STATUS, STATIONS,
      Observed, Active, Objects

\* SnapshotFeed's actions in terms of those names.
LEMMA FeedActions ==
    /\ DayOf(now) < DayOf(MaxTime) /\ DayOf(now)' = DayOf(now) + 1
          /\ UNCHANGED <<Observed, Active, Objects>>
       => Feed!FeedNext
    /\ UNCHANGED <<DayOf(now), Observed, Active, Objects>>
       => UNCHANGED Feed!feedVars
    /\ \A c \in Cycles :
          /\ /\ Observed[c] = -1 /\ \A b \in Cycles : b < c => Observed[b] # -1
             /\ Observed' = [Observed EXCEPT ![c] = DayOf(now)]
             /\ Active' = Active \cup {c}
             /\ UNCHANGED <<DayOf(now), Objects>>
             => Feed!FeedNext
          /\ /\ c \in Active /\ c \notin Objects[STATION_STATUS]
             /\ Objects' = [Objects EXCEPT ![STATION_STATUS] = @ \cup {c}]
             /\ UNCHANGED <<DayOf(now), Observed, Active>>
             => Feed!FeedNext
          /\ /\ c \in Active /\ c \in Objects[STATION_STATUS]
             /\ Objects' = [Objects EXCEPT ![STATIONS] = @ \cup {c}]
             /\ Active' = Active \ {c}
             /\ UNCHANGED <<DayOf(now), Observed>>
             => Feed!FeedNext
          /\ /\ c \in Active /\ Active' = Active \ {c}
             /\ UNCHANGED <<DayOf(now), Observed, Objects>>
             => Feed!FeedNext
BY DEF Feed!FeedNext, Feed!feedVars, Feed!NewDay, Feed!CycleStep, Feed!StartCycle, Feed!PutStatus,
       Feed!PutStations, Feed!PutObject, Feed!AbandonCycle, Feed!Cycles, Feed!NoDay,
       Feed!STATION_STATUS, Feed!STATIONS, Feed!ARCHIVED_TABLES, Cycles, STATION_STATUS,
       STATIONS, ARCHIVED_TABLES, Observed, Active, Objects

\* Steps that put nothing and leave the running cycles alone are none of its.
LEMMA TheRestIsHidden ==
    ASSUME observedAt' = observedAt, snapshots' = snapshots, now' = now, Active' = Active
    PROVE  UNCHANGED Feed!feedVars
<1>1. UNCHANGED <<DayOf(now), Observed, Objects>>
  BY DEF Observed, Objects, Put, DayOf
<1>2. QED
  BY <1>1, FeedActions

LEMMA TickFeeds ==
    ASSUME TypeOK, Tick
    PROVE  [Feed!FeedNext]_(Feed!feedVars)
<1>1. /\ now \in Nat /\ MaxTime \in Nat /\ now' = now + 1 /\ now + 1 <= MaxTime
      /\ observedAt' = observedAt /\ snapshots' = snapshots /\ step' = step
  BY StagingAssumption DEF Tick, TypeOK, Time
<1>2. UNCHANGED <<Observed, Active, Objects>>
  BY <1>1 DEF Observed, Active, Objects, Put
<1>3. DayOf(now)' = DayOf(now + 1) /\ DayOf(now + 1) <= DayOf(MaxTime)
  <2>1. DayOf(now)' = DayOf(now + 1)
    BY <1>1 DEF DayOf
  <2>2. QED
    BY <1>1, <2>1, DaysAreOrdered
<1>4. DayOf(now) \in Nat /\ DayOf(MaxTime) \in Nat
  BY <1>1, DayIsNatural
<1>5. CASE DayOf(now + 1) = DayOf(now)
  BY <1>2, <1>3, <1>5, FeedActions
<1>6. CASE DayOf(now + 1) = DayOf(now) + 1
  BY <1>2, <1>3, <1>4, <1>6, FeedActions
<1>7. QED
  BY <1>1, <1>5, <1>6, DaysAdvance

LEMMA BeginFeeds ==
    ASSUME DurabilityInv, NEW c \in Cycles, Begin(c)
    PROVE  Feed!FeedNext
<1>1. TypeOK /\ BeginningsInOrder /\ NothingUnbegun
  BY DEF DurabilityInv
<1>2. /\ ~ Begun(c) /\ now' = now
      /\ step' = [step EXCEPT ![c] = "fetch"]
      /\ observedAt' = [observedAt EXCEPT ![c] = now]
      /\ \A b \in Cycles : b < c => Begun(b)
  BY DEF Begin, At, Go, Begun
<1>3. now # Never /\ now \in Nat
  BY <1>1, StagingAssumption DEF TypeOK, Time, Never
<1>4. \A b \in Cycles : Observed[b] = -1 <=> ~ Begun(b)
  <2>1. ASSUME NEW b \in Cycles, Begun(b) PROVE DayOf(observedAt[b]) \in Nat
    BY <1>1, <2>1, BegunCycles, DayIsNatural, StagingAssumption DEF Time
  <2>2. QED
    BY <1>1, <2>1 DEF Observed, BeginningsInOrder
<1>5. Observed' = [Observed EXCEPT ![c] = DayOf(now)]
  BY <1>1, <1>2, <1>3 DEF Observed, TypeOK, DayOf
<1>6. Active' = Active \cup {c}
  BY <1>1, <1>2 DEF Active, TypeOK
<1>7. UNCHANGED <<DayOf(now), Objects>>
  BY <1>1, <1>2, BeginPutsNothing DEF Objects, DayOf
<1>8. QED
  BY <1>2, <1>4, <1>5, <1>6, <1>7, FeedActions

LEMMA WriteStatusFeeds ==
    ASSUME DurabilityInv, NEW c \in Cycles, WriteStatus(c),
           Put(STATION_STATUS)' = Put(STATION_STATUS) \cup {c},
           Put(STATIONS)' = Put(STATIONS)
    PROVE  Feed!FeedNext
<1>1. /\ step[c] = "fetch" /\ step' = [step EXCEPT ![c] = "stations"]
      /\ now' = now /\ observedAt' = observedAt
  BY DEF WriteStatus, At, Go
<1>2. c \in Active /\ c \notin Put(STATION_STATUS)
  BY <1>1 DEF DurabilityInv, ProgressIsPut, Active
<1>3. UNCHANGED <<DayOf(now), Observed, Active>>
  BY <1>1 DEF DurabilityInv, TypeOK, DayOf, Observed, Active
<1>4. /\ Objects[STATION_STATUS] = Put(STATION_STATUS)
      /\ Objects' = [Objects EXCEPT ![STATION_STATUS] = @ \cup {c}]
  BY DEF Objects, ARCHIVED_TABLES, STATION_STATUS, STATIONS
<1>5. QED
  BY <1>2, <1>3, <1>4, FeedActions

LEMMA WriteStationsFeeds ==
    ASSUME DurabilityInv, NEW c \in Cycles, WriteStations(c),
           Put(STATIONS)' = Put(STATIONS) \cup {c},
           Put(STATION_STATUS)' = Put(STATION_STATUS)
    PROVE  Feed!FeedNext
<1>1. /\ step[c] = "stations" /\ step' = [step EXCEPT ![c] = "serve"]
      /\ now' = now /\ observedAt' = observedAt
  BY DEF WriteStations, At, Go
<1>2. c \in Active /\ c \in Put(STATION_STATUS)
  BY <1>1 DEF DurabilityInv, ProgressIsPut, Active
<1>3. UNCHANGED <<DayOf(now), Observed>>
  BY <1>1 DEF DayOf, Observed
<1>4. Active' = Active \ {c}
  BY <1>1 DEF DurabilityInv, TypeOK, Active
<1>5. /\ Objects[STATION_STATUS] = Put(STATION_STATUS)
      /\ Objects' = [Objects EXCEPT ![STATIONS] = @ \cup {c}]
  BY DEF Objects, ARCHIVED_TABLES, STATION_STATUS, STATIONS
<1>6. QED
  BY <1>2, <1>3, <1>4, <1>5, FeedActions

LEMMA FailFeeds ==
    ASSUME TypeOK, NEW c \in Cycles, Fail(c)
    PROVE  [Feed!FeedNext]_(Feed!feedVars)
<1>1. /\ step' = [step EXCEPT ![c] = "failed"]
      /\ now' = now /\ observedAt' = observedAt /\ snapshots' = snapshots
  BY DEF Fail, Go
<1>2. Active' = Active \ {c}
  BY <1>1 DEF TypeOK, Active
<1>3. UNCHANGED <<DayOf(now), Observed, Objects>>
  BY <1>1 DEF DayOf, Observed, Objects, Put
<1>4. CASE c \in Active
  BY <1>2, <1>3, <1>4, FeedActions
<1>5. CASE c \notin Active
  BY <1>1, <1>2, <1>5, TheRestIsHidden
<1>6. QED
  BY <1>4, <1>5

LEMMA StepsFeed ==
    ASSUME DurabilityInv, [Next]_vars
    PROVE  [Feed!FeedNext]_(Feed!feedVars)
<1>1. TypeOK /\ BeginningsInOrder /\ NothingUnbegun
  BY DEF DurabilityInv
<1>2. ASSUME NEW c \in Cycles, ServeStations(c) \/ GetWindow(c) \/ PutWindow(c)
      PROVE  UNCHANGED Feed!feedVars
  <2>1. /\ observedAt' = observedAt /\ snapshots' = snapshots /\ now' = now
        /\ Active' = Active
    BY <1>1, <1>2 DEF ServeStations, GetWindow, PutWindow, At, Go, TypeOK, Active
  <2>2. QED
    BY <2>1, TheRestIsHidden
<1>3. CASE Corrupt \/ UNCHANGED vars
  <2>1. /\ observedAt' = observedAt /\ snapshots' = snapshots /\ now' = now
        /\ Active' = Active
    BY <1>3 DEF Corrupt, vars, Active
  <2>2. QED
    BY <2>1, TheRestIsHidden
<1>4. CASE \E c \in Cycles : WriteStatus(c) \/ WriteStations(c)
  BY <1>1, <1>3, <1>4, WhatAStepPuts, WriteStatusFeeds, WriteStationsFeeds
<1>5. CASE \A c \in Cycles : ~ WriteStatus(c) /\ ~ WriteStations(c)
  BY <1>1, <1>2, <1>3, <1>5, TickFeeds, BeginFeeds, FailFeeds DEF Next, Advance
<1>6. QED
  BY <1>4, <1>5

\* What the archive takes for granted of ingestion (SnapshotFeed, on which
\* ArchiveJob builds) is what the cycles do: a status object and then a stations
\* object per cycle, each put once, under the day of its observed_at.
THEOREM FeedsArchive == Spec => FeedsTheArchive
<1>1. DurabilityInv /\ [Next]_vars => [Feed!FeedNext]_(Feed!feedVars)
  BY StepsFeed
<1>2. QED
  BY <1>1, FeedStarts, DurabilityInvHolds, PTL DEF Spec, FeedsTheArchive, Feed!FeedSpec
=============================================================================
