---------------------------- MODULE TrainingProofs ----------------------------
(***************************************************************************)
(* What Training promises, for any stations, sizes, lags, windows, horizon, *)
(* shares and history.  The lemmas about rows are those of                  *)
(* TrainingDataProofs, proved for the definitions Training instantiates.    *)
(***************************************************************************)
EXTENDS Training, FiniteSetTheorems, TLAPS

(***************************************************************************)
(* Rows have an earliest and a latest one.                                  *)
(***************************************************************************)
LEMMA Smallest ==
    ASSUME NEW S \in SUBSET Nat, S # {}
    PROVE  \E x \in S : \A y \in S : x <= y
<1> DEFINE Upto == {0 .. x : x \in S}
<1>1. Upto \subseteq FiniteSubsetsOf(Nat) /\ Upto # {}
  <2>1. ASSUME NEW x \in S PROVE 0 .. x \in FiniteSubsetsOf(Nat)
    <3>1. IsFiniteSet(0 .. x)
      BY FS_Interval
    <3>2. 0 .. x \subseteq Nat
      OBVIOUS
    <3>3. QED
      BY <3>1, <3>2 DEF FiniteSubsetsOf
  <2>2. QED
    BY <2>1
<1>2. PICK U \in Upto : \A V \in Upto : ~ (<<V, U>> \in StrictSubsetOrdering(Nat))
  <2> HIDE DEF Upto
  <2>1. QED
    BY <1>1, FS_StrictSubsetOrderingWellFounded, WFMin
<1>3. PICK x \in S : U = 0 .. x
  BY <1>2
<1>4. ASSUME NEW y \in S, y < x PROVE FALSE
  <2>1. 0 .. y \in Upto
    OBVIOUS
  <2>2. <<0 .. y, 0 .. x>> \in StrictSubsetOrdering(Nat)
    BY <1>3, <1>4 DEF StrictSubsetOrdering
  <2>3. QED
    BY <1>2, <1>3, <2>1, <2>2
<1>5. QED
  BY <1>4

\* Rows of one table before a given time: a station has one at most at a time.
RowSet(S, time) ==
    /\ \A r \in S : r.at \in Nat /\ r.at < time
    /\ \A q, r \in S : q.station = r.station /\ q.at = r.at => q = r

LEMMA EarliestOf ==
    ASSUME NEW time \in Nat, NEW S, S # {}, RowSet(S, time)
    PROVE  /\ Data!Earliest(S) \in S
           /\ \A q \in S : Data!Earliest(S).at <= q.at
<1> DEFINE Times == {r.at : r \in S}
<1>1. Times \in SUBSET Nat /\ Times # {}
  BY DEF RowSet
<1>2. \E x \in Times : \A y \in Times : x <= y
  <2> HIDE DEF Times
  <2> QED BY <1>1, Smallest
<1>3. \E r \in S : \A q \in S : r.at <= q.at
  BY <1>2
<1>4. QED
  BY <1>3 DEF Data!Earliest

LEMMA LatestOf ==
    ASSUME NEW time \in Nat, NEW S, S # {}, RowSet(S, time)
    PROVE  /\ Data!Latest(S) \in S
           /\ \A q \in S : q.at <= Data!Latest(S).at
<1> DEFINE Ages == {time - r.at : r \in S}
<1>1. Ages \in SUBSET Nat /\ Ages # {}
  BY DEF RowSet
<1>2. \E x \in Ages : \A y \in Ages : x <= y
  <2> HIDE DEF Ages
  <2> QED BY <1>1, Smallest
<1>3. PICK r \in S : \A q \in S : time - r.at <= time - q.at
  BY <1>2
<1>4. \A q \in S : q.at <= r.at
  BY <1>3 DEF RowSet
<1>5. QED
  BY <1>4 DEF Data!Latest

\* A station's latest row is the one that no other row of it follows.
LEMMA TheLatest ==
    ASSUME NEW time \in Nat, NEW F, RowSet(F, time), NEW s, NEW r \in Data!Of(F, s),
           \A q \in Data!Of(F, s) : q.at <= r.at
    PROVE  Data!Latest(Data!Of(F, s)) = r
<1> DEFINE S == Data!Of(F, s)
<1>1. S # {} /\ RowSet(S, time) /\ \A q \in S : q.station = s
  BY DEF RowSet, Data!Of
<1>2. Data!Latest(S) \in S /\ r.at <= Data!Latest(S).at
  <2> HIDE DEF S
  <2> QED BY <1>1, LatestOf DEF S
<1>3. Data!Latest(S).at = r.at
  BY <1>1, <1>2 DEF RowSet
<1>4. QED
  BY <1>1, <1>2, <1>3 DEF RowSet

-----------------------------------------------------------------------------
(***************************************************************************)
(* Types.                                                                   *)
(***************************************************************************)
StatusRow == [station : Stations, at : Nat, value : {0}, inService : BOOLEAN]
StationsRow == [station : Stations, at : Nat, value : Sizes]

\* What a step adds is of the present: rows, and the details of every one of their
\* stations or a loss.
Adds ==
    /\ now \in 0 .. MaxTime /\ now' = now + 1
    /\ \E R \in SUBSET StatusRow, D \in SUBSET StationsRow :
         /\ rows' = rows \cup R /\ IsFiniteSet(R)
         /\ details' = details \cup D
         /\ \A r \in R \cup D : r.at = now
         /\ \A q, r \in R : q.station = r.station => q = r
         /\ \A q, r \in D : q.station = r.station => q = r
         /\ \/ /\ \A r \in R : \E d \in D : d.station = r.station
               /\ lost' = lost
            \/ lost' = lost + 1 /\ lost < MaxLost /\ D = {}

LEMMA CycleAdds ==
    ASSUME TypeOK, Cycle
    PROVE  Adds
<1> USE TrainingAssumption
<1>1. PICK informed, reported \in SUBSET Stations : \E serving \in SUBSET reported :
         /\ Transforms(informed, reported)
         /\ rows' = rows \cup BuildStationStatus(reported, serving)
         /\ \/ \E capacity \in [informed -> Sizes] :
                  /\ details' = details \cup BuildStations(informed, capacity)
                  /\ UNCHANGED lost
            \/ /\ lost < MaxLost
               /\ lost' = lost + 1
               /\ UNCHANGED details
  BY DEF Cycle
<1>2. PICK serving \in SUBSET reported :
         /\ Transforms(informed, reported)
         /\ rows' = rows \cup BuildStationStatus(reported, serving)
         /\ \/ \E capacity \in [informed -> Sizes] :
                  /\ details' = details \cup BuildStations(informed, capacity)
                  /\ UNCHANGED lost
            \/ /\ lost < MaxLost
               /\ lost' = lost + 1
               /\ UNCHANGED details
  BY <1>1
<1>3. now \in 0 .. MaxTime /\ now \in Nat /\ now' = now + 1
  BY DEF Cycle, TypeOK
<1> DEFINE R == BuildStationStatus(reported, serving)
<1>4. /\ R \in SUBSET StatusRow
      /\ \A r \in R : r.at = now /\ r.station \in reported
      /\ \A q, r \in R : q.station = r.station => q = r
  <2>1. ASSUME NEW s \in reported
        PROVE  [station |-> s, at |-> now, value |-> 0, inService |-> s \in serving] \in StatusRow
    <3>1. s \in Stations /\ (s \in serving) \in BOOLEAN
      OBVIOUS
    <3>2. QED
      BY <1>3, <3>1 DEF StatusRow
  <2>2. QED
    BY <2>1 DEF BuildStationStatus
<1>5. IsFiniteSet(R)
  <2> DEFINE f == [s \in reported |-> [station |-> s, at |-> now, value |-> 0, inService |-> s \in serving]]
  <2>1. IsFiniteSet(reported)
    BY FS_Subset
  <2>2. \A r \in R : \E s \in reported : f[s] = r
    BY DEF BuildStationStatus
  <2>3. f \in Surjection(reported, {f[s] : s \in reported})
    BY DEF Surjection
  <2>4. R = {f[s] : s \in reported}
    BY DEF BuildStationStatus
  <2> HIDE DEF f, R
  <2>5. QED
    BY <2>1, <2>3, <2>4, FS_Surjection DEF ExistsSurjection
<1>6. CASE \E capacity \in [informed -> Sizes] :
              details' = details \cup BuildStations(informed, capacity) /\ UNCHANGED lost
  <2>1. PICK capacity \in [informed -> Sizes] :
           details' = details \cup BuildStations(informed, capacity) /\ UNCHANGED lost
    BY <1>6
  <2> DEFINE D == BuildStations(informed, capacity)
  <2>2. /\ D \in SUBSET StationsRow
        /\ \A d \in D : d.at = now
        /\ \A q, d \in D : q.station = d.station => q = d
        /\ \A s \in informed : \E d \in D : d.station = s
    <3>1. ASSUME NEW s \in informed
          PROVE  [station |-> s, at |-> now, value |-> capacity[s]] \in StationsRow
      <4>1. s \in Stations /\ capacity[s] \in Sizes
        BY <2>1
      <4>2. QED
        BY <1>3, <4>1 DEF StationsRow
    <3>2. D \in SUBSET StationsRow /\ \A d \in D : d.at = now
      BY <3>1 DEF BuildStations
    <3>3. \A q, d \in D : q.station = d.station => q = d
      BY DEF BuildStations
    <3>4. ASSUME NEW s \in informed PROVE \E d \in D : d.station = s
      <4>1. [station |-> s, at |-> now, value |-> capacity[s]] \in D
        BY DEF BuildStations
      <4>2. QED
        BY <4>1
    <3>5. QED
      BY <3>2, <3>3, <3>4
  <2>3. reported \subseteq informed
    BY <1>2 DEF Transforms
  <2> HIDE DEF R, D
  <2>4. \A r \in R : \E d \in D : d.station = r.station
    BY <1>4, <2>2, <2>3
  <2>5. rows' = rows \cup R /\ details' = details \cup D /\ lost' = lost
    BY <1>2, <2>1 DEF R, D
  <2>6. QED
    BY <1>3, <1>4, <1>5, <2>2, <2>4, <2>5 DEF Adds
<1>7. CASE lost < MaxLost /\ lost' = lost + 1 /\ UNCHANGED details
  <2> HIDE DEF R
  <2>1. rows' = rows \cup R /\ details' = details \cup {} /\ {} \in SUBSET StationsRow
    BY <1>2, <1>7 DEF R
  <2>2. QED
    BY <1>3, <1>4, <1>5, <1>7, <2>1 DEF Adds
<1>8. QED
  BY <1>2, <1>6, <1>7

LEMMA StepAdds ==
    ASSUME TypeOK, [Next]_vars
    PROVE  Adds \/ UNCHANGED vars
<1>1. CASE Quiet
  <2>1. /\ now \in 0 .. MaxTime /\ now' = now + 1 /\ lost' = lost
        /\ rows' = rows \cup {} /\ details' = details \cup {}
    BY <1>1, TrainingAssumption DEF Quiet, TypeOK
  <2>2. IsFiniteSet({})
    BY FS_EmptySet
  <2>3. QED
    BY <2>1, <2>2 DEF Adds
<1>2. QED
  BY <1>1, CycleAdds DEF Next

LEMMA AddedRowsAreRows ==
    ASSUME NEW F, NEW A, NEW t \in Nat,
           \A r \in F : r.at \in Nat /\ r.at < t,
           \A q, r \in F : q.station = r.station /\ q.at = r.at => q = r,
           \A r \in A : r.at = t,
           \A q, r \in A : q.station = r.station => q = r
    PROVE  \A q, r \in F \cup A : q.station = r.station /\ q.at = r.at => q = r
OBVIOUS

\* Every row and every snapshot has a known station, what its table can say and an
\* observed_at of a cycle that began before now; none is there twice.
THEOREM TypeCorrect == Spec => []TypeOK
<1> USE TrainingAssumption
<1>1. Init => TypeOK
  BY DEF Init, TypeOK
<1>2. TypeOK /\ [Next]_vars => TypeOK'
  <2> SUFFICES ASSUME TypeOK, [Next]_vars PROVE TypeOK'
    OBVIOUS
  <2>1. CASE Adds
    <3>1. PICK R \in SUBSET StatusRow, D \in SUBSET StationsRow :
         /\ rows' = rows \cup R /\ IsFiniteSet(R)
         /\ details' = details \cup D
         /\ \A r \in R \cup D : r.at = now
         /\ \A q, r \in R : q.station = r.station => q = r
         /\ \A q, r \in D : q.station = r.station => q = r
         /\ \/ /\ \A r \in R : \E d \in D : d.station = r.station
               /\ lost' = lost
            \/ lost' = lost + 1 /\ lost < MaxLost /\ D = {}
      BY <2>1 DEF Adds
    <3>2. now \in Nat /\ now' = now + 1 /\ now' \in 0 .. (MaxTime + 1)
      BY <2>1 DEF Adds
    <3>3. \A r \in rows' : r \in StatusRow /\ r.at < now'
      <4>1. \A r \in rows : r \in StatusRow /\ r.at < now /\ r.at \in Nat
        BY DEF TypeOK, StatusRow
      <4>2. QED
        BY <3>1, <3>2, <4>1
    <3>4. \A d \in details' : d \in StationsRow /\ d.at < now'
      <4>1. \A d \in details : d \in StationsRow /\ d.at < now /\ d.at \in Nat
        BY DEF TypeOK, StationsRow
      <4>2. QED
        BY <3>1, <3>2, <4>1
    <3>5. \A q, r \in rows' : q.station = r.station /\ q.at = r.at => q = r
      <4>1. \A r \in rows : r.at \in Nat /\ r.at < now
        BY DEF TypeOK
      <4>2. \A q, r \in rows : q.station = r.station /\ q.at = r.at => q = r
        BY DEF TypeOK
      <4>3. QED
        BY <3>1, <3>2, <4>1, <4>2, AddedRowsAreRows
    <3>6. \A q, r \in details' : q.station = r.station /\ q.at = r.at => q = r
      <4>1. \A r \in details : r.at \in Nat /\ r.at < now
        BY DEF TypeOK
      <4>2. \A q, r \in details : q.station = r.station /\ q.at = r.at => q = r
        BY DEF TypeOK
      <4>3. QED
        BY <3>1, <3>2, <4>1, <4>2, AddedRowsAreRows
    <3>7. lost' \in 0 .. MaxLost
      BY <3>1 DEF TypeOK
    <3>8. QED
      BY <3>2, <3>3, <3>4, <3>5, <3>6, <3>7 DEF TypeOK, StatusRow, StationsRow
  <2>2. CASE UNCHANGED vars
    BY <2>2 DEF vars, TypeOK
  <2>3. QED
    BY <2>1, <2>2, StepAdds
<1>3. QED
  BY <1>1, <1>2, PTL DEF Spec

-----------------------------------------------------------------------------
(***************************************************************************)
(* Stations without details.                                                *)
(***************************************************************************)
\* The times at which a cycle left rows and no details.
Bare == {r.at : r \in rows} \ {d.at : d \in details}

\* The archive is finite, there were no more such times than losses, and at every
\* other time each row's station has its details.
LossInv ==
    /\ IsFiniteSet(rows)
    /\ Cardinality(Bare) <= lost
    /\ \A r \in rows : r.at \notin Bare => \E d \in details : d.station = r.station /\ d.at = r.at

LEMMA BareIsFinite ==
    ASSUME TypeOK
    PROVE  Bare \subseteq Nat /\ IsFiniteSet(Bare) /\ \A t \in Bare : t < now
<1>1. now \in Nat /\ \A t \in Bare : t \in Nat /\ t < now
  BY TrainingAssumption DEF TypeOK, Bare
<1>2. Bare \in SUBSET Nat /\ \A t \in Bare : t <= now
  BY <1>1
<1>3. QED
  BY <1>1, <1>2, FS_BoundedSetOfNaturals

LEMMA LossesAreCounted == Spec => []LossInv
<1> USE TrainingAssumption
<1>1. Init => LossInv
  <2> SUFFICES ASSUME Init PROVE LossInv
    OBVIOUS
  <2>1. rows = {} /\ Bare = {} /\ lost = 0
    BY DEF Init, Bare
  <2>2. QED
    BY <2>1, FS_EmptySet DEF LossInv
<1>2. TypeOK /\ LossInv /\ [Next]_vars => LossInv'
  <2> SUFFICES ASSUME TypeOK, LossInv, [Next]_vars PROVE LossInv'
    OBVIOUS
  <2>1. CASE Adds
    <3>1. PICK R \in SUBSET StatusRow, D \in SUBSET StationsRow :
         /\ rows' = rows \cup R /\ IsFiniteSet(R)
         /\ details' = details \cup D
         /\ \A r \in R \cup D : r.at = now
         /\ \A q, r \in R : q.station = r.station => q = r
         /\ \A q, r \in D : q.station = r.station => q = r
         /\ \/ /\ \A r \in R : \E d \in D : d.station = r.station
               /\ lost' = lost
            \/ lost' = lost + 1 /\ lost < MaxLost /\ D = {}
      BY <2>1 DEF Adds
    <3>2. /\ now \in Nat /\ lost \in Nat
          /\ \A r \in rows : r.at \in Nat /\ r.at < now
          /\ \A d \in details : d.at \in Nat /\ d.at < now
      BY DEF TypeOK
    <3>3. IsFiniteSet(rows')
      BY <3>1, FS_Union DEF LossInv
    <3>4. IsFiniteSet(Bare) /\ Cardinality(Bare) \in Nat /\ Cardinality(Bare) <= lost
      BY BareIsFinite, FS_CardinalityType DEF LossInv
    <3>5. CASE /\ \A r \in R : \E d \in D : d.station = r.station
               /\ lost' = lost
      <4>1. Bare' \subseteq Bare
        BY <3>1, <3>2, <3>5 DEF Bare
      <4>2. Cardinality(Bare') <= lost'
        BY <3>2, <3>4, <3>5, <4>1, FS_Subset, FS_CardinalityType
      <4>3. ASSUME NEW r \in rows', r.at \notin Bare'
            PROVE  \E d \in details' : d.station = r.station /\ d.at = r.at
        <5>1. CASE r \in R
          BY <3>1, <3>5, <5>1
        <5>2. CASE r \in rows
          <6>1. r.at \notin Bare
            BY <3>1, <3>2, <4>3, <5>2 DEF Bare
          <6>2. QED
            BY <3>1, <5>2, <6>1 DEF LossInv
        <5>3. QED
          BY <3>1, <5>1, <5>2
      <4>4. QED
        BY <3>3, <4>2, <4>3 DEF LossInv
    <3>6. CASE lost' = lost + 1 /\ lost < MaxLost /\ D = {}
      <4>1. Bare' \subseteq Bare \cup {now}
        BY <3>1, <3>6 DEF Bare
      <4>2. Cardinality(Bare') <= lost'
        <5>1. IsFiniteSet(Bare \cup {now}) /\ Cardinality(Bare \cup {now}) <= Cardinality(Bare) + 1
          <6>1. /\ IsFiniteSet(Bare \cup {now})
                /\ Cardinality(Bare \cup {now}) =
                      IF now \in Bare THEN Cardinality(Bare) ELSE Cardinality(Bare) + 1
            BY <3>4, FS_AddElement, Zenon
          <6>2. QED
            BY <3>4, <6>1
        <5>2. /\ Cardinality(Bare') <= Cardinality(Bare \cup {now})
              /\ Cardinality(Bare') \in Nat /\ Cardinality(Bare \cup {now}) \in Nat
          BY <4>1, <5>1, FS_Subset, FS_CardinalityType
        <5>3. QED
          BY <3>2, <3>4, <3>6, <5>1, <5>2
      <4>3. ASSUME NEW r \in rows', r.at \notin Bare'
            PROVE  \E d \in details' : d.station = r.station /\ d.at = r.at
        <5>1. details' = details
          BY <3>1, <3>6
        <5>2. r \notin R
          BY <3>1, <3>2, <4>3, <5>1 DEF Bare
        <5>3. r \in rows /\ r.at \notin Bare
          BY <3>1, <4>3, <5>1, <5>2 DEF Bare
        <5>4. QED
          BY <5>1, <5>3 DEF LossInv
      <4>4. QED
        BY <3>3, <4>2, <4>3 DEF LossInv
    <3>7. QED
      BY <3>1, <3>5, <3>6
  <2>2. CASE UNCHANGED vars
    BY <2>2 DEF vars, LossInv, Bare
  <2>3. QED
    BY <2>1, <2>2, StepAdds
<1>3. QED
  BY <1>1, <1>2, TypeCorrect, PTL DEF Spec

LEMMA ArchiveIsRowSets ==
    ASSUME TypeOK
    PROVE  /\ now \in Nat /\ RowSet(rows, now) /\ RowSet(details, now)
           /\ \A r \in rows : r.station \in Stations
           /\ \A d \in details : d.station \in Stations /\ d.value \in Sizes
BY TrainingAssumption DEF TypeOK, RowSet

-----------------------------------------------------------------------------
(***************************************************************************)
(* The catalog.                                                             *)
(***************************************************************************)
\* The first row of a station is in the log.
LEMMA FirstIsLogged ==
    ASSUME NEW time \in Nat, NEW frame, RowSet(frame, time), NEW r \in frame
    PROVE  \E k \in Data!Of(Data!CollapseStationChanges(frame), r.station) : k.at <= r.at
<1> DEFINE S == Data!Of(frame, r.station)
           k == Data!Earliest(S)
<1>1. r \in S /\ RowSet(S, time) /\ S \subseteq frame
  BY DEF RowSet, Data!Of
<1>2. k \in S /\ \A q \in S : k.at <= q.at
  <2> HIDE DEF S
  <2> QED BY <1>1, EarliestOf
<1>3. k.station = r.station
  BY <1>2 DEF Data!Of
<1>4. k \in Data!CollapseStationChanges(frame)
  BY <1>1, <1>2, <1>3 DEF Data!CollapseStationChanges
<1>5. QED
  BY <1>1, <1>2, <1>3, <1>4 DEF Data!Of

\* What the log says last is still so: a first row to differ would be in it.
LEMMA LogHolds ==
    ASSUME NEW time \in Nat, NEW frame, RowSet(frame, time), NEW r \in frame,
           NEW k \in Data!Of(Data!CollapseStationChanges(frame), r.station), k.at <= r.at,
           \A j \in Data!Of(Data!CollapseStationChanges(frame), r.station) : j.at <= r.at => j.at <= k.at
    PROVE  k.value = r.value
<1> DEFINE S == Data!Of(frame, r.station)
           Differing == {q \in S : k.at <= q.at /\ q.at <= r.at /\ q.value # k.value}
<1>1. /\ k \in S /\ r \in S /\ S \subseteq frame
      /\ \A q \in S : q.station = r.station /\ q.at \in Nat
      /\ \A p, q \in S : p.at = q.at => p = q
  BY DEF RowSet, Data!Of, Data!CollapseStationChanges
<1>2. SUFFICES ASSUME Differing # {} PROVE FALSE
  BY <1>1
<1> DEFINE q == Data!Earliest(Differing)
<1>3. q \in Differing /\ \A p \in Differing : q.at <= p.at
  <2>1. RowSet(Differing, time)
    BY <1>1 DEF RowSet
  <2> HIDE DEF Differing
  <2> QED BY <1>2, <2>1, EarliestOf
<1>4. q \in S /\ k.at < q.at /\ q.at <= r.at /\ q.value # k.value
  BY <1>1, <1>3
<1> DEFINE Earlier == {p \in S : p.at < q.at}
           p0 == Data!Latest(Earlier)
<1>5. p0 \in Earlier /\ \A p \in Earlier : p.at <= p0.at
  <2>1. RowSet(Earlier, time) /\ k \in Earlier
    BY <1>1, <1>4 DEF RowSet
  <2> HIDE DEF Earlier
  <2> QED BY <2>1, LatestOf
<1>6. Data!Previous(frame, q) = p0.value
  <2>1. Earlier = {p \in Data!Of(frame, q.station) : p.at < q.at}
    BY <1>1, <1>4
  <2> HIDE DEF Earlier
  <2>2. QED
    BY <1>5, <2>1 DEF Data!Previous, Data!ValueOf
<1>7. p0 \in S /\ k.at <= p0.at /\ p0.at < q.at
  BY <1>1, <1>4, <1>5
<1>8. p0.value = k.value
  <2> HIDE DEF q, p0
  <2>1. p0 \notin Differing
    BY <1>1, <1>3, <1>4, <1>7
  <2>2. p0.at <= r.at
    BY <1>1, <1>4, <1>7
  <2>3. QED
    BY <1>7, <2>1, <2>2
<1>9. q \in Data!CollapseStationChanges(frame)
  BY <1>1, <1>4, <1>6, <1>8 DEF Data!CollapseStationChanges
<1>10. QED
  <2> HIDE DEF q
  <2>1. q \in Data!Of(Data!CollapseStationChanges(frame), r.station)
    BY <1>1, <1>4, <1>9 DEF Data!Of
  <2>2. q.at <= k.at
    BY <1>4, <2>1
  <2>3. QED
    BY <1>1, <1>4, <2>2

LEMMA DaysAreInOrder ==
    ASSUME NEW a \in Nat, NEW b \in Nat, NEW c \in Nat, a <= b, b <= c,
           a \div Day = c \div Day
    PROVE  b \div Day = a \div Day
BY TrainingAssumption

\* The day of anything seen is one the history is made of.
LEMMA DaysAreCovered ==
    ASSUME TypeOK, NEW d \in details
    PROVE  /\ d.at \div Day \in 0 .. (MaxTime \div Day)
           /\ d \in DetailsOn(d.at \div Day)
           /\ RowSet(DetailsOn(d.at \div Day), now)
<1>1. d.at \in Nat /\ d.at <= MaxTime
  BY TrainingAssumption DEF TypeOK
<1>2. d.at \div Day \in 0 .. (MaxTime \div Day)
  BY <1>1, TrainingAssumption
<1>3. RowSet(DetailsOn(d.at \div Day), now)
  BY ArchiveIsRowSets DEF RowSet, DetailsOn
<1>4. QED
  BY <1>2, <1>3 DEF DetailsOn

\* A record of the history is of the log of its own day.
LEMMA HistoryIsByDay ==
    ASSUME NEW k
    PROVE  k \in StationHistory <=>
             /\ k.at \div Day \in 0 .. (MaxTime \div Day)
             /\ k \in Data!CollapseStationChanges(DetailsOn(k.at \div Day))
<1>1. ASSUME NEW d \in 0 .. (MaxTime \div Day), k \in Data!CollapseStationChanges(DetailsOn(d))
      PROVE  k.at \div Day = d
  BY <1>1 DEF Data!CollapseStationChanges, DetailsOn
<1>2. QED
  BY <1>1 DEF StationHistory

LEMMA HistoryIsOfDetails ==
    ASSUME TypeOK
    PROVE  StationHistory \subseteq details /\ RowSet(StationHistory, now)
<1>1. StationHistory \subseteq details
  BY HistoryIsByDay DEF Data!CollapseStationChanges, DetailsOn
<1>2. QED
  BY <1>1, ArchiveIsRowSets DEF RowSet

\* The history has a station's first record of any day it was seen on.
LEMMA SeenIsInHistory ==
    ASSUME TypeOK, NEW d \in details
    PROVE  \E k \in Data!Of(StationHistory, d.station) :
             k.at <= d.at /\ k.at \div Day = d.at \div Day
<1> DEFINE day == d.at \div Day
           log == Data!CollapseStationChanges(DetailsOn(day))
<1>1. now \in Nat
  BY ArchiveIsRowSets
<1>2. PICK k \in Data!Of(log, d.station) : k.at <= d.at
  BY <1>1, DaysAreCovered, FirstIsLogged
<1>3. k.station = d.station /\ k \in log /\ k.at \div Day = day
  BY <1>2 DEF Data!Of, Data!CollapseStationChanges, DetailsOn
<1>4. k \in StationHistory
  BY <1>3, DaysAreCovered, HistoryIsByDay
<1>5. QED
  BY <1>2, <1>3, <1>4 DEF Data!Of

\* And what it says last is what the snapshots said last.
LEMMA HistoryEndsAsDetails ==
    ASSUME TypeOK, NEW s \in {d.station : d \in details}
    PROVE  Data!Latest(Data!Of(StationHistory, s)).value = Data!Latest(Data!Of(details, s)).value
<1> DEFINE H == Data!Of(StationHistory, s)
           S == Data!Of(details, s)
           m == Data!Latest(S)
           k == Data!Latest(H)
<1>1. now \in Nat /\ RowSet(details, now) /\ StationHistory \subseteq details
  BY ArchiveIsRowSets, HistoryIsOfDetails
<1>2. S # {} /\ RowSet(S, now) /\ H \subseteq S /\ RowSet(H, now)
  BY <1>1 DEF RowSet, Data!Of
<1>3. m \in S /\ \A q \in S : q.at <= m.at
  <2> HIDE DEF S
  <2> QED BY <1>1, <1>2, LatestOf
<1>4. m \in details /\ m.station = s
  BY <1>3 DEF Data!Of
<1>5. PICK f \in H : f.at <= m.at /\ f.at \div Day = m.at \div Day
  <2> HIDE DEF m
  <2> QED BY <1>4, SeenIsInHistory
<1>6. k \in H /\ \A q \in H : q.at <= k.at
  <2> HIDE DEF H
  <2> QED BY <1>1, <1>2, <1>5, LatestOf
<1> HIDE DEF m, k
<1>7. f.at <= k.at /\ k.at <= m.at /\ f.at \in Nat /\ k.at \in Nat /\ m.at \in Nat
  BY <1>2, <1>3, <1>5, <1>6 DEF RowSet
<1>8. k.at \div Day = m.at \div Day
  BY <1>5, <1>7, DaysAreInOrder
<1> DEFINE frame == DetailsOn(m.at \div Day)
           log   == Data!CollapseStationChanges(frame)
<1>9. /\ RowSet(frame, now) /\ m \in frame
      /\ m.at \div Day \in 0 .. (MaxTime \div Day)
  BY <1>4, DaysAreCovered
<1>10. k \in Data!Of(log, m.station)
  <2>1. k \in StationHistory /\ k.station = s
    BY <1>6 DEF Data!Of
  <2>2. k \in log
    BY <1>8, <2>1, HistoryIsByDay
  <2>3. QED
    BY <1>4, <2>1, <2>2 DEF Data!Of
<1>11. ASSUME NEW j \in Data!Of(log, m.station) PROVE j.at <= k.at
  <2>1. j \in log /\ j.station = s /\ j.at \div Day = m.at \div Day
    BY <1>4, <1>11 DEF Data!Of, Data!CollapseStationChanges, DetailsOn
  <2>2. j \in H
    BY <1>9, <2>1, HistoryIsByDay DEF Data!Of
  <2>3. QED
    BY <1>6, <2>2
<1>12. k.value = m.value
  <2> HIDE DEF frame
  <2> QED BY <1>1, <1>7, <1>9, <1>10, <1>11, LogHolds
<1>13. QED
  BY <1>12 DEF k, m

LEMMA SeenIsCataloged ==
    ASSUME TypeOK
    PROVE  {d.station : d \in StationHistory} = {d.station : d \in details}
<1>1. ASSUME NEW d \in details PROVE d.station \in {k.station : k \in StationHistory}
  BY SeenIsInHistory DEF Data!Of
<1>2. QED
  BY <1>1, HistoryIsOfDetails

\* The change log keeps, of every station, its last word: a day's log gives back
\* the day, so also its end, and the last day seen is one of those published.
THEOREM CatalogIsUpToDate == Spec => []CatalogIsCurrent
<1>1. TypeOK => CatalogIsCurrent
  BY SeenIsCataloged, HistoryEndsAsDetails DEF CatalogIsCurrent, LoadStations
<1>2. QED
  BY <1>1, TypeCorrect, PTL

-----------------------------------------------------------------------------
(***************************************************************************)
(* The stations trained on.                                                 *)
(***************************************************************************)
\* Rows of a station without details are as many at most as there were losses.
LEMMA RowsWithoutDetails ==
    ASSUME TypeOK, LossInv, NEW s, s \notin {d.station : d \in details},
           NEW F \in SUBSET Data!Of(rows, s)
    PROVE  Cardinality(F) <= lost
<1> DEFINE f == [r \in F |-> r.at]
<1>1. ASSUME NEW r \in F PROVE r.at \in Bare
  BY <1>1 DEF LossInv, Data!Of
<1>2. \A q, r \in F : q.at = r.at => q = r
  BY DEF TypeOK, Data!Of
<1>3. f \in Injection(F, Bare)
  BY <1>1, <1>2 DEF Injection, IsInjective
<1>4. IsFiniteSet(Bare)
  BY BareIsFinite
<1>5. IsFiniteSet(F) /\ Cardinality(F) <= Cardinality(Bare)
  <2> HIDE DEF f
  <2> QED BY <1>3, <1>4, FS_Injection
<1>6. QED
  BY <1>4, <1>5, FS_CardinalityType DEF LossInv, TypeOK

LEMMA FilteredIsLabeled == Filtered \subseteq InService(Labeled) /\ Labeled \subseteq rows
BY DEF Filtered, ApplyQualityFilters, InService, Labeled

\* A station without a code has no more rows than there were losses, which is too
\* few to be trained on.
THEOREM CodesForAll == Spec => []TrainedStationsHaveCodes
<1>1. TypeOK /\ LossInv => TrainedStationsHaveCodes
  <2> SUFFICES ASSUME TypeOK, LossInv, NEW r \in Filtered, r.station \notin DOMAIN Encoding
               PROVE  FALSE
    BY DEF TrainedStationsHaveCodes
  <2>1. DOMAIN Encoding = {d.station : d \in details}
    BY SeenIsCataloged DEF Encoding, BuildStationIdEncoding, LoadStations
  <2> DEFINE F == Data!Of(InService(Labeled), r.station)
  <2>2. F \in SUBSET Data!Of(rows, r.station)
    BY FilteredIsLabeled DEF Data!Of, InService
  <2>3. Cardinality(F) >= MinHistory
    BY DEF Filtered, ApplyQualityFilters
  <2>4. Cardinality(F) <= lost
    <3> HIDE DEF F
    <3> QED BY <2>1, <2>2, RowsWithoutDetails
  <2>5. IsFiniteSet(F) /\ Cardinality(F) \in Nat
    <3>1. F \in SUBSET rows
      BY FilteredIsLabeled DEF Data!Of, InService
    <3> HIDE DEF F
    <3>2. QED
      BY <3>1, FS_Subset, FS_CardinalityType DEF LossInv
  <2>6. lost \in Nat /\ lost <= MaxLost
    BY TrainingAssumption DEF TypeOK
  <2> HIDE DEF F
  <2>7. QED
    BY <2>3, <2>4, <2>5, <2>6, LossesAreRare, TrainingAssumption
<1>2. QED
  BY <1>1, TypeCorrect, LossesAreCounted, PTL

-----------------------------------------------------------------------------
(***************************************************************************)
(* The split.                                                               *)
(***************************************************************************)
\* A finite frame's k-th row has a time, which is an observed one.
LEMMA TimeOfRow ==
    ASSUME NEW time \in Nat, NEW F, RowSet(F, time), IsFiniteSet(F),
           NEW k \in Nat, k < Cardinality(F)
    PROVE  /\ TimeAt(F, k) \in Nat
           /\ Cardinality(Before(F, TimeAt(F, k))) <= k
           /\ k < Cardinality({r \in F : r.at <= TimeAt(F, k)})
<1> DEFINE Times == {r.at : r \in F}
           Upto(t) == {r \in F : r.at <= t}
           Long == {t \in Times : k < Cardinality(Upto(t))}
           IsTime(t) == LET before == Cardinality(Before(F, t))
                        IN  before <= k /\ k < before + Cardinality({r \in F : r.at = t})
<1>1. Cardinality(F) \in Nat /\ F # {}
  BY FS_CardinalityType, FS_EmptySet
<1>2. Times \subseteq Nat /\ \A r \in F : r.at \in Times /\ r.at \in Nat
  BY DEF RowSet
<1>3. ASSUME NEW t \in Times
      PROVE  /\ Cardinality(Upto(t)) \in Nat
             /\ Cardinality(Before(F, t)) \in Nat
             /\ Cardinality(Upto(t)) = Cardinality(Before(F, t)) + Cardinality({r \in F : r.at = t})
  <2> DEFINE B == Before(F, t)
             E == {r \in F : r.at = t}
             U == Upto(t)
  <2>1. IsFiniteSet(B) /\ IsFiniteSet(E) /\ IsFiniteSet(U)
    <3>1. B \in SUBSET F /\ E \in SUBSET F /\ U \in SUBSET F
      BY DEF Before
    <3> HIDE DEF B, E, U
    <3>2. QED
      BY <3>1, FS_Subset
  <2>2. U = B \cup E /\ B \cap E = {}
    BY <1>2, <1>3 DEF Before
  <2> HIDE DEF B, E, U
  <2>3. Cardinality(U) = Cardinality(B) + Cardinality(E) - Cardinality(B \cap E)
    BY <2>1, <2>2, FS_Union
  <2>4. Cardinality(B \cap E) = 0 /\ Cardinality(B) \in Nat /\ Cardinality(E) \in Nat /\ Cardinality(U) \in Nat
    BY <2>1, <2>2, FS_EmptySet, FS_CardinalityType
  <2>5. QED
    BY <2>3, <2>4 DEF B, E, U
<1>4. Long # {}
  <2> DEFINE m == Data!Latest(F)
  <2>1. m \in F /\ \A q \in F : q.at <= m.at
    BY <1>1, LatestOf
  <2>2. Upto(m.at) = F
    BY <2>1
  <2>3. m.at \in Long
    BY <1>2, <2>1, <2>2
  <2>4. QED
    BY <2>3
<1>5. PICK t \in Long : \A u \in Long : t <= u
  <2>1. Long \in SUBSET Nat
    BY <1>2
  <2> HIDE DEF Long
  <2>2. QED
    BY <1>4, <2>1, Smallest
<1>6. t \in Times /\ t \in Nat /\ k < Cardinality(Upto(t))
  BY <1>2, <1>5
<1>7. Cardinality(Before(F, t)) <= k
  <2>1. CASE Before(F, t) = {}
    <3>1. Cardinality(Before(F, t)) = 0
      BY <2>1, FS_EmptySet
    <3>2. QED
      BY <3>1
  <2>2. CASE Before(F, t) # {}
    <3> DEFINE p == Data!Latest(Before(F, t))
    <3>1. RowSet(Before(F, t), time)
      BY DEF RowSet, Before
    <3>2. p \in Before(F, t) /\ \A q \in Before(F, t) : q.at <= p.at
      BY <2>2, <3>1, LatestOf
    <3> HIDE DEF p
    <3>3. p.at \in Times /\ p.at < t
      BY <3>2 DEF Before
    <3>4. Upto(p.at) = Before(F, t)
      BY <1>2, <1>6, <3>2, <3>3 DEF Before
    <3>5. p.at \notin Long
      <4>1. p.at \in Nat
        BY <1>2, <3>3
      <4> HIDE DEF Long
      <4>2. QED
        BY <1>5, <1>6, <3>3, <4>1
    <3>6. ~ (k < Cardinality(Upto(p.at)))
      BY <3>3, <3>5
    <3>7. Cardinality(Upto(p.at)) \in Nat
      BY <1>3, <3>3
    <3> HIDE DEF Upto
    <3>8. QED
      BY <3>4, <3>6, <3>7
  <2>3. QED
    BY <2>1, <2>2
<1>8. IsTime(t)
  BY <1>3, <1>6, <1>7
<1>9. TimeAt(F, k) \in Times /\ IsTime(TimeAt(F, k))
  <2>1. TimeAt(F, k) = CHOOSE u \in Times : IsTime(u)
    BY DEF TimeAt
  <2> HIDE DEF IsTime, Times
  <2>2. QED
    BY <1>6, <1>8, <2>1
<1>10. QED
  BY <1>2, <1>3, <1>9

\* A share of the rows, rounded down, is one of their places.
LEMMA ShareIsAPlace ==
    ASSUME NEW n \in Nat, n # 0, NEW p \in Nat, p < 100
    PROVE  /\ (n * p) \div 100 \in Nat /\ (n * p) \div 100 < n
           /\ 100 * ((n * p) \div 100) <= n * p
           /\ n * (100 - p) = 100 * n - n * p
<1>1. n * p \in Nat /\ n * p <= n * 99 /\ n * (100 - p) = 100 * n - n * p
  <2>1. n * p \in Nat
    OBVIOUS
  <2>2. n * (99 - p) >= 0
    OBVIOUS
  <2>3. n * (99 - p) = n * 99 - n * p /\ n * (100 - p) = 100 * n - n * p
    OBVIOUS
  <2>4. QED
    BY <2>1, <2>2, <2>3
<1>2. \A m \in Nat : m <= n * 99 => m \div 100 \in Nat /\ m \div 100 < n /\ 100 * (m \div 100) <= m
  OBVIOUS
<1>3. QED
  BY <1>1, <1>2

LEMMA SharesAreInOrder ==
    ASSUME NEW n \in Nat, NEW p \in Nat, NEW q \in Nat
    PROVE  (n * p) \div 100 <= (n * (p + q)) \div 100
<1>1. n * p \in Nat /\ n * q \in Nat /\ n * (p + q) = n * p + n * q
  OBVIOUS
<1>2. \A a, b \in Nat : a \div 100 <= (a + b) \div 100
  OBVIOUS
<1>3. QED
  BY <1>1, <1>2

\* What the split is made of, for any frame that is not empty.
LEMMA Split ==
    ASSUME NEW time \in Nat, NEW F, RowSet(F, time), IsFiniteSet(F), F # {}
    PROVE  /\ TrainCutoff(F) \in Nat /\ ValCutoff(F) \in Nat
           /\ TrainCutoff(F) <= ValCutoff(F)
           /\ 100 * Cardinality(Before(F, TrainCutoff(F))) <= Cardinality(F) * TrainPercent
           /\ 100 * Cardinality(Before(F, ValCutoff(F)))
                <= Cardinality(F) * (TrainPercent + ValPercent)
<1> DEFINE n == Cardinality(F)
           kt == (n * TrainPercent) \div 100
           kv == (n * (TrainPercent + ValPercent)) \div 100
           tc == TimeAt(F, kt)
           vc == TimeAt(F, kv)
<1>1. n \in Nat /\ n # 0
  BY FS_CardinalityType, FS_EmptySet
<1>2. /\ TrainPercent \in Nat /\ ValPercent \in Nat /\ TrainPercent + ValPercent \in Nat
      /\ TrainPercent < 100 /\ TrainPercent + ValPercent < 100
  BY TrainingAssumption
<1> HIDE DEF n
<1>3. kt \in Nat /\ kt < n /\ 100 * kt <= n * TrainPercent
  BY <1>1, <1>2, ShareIsAPlace
<1>4. kv \in Nat /\ kv < n /\ 100 * kv <= n * (TrainPercent + ValPercent)
  BY <1>1, <1>2, ShareIsAPlace
<1>5. kt <= kv
  BY <1>1, <1>2, SharesAreInOrder
<1>6. n * TrainPercent \in Nat /\ n * (TrainPercent + ValPercent) \in Nat
  BY <1>1, <1>2
<1>7. TrainCutoff(F) = tc /\ ValCutoff(F) = vc
  BY DEF TrainCutoff, ValCutoff, n
<1> HIDE DEF kt, kv
<1>8. tc \in Nat /\ Cardinality(Before(F, tc)) <= kt /\ kt < Cardinality({r \in F : r.at <= tc})
  BY <1>3, TimeOfRow DEF n
<1>9. vc \in Nat /\ Cardinality(Before(F, vc)) <= kv /\ kv < Cardinality({r \in F : r.at <= vc})
  BY <1>4, TimeOfRow DEF n
<1> HIDE DEF tc, vc
<1>10. ASSUME NEW t PROVE IsFiniteSet(Before(F, t)) /\ Cardinality(Before(F, t)) \in Nat
  <2>1. Before(F, t) \in SUBSET F
    BY DEF Before
  <2>2. QED
    BY <2>1, FS_Subset, FS_CardinalityType
<1>11. tc <= vc
  <2> SUFFICES ASSUME vc < tc PROVE FALSE
    BY <1>8, <1>9
  <2> DEFINE U == {r \in F : r.at <= vc}
  <2>1. U \in SUBSET Before(F, tc)
    BY <1>8, <1>9 DEF Before, RowSet
  <2>2. kv < Cardinality(U)
    BY <1>9
  <2> HIDE DEF U
  <2>3. Cardinality(U) <= Cardinality(Before(F, tc)) /\ Cardinality(U) \in Nat
    BY <1>10, <2>1, FS_Subset, FS_CardinalityType
  <2>4. QED
    BY <1>3, <1>4, <1>5, <1>8, <1>10, <2>2, <2>3
<1>12. 100 * Cardinality(Before(F, tc)) <= n * TrainPercent
  BY <1>3, <1>6, <1>8, <1>10
<1>13. 100 * Cardinality(Before(F, vc)) <= n * (TrainPercent + ValPercent)
  BY <1>4, <1>6, <1>9, <1>10
<1>14. QED
  BY <1>7, <1>8, <1>9, <1>11, <1>12, <1>13 DEF n

LEMMA FilteredIsARowSet ==
    ASSUME TypeOK, LossInv
    PROVE  now \in Nat /\ RowSet(Filtered, now) /\ IsFiniteSet(Filtered)
<1>1. Filtered \in SUBSET rows
  BY FilteredIsLabeled DEF InService
<1>2. QED
  BY <1>1, FS_Subset, ArchiveIsRowSets DEF RowSet, LossInv

\* Every row is in one part, the parts follow each other in time, train is no more
\* than its share and test no less: the rows before a cut are fewer than the place
\* the cut is the time of.
THEOREM SplitIsByTime == Spec => []SplitKeepsTime
<1>1. TypeOK /\ LossInv => SplitKeepsTime
  <2> DEFINE F  == Filtered
             n  == Cardinality(F)
             tc == TrainCutoff(F)
             vc == ValCutoff(F)
             P  == TrainPercent + ValPercent
  <2> SUFFICES ASSUME TypeOK, LossInv, F # {}
               PROVE  /\ F = Train(F) \cup Val(F) \cup Test(F)
                      /\ \A r \in Train(F), q \in Val(F) \cup Test(F) : r.at < q.at
                      /\ \A r \in Val(F), q \in Test(F) : r.at < q.at
                      /\ 100 * Cardinality(Train(F)) <= n * TrainPercent
                      /\ 100 * Cardinality(Test(F)) >= n * (100 - TrainPercent - ValPercent)
    BY DEF SplitKeepsTime
  <2>1. now \in Nat /\ RowSet(F, now) /\ IsFiniteSet(F)
    BY FilteredIsARowSet
  <2> HIDE DEF F
  <2>2. /\ tc \in Nat /\ vc \in Nat /\ tc <= vc
        /\ 100 * Cardinality(Before(F, tc)) <= n * TrainPercent
        /\ 100 * Cardinality(Before(F, vc)) <= n * P
    BY <2>1, Split
  <2> HIDE DEF tc, vc
  <2>3. \A r \in F : r.at \in Nat
    BY <2>1 DEF RowSet
  <2>4. /\ Train(F) = Before(F, tc) /\ Val(F) = Before(From(F, tc), vc) /\ Test(F) = From(F, vc)
    BY DEF Train, Val, Test, tc, vc
  <2>5. F = Train(F) \cup Val(F) \cup Test(F)
    BY <2>2, <2>3, <2>4 DEF Before, From
  <2>6. /\ \A r \in Train(F), q \in Val(F) \cup Test(F) : r.at < q.at
        /\ \A r \in Val(F), q \in Test(F) : r.at < q.at
    BY <2>2, <2>3, <2>4 DEF Before, From
  <2>7. 100 * Cardinality(Test(F)) >= n * (100 - P)
    <3> DEFINE B == Before(F, vc)
               T == From(F, vc)
    <3>1. F = B \cup T /\ B \cap T = {} /\ B \in SUBSET F /\ T \in SUBSET F
      BY <2>2, <2>3 DEF Before, From
    <3>2. 100 * Cardinality(B) <= n * P
      BY <2>2
    <3> HIDE DEF B, T
    <3>3. /\ IsFiniteSet(B) /\ IsFiniteSet(T)
          /\ Cardinality(B) \in Nat /\ Cardinality(T) \in Nat /\ n \in Nat /\ n # 0
      BY <2>1, <3>1, FS_Subset, FS_CardinalityType, FS_EmptySet
    <3>4. n = Cardinality(B) + Cardinality(T) - Cardinality(B \cap T)
      BY <3>1, <3>3, FS_Union
    <3>5. Cardinality(B \cap T) = 0
      BY <3>1, FS_EmptySet
    <3> HIDE DEF n
    <3>6. P \in Nat /\ P < 100
      BY TrainingAssumption
    <3> HIDE DEF P
    <3>7. n * (100 - P) = 100 * n - n * P /\ n * P \in Nat
      BY <3>3, <3>6, ShareIsAPlace
    <3>8. 100 * Cardinality(T) >= n * (100 - P)
      BY <3>2, <3>3, <3>4, <3>5, <3>7
    <3>9. QED
      BY <2>4, <3>8 DEF T
  <2>8. 100 - P = 100 - TrainPercent - ValPercent
    BY TrainingAssumption
  <2> HIDE DEF n, P
  <2>9. QED
    BY <2>2, <2>4, <2>5, <2>6, <2>7, <2>8
<1>2. QED
  BY <1>1, TypeCorrect, LossesAreCounted, PTL

\* Nothing is taken from the archive, and what joins it is of the present.
LEMMA ArchiveGrows ==
    ASSUME TypeOK, [Next]_vars
    PROVE  /\ now \in Nat /\ now' \in Nat
           /\ rows \subseteq rows' /\ details \subseteq details'
           /\ \A r \in rows : r.at \in Nat /\ r.at < now
           /\ \A r \in rows' \ rows : r.at = now
           /\ \A d \in details : d.at \in Nat /\ d.at < now
           /\ \A d \in details' \ details : d.at = now
<1>1. CASE Adds
  <2>1. /\ rows \subseteq rows' /\ details \subseteq details'
        /\ \A r \in rows' \ rows : r.at = now
        /\ \A d \in details' \ details : d.at = now
    BY <1>1 DEF Adds
  <2>2. now \in Nat /\ now' \in Nat
    BY <1>1, TrainingAssumption DEF Adds
  <2>3. QED
    BY <2>1, <2>2 DEF TypeOK
<1>2. CASE UNCHANGED vars
  BY <1>2, TrainingAssumption DEF vars, TypeOK
<1>3. QED
  BY <1>1, <1>2, StepAdds

\* The rows a label is looked for in.
Reached(frame, row) ==
    {r \in Data!Of(frame, row.station) :
        row.at + Horizon <= r.at /\ r.at <= row.at + Horizon + TargetTolerance}

LEMMA TargetIsInReach ==
    ASSUME NEW frame, NEW row
    PROVE  Data!TargetOf(frame, row) = Data!ValueOf(Reached(frame, row), Data!Earliest)
BY DEF Data!TargetOf, Reached

\* A label is computed from rows within a horizon and its tolerance of its own row,
\* which the rows trained on keep away from the test period.
THEOREM TestStaysUnseen == Spec => []TestIsUnseen
<1>1. TypeOK /\ LossInv => TestIsUnseen
  <2> DEFINE F == Filtered
  <2> SUFFICES ASSUME TypeOK, LossInv, F # {},
                      ValCutoff(F) - TrainCutoff(F) >= Horizon + TargetTolerance,
                      NEW row \in Train(F)
               PROVE  Data!TargetOf(Before(rows, ValCutoff(F)), row) = Data!TargetOf(rows, row)
    BY DEF TestIsUnseen
  <2>1. now \in Nat /\ RowSet(F, now) /\ IsFiniteSet(F)
    BY FilteredIsARowSet
  <2> HIDE DEF F
  <2>2. TrainCutoff(F) \in Nat /\ ValCutoff(F) \in Nat
    BY <2>1, Split
  <2>3. row.at \in Nat /\ row.at < TrainCutoff(F)
    BY <2>1 DEF Train, Before, RowSet
  <2>4. \A r \in rows : r.at \in Nat
    BY DEF TypeOK
  <2>5. Horizon \in Nat /\ TargetTolerance \in Nat
    BY TrainingAssumption
  <2>6. Reached(Before(rows, ValCutoff(F)), row) = Reached(rows, row)
    <3>1. ASSUME NEW r \in rows, r.at <= row.at + Horizon + TargetTolerance
          PROVE  r.at < ValCutoff(F)
      BY <2>2, <2>3, <2>4, <2>5, <3>1
    <3>2. QED
      BY <3>1 DEF Reached, Before, Data!Of
  <2>7. QED
    BY <2>6, TargetIsInReach
<1>2. QED
  BY <1>1, TypeCorrect, LossesAreCounted, PTL

-----------------------------------------------------------------------------
(***************************************************************************)
(* What later data changes.                                                 *)
(***************************************************************************)
\* Two frames with the same rows of a station near a row give it the same features.
LEMMA FeaturesAreLocal ==
    ASSUME NEW f, NEW g, NEW row,
           \A m \in Lags \cup Rolls :
              {r \in Data!Of(f, row.station) : row.at - m - LagTolerance <= r.at /\ r.at <= row.at}
            = {r \in Data!Of(g, row.station) : row.at - m - LagTolerance <= r.at /\ r.at <= row.at},
           \A r \in f \cup g : r.at \in Nat, row.at \in Nat
    PROVE  Data!ComputeFeatures(f, row) = Data!ComputeFeatures(g, row)
<1> USE TrainingAssumption
<1>1. ASSUME NEW m \in Lags PROVE Data!LagOf(f, row, m) = Data!LagOf(g, row, m)
  <2>1. {r \in Data!Of(f, row.station) : row.at - m - LagTolerance <= r.at /\ r.at <= row.at - m}
      = {r \in Data!Of(g, row.station) : row.at - m - LagTolerance <= r.at /\ r.at <= row.at - m}
    <3>1. \A r \in f \cup g : r.at <= row.at - m => r.at <= row.at
      OBVIOUS
    <3>2. QED
      BY <3>1 DEF Data!Of
  <2>2. QED
    BY <2>1 DEF Data!LagOf
<1>2. ASSUME NEW w \in Rolls PROVE Data!RollOf(f, row, w) = Data!RollOf(g, row, w)
  <2>1. \A r \in f \cup g : row.at - w < r.at => row.at - w - LagTolerance <= r.at
    OBVIOUS
  <2>2. QED
    BY <2>1 DEF Data!RollOf, Data!Of
<1>3. QED
  BY <1>1, <1>2 DEF Data!ComputeFeatures

LEMMA FeaturesStay ==
    ASSUME TypeOK, [Next]_vars, NEW row \in rows
    PROVE  Data!ComputeFeatures(rows', row) = Data!ComputeFeatures(rows, row)
<1>1. /\ now \in Nat /\ rows \subseteq rows'
      /\ \A r \in rows' \ rows : r.at = now
      /\ \A r \in rows : r.at \in Nat /\ r.at < now
  BY ArchiveGrows
<1>2. \A r \in rows' \cup rows : r.at \in Nat
  BY <1>1
<1>3. \A r \in Data!Of(rows', row.station) : r.at <= row.at => r \in Data!Of(rows, row.station)
  BY <1>1 DEF Data!Of
<1>4. Data!Of(rows, row.station) \subseteq Data!Of(rows', row.station)
  BY <1>1 DEF Data!Of
<1>5. \A m \in Lags \cup Rolls :
          {r \in Data!Of(rows', row.station) : row.at - m - LagTolerance <= r.at /\ r.at <= row.at}
        = {r \in Data!Of(rows, row.station) : row.at - m - LagTolerance <= r.at /\ r.at <= row.at}
  BY <1>3, <1>4
<1>6. QED
  BY <1>1, <1>2, <1>5, FeaturesAreLocal

\* A label once given stays: the newcomers are later than every row there is.
LEMMA LabelStays ==
    ASSUME TypeOK, [Next]_vars, NEW row \in rows, Data!TargetOf(rows, row) # Missing
    PROVE  Data!TargetOf(rows', row) = Data!TargetOf(rows, row)
<1> DEFINE A == Reached(rows, row)
           B == Reached(rows', row)
           e == Data!Earliest(A)
<1>1. /\ now \in Nat /\ rows \subseteq rows' /\ RowSet(rows, now)
      /\ \A r \in rows' \ rows : r.at = now
  BY ArchiveGrows, ArchiveIsRowSets
<1>2. A # {}
  BY TargetIsInReach DEF Data!ValueOf, Missing, Data!Missing
<1>3. /\ RowSet(A, now) /\ A \subseteq B
      /\ \A q \in B \ A : q.at = now
      /\ \A q \in A : q.at \in Nat /\ q.at < now
      /\ \A p, q \in A : p.at = q.at => p = q
  BY <1>1 DEF RowSet, Reached, Data!Of
<1> HIDE DEF A, B
<1>4. e \in A /\ \A q \in A : e.at <= q.at
  BY <1>1, <1>2, <1>3, EarliestOf
<1>5. \A r \in B : (\A q \in B : r.at <= q.at) <=> r = e
  <2> HIDE DEF e
  <2> QED BY <1>1, <1>3, <1>4
<1>6. Data!Earliest(B) = e
  <2>1. e \in B
    BY <1>3, <1>4
  <2> HIDE DEF e
  <2>2. QED
    BY <1>5, <2>1 DEF Data!Earliest
<1>7. Data!ValueOf(B, Data!Earliest) = Data!ValueOf(A, Data!Earliest)
  BY <1>2, <1>3, <1>6 DEF Data!ValueOf
<1>8. QED
  BY <1>7, TargetIsInReach DEF A, B

\* A row fit to train on stays so: its label stays, and its station's rows become
\* no fewer.
THEOREM TrainedStayTrained == Spec => TrainedRowsStay
<1>1. TypeOK /\ LossInv /\ LossInv' /\ [Next]_vars => [Filtered \subseteq Filtered']_vars
  <2> SUFFICES ASSUME TypeOK, LossInv, LossInv', [Next]_vars, NEW r \in Filtered
               PROVE  r \in Filtered'
    OBVIOUS
  <2>1. rows \subseteq rows'
    BY ArchiveGrows
  <2>2. InService(Labeled) \subseteq InService(Labeled')
    <3> SUFFICES ASSUME NEW q \in InService(Labeled) PROVE q \in InService(Labeled')
      OBVIOUS
    <3>1. q \in rows /\ q.inService /\ Data!TargetOf(rows, q) # Missing
      BY DEF InService, Labeled
    <3>2. Data!TargetOf(rows', q) # Missing
      BY <3>1, LabelStays
    <3>3. q \in Labeled'
      BY <2>1, <3>1, <3>2 DEF Labeled, Missing
    <3>4. QED
      BY <3>1, <3>3 DEF InService
  <2> DEFINE S == Data!Of(InService(Labeled), r.station)
             T == Data!Of(InService(Labeled'), r.station)
  <2>3. S \in SUBSET T
    BY <2>2 DEF Data!Of
  <2>4. T \in SUBSET rows' /\ IsFiniteSet(rows')
    BY DEF Data!Of, InService, Labeled, LossInv
  <2>5. r \in InService(Labeled) /\ Cardinality(S) >= MinHistory
    BY DEF Filtered, ApplyQualityFilters
  <2>6. Cardinality(T) >= MinHistory
    <3> HIDE DEF S, T
    <3>1. IsFiniteSet(T) /\ IsFiniteSet(S)
      BY <2>3, <2>4, FS_Subset
    <3>2. Cardinality(S) \in Nat /\ Cardinality(T) \in Nat /\ Cardinality(S) <= Cardinality(T)
      BY <2>3, <3>1, FS_Subset, FS_CardinalityType
    <3>3. QED
      BY <2>5, <3>2, TrainingAssumption
  <2>7. r \in ApplyQualityFilters(Labeled')
    BY <2>2, <2>5, <2>6 DEF ApplyQualityFilters
  <2>8. QED
    BY <2>7 DEF Filtered
<1>2. QED
  BY <1>1, TypeCorrect, LossesAreCounted, PTL DEF Spec, TrainedRowsStay

\* The catalog changes its mind about a station only for new details of it.
LEMMA CatalogFollowsDetails ==
    ASSUME TypeOK, TypeOK', CatalogIsCurrent, CatalogIsCurrent', [Next]_vars, NEW row,
           CapacityOf(LoadStations', row) # CapacityOf(LoadStations, row)
    PROVE  \E d \in details' \ details :
              d.station = row.station /\ d.value # CapacityOf(LoadStations, row)
<1> DEFINE s == row.station
           old == {d.station : d \in details}
           new == {d.station : d \in details'}
           m == Data!Latest(Data!Of(details', s))
<1>1. /\ LoadStations = [t \in old |-> Data!Latest(Data!Of(details, t)).value]
      /\ LoadStations' = [t \in new |-> Data!Latest(Data!Of(details', t)).value]
  BY DEF CatalogIsCurrent
<1>2. details \subseteq details' /\ old \subseteq new
  BY ArchiveGrows
<1>3. s \in new
  BY <1>1, <1>2 DEF CapacityOf
<1>4. RowSet(details, now) /\ now \in Nat /\ RowSet(details', now') /\ now' \in Nat
  BY ArchiveIsRowSets, TrainingAssumption DEF TypeOK, RowSet
<1>5. m \in Data!Of(details', s) /\ \A q \in Data!Of(details', s) : q.at <= m.at
  <2>1. RowSet(Data!Of(details', s), now') /\ Data!Of(details', s) # {}
    BY <1>3, <1>4 DEF RowSet, Data!Of
  <2>2. QED
    BY <1>4, <2>1, LatestOf
<1> HIDE DEF m
<1>6. CapacityOf(LoadStations', row) = m.value
  BY <1>1, <1>3 DEF CapacityOf, m
<1>7. m \notin details
  <2> SUFFICES ASSUME m \in details PROVE FALSE
    OBVIOUS
  <2>1. m \in Data!Of(details, s) /\ \A q \in Data!Of(details, s) : q.at <= m.at
    BY <1>2, <1>5 DEF Data!Of
  <2>2. Data!Latest(Data!Of(details, s)) = m
    BY <1>4, <2>1, TheLatest
  <2>3. s \in old
    BY <2>1 DEF Data!Of
  <2>4. CapacityOf(LoadStations, row) = m.value
    BY <1>1, <2>2, <2>3 DEF CapacityOf
  <2>5. QED
    BY <1>6, <2>4
<1>8. m \in details' /\ m.station = s
  BY <1>5 DEF Data!Of
<1>9. QED
  BY <1>6, <1>7, <1>8

\* A row's features end at the row and every row comes later, so only the capacity,
\* which is not of the row but of its station, can be another in a later run.
THEOREM CapacityAloneChanges == Spec => OnlyCapacityIsRewritten
<1>1. TypeOK /\ TypeOK' /\ CatalogIsCurrent /\ CatalogIsCurrent' /\ [Next]_vars =>
        [ \A before \in {LoadStations}, after \in {LoadStations'} : \A r \in rows :
            FeatureRow(rows', after, r) # FeatureRow(rows, before, r) =>
              /\ Data!ComputeFeatures(rows', r) = Data!ComputeFeatures(rows, r)
              /\ \E d \in details' \ details :
                   d.station = r.station /\ d.value # CapacityOf(before, r) ]_vars
  <2> SUFFICES ASSUME TypeOK, TypeOK', CatalogIsCurrent, CatalogIsCurrent', [Next]_vars,
                      NEW r \in rows,
                      FeatureRow(rows', LoadStations', r) # FeatureRow(rows, LoadStations, r)
               PROVE  /\ Data!ComputeFeatures(rows', r) = Data!ComputeFeatures(rows, r)
                      /\ \E d \in details' \ details :
                           d.station = r.station /\ d.value # CapacityOf(LoadStations, r)
    OBVIOUS
  <2>1. Data!ComputeFeatures(rows', r) = Data!ComputeFeatures(rows, r)
    BY FeaturesStay
  <2>2. CapacityOf(LoadStations', r) # CapacityOf(LoadStations, r)
    BY <2>1 DEF FeatureRow
  <2>3. QED
    BY <2>1, <2>2, CatalogFollowsDetails
<1>2. QED
  BY <1>1, TypeCorrect, CatalogIsUpToDate, PTL DEF Spec, OnlyCapacityIsRewritten
=============================================================================
