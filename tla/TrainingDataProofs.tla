------------------------- MODULE TrainingDataProofs -------------------------
(***************************************************************************)
(* What TrainingData promises, for any stations, values, windows, lags,     *)
(* horizons and cycles.                                                     *)
(***************************************************************************)
EXTENDS TrainingData, FiniteSetTheorems, TLAPS

(***************************************************************************)
(* Rows have an earliest and a latest one.                                  *)
(***************************************************************************)
LEMMA Smallest ==
    ASSUME NEW S \in SUBSET Nat, S # {}
    PROVE  \E x \in S : \A y \in S : x <= y
<1> DEFINE Upto == {0 .. x : x \in S}
<1>1. Upto \subseteq FiniteSubsetsOf(Nat) /\ Upto # {}
  <2>1. ASSUME NEW x \in S PROVE 0 .. x \in FiniteSubsetsOf(Nat)
    <3>1. IsFiniteSet(0 .. x)
      BY FS_Interval
    <3>2. 0 .. x \subseteq Nat
      OBVIOUS
    <3>3. QED
      BY <3>1, <3>2 DEF FiniteSubsetsOf
  <2>2. QED
    BY <2>1
<1>2. PICK U \in Upto : \A V \in Upto : ~ (<<V, U>> \in StrictSubsetOrdering(Nat))
  <2> HIDE DEF Upto
  <2>1. QED
    BY <1>1, FS_StrictSubsetOrderingWellFounded, WFMin
<1>3. PICK x \in S : U = 0 .. x
  BY <1>2
<1>4. ASSUME NEW y \in S, y < x PROVE FALSE
  <2>1. 0 .. y \in Upto
    OBVIOUS
  <2>2. <<0 .. y, 0 .. x>> \in StrictSubsetOrdering(Nat)
    BY <1>3, <1>4 DEF StrictSubsetOrdering
  <2>3. QED
    BY <1>2, <1>3, <2>1, <2>2
<1>5. QED
  BY <1>4

\* Rows as TypeOK describes them, before a given time.
RowSet(S, time) ==
    /\ \A r \in S : r.at \in Nat /\ r.at < time
    /\ \A q, r \in S : q.station = r.station /\ q.at = r.at => q = r

LEMMA EarliestOf ==
    ASSUME NEW time \in Nat, NEW S, S # {}, RowSet(S, time)
    PROVE  /\ Earliest(S) \in S
           /\ \A q \in S : Earliest(S).at <= q.at
<1> DEFINE Times == {r.at : r \in S}
<1>1. Times \in SUBSET Nat /\ Times # {}
  BY DEF RowSet
<1>2. \E x \in Times : \A y \in Times : x <= y
  <2> HIDE DEF Times
  <2> QED BY <1>1, Smallest
<1>3. \E r \in S : \A q \in S : r.at <= q.at
  BY <1>2
<1>4. QED
  BY <1>3 DEF Earliest

LEMMA LatestOf ==
    ASSUME NEW time \in Nat, NEW S, S # {}, RowSet(S, time)
    PROVE  /\ Latest(S) \in S
           /\ \A q \in S : q.at <= Latest(S).at
<1> DEFINE Ages == {time - r.at : r \in S}
<1>1. Ages \in SUBSET Nat /\ Ages # {}
  BY DEF RowSet
<1>2. \E x \in Ages : \A y \in Ages : x <= y
  <2> HIDE DEF Ages
  <2> QED BY <1>1, Smallest
<1>3. PICK r \in S : \A q \in S : time - r.at <= time - q.at
  BY <1>2
<1>4. \A q \in S : q.at <= r.at
  BY <1>3 DEF RowSet
<1>5. QED
  BY <1>4 DEF Latest

-----------------------------------------------------------------------------
(***************************************************************************)
(* Types.                                                                   *)
(***************************************************************************)
\* Every row has a known station, a value its table can hold and an observed_at
\* of a cycle that began before now; none is there twice.
THEOREM TypeCorrect == Spec => []TypeOK
<1>1. Init => TypeOK
  BY DataAssumption DEF Init, TypeOK, STATION_STATUS, STATIONS
<1>2. TypeOK /\ [Next]_vars => TypeOK'
  <2> SUFFICES ASSUME TypeOK, [Next]_vars PROVE TypeOK'
    OBVIOUS
  <2> USE DataAssumption
  <2>1. CASE Cycle
    <3>1. PICK known \in SUBSET Stations : \E v \in [known -> ValuesOf(table)] :
             rows' = rows \cup {[station |-> s, at |-> now, value |-> v[s]] : s \in known}
      BY <2>1 DEF Cycle
    <3>2. PICK v \in [known -> ValuesOf(table)] :
             rows' = rows \cup {[station |-> s, at |-> now, value |-> v[s]] : s \in known}
      BY <3>1
    <3>3. /\ now \in Nat /\ now' = now + 1 /\ now' \in 0..(MaxTime + 1)
          /\ table' = table /\ table \in {STATION_STATUS, STATIONS}
      BY <2>1 DEF Cycle, TypeOK
    <3>4. \A r \in rows' : /\ r \in Row
                           /\ r.value \in ValuesOf(table)
                           /\ r.at < now'
      <4>1. ASSUME NEW r \in rows PROVE r \in Row /\ r.value \in ValuesOf(table) /\ r.at < now'
        BY <3>3 DEF TypeOK, Row
      <4>2. ASSUME NEW s \in known
            PROVE  LET r == [station |-> s, at |-> now, value |-> v[s]]
                   IN  r \in Row /\ r.value \in ValuesOf(table) /\ r.at < now'
        BY <3>3 DEF Row, ValuesOf
      <4>3. QED
        BY <3>2, <4>1, <4>2
    <3>5. \A q, r \in rows' : q.station = r.station /\ q.at = r.at => q = r
      <4>1. \A r \in rows : r.at \in Nat /\ r.at < now
        BY DEF TypeOK, Row
      <4>2. QED
        BY <3>2, <3>3, <4>1 DEF TypeOK
    <3>6. QED
      BY <3>3, <3>4, <3>5 DEF TypeOK, ValuesOf
  <2>2. CASE Quiet
    <3>1. now \in Nat /\ now' = now + 1 /\ now' \in 0..(MaxTime + 1) /\ rows' = rows /\ table' = table
      BY <2>2 DEF Quiet, TypeOK
    <3>2. \A r \in rows : r.at < now'
      BY <3>1 DEF TypeOK, Row
    <3>3. QED
      BY <3>1, <3>2 DEF TypeOK, ValuesOf
  <2>3. CASE UNCHANGED vars
    BY <2>3 DEF vars, TypeOK, ValuesOf
  <2>4. QED
    BY <2>1, <2>2, <2>3 DEF Next
<1>3. QED
  BY <1>1, <1>2, PTL DEF Spec

LEMMA RowsAreRowSet ==
    ASSUME TypeOK
    PROVE  /\ now \in Nat /\ RowSet(rows, now)
           /\ \A r \in rows : r.station \in Stations
BY DataAssumption DEF TypeOK, RowSet, Row

\* Ingestion only ever adds rows, and only at the present.
LEMMA RowsJoinNow ==
    ASSUME TypeOK, [Next]_vars
    PROVE  /\ rows \subseteq rows'
           /\ \A r \in rows' \ rows : r.at = now
           /\ table' = table
<1>1. CASE Cycle
  BY <1>1 DEF Cycle
<1>2. CASE Quiet
  BY <1>2 DEF Quiet
<1>3. CASE UNCHANGED vars
  BY <1>3 DEF vars
<1>4. QED
  BY <1>1, <1>2, <1>3 DEF Next

-----------------------------------------------------------------------------
(***************************************************************************)
(* Features and targets.                                                    *)
(***************************************************************************)
\* Two frames with the same rows of a station near a row give it the same features.
LEMMA FeaturesAreLocal ==
    ASSUME NEW f, NEW g, NEW row,
           \A m \in Lags \cup Rolls :
              {r \in Of(f, row.station) : row.at - m - LagTolerance <= r.at /\ r.at <= row.at}
            = {r \in Of(g, row.station) : row.at - m - LagTolerance <= r.at /\ r.at <= row.at},
           \A r \in f \cup g : r.at \in Nat, row.at \in Nat
    PROVE  ComputeFeatures(f, row) = ComputeFeatures(g, row)
<1> USE DataAssumption
<1>1. ASSUME NEW m \in Lags PROVE LagOf(f, row, m) = LagOf(g, row, m)
  <2>1. {r \in Of(f, row.station) : row.at - m - LagTolerance <= r.at /\ r.at <= row.at - m}
      = {r \in Of(g, row.station) : row.at - m - LagTolerance <= r.at /\ r.at <= row.at - m}
    <3>1. \A r \in f \cup g : r.at <= row.at - m => r.at <= row.at
      OBVIOUS
    <3>2. QED
      BY <3>1 DEF Of
  <2>2. QED
    BY <2>1 DEF LagOf
<1>2. ASSUME NEW w \in Rolls PROVE RollOf(f, row, w) = RollOf(g, row, w)
  <2>1. \A r \in f \cup g : row.at - w < r.at => row.at - w - LagTolerance <= r.at
    OBVIOUS
  <2>2. QED
    BY <2>1 DEF RollOf, Of
<1>3. QED
  BY <1>1, <1>2 DEF ComputeFeatures

\* No row's lags and rolling windows change with what comes later: the newcomers are all later
\* than the row, and its lags and windows end at it.
THEOREM LagsAndRollsNeverChange == Spec => LagsAndRollsAreFinal
<1>1. TypeOK /\ [Next]_vars =>
        [table = STATION_STATUS =>
           \A r \in rows : ComputeFeatures(rows', r) = ComputeFeatures(rows, r)]_vars
  <2> SUFFICES ASSUME TypeOK, [Next]_vars, NEW row \in rows
               PROVE  ComputeFeatures(rows', row) = ComputeFeatures(rows, row)
    OBVIOUS
  <2>1. /\ now \in Nat /\ rows \subseteq rows'
        /\ \A r \in rows' \ rows : r.at = now
        /\ \A r \in rows : r.at \in Nat /\ r.at < now
    BY RowsJoinNow, RowsAreRowSet DEF RowSet
  <2>2. \A r \in rows' \cup rows : r.at \in Nat
    BY <2>1
  <2>3. \A r \in Of(rows', row.station) : r.at <= row.at => r \in Of(rows, row.station)
    BY <2>1 DEF Of
  <2>4. Of(rows, row.station) \subseteq Of(rows', row.station)
    BY <2>1 DEF Of
  <2>5. \A m \in Lags \cup Rolls :
              {r \in Of(rows', row.station) : row.at - m - LagTolerance <= r.at /\ r.at <= row.at}
            = {r \in Of(rows, row.station) : row.at - m - LagTolerance <= r.at /\ r.at <= row.at}
    BY <2>3, <2>4
  <2>6. QED
    BY <2>1, <2>2, <2>5, FeaturesAreLocal
<1>2. QED
  BY <1>1, TypeCorrect, PTL DEF Spec, LagsAndRollsAreFinal

\* A label once given stays: it is the earliest row in reach, and the newcomers
\* are later than every row there is.
THEOREM TargetsNeverChange == Spec => TargetsAreFinal
<1>1. TypeOK /\ [Next]_vars =>
        [table = STATION_STATUS =>
           \A r \in rows : TargetOf(rows, r) # Missing => TargetOf(rows', r) = TargetOf(rows, r)]_vars
  <2> SUFFICES ASSUME TypeOK, [Next]_vars, NEW row \in rows, TargetOf(rows, row) # Missing
               PROVE  TargetOf(rows', row) = TargetOf(rows, row)
    OBVIOUS
  <2> DEFINE Reached(frame) ==
        {r \in Of(frame, row.station) :
            row.at + Horizon <= r.at /\ r.at <= row.at + Horizon + TargetTolerance}
  <2>1. /\ now \in Nat /\ rows \subseteq rows' /\ RowSet(rows, now)
        /\ \A r \in rows' \ rows : r.at = now
        /\ \A r \in rows : r.at \in Nat /\ r.at < now
    BY RowsJoinNow, RowsAreRowSet DEF RowSet
  <2>2. TargetOf(rows, row) = ValueOf(Reached(rows), Earliest) /\ TargetOf(rows', row) = ValueOf(Reached(rows'), Earliest)
    BY DEF TargetOf
  <2>3. Reached(rows) # {}
    BY <2>2 DEF ValueOf
  <2>4. RowSet(Reached(rows), now)
    BY <2>1 DEF RowSet, Of
  <2>5. Earliest(Reached(rows)) \in Reached(rows)
        /\ \A q \in Reached(rows) : Earliest(Reached(rows)).at <= q.at
    <3> HIDE DEF Reached
    <3> QED BY <2>1, <2>3, <2>4, EarliestOf
  <2>6. Reached(rows) \subseteq Reached(rows') /\ \A q \in Reached(rows') \ Reached(rows) : q.at = now
    BY <2>1 DEF Of
  <2>7. \A r \in Reached(rows) : r.at \in Nat /\ r.at < now
    BY <2>1 DEF Of
  <2>8. \A r \in Reached(rows') :
           (\A q \in Reached(rows') : r.at <= q.at) <=> r = Earliest(Reached(rows))
    <3> HIDE DEF Reached
    <3>1. \A q, r \in Reached(rows) : q.at = r.at => q = r
      BY <2>1 DEF RowSet, Of, Reached
    <3>2. QED
      BY <2>1, <2>5, <2>6, <2>7, <3>1
  <2>9. Earliest(Reached(rows')) = Earliest(Reached(rows))
    <3> HIDE DEF Reached
    <3>1. Earliest(Reached(rows)) \in Reached(rows')
      BY <2>5, <2>6
    <3>2. QED
      BY <2>8, <3>1 DEF Earliest
  <2>10. QED
    <3> HIDE DEF Reached
    <3> QED BY <2>2, <2>3, <2>6, <2>9 DEF ValueOf
<1>2. QED
  BY <1>1, TypeCorrect, PTL DEF Spec, TargetsAreFinal

\* Where a gap would be, there is a row: of a station's rows around a moment, the
\* last one at or before it and the first one after it are no further apart.
LEMMA RowsAround ==
    ASSUME TypeOK, NEW s, NEW gap \in Nat, Steady(s, gap), NEW moment \in Int,
           NEW before \in Of(rows, s), before.at <= moment,
           NEW after \in Of(rows, s), moment < after.at
    PROVE  \E p, q \in Of(rows, s) :
              p.at <= moment /\ moment < q.at /\ q.at <= p.at + gap
<1> DEFINE S == {r \in Of(rows, s) : r.at <= moment}
           p == Latest(S)
<1>1. now \in Nat /\ RowSet(rows, now) /\ RowSet(S, now) /\ S # {}
  BY RowsAreRowSet DEF RowSet, Of
<1>2. p \in S /\ \A r \in S : r.at <= p.at
  <2> HIDE DEF S
  <2> QED BY <1>1, LatestOf
<1> HIDE DEF p
<1>3. p \in Of(rows, s) /\ p.at <= moment /\ p.at < after.at
  <2>1. p.at \in Nat /\ after.at \in Nat
    BY <1>1, <1>2 DEF RowSet, Of
  <2>2. QED
    BY <1>2, <2>1
<1>4. PICK q \in Of(rows, s) : p.at < q.at /\ q.at <= p.at + gap
  BY <1>3 DEF Steady
<1>5. moment < q.at
  <2>1. p.at \in Nat /\ q.at \in Nat
    BY <1>1, <1>2 DEF RowSet, Of
  <2>2. q \in S => q.at <= p.at
    BY <1>2
  <2>3. QED
    BY <1>4, <2>1, <2>2
<1>6. QED
  BY <1>3, <1>4, <1>5

\* A lag or a target is null only for lack of a row.
LEMMA LatestIsANumber ==
    ASSUME TypeOK, table = STATION_STATUS, NEW S \in SUBSET rows, S # {}
    PROVE  ValueOf(S, Latest) # Missing /\ ValueOf(S, Earliest) # Missing
<1>1. now \in Nat /\ RowSet(S, now)
  BY RowsAreRowSet DEF RowSet
<1>2. Latest(S) \in rows /\ Earliest(S) \in rows
  BY <1>1, LatestOf, EarliestOf
<1>3. Latest(S).value \in Nat /\ Earliest(S).value \in Nat
  BY <1>2, DataAssumption DEF TypeOK, ValuesOf, STATION_STATUS, STATIONS
<1>4. QED
  BY <1>3 DEF ValueOf, Missing

\* Rows that follow each other within the first tick beyond a tolerance leave no
\* lag and no target out: of the rows around the moment searched, the one that
\* counts is within the tolerance.
THEOREM NoGapIsTooWide == Spec => []GapsAreBridged
<1>1. TypeOK => GapsAreBridged
  <2> SUFFICES ASSUME TypeOK, table = STATION_STATUS, NEW row \in rows
               PROVE  LET known == Of(rows, row.station)
                      IN  /\ \A m \in Lags :
                                /\ Steady(row.station, LagTolerance + 1)
                                /\ \E q \in known : q.at <= row.at - m
                                => LagOf(rows, row, m) # Missing
                          /\ /\ Steady(row.station, TargetTolerance + 1)
                             /\ \E q \in known : q.at >= row.at + Horizon
                             => TargetOf(rows, row) # Missing
    BY DEF GapsAreBridged
  <2> USE DataAssumption
  <2> DEFINE known == Of(rows, row.station)
  <2>1. row \in known /\ known \subseteq rows /\ \A r \in known : r.at \in Nat
    BY RowsAreRowSet DEF Of, RowSet
  <2> HIDE DEF known
  <2>2. ASSUME NEW m \in Lags, Steady(row.station, LagTolerance + 1),
               NEW b \in known, b.at <= row.at - m
        PROVE  LagOf(rows, row, m) # Missing
    <3>1. row.at - m \in Int /\ row.at - m < row.at /\ LagTolerance + 1 \in Nat
      BY <2>1
    <3>2. PICK p, q \in known :
             p.at <= row.at - m /\ row.at - m < q.at /\ q.at <= p.at + (LagTolerance + 1)
      BY <2>1, <2>2, <3>1, RowsAround DEF known
    <3> DEFINE S == {r \in known : row.at - m - LagTolerance <= r.at /\ r.at <= row.at - m}
    <3>3. p \in S
      <4>1. p.at \in Nat /\ q.at \in Nat /\ row.at \in Nat /\ m \in Nat
        BY <2>1
      <4>2. row.at - m - LagTolerance <= p.at
        BY <3>2, <4>1
      <4>3. QED
        BY <3>2, <4>2
    <3>4. LagOf(rows, row, m) = ValueOf(S, Latest)
      BY DEF LagOf, known
    <3>5. S \in SUBSET rows
      BY <2>1
    <3> HIDE DEF S
    <3>6. QED
      BY <3>3, <3>4, <3>5, LatestIsANumber
  <2>3. ASSUME Steady(row.station, TargetTolerance + 1),
               NEW a \in known, a.at >= row.at + Horizon
        PROVE  TargetOf(rows, row) # Missing
    <3> DEFINE S == {r \in known :
                        row.at + Horizon <= r.at /\ r.at <= row.at + Horizon + TargetTolerance}
    <3>1. S # {}
      <4>1. CASE Horizon = 0
        BY <2>1, <4>1
      <4>2. CASE Horizon # 0
        <5>1. /\ row.at + Horizon - 1 \in Int /\ row.at <= row.at + Horizon - 1
              /\ row.at + Horizon - 1 < a.at /\ TargetTolerance + 1 \in Nat
          BY <2>1, <2>3, <4>2
        <5>2. PICK p, q \in known : /\ p.at <= row.at + Horizon - 1
                                    /\ row.at + Horizon - 1 < q.at
                                    /\ q.at <= p.at + (TargetTolerance + 1)
          BY <2>1, <2>3, <5>1, RowsAround DEF known
        <5>3. p.at \in Nat /\ q.at \in Nat /\ row.at \in Nat
          BY <2>1
        <5>4. q \in S
          BY <5>2, <5>3
        <5>5. QED
          BY <5>4
      <4>3. QED
        BY <4>1, <4>2
    <3>2. TargetOf(rows, row) = ValueOf(S, Earliest)
      BY DEF TargetOf, known
    <3>3. S \in SUBSET rows
      BY <2>1
    <3> HIDE DEF S
    <3>4. QED
      BY <3>1, <3>2, <3>3, LatestIsANumber
  <2>4. QED
    BY <2>2, <2>3 DEF known
<1>2. QED
  BY <1>1, TypeCorrect, PTL

\* A prediction's feature row is the row training would compute, whenever the
\* history reaches back as far as the row's longest lag: neither the cut of the
\* serving window nor that of the history takes a row the features look at.
THEOREM ServingIsTraining == Spec => []ServedRowIsTrainingRow
<1>1. TypeOK => ServedRowIsTrainingRow
  <2> SUFFICES ASSUME TypeOK, NEW s \in Stations, History(s) # {}, Reach(Latest(History(s)))
               PROVE  ComputeFeatures(History(s), Latest(History(s)))
                    = ComputeFeatures(rows, Latest(History(s)))
    BY DEF ServedRowIsTrainingRow
  <2> USE DataAssumption
  <2> DEFINE newest == Latest(History(s))
  <2>1. /\ now \in Nat /\ RowSet(rows, now)
        /\ \A r \in rows : r.at \in Nat /\ r.at < now
    BY RowsAreRowSet DEF RowSet
  <2>2. History(s) \subseteq Of(rows, s) /\ Of(rows, s) \subseteq rows
    BY DEF History, TrimToWindow, Of
  <2>3. \A r \in Of(rows, s) : r.at >= now - Lookback => r \in History(s)
    <3>1. ASSUME NEW r \in Of(rows, s), r.at >= now - Lookback
          PROVE  \A q \in rows : r.at >= q.at - Window
      BY <2>1, <2>2, <3>1
    <3>2. QED
      BY <2>2, <3>1 DEF History, TrimToWindow, Of
  <2>4. newest \in History(s)
    <3>1. RowSet(History(s), now)
      BY <2>1, <2>2 DEF RowSet
    <3>2. QED
      BY <2>1, <3>1, LatestOf
  <2>5. newest.station = s /\ newest \in rows /\ newest.at \in Nat
    BY <2>1, <2>2, <2>4 DEF Of
  <2>6. Of(History(s), s) = History(s)
    BY <2>2 DEF Of
  <2>7. \A m \in Lags \cup Rolls : now - Lookback <= newest.at - m - LagTolerance
    BY DEF Reach
  <2> HIDE DEF newest
  <2>8. \A m \in Lags \cup Rolls :
              {r \in Of(History(s), newest.station) :
                  newest.at - m - LagTolerance <= r.at /\ r.at <= newest.at}
            = {r \in Of(rows, newest.station) :
                  newest.at - m - LagTolerance <= r.at /\ r.at <= newest.at}
    <3> SUFFICES ASSUME NEW m \in Lags \cup Rolls, NEW r \in Of(rows, s),
                        newest.at - m - LagTolerance <= r.at
                 PROVE  r \in History(s)
      BY <2>2, <2>5, <2>6
    <3>1. r.at >= now - Lookback
      BY <2>1, <2>2, <2>5, <2>7
    <3>2. QED
      BY <2>3, <3>1
  <2>9. \A r \in History(s) \cup rows : r.at \in Nat
    BY <2>1, <2>2
  <2>10. QED
    BY <2>5, <2>8, <2>9, FeaturesAreLocal DEF newest
<1>2. QED
  BY <1>1, TypeCorrect, PTL

-----------------------------------------------------------------------------
(***************************************************************************)
(* The change log.                                                          *)
(***************************************************************************)
\* The first row of a station is in the log.
LEMMA FirstIsLogged ==
    ASSUME NEW time \in Nat, NEW frame, RowSet(frame, time), NEW r \in frame
    PROVE  \E k \in Of(CollapseStationChanges(frame), r.station) : k.at <= r.at
<1> DEFINE S == Of(frame, r.station)
           k == Earliest(S)
<1>1. r \in S /\ RowSet(S, time) /\ S \subseteq frame
  BY DEF RowSet, Of
<1>2. k \in S /\ \A q \in S : k.at <= q.at
  <2> HIDE DEF S
  <2> QED BY <1>1, EarliestOf
<1>3. k.station = r.station
  BY <1>2 DEF Of
<1>4. k \in CollapseStationChanges(frame)
  BY <1>1, <1>2, <1>3 DEF CollapseStationChanges
<1>5. QED
  BY <1>1, <1>2, <1>3, <1>4 DEF Of

\* What the log says last is still so: a first row to differ would be in it.
LEMMA LogHolds ==
    ASSUME NEW time \in Nat, NEW frame, RowSet(frame, time), NEW r \in frame,
           NEW k \in Of(CollapseStationChanges(frame), r.station), k.at <= r.at,
           \A j \in Of(CollapseStationChanges(frame), r.station) : j.at <= r.at => j.at <= k.at
    PROVE  k.value = r.value
<1> DEFINE S == Of(frame, r.station)
           Differing == {q \in S : k.at <= q.at /\ q.at <= r.at /\ q.value # k.value}
<1>1. /\ k \in S /\ r \in S /\ S \subseteq frame
      /\ \A q \in S : q.station = r.station /\ q.at \in Nat
      /\ \A p, q \in S : p.at = q.at => p = q
  BY DEF RowSet, Of, CollapseStationChanges
<1>2. SUFFICES ASSUME Differing # {} PROVE FALSE
  BY <1>1
<1> DEFINE q == Earliest(Differing)
<1>3. q \in Differing /\ \A p \in Differing : q.at <= p.at
  <2>1. RowSet(Differing, time)
    BY <1>1 DEF RowSet
  <2> HIDE DEF Differing
  <2> QED BY <1>2, <2>1, EarliestOf
<1>4. q \in S /\ k.at < q.at /\ q.at <= r.at /\ q.value # k.value
  BY <1>1, <1>3
<1> DEFINE Before == {p \in S : p.at < q.at}
           p0 == Latest(Before)
<1>5. p0 \in Before /\ \A p \in Before : p.at <= p0.at
  <2>1. RowSet(Before, time) /\ k \in Before
    BY <1>1, <1>4 DEF RowSet
  <2> HIDE DEF Before
  <2> QED BY <2>1, LatestOf
<1>6. Previous(frame, q) = p0.value
  <2>1. Before = {p \in Of(frame, q.station) : p.at < q.at}
    BY <1>1, <1>4
  <2> HIDE DEF Before
  <2>2. QED
    BY <1>5, <2>1 DEF Previous, ValueOf
<1>7. p0 \in S /\ k.at <= p0.at /\ p0.at < q.at
  BY <1>1, <1>4, <1>5
<1>8. p0.value = k.value
  <2> HIDE DEF q, p0
  <2>1. p0 \notin Differing
    BY <1>1, <1>3, <1>4, <1>7
  <2>2. p0.at <= r.at
    BY <1>1, <1>4, <1>7
  <2>3. QED
    BY <1>7, <2>1, <2>2
<1>9. q \in CollapseStationChanges(frame)
  BY <1>1, <1>4, <1>6, <1>8 DEF CollapseStationChanges
<1>10. QED
  <2> HIDE DEF q
  <2>1. q \in Of(CollapseStationChanges(frame), r.station)
    BY <1>1, <1>4, <1>9 DEF Of
  <2>2. q.at <= k.at
    BY <1>4, <2>1
  <2>3. QED
    BY <1>1, <1>4, <2>2

LEMMA LogReplays ==
    ASSUME NEW time \in Nat, NEW frame, RowSet(frame, time)
    PROVE  Replays(CollapseStationChanges(frame), frame)
<1> SUFFICES ASSUME NEW r \in frame
             PROVE  \E k \in Of(CollapseStationChanges(frame), r.station) :
                      /\ k.at <= r.at /\ k.value = r.value
                      /\ \A j \in Of(CollapseStationChanges(frame), r.station) :
                           j.at <= r.at => j.at <= k.at
  BY DEF Replays
<1> DEFINE Logged == {k \in Of(CollapseStationChanges(frame), r.station) : k.at <= r.at}
<1>1. Logged # {}
  BY FirstIsLogged
<1>2. RowSet(Logged, time)
  BY DEF RowSet, Of, CollapseStationChanges
<1>3. Latest(Logged) \in Logged /\ \A j \in Logged : j.at <= Latest(Logged).at
  <2> HIDE DEF Logged
  <2> QED BY <1>1, <1>2, LatestOf
<1>4. Latest(Logged).value = r.value
  BY <1>3, LogHolds
<1>5. QED
  BY <1>3, <1>4

\* Without one of its rows, a log either says nothing at that row or what the
\* row before said, which is different.
LEMMA LogNeedsEveryRow ==
    ASSUME NEW time \in Nat, NEW frame, RowSet(frame, time),
           NEW r \in CollapseStationChanges(frame)
    PROVE  ~ Replays(CollapseStationChanges(frame) \ {r}, frame)
<1> DEFINE log == CollapseStationChanges(frame)
           S   == Of(frame, r.station)
<1>1. /\ r \in frame /\ r \in S /\ S \subseteq frame /\ log \subseteq frame
      /\ \A q \in S : q.station = r.station /\ q.at \in Nat
      /\ \A p, q \in S : p.at = q.at => p = q
      /\ Of(log \ {r}, r.station) \subseteq S
  BY DEF RowSet, Of, CollapseStationChanges
<1>2. SUFFICES ASSUME Replays(log \ {r}, frame) PROVE FALSE
  OBVIOUS
<1>3. PICK k \in Of(log \ {r}, r.station) :
         /\ k.at <= r.at /\ k.value = r.value
         /\ \A j \in Of(log \ {r}, r.station) : j.at <= r.at => j.at <= k.at
  BY <1>1, <1>2 DEF Replays
<1>4. k \in S /\ k # r /\ k.at < r.at
  BY <1>1, <1>3 DEF Of
<1> DEFINE Before == {p \in S : p.at < r.at}
           p0 == Latest(Before)
<1>5. p0 \in Before /\ \A p \in Before : p.at <= p0.at
  <2>1. RowSet(Before, time) /\ k \in Before
    BY <1>1, <1>4 DEF RowSet
  <2> HIDE DEF Before
  <2> QED BY <2>1, LatestOf
<1>6. p0 \in S /\ p0 \in frame /\ p0.station = r.station /\ p0.at < r.at /\ k.at <= p0.at
  BY <1>1, <1>4, <1>5
<1>7. Previous(frame, r) = p0.value
  <2> HIDE DEF Before
  <2> QED BY <1>5 DEF Previous, ValueOf, Before
<1>8. p0.value # r.value
  BY <1>1, <1>4, <1>7 DEF CollapseStationChanges
<1>9. k.value = p0.value
  <2> HIDE DEF p0
  <2>1. k \in Of(log, p0.station)
    BY <1>3, <1>6 DEF Of
  <2>2. ASSUME NEW j \in Of(log, p0.station), j.at <= p0.at PROVE j.at <= k.at
    <3>1. j \in S /\ j.at < r.at
      BY <1>1, <1>6, <2>2 DEF Of
    <3>2. j \in Of(log \ {r}, r.station)
      BY <1>1, <1>6, <2>2, <3>1 DEF Of
    <3>3. j.at <= r.at
      BY <1>1, <3>1
    <3> HIDE DEF log, S
    <3>4. QED
      BY <1>3, <3>2, <3>3
  <2>3. QED
    <3> HIDE DEF log
    <3> QED BY <1>6, <2>1, <2>2, LogHolds DEF log
<1>10. QED
  BY <1>3, <1>8, <1>9

LEMMA DaysAreRowSets ==
    ASSUME TypeOK, NEW d
    PROVE  now \in Nat /\ RowSet(RowsOn(d), now)
BY RowsAreRowSet DEF RowSet, RowsOn

\* The change log of every day, finished or not, gives back all of the day.
THEOREM LogIsFaithful == Spec => []LogReplaysTheDay
<1>1. TypeOK => LogReplaysTheDay
  BY DaysAreRowSets, LogReplays DEF LogReplaysTheDay
<1>2. QED
  BY <1>1, TypeCorrect, PTL

\* And no smaller part of it does by leaving out one of its rows.
THEOREM LogIsIrredundant == Spec => []LogIsMinimal
<1>1. TypeOK => LogIsMinimal
  BY DaysAreRowSets, LogNeedsEveryRow DEF LogIsMinimal
<1>2. QED
  BY <1>1, TypeCorrect, PTL
=============================================================================
