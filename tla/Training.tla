------------------------------- MODULE Training -------------------------------
(***************************************************************************)
(* What a training run makes of the archive (modeling/train.py): the        *)
(* stations and the rows that ingestion staged and the archive job          *)
(* published, joined, labelled, filtered and cut by time, with a code for   *)
(* every station.  The archive grows cycle by cycle, and everything is      *)
(* computed from what is in it so far: a training run may come at any time. *)
(*                                                                         *)
(* A cycle puts its status object before its stations object and may end    *)
(* between the two (SnapshotFeed).  Rows are those of TrainingData, with    *)
(* the service flags of their station; the details of a station are its     *)
(* capacity, which the feed may change in every cycle or leave out.         *)
(***************************************************************************)
EXTENDS StationEncoding

CONSTANTS
    Stations,        \* station ids
    Capacities,      \* what the feed can say of a station's size
    Lags, LagTolerance, Rolls, Horizon, TargetTolerance, Day, \* as in TrainingData
    MinHistory,      \* MIN_STATION_HISTORY_ROWS
    TrainPercent,    \* train_frac
    ValPercent,      \* val_frac
    MaxTime,         \* bound: the last tick
    MaxCycle,        \* bound: how many cycles stage rows
    MaxLost,         \* bound: how many of them end between their two objects
    MaxIrregular     \* bound: how much out of the ordinary a behaviour meets

ASSUME TrainingAssumption ==
    /\ Stations \subseteq Int /\ IsFiniteSet(Stations) /\ Capacities \subseteq Nat
    /\ Lags \subseteq Nat \ {0} /\ Rolls \subseteq Nat \ {0}
    /\ LagTolerance \in Nat /\ Horizon \in Nat /\ TargetTolerance \in Nat
    /\ Day \in Nat \ {0} /\ MaxTime \in Nat /\ MaxCycle \in Nat
    /\ TrainPercent \in Nat /\ ValPercent \in Nat /\ TrainPercent + ValPercent < 100
    /\ MinHistory \in Nat /\ MaxLost \in Nat /\ MaxIrregular \in Nat

\* 288 rows of a station, while cycles that end between two puts are a rarity.
ASSUME LossesAreRare == MaxLost < MinHistory

VARIABLES
    now,
    rows,       \* station_status in the archive
    details,    \* the snapshots of stations the archive's change log is made of
    lost        \* how many cycles have rows and no details

vars == <<now, rows, details, lost>>

Missing == -1

\* A size is whatever the feed says last, or nothing.
Sizes == Capacities \cup {Missing}

\* The definitions of features, targets and change logs, over status rows.
Data == INSTANCE TrainingData WITH
    table <- "station_status", Values <- {0}, Window <- MaxTime, Lookback <- MaxTime

TypeOK ==
    /\ now \in 0..(MaxTime + 1)
    /\ \A r \in rows : /\ r \in [station : Stations, at : Nat, value : {0}, inService : BOOLEAN]
                       /\ r.at < now
    /\ \A d \in details : /\ d \in [station : Stations, at : Nat, value : Sizes]
                          /\ d.at < now
    /\ \A F \in {rows, details} : \A q, r \in F : q.station = r.station /\ q.at = r.at => q = r
    /\ lost \in 0..MaxLost

Init == now = 0 /\ rows = {} /\ details = {} /\ lost = 0

-----------------------------------------------------------------------------
(* Ingestion.                                                               *)

\* Mutants, here and below: a mistake in the definition that follows, which the
\* run must notice.  A transform that stages what it can of the status feed.
TransformsUnknownToo(informed, reported) == reported # {}

\* Every station of the status feed must be in the information feed of the same
\* cycle, or nothing of the cycle is staged; nor is anything without a row.
Transforms(informed, reported) == reported # {} /\ reported \subseteq informed

\* Rows stamped with the end of the cycle.
BuildStationStatusLate(reported, serving) ==
    {[station |-> s, at |-> now + 1, value |-> 0, inService |-> s \in serving] : s \in reported}

BuildStationStatus(reported, serving) ==
    {[station |-> s, at |-> now, value |-> 0, inService |-> s \in serving] : s \in reported}

BuildStations(informed, capacity) ==
    {[station |-> s, at |-> now, value |-> capacity[s]] : s \in informed}

\* What is counted against MaxIrregular: rows a cycle lacks or has of a station
\* out of service, and sizes that changed.
Absent(frame)  == Cardinality(Stations) * Cardinality({r.at : r \in frame}) - Cardinality(frame)
Out(frame)     == Cardinality({r \in frame : ~ r.inService})
Changed(frame) ==
    Cardinality(Data!CollapseStationChanges(frame)) - Cardinality({d.station : d \in frame})

\* Every station can have any size in any cycle, the one it had before the last
\* change included.
Cycle ==
    /\ now <= MaxTime
    /\ Cardinality({r.at : r \in rows}) < MaxCycle
    /\ \E informed, reported \in SUBSET Stations : \E serving \in SUBSET reported :
         /\ Transforms(informed, reported)
         /\ rows' = rows \cup BuildStationStatus(reported, serving)
         /\ \/ \E capacity \in [informed -> Sizes] :
                  /\ details' = details \cup BuildStations(informed, capacity)
                  /\ UNCHANGED lost
            \/ /\ lost < MaxLost
               /\ lost' = lost + 1
               /\ UNCHANGED details
    /\ Absent(rows') + Out(rows') + Changed(details') + lost' <= MaxIrregular
    /\ now' = now + 1

Quiet ==
    /\ now <= MaxTime
    /\ now' = now + 1
    /\ UNCHANGED <<rows, details, lost>>

Next == Cycle \/ Quiet

Spec == Init /\ [][Next]_vars

-----------------------------------------------------------------------------
(* The archive, as training reads it.                                       *)

DetailsOn(day) == {d \in details : d.at \div Day = day}

\* Logs that name every state of a station once, as distinct rows would.
StationHistoryOfStates ==
    UNION {Data!CollapseToStates(DetailsOn(d)) : d \in 0..(MaxTime \div Day)}

\* What the archive holds of the stations: the change log of every day.
StationHistory == UNION {Data!CollapseStationChanges(DetailsOn(d)) : d \in 0..(MaxTime \div Day)}

\* Each station's most recent details, however long ago it was last seen.
LoadStations ==
    LET log == StationHistory
    IN  [s \in {d.station : d \in log} |-> Data!Latest(Data!Of(log, s)).value]

Encoding == BuildStationIdEncoding(DOMAIN LoadStations)

\* A join that forgets its key.
CapacityOfAny(catalog, row) ==
    IF catalog = <<>> THEN Missing ELSE catalog[CHOOSE s \in DOMAIN catalog : TRUE]

\* The one capacity of a station that all of its rows get; null without details.
CapacityOf(catalog, row) ==
    IF row.station \in DOMAIN catalog THEN catalog[row.station] ELSE Missing

FeatureRow(frame, catalog, row) ==
    [features |-> Data!ComputeFeatures(frame, row), capacity |-> CapacityOf(catalog, row)]

Labeled == {r \in rows : Data!TargetOf(rows, r) # Missing}

InService(frame) == {r \in frame : r.inService}

\* Stations that are out of service by now are left out.
ApplyQualityFiltersNow(frame) ==
    {r \in InService(frame) :
        /\ Cardinality(Data!Of(InService(frame), r.station)) >= MinHistory
        /\ Data!Latest(Data!Of(frame, r.station)).inService}

\* Rows in service, of stations that have enough of them.
ApplyQualityFilters(frame) ==
    {r \in InService(frame) : Cardinality(Data!Of(InService(frame), r.station)) >= MinHistory}

Filtered == ApplyQualityFilters(Labeled)

-----------------------------------------------------------------------------
(* The split.                                                               *)

Before(frame, t) == {r \in frame : r.at < t}
From(frame, t)   == {r \in frame : r.at >= t}

\* The time of the k-th row in the order of time, from 0.
TimeAt(frame, k) ==
    CHOOSE t \in {r.at : r \in frame} :
        LET before == Cardinality(Before(frame, t))
        IN  before <= k /\ k < before + Cardinality({r \in frame : r.at = t})

\* int(n * 0.7) and int(n * 0.85).  The first float product is one below its
\* integer for n = 90, 170, ...; the index is then one row earlier.
TrainCutoff(frame) == TimeAt(frame, (Cardinality(frame) * TrainPercent) \div 100)
ValCutoff(frame) ==
    TimeAt(frame, (Cardinality(frame) * (TrainPercent + ValPercent)) \div 100)

\* The instant of the cut belongs to both sides of it.
TrainInclusive(frame) == {r \in frame : r.at <= TrainCutoff(frame)}

\* Trained on the validation rows as well.
TrainAndVal(frame) == Before(frame, ValCutoff(frame))

Train(frame) == Before(frame, TrainCutoff(frame))

Val(frame)   == Before(From(frame, TrainCutoff(frame)), ValCutoff(frame))
Test(frame)  == From(frame, ValCutoff(frame))

-----------------------------------------------------------------------------
(* Properties.                                                              *)

\* No row is trained on under a null code.  A status row may be published
\* without any details of its station, when its cycle ended between the two
\* puts; what keeps such a station out is the transform, which ties the two
\* feeds, and the minimal history (processing/gbfs_transform.py:126-131,
\* modeling/dataset.py:32-44, modeling/encoding.py:23-32).
TrainedStationsHaveCodes == {r.station : r \in Filtered} \subseteq DOMAIN Encoding

\* The change logs, day by day and without their repetitions, name every station
\* ever seen, and the last row of each has the size it had when last seen, also
\* when that is one it had before or none (archive/staged.py:67-83,
\* archive/read.py:69-86).
CatalogIsCurrent ==
    LoadStations = [s \in {d.station : d \in details} |->
                       Data!Latest(Data!Of(details, s)).value]

\* Every row is in one part, the parts follow each other in time without sharing
\* an instant, train and validation keep to their shares, and there is something
\* to test on (modeling/dataset.py:60-88).
SplitKeepsTime ==
    LET frame == Filtered
        train == Train(frame)
        val   == Val(frame)
        test  == Test(frame)
        n     == Cardinality(frame)
    IN  frame # {} =>
          /\ frame = train \cup val \cup test
          /\ \A r \in train, q \in val \cup test : r.at < q.at
          /\ \A r \in val, q \in test : r.at < q.at
          /\ 100 * Cardinality(train) <= n * TrainPercent
          /\ 100 * Cardinality(test) >= n * (100 - TrainPercent - ValPercent)

\* Training labels reach over the cut, but not into the test period as long as
\* validation lasts a horizon and its tolerance: nothing observed in the test
\* period takes part in a label trained on (modeling/train.py:374-382).
TestIsUnseen ==
    LET frame == Filtered
        cut   == ValCutoff(frame)
    IN  frame # {} /\ cut - TrainCutoff(frame) >= Horizon + TargetTolerance =>
            \A r \in Train(frame) : Data!TargetOf(Before(rows, cut), r) = Data!TargetOf(rows, r)

\* Of what is computed from a row, later data changes its capacity only (and the
\* occupancy that follows from it), and that only when later details of its own
\* station say something else (features/build_features.py:116-125).
OnlyCapacityIsRewritten ==
    [][ \A before \in {LoadStations}, after \in {LoadStations'} : \A r \in rows :
          FeatureRow(rows', after, r) # FeatureRow(rows, before, r) =>
            /\ Data!ComputeFeatures(rows', r) = Data!ComputeFeatures(rows, r)
            /\ \E d \in details' \ details :
                 d.station = r.station /\ d.value # CapacityOf(before, r) ]_vars

\* A row that was fit to train on stays so in every later run.
TrainedRowsStay == [][ Filtered \subseteq Filtered' ]_vars
=============================================================================
