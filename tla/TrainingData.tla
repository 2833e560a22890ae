----------------------------- MODULE TrainingData -----------------------------
(***************************************************************************)
(* What is computed from the rows of one staged table, while they are still  *)
(* coming in: features and targets from station_status                      *)
(* (features/build_features.py), on the training side from every row and on *)
(* the serving side from the recent ones (modeling/predict.py), and the     *)
(* change log of a day from stations (archive/staged.py).                   *)
(*                                                                         *)
(* A row is a station, an observed_at and a value, which stands for what    *)
(* the table says of the station then.  Time is in ticks, finer than the    *)
(* interval of ingestion, so cycles can be early, late or missing.  A       *)
(* statistic over a rolling window is a function of the rows in it and is   *)
(* modelled by that set.                                                    *)
(***************************************************************************)
EXTENDS Integers, FiniteSets

CONSTANTS
    Stations,
    Values,          \* what a row can say
    Lags,            \* _LAG_MINUTES
    LagTolerance,    \* _LAG_JOIN_TOLERANCE_MINUTES
    Rolls,           \* window sizes of the rolling statistics
    Horizon,         \* forecast_horizon_minutes
    TargetTolerance, \* how far behind the horizon a target may be
    Window,          \* RECENT_WINDOW_MINUTES
    Lookback,        \* LOOKBACK_MINUTES
    Day,             \* ticks in a UTC day
    MaxTime,         \* bound: the last tick
    MaxCycle         \* bound: how many cycles a behaviour has

Missing == -1

ASSUME DataAssumption ==
    /\ Values \subseteq Nat
    /\ Lags \subseteq Nat \ {0} /\ Rolls \subseteq Nat \ {0}
    /\ LagTolerance \in Nat /\ TargetTolerance \in Nat
    /\ Horizon \in Nat /\ Window \in Nat /\ Lookback \in Nat
    /\ Day \in Nat \ {0}
    /\ MaxTime \in Nat /\ MaxCycle \in Nat
    /\ Lookback <= Window

STATION_STATUS == "station_status"
STATIONS       == "stations"

VARIABLES
    table,  \* the table a behaviour is about
    now,
    rows    \* the rows staged so far

vars == <<table, now, rows>>

\* Any field of a station can be null, the number of bikes cannot.
ValuesOf(t) == IF t = STATIONS THEN Values \cup {Missing} ELSE Values

Row == [station : Stations, at : Nat, value : Values \cup {Missing}]

TypeOK ==
    /\ table \in {STATION_STATUS, STATIONS}
    /\ now   \in 0..(MaxTime + 1)
    /\ \A r \in rows : /\ r \in Row
                       /\ r.value \in ValuesOf(table)
                       /\ r.at < now
    /\ \A q, r \in rows : q.station = r.station /\ q.at = r.at => q = r

Init ==
    /\ table \in {STATION_STATUS, STATIONS}
    /\ now   = 0
    /\ rows  = {}

\* Mutants, here and below: a mistake in the definition that follows, which the
\* run must notice.  Rows stamped when the next cycle is due.
CycleAhead ==
    /\ now <= MaxTime
    /\ Cardinality({r.at : r \in rows}) < MaxCycle
    /\ \E known \in SUBSET Stations \ {{}} : \E v \in [known -> ValuesOf(table)] :
         rows' = rows \cup {[station |-> s, at |-> now + 1, value |-> v[s]] : s \in known}
    /\ now' = now + 1
    /\ UNCHANGED table

\* A cycle brings at most one row of each station: the feed lists a station once.
Cycle ==
    /\ now <= MaxTime
    /\ Cardinality({r.at : r \in rows}) < MaxCycle
    /\ \E known \in SUBSET Stations \ {{}} : \E v \in [known -> ValuesOf(table)] :
         rows' = rows \cup {[station |-> s, at |-> now, value |-> v[s]] : s \in known}
    /\ now' = now + 1
    /\ UNCHANGED table

Quiet ==
    /\ now <= MaxTime
    /\ now' = now + 1
    /\ UNCHANGED <<table, rows>>

Next == Cycle \/ Quiet

Spec == Init /\ [][Next]_vars

-----------------------------------------------------------------------------
(* Features and targets.                                                    *)

Of(frame, station) == {r \in frame : r.station = station}
Latest(S)   == CHOOSE r \in S : \A q \in S : q.at <= r.at
Earliest(S) == CHOOSE r \in S : \A q \in S : r.at <= q.at
ValueOf(S, Pick(_)) == IF S = {} THEN Missing ELSE Pick(S).value

\* A tolerance that excludes its own end.
LagOfWithin(frame, row, minutes) ==
    ValueOf({r \in Of(frame, row.station) :
                /\ row.at - minutes - LagTolerance < r.at
                /\ r.at <= row.at - minutes}, Latest)

\* The last row at or before the moment searched, if it is near enough.
LagOf(frame, row, minutes) ==
    ValueOf({r \in Of(frame, row.station) :
                /\ row.at - minutes - LagTolerance <= r.at
                /\ r.at <= row.at - minutes}, Latest)

\* A window centred on the row instead of trailing it.
RollOfCentred(frame, row, minutes) ==
    {r \in Of(frame, row.station) :
        -minutes < 2 * (r.at - row.at) /\ 2 * (r.at - row.at) <= minutes}

\* The trailing window, open at its far end.
RollOf(frame, row, minutes) ==
    {r \in Of(frame, row.station) : row.at - minutes < r.at /\ r.at <= row.at}

\* The columns computed from the rows of the station; its capacity and what is
\* computed from that are Training's FeatureRow.
ComputeFeatures(frame, row) ==
    [ value |-> row.value,
      lags  |-> [m \in Lags  |-> LagOf(frame, row, m)],
      rolls |-> [w \in Rolls |-> RollOf(frame, row, w)] ]

\* The row nearest to the end of the tolerance instead of the horizon.
TargetOfLatest(frame, row) ==
    ValueOf({r \in Of(frame, row.station) :
                /\ row.at + Horizon <= r.at
                /\ r.at <= row.at + Horizon + TargetTolerance}, Latest)

\* The first row at or after the horizon, if it is near enough.
TargetOf(frame, row) ==
    ValueOf({r \in Of(frame, row.station) :
                /\ row.at + Horizon <= r.at
                /\ r.at <= row.at + Horizon + TargetTolerance}, Earliest)

\* The rows /predict computes features from: those of the serving window that
\* are recent enough, counted back from now.
TrimToWindow(frame) == {r \in frame : \A q \in frame : r.at >= q.at - Window}

\* Only as far back as the longest lag.
HistoryAtLag(station) ==
    {r \in Of(TrimToWindow(rows), station) : \E m \in Lags : r.at >= now - m}

History(station) == {r \in Of(TrimToWindow(rows), station) : r.at >= now - Lookback}

-----------------------------------------------------------------------------
(* The change log.                                                          *)

RowsOn(day) == {r \in rows : r.at \div Day = day}

\* The first row of every state instead of the first of every run of it.
CollapseToStates(frame) ==
    {r \in frame : \A q \in Of(frame, r.station) : q.value = r.value => r.at <= q.at}

\* What the row before says of the station; nothing before the first.
Previous(frame, row) == ValueOf({r \in Of(frame, row.station) : r.at < row.at}, Latest)

\* Every row that differs from the first one of its day.
CollapseAgainstFirst(frame) ==
    {r \in frame : \/ \A q \in Of(frame, r.station) : r.at <= q.at
                   \/ r.value # ValueOf(Of(frame, r.station), Earliest)}

CollapseStationChanges(frame) ==
    {r \in frame : \/ \A q \in Of(frame, r.station) : r.at <= q.at
                   \/ r.value # Previous(frame, r)}

-----------------------------------------------------------------------------
(* Properties.                                                              *)

\* The lag and rolling columns look back only: no row that comes later changes
\* them, whatever cycles were late or missing (features/build_features.py:72-89,
\* 136-150).  Training!OnlyCapacityIsRewritten says what later data does change.
LagsAndRollsAreFinal ==
    [][table = STATION_STATUS =>
         \A r \in rows : ComputeFeatures(rows', r) = ComputeFeatures(rows, r)]_vars

\* A row once labelled keeps its target (features/build_features.py:166-209).
TargetsAreFinal ==
    [][table = STATION_STATUS =>
         \A r \in rows : TargetOf(rows, r) # Missing => TargetOf(rows', r) = TargetOf(rows, r)]_vars

\* The rows of a station, each but the last followed by another within a gap.
Steady(station, gap) ==
    \A r \in Of(rows, station) :
        (\E q \in Of(rows, station) : r.at < q.at) =>
            \E q \in Of(rows, station) : r.at < q.at /\ q.at <= r.at + gap

\* The tolerances bridge what they are meant to: when each row of a station comes
\* no later than the first tick beyond a tolerance after the one before, there is
\* no lag missing that its rows reach back to and no target missing that they
\* reach (features/build_features.py:80-88,200-209).  A tick more costs either.
GapsAreBridged ==
    table = STATION_STATUS =>
        \A row \in rows :
            LET known == Of(rows, row.station)
            IN  /\ \A m \in Lags :
                      Steady(row.station, LagTolerance + 1) /\ (\E q \in known : q.at <= row.at - m)
                          => LagOf(rows, row, m) # Missing
                /\ Steady(row.station, TargetTolerance + 1)
                      /\ (\E q \in known : q.at >= row.at + Horizon)
                          => TargetOf(rows, row) # Missing

\* Train/serve parity (features/build_features.py:98-103): what /predict computes
\* from its ninety minutes is the row training computes from everything, as long
\* as the station's newest row is recent enough to have its longest lag in them.
Reach(row) == \A m \in Lags \cup Rolls : now - Lookback <= row.at - m - LagTolerance
ServedRowIsTrainingRow ==
    table = STATION_STATUS =>
        \A s \in Stations :
            LET history == History(s)
                newest  == Latest(history)
            IN  history # {} /\ Reach(newest) =>
                    ComputeFeatures(history, newest) = ComputeFeatures(rows, newest)

\* A log replays rows if its last row up to each of them says what it says.
Replays(log, frame) ==
    \A r \in frame : \E k \in Of(log, r.station) :
        /\ k.at <= r.at /\ k.value = r.value
        /\ \A j \in Of(log, r.station) : j.at <= r.at => j.at <= k.at

PublishedDays == 0..(MaxTime \div Day)

\* The log says of every moment of its day what the snapshots said, changes back
\* to an earlier state and to nothing included (archive/staged.py:67-83).
LogReplaysTheDay ==
    table = STATIONS =>
        \A d \in PublishedDays : Replays(CollapseStationChanges(RowsOn(d)), RowsOn(d))

\* And no row of it could be left out: a log is its day's distinct states and
\* nothing more (archive/staged.py:68).
LogIsMinimal ==
    table = STATIONS =>
        \A d \in PublishedDays :
            LET log == CollapseStationChanges(RowsOn(d))
            IN  \A r \in log : ~ Replays(log \ {r}, RowsOn(d))
=============================================================================
