---------------------------- MODULE SnapshotFeed ----------------------------
(***************************************************************************)
(* What ingestion promises the archive: a stream of cycles, each of which   *)
(* puts a station_status object and then a stations object in the bucket,   *)
(* both under the UTC day of the cycle's observed_at, and may stop at any   *)
(* point.  The serving files a cycle also writes are left to Staging.       *)
(*                                                                         *)
(* A cycle stands for the rows it wrote: an object is named by its table    *)
(* and its cycle, and cycles are numbered in observed_at order, which is    *)
(* also key order (staging/snapshots.py:44-52).                             *)
(***************************************************************************)
EXTENDS Integers

CONSTANTS
    MaxDay,     \* bound: the last UTC day of a behaviour
    MaxCycle    \* bound: how many ingestion cycles a behaviour has

ASSUME FeedAssumption == MaxDay \in Nat /\ MaxCycle \in Nat

Days   == 0..MaxDay
Cycles == 1..MaxCycle
NoDay  == -1

STATION_STATUS  == "station_status"
STATIONS        == "stations"
ARCHIVED_TABLES == {STATION_STATUS, STATIONS}

VARIABLES
    today,      \* the current UTC day
    observed,   \* the UTC day of each cycle's observed_at, NoDay before it starts
    active,     \* cycles that are running
    produced,   \* history: per table, the cycles whose object was ever put
    staged      \* per table, the cycles whose object is in the bucket

feedVars == <<today, observed, active, produced, staged>>

FeedTypeOK ==
    /\ today    \in Days
    /\ observed \in [Cycles -> Days \cup {NoDay}]
    /\ active   \in SUBSET Cycles
    /\ produced \in [ARCHIVED_TABLES -> SUBSET Cycles]
    /\ staged   \in [ARCHIVED_TABLES -> SUBSET Cycles]

FeedInit ==
    /\ today    = 0
    /\ observed = [c \in Cycles |-> NoDay]
    /\ active   = {}
    /\ produced = [t \in ARCHIVED_TABLES |-> {}]
    /\ staged   = [t \in ARCHIVED_TABLES |-> {}]

-----------------------------------------------------------------------------
\* A cycle fixes observed_at before it fetches anything, so a slow cycle's
\* objects can land under a day that is already over.
StartCycle(c) ==
    /\ observed[c] = NoDay
    /\ \A b \in Cycles : b < c => observed[b] # NoDay
    /\ observed' = [observed EXCEPT ![c] = today]
    /\ active'   = active \cup {c}
    /\ UNCHANGED <<today, produced, staged>>

PutObject(t, c) ==
    /\ produced' = [produced EXCEPT ![t] = @ \cup {c}]
    /\ staged'   = [staged EXCEPT ![t] = @ \cup {c}]
    /\ UNCHANGED <<today, observed>>

PutStatus(c) ==
    /\ c \in active
    /\ c \notin produced[STATION_STATUS]
    /\ PutObject(STATION_STATUS, c)
    /\ UNCHANGED active

\* The last object of the archive's interest; the cycle goes on to the serving
\* files, which no reader of this module sees.
PutStations(c) ==
    /\ c \in active
    /\ c \in produced[STATION_STATUS]
    /\ PutObject(STATIONS, c)
    /\ active' = active \ {c}

\* The feed was unreachable or unusable, a put failed, or the process died.
AbandonCycle(c) ==
    /\ c \in active
    /\ active' = active \ {c}
    /\ UNCHANGED <<today, observed, produced, staged>>

NewDay ==
    /\ today < MaxDay
    /\ today' = today + 1
    /\ UNCHANGED <<observed, active, produced, staged>>

CycleStep(c) == StartCycle(c) \/ PutStatus(c) \/ PutStations(c) \/ AbandonCycle(c)

FeedNext == NewDay \/ \E c \in Cycles : CycleStep(c)

FeedSpec == FeedInit /\ [][FeedNext]_feedVars
=============================================================================
