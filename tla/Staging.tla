------------------------------- MODULE Staging -------------------------------
(***************************************************************************)
(* Ingestion cycles writing to the object store (staging/snapshots.py): two *)
(* durable snapshots, the serving copy of the stations, and the rolling     *)
(* serving window, which is read, merged and written back with nothing      *)
(* between the read and the write to stop another cycle.                    *)
(*                                                                         *)
(* One action per call to the store.  A cycle stands for the rows it        *)
(* fetched; all of them carry its observed_at.  Time is counted in instants *)
(* finer than the second a snapshot key is written in.                      *)
(***************************************************************************)
EXTENDS Integers

CONSTANTS
    MaxCycle,   \* bound: how many cycles a behaviour has
    MaxTime,    \* bound: the last instant
    Second,     \* instants in a second, the resolution of a key
    Day,        \* instants in a UTC day
    Window,     \* RECENT_WINDOW_MINUTES in instants
    MaxCorrupt  \* bound: how often the stored window becomes unreadable

ASSUME StagingAssumption ==
    /\ MaxCycle \in Nat /\ MaxTime \in Nat /\ MaxCorrupt \in Nat
    /\ Second \in Nat \ {0}
    /\ Day \in Nat \ {0} /\ Day % Second = 0
    /\ Window \in Nat

Cycles == 1..MaxCycle
Time   == 0..MaxTime
Never  == -1
None   == 0

STATION_STATUS  == "station_status"
STATIONS        == "stations"
ARCHIVED_TABLES == {STATION_STATUS, STATIONS}

VARIABLES
    now,
    step,       \* what each cycle does next
    observedAt, \* each cycle's observed_at, Never before it begins
    snapshots,  \* per table and key, the cycle whose rows the object holds
    window,     \* serving/station_status.parquet: the cycles whose rows it holds
    readable,   \* it is a Parquet file
    served,     \* serving/stations.parquet: the cycle whose rows it holds
    read,       \* the window each cycle got from the store
    overlapped, \* history: a cycle ever began while another was running
    corrupted   \* how often the stored window became unreadable

vars == <<now, step, observedAt, snapshots, window, readable, served, read, overlapped,
          corrupted>>

Steps == {"idle", "fetch", "stations", "serve", "get", "put", "done", "failed"}

Running == {c \in Cycles : step[c] \notin {"idle", "done", "failed"}}
Done    == {c \in Cycles : step[c] = "done"}

\* The second an instant falls in: an object's key, given its table.
KeyOf(moment) == moment \div Second
DayOf(moment) == moment \div Day
Keys == {KeyOf(m) : m \in Time}

TypeOK ==
    /\ now        \in Time
    /\ step       \in [Cycles -> Steps]
    /\ observedAt \in [Cycles -> Time \cup {Never}]
    /\ snapshots  \in [ARCHIVED_TABLES -> [Keys -> Cycles \cup {None}]]
    /\ window     \in SUBSET Cycles
    /\ readable   \in BOOLEAN
    /\ served     \in Cycles \cup {None}
    /\ read       \in [Cycles -> SUBSET Cycles]
    /\ overlapped \in BOOLEAN
    /\ corrupted  \in 0..MaxCorrupt

Init ==
    /\ now        = 0
    /\ step       = [c \in Cycles |-> "idle"]
    /\ observedAt = [c \in Cycles |-> Never]
    /\ snapshots  = [t \in ARCHIVED_TABLES |-> [k \in Keys |-> None]]
    /\ window     = {}
    /\ readable   = TRUE
    /\ served     = None
    /\ read       = [c \in Cycles |-> {}]
    /\ overlapped = FALSE
    /\ corrupted  = 0

-----------------------------------------------------------------------------
(* Pure parts.                                                              *)

\* Mutants, here and below: a mistake in the definition that follows, which the
\* runs must notice.  One object per day instead of one per cycle.
WriteSnapshotDayKey(t, c) ==
    snapshots' = [snapshots EXCEPT ![t][KeyOf(DayOf(observedAt[c]) * Day)] = c]

\* The snapshot key keeps the day and the second of observed_at.
WriteSnapshot(t, c) ==
    snapshots' = [snapshots EXCEPT ![t][KeyOf(observedAt[c])] = c]

Newest(S) == CHOOSE m \in {observedAt[c] : c \in S} : \A b \in S : observedAt[b] <= m

\* The trimming forgotten.
TrimToWindowUntrimmed(S) == S

\* Rows older than the window before the newest row go, whatever time it is now.
TrimToWindow(S) ==
    IF S = {} THEN S ELSE {c \in S : observedAt[c] >= Newest(S) - Window}

\* The new rows instead of old and new.
MergeReplacing(old, c) == TrimToWindow({c})

\* `unique(..., keep="last")`: of two cycles at one instant the new one stays.
Merge(old, c) ==
    TrimToWindow({b \in old : observedAt[b] # observedAt[c]} \cup {c})

-----------------------------------------------------------------------------
(* One cycle.                                                               *)

At(c, s) == step[c] = s
Go(c, s) == step' = [step EXCEPT ![c] = s]

\* observed_at rounded up to a moment that has not come yet.
BeginAhead(c) ==
    /\ At(c, "idle")
    /\ \A b \in Cycles : b < c => /\ ~ At(b, "idle")
                                  /\ KeyOf(observedAt[b]) # KeyOf(now)
    /\ overlapped' = (overlapped \/ Running # {})
    /\ observedAt' = [observedAt EXCEPT ![c] = now + 1]
    /\ Go(c, "fetch")
    /\ UNCHANGED <<now, snapshots, window, readable, served, read, corrupted>>

\* observed_at is fixed before the feeds are fetched.  The scheduler starts a
\* cycle every five minutes, so two never begin within a second; but the one
\* before may still be running.
Begin(c) ==
    /\ At(c, "idle")
    /\ \A b \in Cycles : b < c => /\ ~ At(b, "idle")
                                  /\ KeyOf(observedAt[b]) # KeyOf(now)
    /\ overlapped' = (overlapped \/ Running # {})
    /\ observedAt' = [observedAt EXCEPT ![c] = now]
    /\ Go(c, "fetch")
    /\ UNCHANGED <<now, snapshots, window, readable, served, read, corrupted>>

\* The stations written first, under the status rows' turn.
WriteStatusLast(c) ==
    /\ At(c, "fetch")
    /\ WriteSnapshot(STATIONS, c)
    /\ Go(c, "stations")
    /\ UNCHANGED <<now, observedAt, window, readable, served, read, overlapped, corrupted>>

\* The feeds are fetched and transformed; write_snapshot of the status rows.
WriteStatus(c) ==
    /\ At(c, "fetch")
    /\ WriteSnapshot(STATION_STATUS, c)
    /\ Go(c, "stations")
    /\ UNCHANGED <<now, observedAt, window, readable, served, read, overlapped, corrupted>>

\* _publish_stations: the snapshot, then the serving copy.
WriteStations(c) ==
    /\ At(c, "stations")
    /\ WriteSnapshot(STATIONS, c)
    /\ Go(c, "serve")
    /\ UNCHANGED <<now, observedAt, window, readable, served, read, overlapped, corrupted>>

ServeStations(c) ==
    /\ At(c, "serve")
    /\ served' = c
    /\ Go(c, "get")
    /\ UNCHANGED <<now, observedAt, snapshots, window, readable, read, overlapped, corrupted>>

\* update_recent_window: get the window, an unreadable one counting as empty...
GetWindow(c) ==
    /\ At(c, "get")
    /\ read' = [read EXCEPT ![c] = IF readable THEN window ELSE {}]
    /\ Go(c, "put")
    /\ UNCHANGED <<now, observedAt, snapshots, window, readable, served, overlapped, corrupted>>

\* ... and put the merged one.
PutWindow(c) ==
    /\ At(c, "put")
    /\ window'   = Merge(read[c], c)
    /\ readable' = TRUE
    /\ read'     = [read EXCEPT ![c] = {}]
    /\ Go(c, "done")
    /\ UNCHANGED <<now, observedAt, snapshots, served, overlapped, corrupted>>

\* The feed could not be fetched, had no rows or could not be transformed, a
\* store call raised, or the instance was killed: nothing is undone.
Fail(c) ==
    /\ c \in Running
    /\ read' = [read EXCEPT ![c] = {}]
    /\ Go(c, "failed")
    /\ UNCHANGED <<now, observedAt, snapshots, window, readable, served, overlapped, corrupted>>

Tick ==
    /\ now < MaxTime
    /\ now' = now + 1
    /\ UNCHANGED <<step, observedAt, snapshots, window, readable, served, read, overlapped, corrupted>>

\* Something else damages the stored window.
Corrupt ==
    /\ readable /\ window # {}
    /\ corrupted < MaxCorrupt
    /\ readable'  = FALSE
    /\ corrupted' = corrupted + 1
    /\ UNCHANGED <<now, step, observedAt, snapshots, window, served, read, overlapped>>

Advance(c) ==
    \/ WriteStatus(c) \/ WriteStations(c) \/ ServeStations(c)
    \/ GetWindow(c) \/ PutWindow(c)

Next ==
    \/ Tick
    \/ Corrupt
    \/ \E c \in Cycles : Begin(c) \/ Advance(c) \/ Fail(c)

Spec == Init /\ [][Next]_vars

-----------------------------------------------------------------------------
(* Properties.                                                              *)

\* Whatever a reader finds in the serving files has its snapshot in the bucket:
\* the durable copy comes first, and no later cycle overwrites it.
ServingIsDurable ==
    /\ \A c \in window : snapshots[STATION_STATUS][KeyOf(observedAt[c])] = c
    /\ served # None => snapshots[STATIONS][KeyOf(observedAt[served])] = served

\* The window never spans more than its width, whichever cycle wrote it last.
WindowIsNarrow ==
    \A b, c \in window : observedAt[c] - observedAt[b] <= Window

\* As long as no cycles overlapped, the window holds exactly the finished cycles
\* within its width of the newest one: failures elsewhere lose none of them.
WindowIsExact ==
    ~ overlapped /\ corrupted = 0 =>
        window = {c \in Done : \A b \in Done : observedAt[c] >= observedAt[b] - Window}

\* To the archive, ingestion is SnapshotFeed: objects under the day of their
\* cycle, status before stations, each written once.
Put(t) == {c \in Cycles : /\ observedAt[c] # Never
                          /\ snapshots[t][KeyOf(observedAt[c])] = c}

Feed == INSTANCE SnapshotFeed WITH
    MaxDay   <- DayOf(MaxTime),
    today    <- DayOf(now),
    observed <- [c \in Cycles |-> IF observedAt[c] = Never THEN -1 ELSE DayOf(observedAt[c])],
    active   <- {c \in Cycles : step[c] \in {"fetch", "stations"}},
    produced <- [t \in ARCHIVED_TABLES |-> Put(t)],
    staged   <- [t \in ARCHIVED_TABLES |-> Put(t)]

FeedsTheArchive == Feed!FeedSpec
=============================================================================
