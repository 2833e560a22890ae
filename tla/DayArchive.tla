----------------------------- MODULE DayArchive -----------------------------
(***************************************************************************)
(* What ingestion and the archive job promise together: every day is open,  *)
(* then published once and in full, and only then trimmed.  No executions,  *)
(* cycles in flight, listings or failures here: ArchiveJob implements this  *)
(* when the deployment's schedule is kept.                                  *)
(***************************************************************************)
EXTENDS Integers

CONSTANTS MaxDay, MaxCycle, ArchiveStart, KeepDays

Days   == 0..MaxDay
Cycles == 1..MaxCycle
NoDay  == -1
NoRetention == -1
Tables == {"station_status", "stations"}

VARIABLES
    today,      \* the current UTC day
    observed,   \* the day each cycle belongs to
    produced,   \* per table, the cycles whose rows were ever staged
    staged,     \* per table, the cycles whose rows are in the bucket
    archive     \* per table and day, the cycles whose rows are published

vars == <<today, observed, produced, staged, archive>>

Rows(t, d) == {c \in produced[t] : observed[c] = d}

Published == {d \in Days : archive["station_status", d] # {}}

Init ==
    /\ today    = 0
    /\ observed = [c \in Cycles |-> NoDay]
    /\ produced = [t \in Tables |-> {}]
    /\ staged   = [t \in Tables |-> {}]
    /\ archive  = [p \in Tables \X Days |-> {}]

NewDay ==
    /\ today' = today + 1
    /\ UNCHANGED <<observed, produced, staged, archive>>

Begin(c) ==
    /\ observed[c] = NoDay
    /\ observed' = [observed EXCEPT ![c] = today]
    /\ UNCHANGED <<today, produced, staged, archive>>

\* Rows join a day only until it is published.
Stage(t, c) ==
    /\ observed[c] \in Days \ Published
    /\ c \notin produced[t]
    /\ produced' = [produced EXCEPT ![t] = @ \cup {c}]
    /\ staged'   = [staged   EXCEPT ![t] = @ \cup {c}]
    /\ UNCHANGED <<today, observed, archive>>

\* A complete day is published once, and with every row it ever had.
Publish(D) ==
    /\ \A d \in D : /\ d \notin Published
                    /\ ArchiveStart <= d /\ d < today
                    /\ Rows("station_status", d) # {}
    /\ archive' = [p \in Tables \X Days |->
                     IF p[2] \in D THEN Rows(p[1], p[2]) ELSE archive[p]]
    /\ UNCHANGED <<today, observed, produced, staged>>

\* Rows leave the bucket only from a published day past the retention window.
Trim(t, c) ==
    /\ KeepDays # NoRetention
    /\ observed[c] \in Published
    /\ observed[c] < today - KeepDays
    /\ staged' = [staged EXCEPT ![t] = @ \ {c}]
    /\ UNCHANGED <<today, observed, produced, archive>>

Next ==
    \/ NewDay
    \/ \E c \in Cycles : Begin(c)
    \/ \E t \in Tables, c \in Cycles : Stage(t, c) \/ Trim(t, c)
    \/ \E D \in SUBSET Days : Publish(D)

Spec == Init /\ [][Next]_vars
=============================================================================
