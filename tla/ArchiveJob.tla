----------------------------- MODULE ArchiveJob -----------------------------
(***************************************************************************)
(* The archive job (archive/cli.py): publish the staged snapshots of every  *)
(* complete day to the Hub, then delete from the bucket what the Hub holds. *)
(* Executions run beside ingestion, may overlap each other, and may fail at *)
(* any point.                                                               *)
(*                                                                         *)
(* One action per call to the bucket or the Hub.  The local computation     *)
(* that follows a call, up to the next one, is part of the call's action.   *)
(* Listing a table-day and getting each listed object (read_staged_day) is  *)
(* one action: an object never changes and is only ever deleted, so all the *)
(* gets succeed exactly when they would have succeeded right after the      *)
(* listing; when one does not, the execution fails (Crash).                 *)
(*                                                                         *)
(* A partition is the set of cycles whose objects it was built from, {} when*)
(* there is no such file.  A table-day without rows is skipped, so no       *)
(* partition is ever empty.                                                 *)
(***************************************************************************)
EXTENDS SnapshotFeed

CONSTANTS
    Jobs,           \* slots for executions, each with a working directory
    Invocations,    \* the command lines the executions are started with
    ArchiveStart,   \* settings.archive_start_date (0, the first day: unset)
    KeepDays,       \* settings.retention_days, or NoRetention
    Scheduled,      \* the deployment's schedule is kept: see Schedule
    MaxCrash        \* bound: executions that fail

NoRetention == -1

Modes == {"daily", "backfill", "day"}

\* The parsed command line; `day` only matters in mode "day", and keepDir says
\* whether --staging-dir names a directory that outlives the execution.
Invocation == [mode : Modes, day : Days, dryRun : BOOLEAN, keepDir : BOOLEAN]

ASSUME ArchiveAssumption ==
    /\ Invocations \subseteq Invocation
    /\ ArchiveStart \in Nat
    /\ KeepDays \in Nat \cup {NoRetention}
    /\ Scheduled \in BOOLEAN
    /\ MaxCrash \in Nat

VARIABLES
    archive,    \* the dataset repo: per partition, the cycles it holds
    job,        \* the executions
    crashes

vars == <<feedVars, archive, job, crashes>>

Partitions == ARCHIVED_TABLES \X Days
Nothing    == [p \in Partitions |-> {}]

Steps == {"idle", "present", "archived", "export", "upload",
          "confirm", "survey", "list", "delete"}

\* One execution: where main() is, its arguments, and the locals that live
\* from one call to the next.
JobState ==
    [ step   : Steps,
      mode   : Modes,
      dryRun : BOOLEAN,
      keepDir: BOOLEAN,
      asOf   : Days,                \* the day the step in progress calls today
      seen   : SUBSET Days,         \* the day listing the step works from
      todo   : SUBSET Days,         \* days left to export or trim, oldest first
      table  : ARCHIVED_TABLES,     \* the table of the oldest of them in hand
      doomed : SUBSET Cycles,       \* keys listed for deletion
      local  : [Partitions -> SUBSET Cycles] ]  \* the staging directory

IdleJob ==
    [ step |-> "idle", mode |-> "daily", dryRun |-> FALSE, keepDir |-> FALSE,
      asOf |-> 0, seen |-> {}, todo |-> {}, table |-> STATION_STATUS,
      doomed |-> {}, local |-> Nothing ]

TypeOK ==
    /\ FeedTypeOK
    /\ archive \in [Partitions -> SUBSET Cycles]
    /\ job     \in [Jobs -> JobState]
    /\ crashes \in 0..MaxCrash

Init ==
    /\ FeedInit
    /\ archive = Nothing
    /\ job     = [j \in Jobs |-> IdleJob]
    /\ crashes = 0

-----------------------------------------------------------------------------
(* What the job reads and how it decides.                                   *)

Earliest(S) == CHOOSE x \in S : \A y \in S : x <= y

StagedKeys(t, d) == {c \in staged[t] : observed[c] = d}

DaysPresentInBucket == {d \in Days : StagedKeys(STATION_STATUS, d) # {}}

ArchivedDays == {d \in Days : archive[<<STATION_STATUS, d>>] # {}}

\* Mutants, here and below: a mistake in the definition that follows, which the
\* runs must notice.  Today counted as complete; no start date; published days
\* exported again; yesterday left out.
DaysNeedingExportToday(present, archived, t) ==
    {d \in present \ archived : d <= t /\ d >= ArchiveStart}
DaysNeedingExportNoFloor(present, archived, t) ==
    {d \in present \ archived : d < t}
DaysNeedingExportAgain(present, archived, t) ==
    {d \in present : d < t /\ d >= ArchiveStart}
DaysNeedingExportLate(present, archived, t) ==
    {d \in present \ archived : d < t - 1 /\ d >= ArchiveStart}

\* export.py's rule: complete, from the start date on, not yet published.
DaysNeedingExport(present, archived, t) ==
    {d \in present \ archived : d < t /\ d >= ArchiveStart}

\* Unpublished days trimmed too; a day kept too long.
DaysSafeToTrimUnpublished(present, archived, t) ==
    {d \in present : d < t - KeepDays}
DaysSafeToTrimLate(present, archived, t) ==
    {d \in present \cap archived : d < t - KeepDays - 1}

\* retention.py's rule: published, and past the retention window.
DaysSafeToTrim(present, archived, t) ==
    {d \in present \cap archived : d < t - KeepDays}

-----------------------------------------------------------------------------
(* Control flow between the calls.                                          *)

\* The execution returns or dies: only a --staging-dir is left behind.  (The
\* slot's directory is the last one named to it: an execution without
\* --staging-dir forgets it, which no property here depends on.)
Ended(r) == [IdleJob EXCEPT !.local = IF r.keepDir THEN r.local ELSE Nothing]

\* The date taken in a time zone ahead of UTC.
AfterPublishAhead(r) ==
    IF r.dryRun \/ KeepDays = NoRetention
    THEN Ended(r)
    ELSE [r EXCEPT !.step = "confirm", !.asOf = today + 1]

\* main() from line 124: a dry run and an unset retention skip the trimming;
\* otherwise today is read again.
AfterPublish(r) ==
    IF r.dryRun \/ KeepDays = NoRetention
    THEN Ended(r)
    ELSE [r EXCEPT !.step = "confirm", !.asOf = today]

\* Nothing to export: no directory is written and nothing is uploaded.
AfterPlan(r, days) ==
    IF days = {}
    THEN AfterPublish(r)
    ELSE [r EXCEPT !.step = "export", !.todo = days, !.table = STATION_STATUS]

\* `for day in days: for table in ARCHIVED_TABLES`
NextTableDay(r) ==
    IF r.table = STATION_STATUS
    THEN [r EXCEPT !.table = STATIONS]
    ELSE [r EXCEPT !.table = STATION_STATUS, !.todo = @ \ {Earliest(@)}]

AfterExport(r) ==
    IF r.todo # {} THEN r
    ELSE IF r.dryRun THEN Ended(r)
    ELSE [r EXCEPT !.step = "upload"]

AfterTrim(r) ==
    IF r.todo # {} THEN [r EXCEPT !.step = "list"] ELSE Ended(r)

-----------------------------------------------------------------------------
(* The steps of an execution.                                               *)

At(j, step) == job[j].step = step

Become(j, r) == job' = [job EXCEPT ![j] = r]

\* scripts/deploy.sh schedules one execution a day at 04:20 UTC, hours after
\* the last cycle of the day before has ended, and an execution ends long
\* before the next is due.  Nothing in the program enforces either.
Schedule ==
    /\ \A c \in active : observed[c] = today
    /\ \A j \in Jobs : At(j, "idle")

Start(j, i) ==
    /\ At(j, "idle")
    /\ Scheduled => Schedule
    /\ LET r == [ IdleJob EXCEPT
                    !.mode    = i.mode,
                    !.dryRun  = i.dryRun,
                    !.keepDir = i.keepDir,
                    !.asOf    = today,
                    !.local   = IF i.keepDir THEN job[j].local ELSE Nothing ]
       IN  Become(j, IF i.mode = "day" THEN AfterPlan(r, {i.day})
                                       ELSE [r EXCEPT !.step = "present"])
    /\ UNCHANGED <<feedVars, archive, crashes>>

ListBucket(j) ==
    /\ At(j, "present")
    /\ Become(j, IF job[j].mode = "backfill"
                 THEN AfterPlan(job[j],
                        DaysNeedingExport(DaysPresentInBucket, {}, job[j].asOf))
                 ELSE [job[j] EXCEPT !.step = "archived",
                                     !.seen = DaysPresentInBucket])
    /\ UNCHANGED <<feedVars, archive, crashes>>

ListArchive(j) ==
    /\ At(j, "archived")
    /\ Become(j, AfterPlan(job[j],
                    DaysNeedingExport(job[j].seen, ArchivedDays, job[j].asOf)))
    /\ UNCHANGED <<feedVars, archive, crashes>>

\* Read one table-day of the bucket and write its partition to the directory.
ExportTableDay(j) ==
    /\ At(j, "export")
    /\ LET part == <<job[j].table, Earliest(job[j].todo)>>
           rows == StagedKeys(part[1], part[2])
           r    == IF rows = {} THEN job[j]
                   ELSE [job[j] EXCEPT !.local = [@ EXCEPT ![part] = rows]]
       IN  Become(j, AfterExport(NextTableDay(r)))
    /\ UNCHANGED <<feedVars, archive, crashes>>

\* One commit of every partition in the directory, overwriting in place.
Upload(j) ==
    /\ At(j, "upload")
    /\ archive' = [p \in Partitions |->
                     IF job[j].local[p] = {} THEN archive[p] ELSE job[j].local[p]]
    /\ Become(j, AfterPublish(job[j]))
    /\ UNCHANGED <<feedVars, crashes>>

ConfirmArchive(j) ==
    /\ At(j, "confirm")
    /\ Become(j, [job[j] EXCEPT !.step = "survey", !.seen = ArchivedDays])
    /\ UNCHANGED <<feedVars, archive, crashes>>

SurveyBucket(j) ==
    /\ At(j, "survey")
    /\ LET days == DaysSafeToTrim(DaysPresentInBucket, job[j].seen, job[j].asOf)
       IN  Become(j, AfterTrim([job[j] EXCEPT !.todo  = days,
                                              !.table = STATION_STATUS]))
    /\ UNCHANGED <<feedVars, archive, crashes>>

ListDoomed(j) ==
    /\ At(j, "list")
    /\ LET keys == StagedKeys(job[j].table, Earliest(job[j].todo))
       IN  Become(j, IF keys = {}
                     THEN AfterTrim(NextTableDay(job[j]))
                     ELSE [job[j] EXCEPT !.step = "delete", !.doomed = keys])
    /\ UNCHANGED <<feedVars, archive, crashes>>

\* Deleting an object that is already gone succeeds.
DeleteKey(j) ==
    /\ At(j, "delete")
    /\ LET key == Earliest(job[j].doomed)
           r   == [job[j] EXCEPT !.doomed = @ \ {key}]
       IN  /\ staged' = [staged EXCEPT ![job[j].table] = @ \ {key}]
           /\ Become(j, IF r.doomed = {} THEN AfterTrim(NextTableDay(r)) ELSE r)
    /\ UNCHANGED <<today, observed, active, produced, archive, crashes>>

\* A call raised, or the process was killed; main() catches nothing.
Crash(j) ==
    /\ ~ At(j, "idle")
    /\ crashes < MaxCrash
    /\ crashes' = crashes + 1
    /\ Become(j, Ended(job[j]))
    /\ UNCHANGED <<feedVars, archive>>

Continue(j) ==
    \/ ListBucket(j) \/ ListArchive(j) \/ ExportTableDay(j) \/ Upload(j)
    \/ ConfirmArchive(j) \/ SurveyBucket(j) \/ ListDoomed(j) \/ DeleteKey(j)

Feed == FeedNext /\ UNCHANGED <<archive, job, crashes>>

Next ==
    \/ Feed
    \/ \E j \in Jobs : \/ \E i \in Invocations : Start(j, i)
                       \/ Continue(j)
                       \/ Crash(j)

Spec == Init /\ [][Next]_vars

\* A running cycle and a running execution end, and the scheduler keeps starting
\* executions that are no dry runs, whatever an operator runs in between.  Ingestion
\* itself owes nothing.
Fairness ==
    /\ \A c \in Cycles : WF_vars((PutStatus(c) \/ PutStations(c) \/ AbandonCycle(c))
                                 /\ UNCHANGED <<archive, job, crashes>>)
    /\ \A j \in Jobs : WF_vars(Continue(j))
    /\ \A j \in Jobs : SF_vars(\E i \in {i \in Invocations : ~ i.dryRun} : Start(j, i))

FairSpec == Spec /\ Fairness

-----------------------------------------------------------------------------
(* Properties.                                                              *)

\* Rows are never lost: whatever ingestion put in the bucket is still there or
\* is in the archive, though exports, trims, failures and cycles interleave.
NoRowLost ==
    \A t \in ARCHIVED_TABLES : \A c \in produced[t] :
        c \in staged[t] \/ c \in archive[<<t, observed[c]>>]

\* An object leaves the bucket only when its day is older than the retention
\* window and the archive holds that day, at the moment of the deletion and
\* not just when the execution looked.
TrimStep ==
    \A t \in ARCHIVED_TABLES : \A c \in staged[t] \ staged'[t] :
        /\ KeepDays # NoRetention
        /\ observed[c] < today - KeepDays
        /\ archive[<<STATION_STATUS, observed[c]>>] # {}
TrimsOnlyArchivedDays == [][TrimStep]_vars

\* Nothing before the archive's start date is ever published.
FloorHolds ==
    \A p \in Partitions : archive[p] # {} => p[2] >= ArchiveStart

\* Publishing a day again never loses rows that were already in it.
RerunStep == \A p \in Partitions : archive[p] \subseteq archive'[p]
RerunRepairs == [][RerunStep]_vars

\* Every row of a complete day from the start date on reaches the archive.
EveryDayIsPublished ==
    \A c \in Cycles :
        (/\ c \in produced[STATION_STATUS]
         /\ ArchiveStart <= observed[c] /\ observed[c] < today)
        ~> \E d \in Days : d = observed[c] /\ c \in archive[<<STATION_STATUS, d>>]

\* The object of cycle c is past the retention window and its day is published.
Expired(t, c) ==
    /\ c \in staged[t]
    /\ observed[c] \in ArchivedDays
    /\ observed[c] < today - KeepDays

\* Every station_status object of a published day past the retention window is
\* deleted, an execution that failed half-way notwithstanding.  Not so the
\* stations objects: an execution that fails between the two tables leaves them,
\* and staged_days never finds them again (archive/staged.py:140-143).
StatusIsTrimmed ==
    \A c \in Cycles : Expired(STATION_STATUS, c) ~> c \notin staged[STATION_STATUS]

\* With the schedule kept and neither --day nor --backfill used, executions do
\* what DayArchive says: a day is published once, in full, before it is trimmed.
Contract == INSTANCE DayArchive
PublishesThenTrims == Contract!Spec
=============================================================================
