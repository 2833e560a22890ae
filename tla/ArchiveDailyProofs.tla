------------------------- MODULE ArchiveDailyProofs -------------------------
(***************************************************************************)
(* What the daily executions guarantee when the deployment keeps its        *)
(* schedule: every row survives, and the start date is a floor.             *)
(***************************************************************************)
EXTENDS ArchiveJobProofs

\* The schedule is kept and nobody passes --day or --backfill.
DailyOnSchedule ==
    /\ Scheduled
    /\ \A i \in Invocations : i.mode = "daily"

Rows(t, d) == {c \in produced[t] : observed[c] = d}

\* No row can join day d any more.
Closed(d) ==
    /\ d < today
    /\ \A c \in active : observed[c] # d

\* Rows belong to days that have begun, and the bucket holds no others.
FeedInv ==
    /\ \A t \in ARCHIVED_TABLES : staged[t] \subseteq produced[t]
    /\ \A c \in active : observed[c] \in Days /\ c \notin produced[STATIONS]
    /\ \A t \in ARCHIVED_TABLES : \A c \in produced[t] : observed[c] \in Days

\* A published day is closed and complete; any other still has all its objects.
DaysInv ==
    /\ \A p \in Partitions : archive[p] # {} => p[2] \in ArchivedDays
    /\ \A d \in ArchivedDays :
         /\ Closed(d) /\ ArchiveStart <= d
         /\ \A t \in ARCHIVED_TABLES : archive[<<t, d>>] = Rows(t, d)
    /\ \A t \in ARCHIVED_TABLES : \A c \in produced[t] :
         observed[c] \notin ArchivedDays => c \in staged[t]

\* Every partition in a directory, even one left by an earlier execution, holds
\* its whole day.
DirectoryInv(r) ==
    \A t \in ARCHIVED_TABLES, d \in Days : r.local[<<t, d>>] # {} =>
        /\ Closed(d) /\ ArchiveStart <= d
        /\ r.local[<<t, d>>] = Rows(t, d)
        /\ r.local[<<STATION_STATUS, d>>] # {}

\* Of the unpublished days in a directory, those outside D have both tables.
Complete(r, D) ==
    \A d \in Days \ (ArchivedDays \cup D) :
        r.local[<<STATION_STATUS, d>>] # {} => r.local[<<STATIONS, d>>] = Rows(STATIONS, d)

Publishing(r) == r.step \in {"present", "archived", "export", "upload"}

PublishInv(r) ==
    /\ Publishing(r) =>
         /\ r.mode = "daily" /\ r.asOf <= today
         /\ \A c \in active : r.asOf <= observed[c]
         /\ \A d \in Days : r.local[<<STATION_STATUS, d>>] # {} => d < r.asOf
    /\ r.step = "archived" =>
         \A d \in Days \ ArchivedDays :
             d < r.asOf => (d \in r.seen <=> StagedKeys(STATION_STATUS, d) # {})
    /\ r.step = "export" =>
         /\ r.todo # {}
         /\ \A d \in r.todo : /\ ArchiveStart <= d /\ d < r.asOf
                              /\ d \notin ArchivedDays
                              /\ Rows(STATION_STATUS, d) # {}
         /\ r.table = STATIONS => r.local[<<STATION_STATUS, Earliest(r.todo)>>] # {}
         /\ Complete(r, r.todo)
    /\ r.step = "upload" => Complete(r, {})

OneAtATime == \A j, k \in Jobs : j # k => At(j, "idle") \/ At(k, "idle")

DailyInv ==
    /\ FeedInv /\ DaysInv /\ OneAtATime
    /\ \A j \in Jobs : DirectoryInv(job[j]) /\ PublishInv(job[j])

-----------------------------------------------------------------------------
(***************************************************************************)
(* Records between the calls.                                               *)
(***************************************************************************)

\* An execution that publishes nothing owes nothing to the days.
LEMMA NotPublishing ==
    ASSUME NEW r \in JobState, ~ Publishing(r)
    PROVE  PublishInv(r)
BY DEF Publishing, PublishInv

LEMMA SameDirectory ==
    ASSUME NEW r, NEW q, DirectoryInv(r), q.local \in {r.local, Nothing}
    PROVE  DirectoryInv(q)
BY DEF DirectoryInv, Nothing, Partitions

LEMMA EndedDaily ==
    ASSUME NEW r \in JobState, DirectoryInv(r)
    PROVE  DirectoryInv(Ended(r)) /\ PublishInv(Ended(r))
<1>1. Ended(r) \in JobState /\ ~ Publishing(Ended(r))
  BY EndedType DEF Ended, IdleJob, Publishing
<1>2. Ended(r).local \in {r.local, Nothing}
  BY DEF Ended, IdleJob
<1>3. QED
  BY <1>1, <1>2, NotPublishing, SameDirectory

LEMMA AfterPublishDaily ==
    ASSUME NEW r \in JobState, DirectoryInv(r), today \in Days
    PROVE  /\ DirectoryInv(AfterPublish(r)) /\ PublishInv(AfterPublish(r))
           /\ AfterPublish(r).step \in {"idle", "confirm"}
<1>1. CASE r.dryRun \/ KeepDays = NoRetention
  BY <1>1, EndedDaily DEF AfterPublish, Ended, IdleJob
<1>2. CASE ~ (r.dryRun \/ KeepDays = NoRetention)
  <2> DEFINE q == [r EXCEPT !.step = "confirm", !.asOf = today]
  <2>1. q \in JobState /\ ~ Publishing(q) /\ q.local = r.local /\ q.step = "confirm"
    BY DEF JobState, Steps, Publishing
  <2>2. DirectoryInv(q) /\ PublishInv(q)
    <3> HIDE DEF q
    <3>1. QED
      BY <2>1, NotPublishing, SameDirectory
  <2>3. QED
    BY <1>2, <2>1, <2>2 DEF AfterPublish
<1>3. QED
  BY <1>1, <1>2

LEMMA AfterPlanDaily ==
    ASSUME NEW r \in JobState, DirectoryInv(r), today \in Days, NEW days \in SUBSET Days,
           r.mode = "daily", r.asOf <= today,
           \A c \in active : r.asOf <= observed[c],
           \A d \in Days : r.local[<<STATION_STATUS, d>>] # {} => d < r.asOf,
           \A d \in days : /\ ArchiveStart <= d /\ d < r.asOf
                           /\ d \notin ArchivedDays
                           /\ Rows(STATION_STATUS, d) # {},
           Complete(r, days)
    PROVE  DirectoryInv(AfterPlan(r, days)) /\ PublishInv(AfterPlan(r, days))
<1>1. CASE days = {}
  BY <1>1, AfterPublishDaily DEF AfterPlan
<1>2. CASE days # {}
  <2> DEFINE q == [r EXCEPT !.step = "export", !.todo = days, !.table = STATION_STATUS]
  <2>1. /\ q \in JobState /\ q.local = r.local /\ q.step = "export" /\ q.todo = days
        /\ q.table = STATION_STATUS /\ q.mode = r.mode /\ q.asOf = r.asOf
    BY DEF JobState, Steps, ARCHIVED_TABLES
  <2>2. DirectoryInv(q) /\ PublishInv(q)
    <3> HIDE DEF q
    <3>1. DirectoryInv(q)
      BY <2>1, SameDirectory
    <3>2. Complete(q, q.todo)
      BY <2>1 DEF Complete
    <3>3. QED
      BY <1>2, <2>1, <3>1, <3>2
         DEF PublishInv, Publishing, STATION_STATUS, STATIONS
  <2>3. QED
    BY <1>2, <2>2 DEF AfterPlan
<1>3. QED
  BY <1>1, <1>2

-----------------------------------------------------------------------------
(***************************************************************************)
(* Ingestion.                                                               *)
(***************************************************************************)

\* A closed day stays closed, and ingestion adds nothing to it.
LEMMA ClosedDayKept ==
    ASSUME TypeOK, FeedInv, FeedNext, NEW d \in Days, Closed(d)
    PROVE  /\ Closed(d)'
           /\ \A t \in ARCHIVED_TABLES : /\ Rows(t, d)' = Rows(t, d)
                                         /\ StagedKeys(t, d)' = StagedKeys(t, d)
<1> USE FeedAssumption DEF TypeOK, FeedTypeOK, FeedInv, Closed, Rows, StagedKeys
<1>1. CASE NewDay
  BY <1>1 DEF NewDay, Days
<1>2. ASSUME NEW c \in Cycles, StartCycle(c)
      PROVE  /\ Closed(d)'
             /\ \A t \in ARCHIVED_TABLES : /\ Rows(t, d)' = Rows(t, d)
                                           /\ StagedKeys(t, d)' = StagedKeys(t, d)
  <2>1. \A t \in ARCHIVED_TABLES : c \notin produced[t] /\ c \notin staged[t]
    BY <1>2 DEF StartCycle, Days, NoDay
  <2>2. QED
    BY <1>2, <2>1 DEF StartCycle, Days
<1>3. ASSUME NEW c \in active, NEW t \in ARCHIVED_TABLES, PutObject(t, c),
             active' \subseteq active
      PROVE  /\ Closed(d)'
             /\ \A u \in ARCHIVED_TABLES : /\ Rows(u, d)' = Rows(u, d)
                                           /\ StagedKeys(u, d)' = StagedKeys(u, d)
  BY <1>3 DEF PutObject
<1>4. ASSUME NEW c \in Cycles, AbandonCycle(c)
      PROVE  /\ Closed(d)'
             /\ \A t \in ARCHIVED_TABLES : /\ Rows(t, d)' = Rows(t, d)
                                           /\ StagedKeys(t, d)' = StagedKeys(t, d)
  BY <1>4 DEF AbandonCycle
<1>5. ASSUME NEW c \in Cycles, PutStatus(c) \/ PutStations(c)
      PROVE  /\ Closed(d)'
             /\ \A t \in ARCHIVED_TABLES : /\ Rows(t, d)' = Rows(t, d)
                                           /\ StagedKeys(t, d)' = StagedKeys(t, d)
  <2>1. PICK t \in ARCHIVED_TABLES : PutObject(t, c) /\ active' \subseteq active /\ c \in active
    BY <1>5 DEF PutStatus, PutStations, ARCHIVED_TABLES
  <2> HIDE DEF Closed, Rows, StagedKeys
  <2>2. QED
    BY <2>1, <1>3
<1>6. QED
  BY <1>1, <1>2, <1>4, <1>5 DEF FeedNext, CycleStep

\* Nor does it start a cycle before the day it is.
LEMMA ActiveCyclesKept ==
    ASSUME TypeOK, FeedInv, FeedNext, NEW n \in Days, n <= today,
           \A c \in active : n <= observed[c]
    PROVE  n <= today' /\ \A c \in active' : n <= observed'[c]
BY FeedAssumption
   DEF TypeOK, FeedTypeOK, FeedInv, FeedNext, CycleStep, NewDay, StartCycle, PutStatus,
       PutStations, PutObject, AbandonCycle, Days, NoDay

LEMMA FeedInvKept ==
    ASSUME TypeOK, FeedInv, FeedNext
    PROVE  FeedInv'
<1> USE FeedAssumption DEF TypeOK, FeedTypeOK, FeedInv
<1>1. CASE NewDay
  BY <1>1 DEF NewDay
<1>2. ASSUME NEW c \in Cycles, StartCycle(c)
      PROVE  FeedInv'
  BY <1>2 DEF StartCycle, Days, NoDay, ARCHIVED_TABLES
<1>3. ASSUME NEW c \in Cycles, PutStatus(c)
      PROVE  FeedInv'
  BY <1>3 DEF PutStatus, PutObject, ARCHIVED_TABLES, STATION_STATUS, STATIONS
<1>4. ASSUME NEW c \in Cycles, PutStations(c)
      PROVE  FeedInv'
  BY <1>4 DEF PutStations, PutObject, ARCHIVED_TABLES, STATION_STATUS, STATIONS
<1>5. ASSUME NEW c \in Cycles, AbandonCycle(c)
      PROVE  FeedInv'
  BY <1>5 DEF AbandonCycle
<1>6. QED
  BY <1>1, <1>2, <1>3, <1>4, <1>5 DEF FeedNext, CycleStep

\* What ingestion puts, it puts in the bucket.
LEMMA NewRowsAreStaged ==
    ASSUME TypeOK, FeedInv, FeedNext, NEW t \in ARCHIVED_TABLES, NEW c \in produced'[t]
    PROVE  \/ c \in produced[t] /\ observed'[c] = observed[c]
                                /\ (c \in staged[t] => c \in staged'[t])
           \/ c \in staged'[t]
BY FeedAssumption
   DEF TypeOK, FeedTypeOK, FeedInv, FeedNext, CycleStep, NewDay, StartCycle, PutStatus,
       PutStations, PutObject, AbandonCycle, Days, NoDay, ARCHIVED_TABLES

LEMMA FeedKeepsDaily ==
    ASSUME TypeOK, DailyInv, Feed
    PROVE  DailyInv'
<1>0. /\ FeedNext /\ archive' = archive /\ job' = job
      /\ FeedInv /\ DaysInv /\ OneAtATime
      /\ \A j \in Jobs : DirectoryInv(job[j]) /\ PublishInv(job[j])
  BY DEF Feed, DailyInv
<1>1. FeedInv'
  BY <1>0, FeedInvKept
<1>2. ArchivedDays' = ArchivedDays /\ ArchivedDays \subseteq Days
  BY <1>0 DEF ArchivedDays
<1>3. ASSUME NEW d \in Days, Closed(d)
      PROVE  /\ Closed(d)'
             /\ \A t \in ARCHIVED_TABLES : /\ Rows(t, d)' = Rows(t, d)
                                           /\ StagedKeys(t, d)' = StagedKeys(t, d)
  BY <1>0, <1>3, ClosedDayKept
<1>4. DaysInv'
  <2>1. \A p \in Partitions : archive'[p] # {} => p[2] \in ArchivedDays'
    BY <1>0, <1>2 DEF DaysInv
  <2>2. ASSUME NEW d \in ArchivedDays'
        PROVE  /\ Closed(d)' /\ ArchiveStart <= d
               /\ \A t \in ARCHIVED_TABLES : archive'[<<t, d>>] = Rows(t, d)'
    BY <1>0, <1>2, <1>3 DEF DaysInv
  <2>3. ASSUME NEW t \in ARCHIVED_TABLES, NEW c \in produced'[t],
               observed'[c] \notin ArchivedDays'
        PROVE  c \in staged'[t]
    BY <1>0, <1>2, <2>3, NewRowsAreStaged DEF DaysInv
  <2>4. QED
    BY <2>1, <2>2, <2>3 DEF DaysInv
<1>5. ASSUME NEW j \in Jobs
      PROVE  DirectoryInv(job[j])' /\ PublishInv(job[j])'
  <2>0. job[j] \in JobState /\ DirectoryInv(job[j]) /\ PublishInv(job[j])
    BY <1>0 DEF TypeOK
  <2>1. DirectoryInv(job[j])'
    BY <1>0, <1>3, <2>0 DEF DirectoryInv
  <2>2. ASSUME NEW D, Complete(job[j], D)
        PROVE  \A d \in Days \ (ArchivedDays' \cup D) :
                   job'[j].local[<<STATION_STATUS, d>>] # {} =>
                       job'[j].local[<<STATIONS, d>>] = Rows(STATIONS, d)'
    BY <1>0, <1>2, <1>3, <2>0, <2>2 DEF Complete, DirectoryInv, ARCHIVED_TABLES
  <2>3. ASSUME Publishing(job[j])
        PROVE  /\ job[j].asOf <= today'
               /\ \A c \in active' : job[j].asOf <= observed'[c]
               /\ \A d \in Days : d < job[j].asOf => Closed(d)
    <3>1. /\ job[j].asOf \in Days /\ job[j].asOf <= today
          /\ \A c \in active : job[j].asOf <= observed[c]
      BY <2>0, <2>3 DEF PublishInv, JobState
    <3>2. /\ job[j].asOf <= today'
          /\ \A c \in active' : job[j].asOf <= observed'[c]
      BY <1>0, <3>1, ActiveCyclesKept
    <3>3. ASSUME NEW d \in Days, d < job[j].asOf
          PROVE  Closed(d)
      BY <1>0, <3>1, <3>3, FeedAssumption
         DEF Closed, Days, TypeOK, FeedTypeOK, FeedInv
    <3>4. QED
      BY <3>2, <3>3
  <2>4. PublishInv(job[j])'
    <3>1. ASSUME job[j].step = "archived", NEW d \in Days \ ArchivedDays, d < job[j].asOf
          PROVE  d \in job[j].seen <=> StagedKeys(STATION_STATUS, d)' # {}
      BY <1>3, <2>0, <2>3, <3>1 DEF PublishInv, Publishing, ARCHIVED_TABLES
    <3>2. ASSUME job[j].step = "export", NEW d \in job[j].todo
          PROVE  Rows(STATION_STATUS, d)' # {}
      BY <1>3, <2>0, <2>3, <3>2 DEF PublishInv, Publishing, ARCHIVED_TABLES, JobState
    <3>3. job[j].step = "export" => Complete(job[j], job[j].todo)'
      BY <1>0, <2>0, <2>2 DEF PublishInv, Complete
    <3>4. job[j].step = "upload" => Complete(job[j], {})'
      BY <1>0, <2>0, <2>2 DEF PublishInv, Complete
    <3>5. QED
      BY <1>0, <1>2, <2>0, <2>3, <3>1, <3>2, <3>3, <3>4 DEF PublishInv, Publishing
  <2>5. QED
    BY <2>1, <2>4
<1>6. QED
  BY <1>0, <1>1, <1>4, <1>5 DEF DailyInv, OneAtATime, At

-----------------------------------------------------------------------------
(***************************************************************************)
(* Executions.                                                              *)
(***************************************************************************)

JobStep(j) ==
    \/ \E i \in Invocations : Start(j, i)
    \/ Continue(j)
    \/ Crash(j)

\* Calls that change neither the bucket nor the archive.
ReadOnlyStep(j) ==
    \/ \E i \in Invocations : Start(j, i)
    \/ ListBucket(j) \/ ListArchive(j) \/ ExportTableDay(j)
    \/ ConfirmArchive(j) \/ SurveyBucket(j) \/ ListDoomed(j)
    \/ Crash(j)

LEMMA StillOneAtATime ==
    ASSUME DailyOnSchedule, TypeOK, OneAtATime, NEW j \in Jobs, JobStep(j)
    PROVE  /\ OneAtATime'
           /\ \A k \in Jobs \ {j} : At(k, "idle") /\ job'[k] = job[k]
<1>1. \A k \in Jobs \ {j} : At(k, "idle")
  <2>1. CASE \E i \in Invocations : Start(j, i)
    BY <2>1 DEF Start, Schedule, DailyOnSchedule
  <2>2. CASE Continue(j) \/ Crash(j)
    BY <2>2 DEF OneAtATime, At, Continue, Crash, ListBucket, ListArchive, ExportTableDay,
               Upload, ConfirmArchive, SurveyBucket, ListDoomed, DeleteKey
  <2>3. QED
    BY <2>1, <2>2 DEF JobStep
<1>2. \A k \in Jobs \ {j} : job'[k] = job[k]
  BY OneJobMoves DEF JobStep
<1>3. QED
  BY <1>1, <1>2 DEF OneAtATime, At

\* An unpublished day's objects are its rows.
LEMMA UnpublishedIsStaged ==
    ASSUME FeedInv, DaysInv, NEW t \in ARCHIVED_TABLES, NEW d \in Days \ ArchivedDays
    PROVE  StagedKeys(t, d) = Rows(t, d)
BY DEF FeedInv, DaysInv, StagedKeys, Rows

LEMMA StartDaily ==
    ASSUME DailyOnSchedule, TypeOK, DailyInv, NEW j \in Jobs, NEW i \in Invocations,
           Start(j, i)
    PROVE  DirectoryInv(job'[j]) /\ PublishInv(job'[j])
<1> DEFINE s == [ IdleJob EXCEPT
                    !.mode    = i.mode,
                    !.dryRun  = i.dryRun,
                    !.keepDir = i.keepDir,
                    !.asOf    = today,
                    !.local   = IF i.keepDir THEN job[j].local ELSE Nothing ]
           q == [s EXCEPT !.step = "present"]
<1>1. i \in Invocation /\ i.mode = "daily"
  BY ArchiveAssumption DEF DailyOnSchedule
<1>2. /\ job[j] \in JobState /\ today \in Days /\ DirectoryInv(job[j])
      /\ job \in [Jobs -> JobState]
  BY DEF TypeOK, FeedTypeOK, DailyInv
<1>3. s \in JobState
  BY <1>1, <1>2, IdleType DEF IdleJob, JobState, Invocation, Nothing
<1>4. /\ q.step = "present" /\ q.mode = "daily" /\ q.asOf = today
      /\ q.local \in {job[j].local, Nothing}
  BY <1>1, <1>3 DEF IdleJob, JobState
<1>5. job'[j] = q
  BY <1>1, <1>2 DEF Start, Become
<1>6. \A c \in active : observed[c] = today
  BY DEF Start, Schedule, DailyOnSchedule
<1> HIDE DEF q
<1>7. DirectoryInv(q)
  BY <1>2, <1>4, SameDirectory
<1>8. PublishInv(q)
  BY <1>2, <1>4, <1>6, <1>7, FeedAssumption
     DEF PublishInv, Publishing, DirectoryInv, Closed, Days, ARCHIVED_TABLES
<1>9. QED
  BY <1>5, <1>7, <1>8

LEMMA ListBucketDaily ==
    ASSUME TypeOK, DailyInv, NEW j \in Jobs, ListBucket(j)
    PROVE  DirectoryInv(job'[j]) /\ PublishInv(job'[j])
<1> DEFINE r == job[j]
           q == [r EXCEPT !.step = "archived", !.seen = DaysPresentInBucket]
<1>1. /\ r \in JobState /\ DirectoryInv(r) /\ PublishInv(r) /\ r.step = "present"
      /\ job \in [Jobs -> JobState]
  BY DEF TypeOK, DailyInv, ListBucket, At
<1>2. r.mode = "daily"
  BY <1>1 DEF PublishInv, Publishing
<1>3. job'[j] = q
  BY <1>1, <1>2 DEF ListBucket, Become
<1>4. /\ q.step = "archived" /\ q.seen = DaysPresentInBucket /\ q.mode = r.mode
      /\ q.asOf = r.asOf /\ q.local = r.local
  BY <1>1 DEF JobState
<1> HIDE DEF q
<1>5. DirectoryInv(q)
  BY <1>1, <1>4, SameDirectory
<1>6. PublishInv(q)
  BY <1>1, <1>4 DEF PublishInv, Publishing, DaysPresentInBucket
<1>7. QED
  BY <1>3, <1>5, <1>6

LEMMA ListArchiveDaily ==
    ASSUME TypeOK, DailyInv, NEW j \in Jobs, ListArchive(j)
    PROVE  DirectoryInv(job'[j]) /\ PublishInv(job'[j])
<1> DEFINE r == job[j]
           days == DaysNeedingExport(r.seen, ArchivedDays, r.asOf)
<1>1. /\ r \in JobState /\ DirectoryInv(r) /\ PublishInv(r) /\ r.step = "archived"
      /\ job \in [Jobs -> JobState] /\ today \in Days /\ FeedInv /\ DaysInv
  BY DEF TypeOK, FeedTypeOK, DailyInv, ListArchive, At
<1>2. days \in SUBSET Days
  BY <1>1, DayListingTypes DEF JobState
<1>3. /\ r.mode = "daily" /\ r.asOf <= today
      /\ \A c \in active : r.asOf <= observed[c]
      /\ \A d \in Days : r.local[<<STATION_STATUS, d>>] # {} => d < r.asOf
      /\ \A d \in Days \ ArchivedDays :
           d < r.asOf => (d \in r.seen <=> Rows(STATION_STATUS, d) # {})
  BY <1>1, UnpublishedIsStaged DEF PublishInv, Publishing, ARCHIVED_TABLES
<1>4. \A d \in days : /\ ArchiveStart <= d /\ d < r.asOf
                      /\ d \notin ArchivedDays
                      /\ Rows(STATION_STATUS, d) # {}
  BY <1>2, <1>3 DEF DaysNeedingExport
<1>5. Complete(r, days)
  \* A partition left in the directory is of a published day or exported again.
  <2> SUFFICES ASSUME NEW d \in Days, d \notin ArchivedDays, d \notin days,
                      r.local[<<STATION_STATUS, d>>] # {}
               PROVE  FALSE
    BY DEF Complete
  <2>1. /\ ArchiveStart <= d /\ d < r.asOf /\ Rows(STATION_STATUS, d) # {}
    BY <1>1, <1>3 DEF DirectoryInv, ARCHIVED_TABLES
  <2>2. QED
    BY <1>3, <2>1 DEF DaysNeedingExport
<1>6. DirectoryInv(AfterPlan(r, days)) /\ PublishInv(AfterPlan(r, days))
  <2> HIDE DEF days
  <2>1. QED
    BY <1>1, <1>2, <1>3, <1>4, <1>5, AfterPlanDaily
<1>7. QED
  BY <1>1, <1>6 DEF ListArchive, Become

\* Exporting a table-day takes all its rows, and a day leaves the plan with
\* both its tables in the directory.
LEMMA ExportDaily ==
    ASSUME TypeOK, DailyInv, NEW j \in Jobs, ExportTableDay(j)
    PROVE  DirectoryInv(job'[j]) /\ PublishInv(job'[j])
<1> DEFINE r    == job[j]
           e    == Earliest(r.todo)
           part == <<r.table, e>>
           rows == StagedKeys(part[1], part[2])
           q    == IF rows = {} THEN r
                   ELSE [r EXCEPT !.local = [@ EXCEPT ![part] = rows]]
           n    == NextTableDay(q)
<1>1. /\ r \in JobState /\ DirectoryInv(r) /\ PublishInv(r) /\ r.step = "export"
      /\ job \in [Jobs -> JobState] /\ today \in Days /\ FeedInv /\ DaysInv
  BY DEF TypeOK, FeedTypeOK, DailyInv, ExportTableDay, At
<1>2. /\ r.mode = "daily" /\ r.asOf <= today /\ r.asOf \in Days
      /\ \A c \in active : r.asOf <= observed[c]
      /\ \A d \in Days : r.local[<<STATION_STATUS, d>>] # {} => d < r.asOf
      /\ r.todo # {} /\ r.todo \subseteq Days
      /\ \A d \in r.todo : /\ ArchiveStart <= d /\ d < r.asOf
                           /\ d \notin ArchivedDays
                           /\ Rows(STATION_STATUS, d) # {}
      /\ r.table = STATIONS => r.local[<<STATION_STATUS, e>>] # {}
      /\ Complete(r, r.todo)
  BY <1>1 DEF PublishInv, Publishing, JobState
<1>3. e \in r.todo /\ e \in Days
  BY <1>2, EarliestDay
<1>4. Closed(e)
  BY <1>1, <1>2, <1>3, FeedAssumption DEF Closed, Days, FeedInv
<1>5. /\ rows = Rows(r.table, e)
      /\ r.table \in ARCHIVED_TABLES /\ part \in Partitions
  BY <1>1, <1>2, <1>3, UnpublishedIsStaged DEF JobState, Partitions
<1>6. /\ q \in JobState /\ q.step = "export" /\ q.mode = "daily" /\ q.asOf = r.asOf
      /\ q.todo = r.todo /\ q.table = r.table
      /\ \A p \in Partitions : q.local[p] = IF p = part THEN
                                              IF rows = {} THEN r.local[p] ELSE rows
                                            ELSE r.local[p]
  <2>1. rows \in SUBSET Cycles
    BY <1>1, <1>5 DEF Rows, TypeOK, FeedTypeOK
  <2>2. QED
    BY <1>1, <1>2, <1>5, <2>1 DEF JobState
<1> HIDE DEF q, rows
<1>7. q.local[part] = rows
  BY <1>1, <1>3, <1>5, <1>6 DEF DirectoryInv
<1>8. q.local[<<STATION_STATUS, e>>] # {}
  <2>1. CASE r.table = STATION_STATUS
    BY <1>2, <1>3, <1>5, <1>7, <2>1
  <2>2. CASE r.table = STATIONS
    BY <1>2, <1>3, <1>6, <2>2 DEF STATIONS, STATION_STATUS, Partitions, ARCHIVED_TABLES
  <2>3. QED
    BY <1>5, <2>1, <2>2 DEF ARCHIVED_TABLES
<1>9. \A p \in Partitions : p # part => q.local[p] = r.local[p]
  BY <1>6
<1>10. DirectoryInv(q)
  <2> SUFFICES ASSUME NEW t \in ARCHIVED_TABLES, NEW d \in Days, q.local[<<t, d>>] # {}
               PROVE  /\ Closed(d) /\ ArchiveStart <= d
                      /\ q.local[<<t, d>>] = Rows(t, d)
                      /\ q.local[<<STATION_STATUS, d>>] # {}
    BY DEF DirectoryInv
  <2>0. <<t, d>> \in Partitions /\ <<STATION_STATUS, d>> \in Partitions
    BY DEF Partitions, ARCHIVED_TABLES
  <2>1. CASE d = e /\ t = r.table
    BY <1>2, <1>3, <1>4, <1>5, <1>7, <1>8, <2>1
  <2>2. CASE d = e /\ t # r.table
    BY <1>1, <1>2, <1>3, <1>4, <1>8, <1>9, <2>0, <2>2 DEF DirectoryInv
  <2>3. CASE d # e
    BY <1>1, <1>9, <2>0, <2>3 DEF DirectoryInv
  <2>4. QED
    BY <2>1, <2>2, <2>3
<1>11. \A d \in Days : q.local[<<STATION_STATUS, d>>] # {} => d < q.asOf
  BY <1>2, <1>3, <1>6, <1>9 DEF Partitions, ARCHIVED_TABLES
<1>12. ASSUME NEW d \in Days \ (ArchivedDays \cup r.todo),
              q.local[<<STATION_STATUS, d>>] # {}
       PROVE  q.local[<<STATIONS, d>>] = Rows(STATIONS, d)
  BY <1>2, <1>3, <1>9, <1>12 DEF Complete, Partitions, ARCHIVED_TABLES
<1>13. CASE r.table = STATION_STATUS
  <2>1. /\ n \in JobState /\ n.step = "export" /\ n.mode = "daily" /\ n.asOf = r.asOf
        /\ n.todo = r.todo /\ n.table = STATIONS /\ n.local = q.local
    BY <1>6, <1>13, NextTableDayType DEF NextTableDay, JobState
  <2> HIDE DEF n
  <2>2. AfterExport(n) = n
    BY <1>2, <2>1 DEF AfterExport
  <2>3. DirectoryInv(n)
    BY <1>10, <2>1, SameDirectory
  <2>4. PublishInv(n)
    BY <1>2, <1>6, <1>8, <1>11, <1>12, <2>1 DEF PublishInv, Publishing, Complete
  <2>5. job'[j] = AfterExport(n)
    BY <1>1 DEF ExportTableDay, Become, n, q, rows
  <2>6. QED
    BY <2>2, <2>3, <2>4, <2>5
<1>14. CASE r.table = STATIONS
  <2>1. /\ n \in JobState /\ n.step = "export" /\ n.mode = "daily" /\ n.asOf = r.asOf
        /\ n.todo = r.todo \ {e} /\ n.table = STATION_STATUS /\ n.local = q.local
    BY <1>6, <1>14, NextTableDayType DEF NextTableDay, JobState, STATIONS, STATION_STATUS
  <2> HIDE DEF n
  <2>2. DirectoryInv(n)
    BY <1>10, <2>1, SameDirectory
  <2>3. q.local[<<STATIONS, e>>] = Rows(STATIONS, e)
    BY <1>5, <1>7, <1>14
  <2>4. Complete(n, n.todo)
    BY <1>12, <2>1, <2>3 DEF Complete
  <2>5. job'[j] = AfterExport(n)
    BY <1>1 DEF ExportTableDay, Become, n, q, rows
  <2>6. CASE n.todo # {}
    <3>1. AfterExport(n) = n
      BY <2>6 DEF AfterExport
    <3>2. PublishInv(n)
      BY <1>2, <1>6, <1>11, <2>1, <2>4, <2>6
         DEF PublishInv, Publishing, STATIONS, STATION_STATUS
    <3>3. QED
      BY <2>2, <2>5, <3>1, <3>2
  <2>7. CASE n.todo = {} /\ n.dryRun
    BY <2>1, <2>2, <2>5, <2>7, EndedDaily DEF AfterExport
  <2>8. CASE n.todo = {} /\ ~ n.dryRun
    <3> DEFINE u == [n EXCEPT !.step = "upload"]
    <3>1. /\ AfterExport(n) = u /\ u.step = "upload" /\ u.local = n.local
          /\ u.mode = n.mode /\ u.asOf = n.asOf
      BY <2>1, <2>8 DEF AfterExport, JobState
    <3> HIDE DEF u
    <3>2. DirectoryInv(u)
      BY <2>2, <3>1, SameDirectory
    <3>3. Complete(u, {})
      BY <2>4, <2>8, <3>1 DEF Complete
    <3>4. PublishInv(u)
      BY <1>2, <1>6, <1>11, <2>1, <3>1, <3>3 DEF PublishInv, Publishing
    <3>5. QED
      BY <2>5, <3>1, <3>2, <3>4
  <2>9. QED
    BY <2>6, <2>7, <2>8
<1>15. QED
  BY <1>5, <1>13, <1>14 DEF ARCHIVED_TABLES

\* Looking for what to trim, and dying, owe the days nothing.
LEMMA OtherReadsDaily ==
    ASSUME TypeOK, TypeOK', DailyInv, NEW j \in Jobs,
           ConfirmArchive(j) \/ SurveyBucket(j) \/ ListDoomed(j) \/ DeleteKey(j) \/ Crash(j)
    PROVE  DirectoryInv(job'[j]) /\ PublishInv(job'[j])
<1> DEFINE r == job[j]
<1>1. /\ r \in JobState /\ job'[j] \in JobState /\ DirectoryInv(r)
      /\ job \in [Jobs -> JobState]
  BY DEF TypeOK, DailyInv
<1>2. CASE ConfirmArchive(j)
  <2>1. job'[j].step = "survey" /\ job'[j].local = r.local
    BY <1>1, <1>2 DEF ConfirmArchive, Become, JobState
  <2>2. QED
    BY <1>1, <2>1, NotPublishing, SameDirectory DEF Publishing
<1>3. ASSUME NEW q \in JobState, q.local = r.local, ~ Publishing(q)
      PROVE  /\ DirectoryInv(q) /\ PublishInv(q)
             /\ DirectoryInv(AfterTrim(q)) /\ PublishInv(AfterTrim(q))
  <2>1. DirectoryInv(q) /\ PublishInv(q)
    BY <1>1, <1>3, NotPublishing, SameDirectory
  <2>2. CASE q.todo = {}
    BY <2>1, <2>2, EndedDaily DEF AfterTrim
  <2>3. CASE q.todo # {}
    <3> DEFINE w == [q EXCEPT !.step = "list"]
    <3>1. w \in JobState /\ w.local = r.local /\ ~ Publishing(w)
      BY <1>3 DEF JobState, Steps, Publishing
    <3>2. AfterTrim(q) = w
      BY <2>3 DEF AfterTrim
    <3> HIDE DEF w
    <3>3. QED
      BY <1>1, <2>1, <3>1, <3>2, NotPublishing, SameDirectory
  <2>4. QED
    BY <2>2, <2>3
<1>4. CASE SurveyBucket(j)
  <2> DEFINE days == DaysSafeToTrim(DaysPresentInBucket, r.seen, r.asOf)
             q    == [r EXCEPT !.todo = days, !.table = STATION_STATUS]
  <2>1. q \in JobState /\ q.local = r.local /\ ~ Publishing(q)
    BY <1>1, <1>4, DayListingTypes
       DEF SurveyBucket, At, JobState, ARCHIVED_TABLES, Publishing
  <2>2. job'[j] = AfterTrim(q)
    BY <1>1, <1>4 DEF SurveyBucket, Become
  <2> HIDE DEF q
  <2>3. QED
    BY <1>3, <2>1, <2>2
<1>5. ASSUME NEW q \in JobState, q.local = r.local, ~ Publishing(q)
      PROVE  DirectoryInv(AfterTrim(NextTableDay(q))) /\ PublishInv(AfterTrim(NextTableDay(q)))
  <2>1. /\ NextTableDay(q) \in JobState /\ NextTableDay(q).local = r.local
        /\ ~ Publishing(NextTableDay(q))
    BY <1>5, NextTableDayType DEF NextTableDay, JobState, Publishing
  <2>2. QED
    BY <1>3, <2>1
<1>6. CASE ListDoomed(j)
  <2> DEFINE keys == StagedKeys(r.table, Earliest(r.todo))
             q    == [r EXCEPT !.step = "delete", !.doomed = keys]
  <2>1. ~ Publishing(r)
    BY <1>6 DEF ListDoomed, At, Publishing
  <2>2. keys \in SUBSET Cycles
    BY <1>1 DEF StagedKeys, JobState, TypeOK, FeedTypeOK
  <2>3. q \in JobState /\ q.local = r.local /\ ~ Publishing(q)
    BY <1>1, <2>2 DEF JobState, Steps, Publishing
  <2>4. job'[j] \in {q, AfterTrim(NextTableDay(r))}
    BY <1>1, <1>6 DEF ListDoomed, Become
  <2> HIDE DEF q
  <2>5. QED
    BY <1>1, <1>3, <1>5, <2>1, <2>3, <2>4
<1>7. CASE DeleteKey(j)
  <2> DEFINE q == [r EXCEPT !.doomed = @ \ {Earliest(r.doomed)}]
  <2>1. q \in JobState /\ q.local = r.local /\ ~ Publishing(q)
    BY <1>1, <1>7 DEF DeleteKey, At, JobState, Publishing
  <2>2. job'[j] \in {q, AfterTrim(NextTableDay(q))}
    BY <1>1, <1>7 DEF DeleteKey, Become
  <2> HIDE DEF q
  <2>3. QED
    BY <1>3, <1>5, <2>1, <2>2
<1>8. CASE Crash(j)
  BY <1>1, <1>8, EndedDaily DEF Crash, Become
<1>9. QED
  BY <1>2, <1>4, <1>6, <1>7, <1>8

\* A directory depends on the rows produced, not on where they are.
LEMMA DirectoryKept ==
    ASSUME UNCHANGED <<today, observed, active, produced>>,
           NEW k \in Jobs, DirectoryInv(job'[k])
    PROVE  DirectoryInv(job[k])'
<1>1. \A t \in ARCHIVED_TABLES, d \in Days : Rows(t, d)' = Rows(t, d)
  BY DEF Rows
<1>2. \A d \in Days : Closed(d) => Closed(d)'
  BY DEF Closed
<1>3. QED
  BY <1>1, <1>2 DEF DirectoryInv

\* The record of an execution whose calls change no store carries over.
LEMMA ReadOnlyKeepsDaily ==
    ASSUME DailyOnSchedule, TypeOK, DailyInv, NEW j \in Jobs, ReadOnlyStep(j),
           DirectoryInv(job'[j]), PublishInv(job'[j])
    PROVE  DailyInv'
<1>1. UNCHANGED <<today, observed, active, produced, staged, archive>>
  BY DEF ReadOnlyStep, Start, ListBucket, ListArchive, ExportTableDay, ConfirmArchive,
         SurveyBucket, ListDoomed, Crash, feedVars
<1>2. OneAtATime' /\ \A k \in Jobs \ {j} : job'[k] = job[k]
  BY StillOneAtATime DEF DailyInv, JobStep, ReadOnlyStep, Continue
<1>3. \A k \in Jobs : DirectoryInv(job'[k]) /\ PublishInv(job'[k])
  BY <1>2 DEF DailyInv
<1>4. FeedInv' /\ DaysInv'
  BY <1>1 DEF DailyInv, FeedInv, DaysInv, ArchivedDays, Closed, Rows
<1>5. ASSUME NEW k \in Jobs
      PROVE  DirectoryInv(job[k])' /\ PublishInv(job[k])'
  BY <1>1, <1>3
     DEF DirectoryInv, PublishInv, Publishing, Closed, Rows, StagedKeys, Complete, ArchivedDays
<1>6. QED
  BY <1>2, <1>4, <1>5 DEF DailyInv

\* The commit publishes closed days only, each with all the rows it has.
LEMMA UploadKeepsDaily ==
    ASSUME DailyOnSchedule, TypeOK, TypeOK', DailyInv, NEW j \in Jobs, Upload(j)
    PROVE  DailyInv'
<1> DEFINE r == job[j]
<1>1. /\ r \in JobState /\ DirectoryInv(r) /\ Complete(r, {}) /\ FeedInv /\ DaysInv
      /\ job \in [Jobs -> JobState] /\ today \in Days
      /\ \A k \in Jobs : DirectoryInv(job[k])
  BY DEF TypeOK, FeedTypeOK, DailyInv, PublishInv, Upload, At
<1>2. UNCHANGED <<today, observed, active, produced, staged>>
  BY DEF Upload, feedVars
<1>3. OneAtATime' /\ \A k \in Jobs \ {j} : At(k, "idle") /\ job'[k] = job[k]
  BY StillOneAtATime DEF DailyInv, JobStep, Continue
<1>4. /\ DirectoryInv(job'[j]) /\ job'[j].step \in {"idle", "confirm"}
      /\ job'[j] \in JobState
  BY <1>1, AfterPublishDaily DEF Upload, Become, TypeOK
<1>5. \A p \in Partitions :
        archive'[p] = IF r.local[p] = {} THEN archive[p] ELSE r.local[p]
  BY DEF Upload
<1>6. ArchivedDays \subseteq ArchivedDays'
  BY <1>5 DEF ArchivedDays, Partitions, ARCHIVED_TABLES
<1>7. DaysInv'
  <2>1. ASSUME NEW p \in Partitions, archive'[p] # {}
        PROVE  p[2] \in ArchivedDays'
    <3>1. CASE r.local[p] = {}
      BY <1>1, <1>5, <1>6, <2>1, <3>1 DEF DaysInv
    <3>2. CASE r.local[p] # {}
      <4>1. PICK t \in ARCHIVED_TABLES, d \in Days : p = <<t, d>>
        BY DEF Partitions
      <4>2. r.local[<<STATION_STATUS, d>>] # {}
        BY <1>1, <3>2, <4>1 DEF DirectoryInv
      <4>3. archive'[<<STATION_STATUS, d>>] # {}
        BY <1>5, <4>2 DEF Partitions, ARCHIVED_TABLES
      <4>4. QED
        BY <4>1, <4>3 DEF ArchivedDays
    <3>3. QED
      BY <3>1, <3>2
  <2>2. ASSUME NEW d \in ArchivedDays'
        PROVE  /\ Closed(d) /\ ArchiveStart <= d
               /\ \A t \in ARCHIVED_TABLES : archive'[<<t, d>>] = Rows(t, d)
    <3>0. d \in Days /\ \A t \in ARCHIVED_TABLES : <<t, d>> \in Partitions
      BY DEF ArchivedDays, Partitions
    <3>1. CASE d \in ArchivedDays
      BY <1>1, <1>5, <3>0, <3>1 DEF DaysInv, DirectoryInv
    <3>2. CASE d \notin ArchivedDays
      <4>1. r.local[<<STATION_STATUS, d>>] # {}
        BY <1>5, <2>2, <3>0, <3>2 DEF ArchivedDays, ARCHIVED_TABLES
      <4>2. /\ Closed(d) /\ ArchiveStart <= d
            /\ r.local[<<STATION_STATUS, d>>] = Rows(STATION_STATUS, d)
            /\ r.local[<<STATIONS, d>>] = Rows(STATIONS, d)
        BY <1>1, <3>0, <3>2, <4>1 DEF DirectoryInv, Complete, ARCHIVED_TABLES
      <4>3. \A t \in ARCHIVED_TABLES : archive[<<t, d>>] = {}
        BY <1>1, <3>0, <3>2 DEF DaysInv
      <4>4. QED
        BY <1>5, <3>0, <4>2, <4>3 DEF ARCHIVED_TABLES
    <3>3. QED
      BY <3>1, <3>2
  <2>3. \A t \in ARCHIVED_TABLES : \A c \in produced[t] :
          observed[c] \notin ArchivedDays' => c \in staged[t]
    BY <1>1, <1>6 DEF DaysInv
  <2>4. QED
    BY <1>2, <2>1, <2>2, <2>3 DEF DaysInv, Closed, Rows
<1>8. FeedInv'
  BY <1>1, <1>2 DEF FeedInv
<1>9. ASSUME NEW k \in Jobs
      PROVE  DirectoryInv(job[k])' /\ PublishInv(job[k])'
  <2>1. DirectoryInv(job'[k]) /\ job'[k].step \in {"idle", "confirm"}
    BY <1>1, <1>3, <1>4 DEF At
  <2>2. DirectoryInv(job[k])'
    BY <1>2, <2>1, DirectoryKept
  <2>3. PublishInv(job[k])'
    BY <2>1 DEF PublishInv, Publishing
  <2>4. QED
    BY <2>2, <2>3
<1>10. QED
  BY <1>3, <1>7, <1>8, <1>9 DEF DailyInv

\* A deletion takes an object of a published day.
LEMMA DeleteKeepsDaily ==
    ASSUME DailyOnSchedule, TypeOK, TypeOK', TrimInv, DailyInv, NEW j \in Jobs, DeleteKey(j)
    PROVE  DailyInv'
<1>1. DirectoryInv(job'[j]) /\ PublishInv(job'[j]) /\ ~ Publishing(job'[j])
  <2>1. job'[j].step \in {"idle", "list", "delete"}
    BY DEF TypeOK, JobState, DeleteKey, Become, At, AfterTrim, NextTableDay, Ended, IdleJob
  <2>2. QED
    BY <2>1, OtherReadsDaily DEF Publishing
<1>2. /\ UNCHANGED <<today, observed, active, produced, archive>>
      /\ \A t \in ARCHIVED_TABLES : staged'[t] \subseteq staged[t]
  BY DEF DeleteKey, TypeOK, FeedTypeOK
<1>3. OneAtATime' /\ \A k \in Jobs \ {j} : At(k, "idle") /\ job'[k] = job[k]
  BY StillOneAtATime DEF DailyInv, JobStep, Continue
<1>4. \A t \in ARCHIVED_TABLES : \A c \in staged[t] \ staged'[t] : observed[c] \in ArchivedDays
  <2>1. TrimStep
    BY TrimStepHolds DEF Next, Continue
  <2>2. \A t \in ARCHIVED_TABLES : \A c \in staged[t] : observed[c] \in Days
    BY DEF DailyInv, FeedInv
  <2>3. QED
    BY <2>1, <2>2 DEF TrimStep, ArchivedDays
<1>5. FeedInv' /\ DaysInv'
  BY <1>2, <1>4 DEF DailyInv, FeedInv, DaysInv, ArchivedDays, Closed, Rows
<1>6. ASSUME NEW k \in Jobs
      PROVE  DirectoryInv(job[k])' /\ PublishInv(job[k])'
  <2>1. DirectoryInv(job'[k]) /\ ~ Publishing(job'[k])
    BY <1>1, <1>3 DEF DailyInv, At, Publishing
  <2>2. DirectoryInv(job[k])'
    BY <1>2, <2>1, DirectoryKept
  <2>3. PublishInv(job[k])'
    BY <2>1 DEF PublishInv, Publishing
  <2>4. QED
    BY <2>2, <2>3
<1>7. QED
  BY <1>3, <1>5, <1>6 DEF DailyInv

-----------------------------------------------------------------------------
(***************************************************************************)
(* The theorems.                                                            *)
(***************************************************************************)
LEMMA DailyInit == Init => DailyInv
<1> SUFFICES ASSUME Init PROVE DailyInv
  OBVIOUS
<1> USE DEF Init, FeedInit
<1>1. FeedInv /\ DaysInv
  BY DEF FeedInv, DaysInv, ArchivedDays, Nothing, Partitions, ARCHIVED_TABLES
<1>2. ASSUME NEW j \in Jobs
      PROVE  DirectoryInv(job[j]) /\ PublishInv(job[j]) /\ At(j, "idle")
  BY DEF DirectoryInv, PublishInv, Publishing, At, IdleJob, Nothing, Partitions
<1>3. QED
  BY <1>1, <1>2 DEF DailyInv, OneAtATime

LEMMA DailyStep ==
    ASSUME DailyOnSchedule
    PROVE  TypeOK /\ TrimInv /\ DailyInv /\ [Next]_vars => DailyInv'
<1> SUFFICES ASSUME TypeOK, TrimInv, DailyInv, [Next]_vars PROVE DailyInv'
  OBVIOUS
<1>0. TypeOK'
  BY TypeStep
<1>1. CASE Feed
  BY <1>1, FeedKeepsDaily
<1>2. ASSUME NEW j \in Jobs, NEW i \in Invocations, Start(j, i)
      PROVE  DailyInv'
  BY <1>2, StartDaily, ReadOnlyKeepsDaily DEF ReadOnlyStep
<1>3. ASSUME NEW j \in Jobs, ListBucket(j)
      PROVE  DailyInv'
  BY <1>3, ListBucketDaily, ReadOnlyKeepsDaily DEF ReadOnlyStep
<1>4. ASSUME NEW j \in Jobs, ListArchive(j)
      PROVE  DailyInv'
  BY <1>4, ListArchiveDaily, ReadOnlyKeepsDaily DEF ReadOnlyStep
<1>5. ASSUME NEW j \in Jobs, ExportTableDay(j)
      PROVE  DailyInv'
  BY <1>5, ExportDaily, ReadOnlyKeepsDaily DEF ReadOnlyStep
<1>6. ASSUME NEW j \in Jobs, Upload(j)
      PROVE  DailyInv'
  BY <1>0, <1>6, UploadKeepsDaily
<1>7. ASSUME NEW j \in Jobs, DeleteKey(j)
      PROVE  DailyInv'
  BY <1>0, <1>7, DeleteKeepsDaily
<1>8. ASSUME NEW j \in Jobs,
             ConfirmArchive(j) \/ SurveyBucket(j) \/ ListDoomed(j) \/ Crash(j)
      PROVE  DailyInv'
  BY <1>0, <1>8, OtherReadsDaily, ReadOnlyKeepsDaily DEF ReadOnlyStep
<1>9. CASE UNCHANGED vars
  BY <1>9 DEF vars, feedVars, DailyInv, FeedInv, DaysInv, OneAtATime, At, DirectoryInv,
              PublishInv, Publishing, Closed, Rows, StagedKeys, Complete, ArchivedDays
<1>10. QED
  BY <1>1, <1>2, <1>3, <1>4, <1>5, <1>6, <1>7, <1>8, <1>9 DEF Next, Continue

LEMMA DailyInvImplies ==
    ASSUME TypeOK, DailyInv
    PROVE  NoRowLost /\ FloorHolds
<1>1. NoRowLost
  BY DEF NoRowLost, DailyInv, FeedInv, DaysInv, Rows
<1>2. FloorHolds
  BY FeedAssumption, ArchiveAssumption DEF FloorHolds, DailyInv, DaysInv, ArchivedDays, Days
<1>3. QED
  BY <1>1, <1>2

LEMMA DailyInvariant ==
    ASSUME DailyOnSchedule
    PROVE  Spec => []DailyInv
<1>1. Spec => []TypeOK
  BY TypeCorrect
<1>2. Spec => []TrimInv
  BY TypeCorrect, TrimInit, TrimInvStep, PTL DEF Spec
<1>3. QED
  BY <1>1, <1>2, DailyInit, DailyStep, PTL DEF Spec

\* With one daily execution at a time, started after the last cycle of earlier
\* days, no row ingestion staged is ever lost, wherever executions fail and
\* however the steps of cycles and executions interleave.
THEOREM RowsSurvive ==
    ASSUME DailyOnSchedule
    PROVE  Spec => []NoRowLost
BY TypeCorrect, DailyInvariant, DailyInvImplies, PTL

\* Under the same conditions nothing before the start date is published.
THEOREM StartDateIsAFloor ==
    ASSUME DailyOnSchedule
    PROVE  Spec => []FloorHolds
BY TypeCorrect, DailyInvariant, DailyInvImplies, PTL

-----------------------------------------------------------------------------
(***************************************************************************)
(* The executions implement DayArchive.                                     *)
(***************************************************************************)
LEMMA TablesAgree ==
    /\ Contract!Tables = ARCHIVED_TABLES /\ Contract!Days = Days
    /\ Contract!Cycles = Cycles /\ Contract!Published = ArchivedDays
    /\ Contract!NoRetention = NoRetention /\ Contract!NoDay = NoDay
    /\ STATION_STATUS \in ARCHIVED_TABLES /\ STATIONS \in ARCHIVED_TABLES
    /\ \A t, d : Contract!Rows(t, d) = Rows(t, d)
BY DEF Contract!Tables, ARCHIVED_TABLES, Contract!Days, Days, Contract!Cycles, Cycles,
       Contract!Published, ArchivedDays, STATION_STATUS, STATIONS, Contract!NoRetention,
       NoRetention, Contract!NoDay, NoDay, Contract!Rows, Rows

LEMMA ContractInit == Init => Contract!Init
BY TablesAgree DEF Init, FeedInit, Contract!Init, Nothing, Partitions

\* Ingestion's steps stage rows of days that are not yet published.
LEMMA ContractFeed ==
    ASSUME TypeOK, DailyInv, Feed
    PROVE  [Contract!Next]_(Contract!vars)
<1> USE TablesAgree
<1>1. CASE NewDay
  BY <1>1 DEF NewDay, Feed, Contract!NewDay, Contract!Next
<1>2. ASSUME NEW c \in Cycles, StartCycle(c)
      PROVE  Contract!Next
  BY <1>2 DEF StartCycle, Feed, Contract!Begin, Contract!Next
<1>3. ASSUME NEW c \in active, NEW t \in ARCHIVED_TABLES, PutObject(t, c),
             c \notin produced[t]
      PROVE  Contract!Next
  <2>1. c \in Cycles /\ observed[c] \in Days \ ArchivedDays
    BY DEF TypeOK, FeedTypeOK, DailyInv, FeedInv, DaysInv, Closed
  <2>2. Contract!Stage(t, c)
    BY <1>3, <2>1 DEF PutObject, Feed, Contract!Stage
  <2>3. QED
    BY <2>1, <2>2 DEF Contract!Next
<1>4. ASSUME NEW c \in Cycles, PutStatus(c) \/ PutStations(c) \/ AbandonCycle(c)
      PROVE  Contract!Next \/ UNCHANGED Contract!vars
  <2>1. CASE PutStatus(c)
    BY <1>3, <2>1 DEF PutStatus
  <2>2. CASE PutStations(c)
    BY <1>3, <2>2 DEF PutStations, DailyInv, FeedInv
  <2>3. CASE AbandonCycle(c)
    BY <2>3 DEF AbandonCycle, Feed, Contract!vars
  <2>4. QED
    BY <1>4, <2>1, <2>2, <2>3
<1>5. QED
  BY <1>1, <1>2, <1>4 DEF Feed, FeedNext, CycleStep

\* The commit publishes the days it adds, each with all its rows.
LEMMA ContractUpload ==
    ASSUME DailyInv, DailyInv', NEW j \in Jobs, Upload(j)
    PROVE  [Contract!Next]_(Contract!vars)
<1> USE TablesAgree
<1> DEFINE D == ArchivedDays' \ ArchivedDays
<1>1. /\ UNCHANGED <<today, observed, active, produced, staged>>
      /\ archive' = [p \in Partitions |->
                       IF job[j].local[p] = {} THEN archive[p] ELSE job[j].local[p]]
  BY DEF Upload, feedVars
<1>2. DaysInv /\ DaysInv' /\ DirectoryInv(job[j])
  BY DEF DailyInv
<1>3. \A t \in ARCHIVED_TABLES, d \in Days : Rows(t, d)' = Rows(t, d)
  BY <1>1 DEF Rows
<1>4. ASSUME NEW d \in D
      PROVE  /\ d \notin ArchivedDays /\ ArchiveStart <= d /\ d < today
             /\ Rows(STATION_STATUS, d) # {}
  <2>1. d \in ArchivedDays' /\ d \notin ArchivedDays /\ d \in Days
    BY DEF ArchivedDays
  <2>2. /\ ArchiveStart <= d /\ d < today
        /\ archive'[<<STATION_STATUS, d>>] = Rows(STATION_STATUS, d)
    BY <1>1, <1>2, <1>3, <2>1 DEF DaysInv, Closed
  <2>3. QED
    BY <2>1, <2>2 DEF ArchivedDays
<1>5. ASSUME NEW t \in ARCHIVED_TABLES, NEW d \in Days
      PROVE  archive'[<<t, d>>] = IF d \in D THEN Rows(t, d) ELSE archive[<<t, d>>]
  <2>1. CASE d \in D
    BY <1>2, <1>3, <2>1 DEF DaysInv
  <2>2. CASE d \in ArchivedDays
    BY <1>1, <1>2, <2>2 DEF DaysInv, DirectoryInv, Partitions
  <2>3. CASE d \notin ArchivedDays'
    \* A partition the commit wrote would have published its day.
    BY <1>1, <1>2, <2>3 DEF DaysInv, Partitions
  <2>4. QED
    BY <2>1, <2>2, <2>3
<1>6. archive' = [p \in ARCHIVED_TABLES \X Days |->
                    IF p[2] \in D THEN Rows(p[1], p[2]) ELSE archive[p]]
  <2>1. \A p \in ARCHIVED_TABLES \X Days :
          archive'[p] = IF p[2] \in D THEN Rows(p[1], p[2]) ELSE archive[p]
    BY <1>5
  <2>2. archive' = [p \in ARCHIVED_TABLES \X Days |-> archive'[p]]
    BY <1>1 DEF Partitions
  <2>3. QED
    BY <2>1, <2>2
<1>7. Contract!Publish(D)
  BY <1>1, <1>4, <1>6, Zenon DEF Contract!Publish, STATION_STATUS
<1>8. D \in SUBSET Days
  BY DEF ArchivedDays
<1>9. QED
  BY <1>7, <1>8 DEF Contract!Next

LEMMA ContractDelete ==
    ASSUME TypeOK, TrimInv, NEW j \in Jobs, DeleteKey(j)
    PROVE  [Contract!Next]_(Contract!vars)
<1> USE TablesAgree
<1> DEFINE t == job[j].table
           c == Earliest(job[j].doomed)
<1>1. CASE c \notin staged[t]
  BY <1>1 DEF DeleteKey, Contract!vars, TypeOK, FeedTypeOK
<1>2. CASE c \in staged[t]
  <2>1. t \in ARCHIVED_TABLES /\ c \in Cycles
    BY <1>2 DEF TypeOK, FeedTypeOK, JobState
  <2>2. /\ staged' = [staged EXCEPT ![t] = @ \ {c}]
        /\ UNCHANGED <<today, observed, produced, archive>>
    BY DEF DeleteKey
  <2>3. c \in staged[t] \ staged'[t]
    BY <1>2, <2>1, <2>2 DEF TypeOK, FeedTypeOK
  <2>4. /\ KeepDays # NoRetention /\ observed[c] < today - KeepDays
        /\ archive[<<STATION_STATUS, observed[c]>>] # {}
    BY <2>1, <2>3, TrimStepHolds DEF TrimStep, Next, Continue
  <2>5. observed[c] \in ArchivedDays
    <3>1. job[j] \in JobState /\ TrimSafe(job[j]) /\ job[j].step = "delete"
      BY DEF DeleteKey, At, TypeOK, TrimInv
    <3>2. c \in job[j].doomed /\ job[j].todo # {}
      BY <3>1, EarliestInSet, FeedAssumption DEF TrimSafe, JobState, Cycles
    <3>3. QED
      BY <3>1, <3>2, EarliestDay DEF TrimSafe, JobState
  <2>6. Contract!Trim(t, c)
    BY <2>2, <2>4, <2>5 DEF Contract!Trim
  <2>7. QED
    BY <2>1, <2>6 DEF Contract!Next
<1>3. QED
  BY <1>1, <1>2

LEMMA ContractStep ==
    ASSUME DailyOnSchedule
    PROVE  TypeOK /\ TrimInv /\ DailyInv /\ DailyInv' /\ [Next]_vars
             => [Contract!Next]_(Contract!vars)
<1> SUFFICES ASSUME TypeOK, TrimInv, DailyInv, DailyInv', [Next]_vars
             PROVE  [Contract!Next]_(Contract!vars)
  OBVIOUS
<1>1. CASE Feed
  BY <1>1, ContractFeed
<1>2. ASSUME NEW j \in Jobs, ReadOnlyStep(j)
      PROVE  UNCHANGED Contract!vars
  BY <1>2 DEF ReadOnlyStep, Start, ListBucket, ListArchive, ExportTableDay, ConfirmArchive,
              SurveyBucket, ListDoomed, Crash, feedVars, Contract!vars
<1>3. ASSUME NEW j \in Jobs, Upload(j)
      PROVE  [Contract!Next]_(Contract!vars)
  BY <1>3, ContractUpload
<1>4. ASSUME NEW j \in Jobs, DeleteKey(j)
      PROVE  [Contract!Next]_(Contract!vars)
  BY <1>4, ContractDelete
<1>5. CASE UNCHANGED vars
  BY <1>5 DEF vars, feedVars, Contract!vars
<1>6. QED
  BY <1>1, <1>2, <1>3, <1>4, <1>5 DEF Next, Continue, ReadOnlyStep

\* Under the same conditions the executions implement DayArchive: every day is
\* published at most once, in full and not before it is over, and its objects
\* are deleted only after that.
THEOREM ImplementsDayArchive ==
    ASSUME DailyOnSchedule
    PROVE  Spec => PublishesThenTrims
<1>1. Spec => []TrimInv
  BY TypeCorrect, TrimInit, TrimInvStep, PTL DEF Spec
<1>2. QED
  BY <1>1, TypeCorrect, DailyInvariant, ContractInit, ContractStep, PTL
     DEF Spec, PublishesThenTrims, Contract!Spec
=============================================================================
