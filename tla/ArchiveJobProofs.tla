-------------------------- MODULE ArchiveJobProofs --------------------------
EXTENDS ArchiveJob, FiniteSetTheorems, TLAPS

(***************************************************************************)
(* Helpers.                                                                 *)
(***************************************************************************)
LEMMA EarliestInSet ==
    ASSUME NEW S \in SUBSET Nat, S # {}
    PROVE  /\ Earliest(S) \in S
           /\ \A y \in S : Earliest(S) <= y
<1> DEFINE Upto == {0 .. x : x \in S}
<1>1. Upto \subseteq FiniteSubsetsOf(Nat) /\ Upto # {}
  <2>1. ASSUME NEW x \in S PROVE 0 .. x \in FiniteSubsetsOf(Nat)
    <3>1. IsFiniteSet(0 .. x)
      BY FS_Interval
    <3>2. 0 .. x \subseteq Nat
      OBVIOUS
    <3>3. QED
      BY <3>1, <3>2 DEF FiniteSubsetsOf
  <2>2. QED
    BY <2>1
<1>2. PICK U \in Upto : \A V \in Upto : ~ (<<V, U>> \in StrictSubsetOrdering(Nat))
  <2> HIDE DEF Upto
  <2>1. QED
    BY <1>1, FS_StrictSubsetOrderingWellFounded, WFMin
<1>3. PICK x \in S : U = 0 .. x
  BY <1>2
<1>4. ASSUME NEW y \in S, y < x PROVE FALSE
  <2>1. 0 .. y \in Upto
    OBVIOUS
  <2>2. <<0 .. y, 0 .. x>> \in StrictSubsetOrdering(Nat)
    BY <1>3, <1>4 DEF StrictSubsetOrdering
  <2>3. QED
    BY <1>2, <1>3, <2>1, <2>2
<1>5. \A y \in S : x <= y
  BY <1>4
<1>6. QED
  BY <1>5 DEF Earliest

-----------------------------------------------------------------------------
(***************************************************************************)
(* Types.                                                                   *)
(***************************************************************************)
LEMMA IdleType == IdleJob \in JobState
BY FeedAssumption DEF IdleJob, JobState, Nothing, Steps, Modes, Days, ARCHIVED_TABLES

LEMMA EndedType ==
    ASSUME NEW r \in JobState
    PROVE  Ended(r) \in JobState
BY IdleType DEF Ended, IdleJob, JobState, Nothing, Steps, Modes

LEMMA AfterPublishType ==
    ASSUME NEW r \in JobState, today \in Days
    PROVE  AfterPublish(r) \in JobState
BY EndedType DEF AfterPublish, JobState, Steps

LEMMA AfterPlanType ==
    ASSUME NEW r \in JobState, today \in Days, NEW days \in SUBSET Days
    PROVE  AfterPlan(r, days) \in JobState
BY AfterPublishType DEF AfterPlan, JobState, Steps, ARCHIVED_TABLES

LEMMA NextTableDayType ==
    ASSUME NEW r \in JobState
    PROVE  NextTableDay(r) \in JobState
BY DEF NextTableDay, JobState, ARCHIVED_TABLES

LEMMA NextTableDayKeeps ==
    ASSUME NEW r \in JobState
    PROVE  /\ NextTableDay(r).step = r.step
           /\ NextTableDay(r).asOf = r.asOf
BY DEF NextTableDay, JobState

LEMMA AfterExportType ==
    ASSUME NEW r \in JobState
    PROVE  AfterExport(r) \in JobState
BY EndedType DEF AfterExport, JobState, Steps

LEMMA AfterTrimType ==
    ASSUME NEW r \in JobState
    PROVE  AfterTrim(r) \in JobState
BY EndedType DEF AfterTrim, JobState, Steps

LEMMA DayListingTypes ==
    ASSUME TypeOK, NEW present \in SUBSET Days, NEW archived \in SUBSET Days, NEW t
    PROVE  /\ DaysPresentInBucket \in SUBSET Days
           /\ ArchivedDays \in SUBSET Days
           /\ DaysNeedingExport(present, archived, t) \in SUBSET Days
           /\ DaysSafeToTrim(present, archived, t) \in SUBSET Days
BY DEF DaysPresentInBucket, ArchivedDays, DaysNeedingExport, DaysSafeToTrim

\* An execution's step leaves a job record, whatever it stored.
LEMMA BecomeType ==
    ASSUME TypeOK, NEW j \in Jobs, NEW r \in JobState, Become(j, r)
    PROVE  job' \in [Jobs -> JobState]
BY DEF TypeOK, Become

\* The initial state is well typed.
LEMMA TypeInit == Init => TypeOK
BY FeedAssumption, ArchiveAssumption, IdleType
   DEF Init, FeedInit, TypeOK, FeedTypeOK, Days, NoDay, Nothing, ARCHIVED_TABLES

\* Every step of ingestion keeps the types of what it touches.
LEMMA FeedType ==
    ASSUME FeedTypeOK, FeedNext
    PROVE  FeedTypeOK'
<1>1. CASE NewDay
  BY <1>1, FeedAssumption DEF NewDay, FeedTypeOK, Days
<1>2. ASSUME NEW c \in Cycles, StartCycle(c)
      PROVE  FeedTypeOK'
  BY <1>2 DEF StartCycle, FeedTypeOK
<1>3. ASSUME NEW c \in Cycles, PutStatus(c)
      PROVE  FeedTypeOK'
  BY <1>3 DEF PutStatus, PutObject, FeedTypeOK, ARCHIVED_TABLES
<1>4. ASSUME NEW c \in Cycles, PutStations(c)
      PROVE  FeedTypeOK'
  BY <1>4 DEF PutStations, PutObject, FeedTypeOK, ARCHIVED_TABLES
<1>5. ASSUME NEW c \in Cycles, AbandonCycle(c)
      PROVE  FeedTypeOK'
  BY <1>5 DEF AbandonCycle, FeedTypeOK
<1>6. QED
  BY <1>1, <1>2, <1>3, <1>4, <1>5 DEF FeedNext, CycleStep

\* Every step of an execution keeps the types.
LEMMA JobType ==
    ASSUME TypeOK, NEW j \in Jobs,
           \/ \E i \in Invocations : Start(j, i)
           \/ Continue(j)
           \/ Crash(j)
    PROVE  TypeOK'
<1> USE DEF TypeOK
<1>0. job[j] \in JobState /\ today \in Days
  BY DEF FeedTypeOK
<1>1. ASSUME NEW i \in Invocations, Start(j, i)
      PROVE  TypeOK'
  <2> DEFINE r == [ IdleJob EXCEPT
                      !.mode    = i.mode,
                      !.dryRun  = i.dryRun,
                      !.keepDir = i.keepDir,
                      !.asOf    = today,
                      !.local   = IF i.keepDir THEN job[j].local ELSE Nothing ]
  <2>1. i \in Invocation
    BY ArchiveAssumption
  <2>2. r \in JobState
    BY <1>0, <2>1, IdleType DEF IdleJob, JobState, Invocation, Nothing
  <2>3. [r EXCEPT !.step = "present"] \in JobState
    BY <2>2 DEF JobState, Steps
  <2>4. AfterPlan(r, {i.day}) \in JobState
    BY <1>0, <2>1, <2>2, AfterPlanType DEF Invocation
  <2>5. job' \in [Jobs -> JobState]
    BY <1>1, <2>3, <2>4, BecomeType DEF Start
  <2>6. QED
    BY <1>1, <2>5 DEF Start, FeedTypeOK, feedVars
<1>2. CASE ListBucket(j)
  <2>1. DaysNeedingExport(DaysPresentInBucket, {}, job[j].asOf) \in SUBSET Days
    BY DayListingTypes
  <2>2. AfterPlan(job[j], DaysNeedingExport(DaysPresentInBucket, {}, job[j].asOf))
          \in JobState
    BY <1>0, <2>1, AfterPlanType
  <2>3. [job[j] EXCEPT !.step = "archived", !.seen = DaysPresentInBucket] \in JobState
    BY <1>0, DayListingTypes DEF JobState, Steps
  <2>4. job' \in [Jobs -> JobState]
    BY <1>2, <2>2, <2>3, BecomeType DEF ListBucket
  <2>5. QED
    BY <1>2, <2>4 DEF ListBucket, FeedTypeOK, feedVars
<1>3. CASE ListArchive(j)
  <2>1. DaysNeedingExport(job[j].seen, ArchivedDays, job[j].asOf) \in SUBSET Days
    BY <1>0, DayListingTypes DEF JobState
  <2>2. job' \in [Jobs -> JobState]
    BY <1>0, <1>3, <2>1, AfterPlanType, BecomeType DEF ListArchive
  <2>3. QED
    BY <1>3, <2>2 DEF ListArchive, FeedTypeOK, feedVars
<1>4. CASE ExportTableDay(j)
  <2> DEFINE part == <<job[j].table, Earliest(job[j].todo)>>
             rows == StagedKeys(part[1], part[2])
             r    == IF rows = {} THEN job[j]
                     ELSE [job[j] EXCEPT !.local = [@ EXCEPT ![part] = rows]]
  <2>1. rows \in SUBSET Cycles
    BY <1>0 DEF StagedKeys, FeedTypeOK, JobState
  <2>2. r \in JobState
    BY <1>0, <2>1 DEF JobState
  <2>3. AfterExport(NextTableDay(r)) \in JobState
    BY <2>2, NextTableDayType, AfterExportType
  <2>4. job' \in [Jobs -> JobState]
    BY <1>4, <2>3, BecomeType DEF ExportTableDay
  <2>5. QED
    BY <1>4, <2>4 DEF ExportTableDay, FeedTypeOK, feedVars
<1>5. CASE Upload(j)
  <2>1. archive' \in [Partitions -> SUBSET Cycles]
    BY <1>0, <1>5 DEF Upload, JobState
  <2>2. job' \in [Jobs -> JobState]
    BY <1>0, <1>5, AfterPublishType, BecomeType DEF Upload
  <2>3. QED
    BY <1>5, <2>1, <2>2 DEF Upload, FeedTypeOK, feedVars
<1>6. CASE ConfirmArchive(j)
  <2>1. [job[j] EXCEPT !.step = "survey", !.seen = ArchivedDays] \in JobState
    BY <1>0, DayListingTypes DEF JobState, Steps
  <2>2. job' \in [Jobs -> JobState]
    BY <1>6, <2>1, BecomeType DEF ConfirmArchive
  <2>3. QED
    BY <1>6, <2>2 DEF ConfirmArchive, FeedTypeOK, feedVars
<1>7. CASE SurveyBucket(j)
  <2> DEFINE days == DaysSafeToTrim(DaysPresentInBucket, job[j].seen, job[j].asOf)
  <2>1. days \in SUBSET Days
    BY <1>0, DayListingTypes DEF JobState
  <2>2. [job[j] EXCEPT !.todo = days, !.table = STATION_STATUS] \in JobState
    BY <1>0, <2>1 DEF JobState, ARCHIVED_TABLES
  <2>3. job' \in [Jobs -> JobState]
    BY <1>7, <2>2, AfterTrimType, BecomeType DEF SurveyBucket
  <2>4. QED
    BY <1>7, <2>3 DEF SurveyBucket, FeedTypeOK, feedVars
<1>8. CASE ListDoomed(j)
  <2> DEFINE keys == StagedKeys(job[j].table, Earliest(job[j].todo))
  <2>1. keys \in SUBSET Cycles
    BY <1>0 DEF StagedKeys, FeedTypeOK, JobState
  <2>2. [job[j] EXCEPT !.step = "delete", !.doomed = keys] \in JobState
    BY <1>0, <2>1 DEF JobState, Steps
  <2>3. AfterTrim(NextTableDay(job[j])) \in JobState
    BY <1>0, NextTableDayType, AfterTrimType
  <2>4. job' \in [Jobs -> JobState]
    BY <1>8, <2>2, <2>3, BecomeType DEF ListDoomed
  <2>5. QED
    BY <1>8, <2>4 DEF ListDoomed, FeedTypeOK, feedVars
<1>9. CASE DeleteKey(j)
  <2> DEFINE key == Earliest(job[j].doomed)
             r   == [job[j] EXCEPT !.doomed = @ \ {key}]
  <2>1. r \in JobState
    BY <1>0 DEF JobState
  <2>2. AfterTrim(NextTableDay(r)) \in JobState
    BY <2>1, NextTableDayType, AfterTrimType
  <2>3. job' \in [Jobs -> JobState]
    BY <1>9, <2>1, <2>2, BecomeType DEF DeleteKey
  <2>4. staged' \in [ARCHIVED_TABLES -> SUBSET Cycles]
    BY <1>9 DEF DeleteKey, FeedTypeOK
  <2>5. QED
    BY <1>9, <2>3, <2>4 DEF DeleteKey, FeedTypeOK
<1>10. CASE Crash(j)
  <2>1. job' \in [Jobs -> JobState]
    BY <1>0, <1>10, EndedType, BecomeType DEF Crash
  <2>2. crashes' \in 0 .. MaxCrash
    BY <1>10, ArchiveAssumption DEF Crash
  <2>3. QED
    BY <1>10, <2>1, <2>2 DEF Crash, FeedTypeOK, feedVars
<1>11. QED
  BY <1>1, <1>2, <1>3, <1>4, <1>5, <1>6, <1>7, <1>8, <1>9, <1>10 DEF Continue

LEMMA TypeStep == TypeOK /\ [Next]_vars => TypeOK'
<1> SUFFICES ASSUME TypeOK, [Next]_vars PROVE TypeOK'
  OBVIOUS
<1>1. CASE Feed
  BY <1>1, FeedType DEF Feed, TypeOK
<1>2. CASE UNCHANGED vars
  BY <1>2 DEF TypeOK, FeedTypeOK, vars, feedVars
<1>3. QED
  BY <1>1, <1>2, JobType DEF Next

\* Every variable of ingestion, the archive and the executions keeps its type,
\* for any number of executions started in any way.
THEOREM TypeCorrect == Spec => []TypeOK
BY TypeInit, TypeStep, PTL DEF Spec

-----------------------------------------------------------------------------
(***************************************************************************)
(* Retention deletes only what the archive holds.                           *)
(***************************************************************************)

\* What a record's pending decisions are based on, and that it still holds: the
\* days to trim are published and expired, the listed keys belong to the first
\* of them.  The archive only grows and time only advances, so what was read is
\* still true when it is used, whatever other executions do meanwhile.
TrimSafe(r) ==
    /\ r.asOf <= today
    /\ r.step \in {"confirm", "survey", "list", "delete"} => KeepDays # NoRetention
    /\ r.step = "survey" => r.seen \subseteq ArchivedDays
    /\ r.step \in {"list", "delete"} =>
         /\ r.todo # {}
         /\ \A d \in r.todo : d \in ArchivedDays /\ d < r.asOf - KeepDays
    /\ r.step = "delete" =>
         /\ r.doomed # {}
         /\ \A c \in r.doomed : observed[c] = Earliest(r.todo)

TrimInv == \A j \in Jobs : TrimSafe(job[j])

LEMMA EarliestDay ==
    ASSUME NEW S \in SUBSET Days, S # {}
    PROVE  Earliest(S) \in S
BY EarliestInSet, FeedAssumption DEF Days

LEMMA EndedTrimSafe ==
    ASSUME NEW r \in JobState, today \in Days
    PROVE  TrimSafe(Ended(r))
BY FeedAssumption DEF TrimSafe, Ended, IdleJob, Days

LEMMA AfterPublishTrimSafe ==
    ASSUME NEW r \in JobState, today \in Days
    PROVE  TrimSafe(AfterPublish(r))
BY EndedTrimSafe, FeedAssumption DEF TrimSafe, AfterPublish, JobState, Days

LEMMA AfterPlanTrimSafe ==
    ASSUME NEW r \in JobState, today \in Days, r.asOf <= today, NEW days \in SUBSET Days
    PROVE  TrimSafe(AfterPlan(r, days))
BY AfterPublishTrimSafe DEF TrimSafe, AfterPlan, JobState

\* Moving on to the next table-day keeps the days to trim justified.
LEMMA AfterTrimSafe ==
    ASSUME NEW r \in JobState, today \in Days, r.asOf <= today, KeepDays # NoRetention,
           \A d \in r.todo : d \in ArchivedDays /\ d < r.asOf - KeepDays
    PROVE  /\ TrimSafe(AfterTrim(r))
           /\ TrimSafe(AfterTrim(NextTableDay(r)))
<1>1. ASSUME NEW q \in JobState, q.asOf <= today,
             \A d \in q.todo : d \in ArchivedDays /\ d < q.asOf - KeepDays
      PROVE  TrimSafe(AfterTrim(q))
  <2>1. CASE q.todo = {}
    BY <2>1, EndedTrimSafe DEF AfterTrim
  <2>2. CASE q.todo # {}
    BY <1>1, <2>2 DEF AfterTrim, TrimSafe, JobState
  <2>3. QED
    BY <2>1, <2>2
<1>2. /\ NextTableDay(r) \in JobState
      /\ NextTableDay(r).asOf = r.asOf
      /\ NextTableDay(r).todo \subseteq r.todo
  BY NextTableDayType DEF NextTableDay, JobState
<1>3. QED
  BY <1>1, <1>2

\* What other steps do to a record's grounds: nothing that matters.
LEMMA GroundsKept ==
    ASSUME TypeOK, [Next]_vars
    PROVE  /\ ArchivedDays \subseteq ArchivedDays'
           /\ today <= today'
           /\ \A c \in Cycles : observed[c] \in Days => observed'[c] = observed[c]
<1> USE DEF TypeOK, FeedTypeOK
<1>1. CASE Feed
  <2>1. archive' = archive
    BY <1>1 DEF Feed
  <2>2. today <= today'
    BY <1>1, FeedAssumption
       DEF Feed, FeedNext, CycleStep, NewDay, StartCycle, PutStatus, PutStations,
           PutObject, AbandonCycle, Days
  <2>3. \A c \in Cycles : observed[c] \in Days => observed'[c] = observed[c]
    BY <1>1, FeedAssumption
       DEF Feed, FeedNext, CycleStep, NewDay, StartCycle, PutStatus, PutStations,
           PutObject, AbandonCycle, Days, NoDay
  <2>4. QED
    BY <2>1, <2>2, <2>3 DEF ArchivedDays
<1>2. ASSUME NEW j \in Jobs, Upload(j)
      PROVE  ArchivedDays \subseteq ArchivedDays'
  BY <1>2 DEF Upload, ArchivedDays, Partitions, ARCHIVED_TABLES
<1>3. ASSUME NEW j \in Jobs,
             \/ \E i \in Invocations : Start(j, i)
             \/ Continue(j)
             \/ Crash(j)
      PROVE  today' = today /\ observed' = observed /\ (Upload(j) \/ archive' = archive)
  BY <1>3 DEF Start, Continue, Crash, ListBucket, ListArchive, ExportTableDay, Upload,
              ConfirmArchive, SurveyBucket, ListDoomed, DeleteKey, feedVars
<1>4. CASE UNCHANGED vars
  BY <1>4, FeedAssumption DEF vars, feedVars, ArchivedDays, Days
<1>5. today <= today
  BY FeedAssumption DEF Days
<1>6. QED
  BY <1>1, <1>2, <1>3, <1>4, <1>5 DEF Next, ArchivedDays

LEMMA TrimSafeKept ==
    ASSUME TypeOK, TypeOK', [Next]_vars, NEW j \in Jobs, TrimSafe(job'[j])
    PROVE  TrimSafe(job[j])'
<1>1. job'[j] \in JobState /\ today \in Days /\ today' \in Days
  BY DEF TypeOK, FeedTypeOK
<1>2. job'[j].asOf <= today'
  BY <1>1, GroundsKept, FeedAssumption DEF TrimSafe, JobState, Days
<1>3. ASSUME job'[j].step = "delete", NEW c \in job'[j].doomed
      PROVE  observed'[c] = Earliest(job'[j].todo)
  <2>1. observed[c] = Earliest(job'[j].todo) /\ job'[j].todo # {}
    BY <1>3 DEF TrimSafe
  <2>2. observed[c] \in Days /\ c \in Cycles
    BY <1>1, <1>3, <2>1, EarliestDay DEF JobState
  <2>3. QED
    BY <2>1, <2>2, GroundsKept
<1>4. QED
  BY <1>1, <1>2, <1>3, GroundsKept DEF TrimSafe

LEMMA TrimInit == Init => TrimInv
BY FeedAssumption DEF Init, FeedInit, TrimInv, TrimSafe, IdleJob, Days

\* An execution's own step leaves its record with grounds for what it will do.
LEMMA TrimJobStep ==
    ASSUME TypeOK, TrimInv, NEW j \in Jobs,
           \/ \E i \in Invocations : Start(j, i)
           \/ Continue(j)
           \/ Crash(j)
    PROVE  TrimSafe(job'[j])
<1> DEFINE r == job[j]
<1>0. /\ r \in JobState /\ today \in Days /\ TrimSafe(r) /\ r.asOf <= today
      /\ job \in [Jobs -> JobState]
  BY DEF TypeOK, FeedTypeOK, TrimInv, TrimSafe
<1>1. ASSUME NEW i \in Invocations, Start(j, i)
      PROVE  TrimSafe(job'[j])
  <2> DEFINE s == [ IdleJob EXCEPT
                      !.mode    = i.mode,
                      !.dryRun  = i.dryRun,
                      !.keepDir = i.keepDir,
                      !.asOf    = today,
                      !.local   = IF i.keepDir THEN job[j].local ELSE Nothing ]
  <2>1. i \in Invocation
    BY ArchiveAssumption
  <2>2. s \in JobState /\ s.asOf = today
    BY <1>0, <2>1, IdleType DEF IdleJob, JobState, Invocation, Nothing
  <2>3. TrimSafe([s EXCEPT !.step = "present"])
    BY <1>0, <2>2, FeedAssumption DEF TrimSafe, JobState, Days
  <2>4. TrimSafe(AfterPlan(s, {i.day}))
    <3>1. {i.day} \in SUBSET Days /\ today <= today
      BY <1>0, <2>1, FeedAssumption DEF Invocation, Days
    <3> HIDE DEF s
    <3>2. QED
      BY <1>0, <2>2, <3>1, AfterPlanTrimSafe
  <2>5. QED
    BY <1>0, <1>1, <2>3, <2>4 DEF Start, Become
<1>2. CASE ListBucket(j)
  <2>1. DaysNeedingExport(DaysPresentInBucket, {}, r.asOf) \in SUBSET Days
    BY DayListingTypes
  <2>2. TrimSafe(AfterPlan(r, DaysNeedingExport(DaysPresentInBucket, {}, r.asOf)))
    BY <1>0, <2>1, AfterPlanTrimSafe
  <2>3. TrimSafe([r EXCEPT !.step = "archived", !.seen = DaysPresentInBucket])
    BY <1>0 DEF TrimSafe, JobState
  <2>4. QED
    BY <1>0, <1>2, <2>2, <2>3 DEF ListBucket, Become
<1>3. CASE ListArchive(j)
  <2>1. DaysNeedingExport(r.seen, ArchivedDays, r.asOf) \in SUBSET Days
    BY <1>0, DayListingTypes DEF JobState
  <2>2. TrimSafe(AfterPlan(r, DaysNeedingExport(r.seen, ArchivedDays, r.asOf)))
    BY <1>0, <2>1, AfterPlanTrimSafe
  <2>3. QED
    BY <1>0, <1>3, <2>2 DEF ListArchive, Become
<1>4. CASE ExportTableDay(j)
  <2> DEFINE part == <<r.table, Earliest(r.todo)>>
             rows == StagedKeys(part[1], part[2])
             q    == IF rows = {} THEN r
                     ELSE [r EXCEPT !.local = [@ EXCEPT ![part] = rows]]
             n    == NextTableDay(q)
  <2>1. rows \in SUBSET Cycles
    BY <1>0 DEF StagedKeys, TypeOK, FeedTypeOK, JobState
  <2>2. q \in JobState /\ q.step = "export" /\ q.asOf = r.asOf
    BY <1>0, <1>4, <2>1 DEF JobState, ExportTableDay, At
  <2>3. n \in JobState /\ n.step = "export" /\ n.asOf <= today
    <3> HIDE DEF q
    <3>1. n \in JobState /\ n.step = q.step /\ n.asOf = q.asOf
      BY <2>2, NextTableDayType, NextTableDayKeeps
    <3>2. QED
      BY <1>0, <2>2, <3>1
  <2>4. TrimSafe(AfterExport(n))
    <3> HIDE DEF n
    <3>1. CASE n.todo # {}
      BY <2>3, <3>1 DEF AfterExport, TrimSafe
    <3>2. CASE n.todo = {} /\ n.dryRun
      BY <1>0, <2>3, <3>2, EndedTrimSafe DEF AfterExport
    <3>3. CASE n.todo = {} /\ ~ n.dryRun
      BY <2>3, <3>3 DEF AfterExport, TrimSafe, JobState
    <3>4. QED
      BY <3>1, <3>2, <3>3
  <2>5. QED
    BY <1>0, <1>4, <2>4 DEF ExportTableDay, Become
<1>5. CASE Upload(j)
  BY <1>0, <1>5, AfterPublishTrimSafe DEF Upload, Become
<1>6. CASE ConfirmArchive(j)
  BY <1>0, <1>6 DEF ConfirmArchive, Become, At, TrimSafe, JobState
<1>7. CASE SurveyBucket(j)
  <2> DEFINE days == DaysSafeToTrim(DaysPresentInBucket, r.seen, r.asOf)
             q    == [r EXCEPT !.todo = days, !.table = STATION_STATUS]
  <2>1. KeepDays # NoRetention /\ r.seen \subseteq ArchivedDays
    BY <1>0, <1>7 DEF SurveyBucket, At, TrimSafe
  <2>2. \A d \in days : d \in ArchivedDays /\ d < r.asOf - KeepDays
    BY <2>1 DEF DaysSafeToTrim
  <2>3. days \in SUBSET Days
    BY <1>0, DayListingTypes DEF JobState
  <2>4. q \in JobState /\ q.asOf = r.asOf /\ q.todo = days
    BY <1>0, <2>3 DEF JobState, ARCHIVED_TABLES
  <2>5. TrimSafe(AfterTrim(q))
    BY <1>0, <2>1, <2>2, <2>4, AfterTrimSafe
  <2>6. QED
    BY <1>0, <1>7, <2>5 DEF SurveyBucket, Become
<1>8. CASE ListDoomed(j)
  <2> DEFINE keys == StagedKeys(r.table, Earliest(r.todo))
  <2>1. /\ KeepDays # NoRetention /\ r.todo # {}
        /\ \A d \in r.todo : d \in ArchivedDays /\ d < r.asOf - KeepDays
    BY <1>0, <1>8 DEF ListDoomed, At, TrimSafe
  <2>2. TrimSafe(AfterTrim(NextTableDay(r)))
    BY <1>0, <2>1, AfterTrimSafe
  <2>3. ASSUME keys # {}
        PROVE  TrimSafe([r EXCEPT !.step = "delete", !.doomed = keys])
    BY <1>0, <2>1, <2>3 DEF TrimSafe, JobState, StagedKeys
  <2>4. QED
    BY <1>0, <1>8, <2>2, <2>3 DEF ListDoomed, Become
<1>9. CASE DeleteKey(j)
  <2> DEFINE key == Earliest(r.doomed)
             q   == [r EXCEPT !.doomed = @ \ {key}]
  <2>1. /\ KeepDays # NoRetention
        /\ \A d \in r.todo : d \in ArchivedDays /\ d < r.asOf - KeepDays
    BY <1>0, <1>9 DEF DeleteKey, At, TrimSafe
  <2>2. q \in JobState /\ q.asOf = r.asOf /\ q.todo = r.todo
    BY <1>0 DEF JobState
  <2>3. TrimSafe(AfterTrim(NextTableDay(q)))
    BY <1>0, <2>1, <2>2, AfterTrimSafe
  <2>4. q.doomed # {} => TrimSafe(q)
    BY <1>0, <1>9 DEF DeleteKey, At, TrimSafe, JobState
  <2>5. QED
    BY <1>0, <1>9, <2>3, <2>4 DEF DeleteKey, Become
<1>10. CASE Crash(j)
  BY <1>0, <1>10, EndedTrimSafe DEF Crash, Become
<1>11. QED
  BY <1>1, <1>2, <1>3, <1>4, <1>5, <1>6, <1>7, <1>8, <1>9, <1>10 DEF Continue

LEMMA OneJobMoves ==
    ASSUME TypeOK, NEW j \in Jobs,
           \/ \E i \in Invocations : Start(j, i)
           \/ Continue(j)
           \/ Crash(j)
    PROVE  \A k \in Jobs \ {j} : job'[k] = job[k]
BY DEF TypeOK, Become, Start, Continue, Crash, ListBucket, ListArchive, ExportTableDay,
       Upload, ConfirmArchive, SurveyBucket, ListDoomed, DeleteKey

LEMMA TrimInvStep == TypeOK /\ TrimInv /\ [Next]_vars => TrimInv'
<1> SUFFICES ASSUME TypeOK, TrimInv, [Next]_vars, NEW k \in Jobs
             PROVE  TrimSafe(job[k])'
  BY DEF TrimInv
<1>1. TypeOK'
  BY TypeStep
<1>2. TrimSafe(job'[k])
  <2>1. CASE Feed
    BY <2>1 DEF Feed, TrimInv
  <2>2. ASSUME NEW j \in Jobs,
               \/ \E i \in Invocations : Start(j, i)
               \/ Continue(j)
               \/ Crash(j)
        PROVE  TrimSafe(job'[k])
    BY <2>2, TrimJobStep, OneJobMoves DEF TrimInv
  <2>3. CASE UNCHANGED vars
    BY <2>3 DEF vars, TrimInv
  <2>4. QED
    BY <2>1, <2>2, <2>3 DEF Next
<1>3. QED
  BY <1>1, <1>2, TrimSafeKept

\* The only step that takes an object out of the bucket is the deletion of the
\* first listed key, whose day is published and expired.
LEMMA TrimStepHolds == TypeOK /\ TrimInv /\ [Next]_vars => TrimStep
<1> SUFFICES ASSUME TypeOK, TrimInv, [Next]_vars,
                    NEW t \in ARCHIVED_TABLES, NEW c \in staged[t] \ staged'[t]
             PROVE  /\ KeepDays # NoRetention
                    /\ observed[c] < today - KeepDays
                    /\ archive[<<STATION_STATUS, observed[c]>>] # {}
  BY DEF TrimStep
<1>1. ~ Feed
  BY DEF Feed, FeedNext, CycleStep, NewDay, StartCycle, PutStatus, PutStations, PutObject,
         AbandonCycle, TypeOK, FeedTypeOK
<1>2. PICK j \in Jobs : DeleteKey(j)
  BY <1>1 DEF Next, vars, feedVars, Start, Continue, Crash, ListBucket, ListArchive,
              ExportTableDay, Upload, ConfirmArchive, SurveyBucket, ListDoomed
<1>3. /\ job[j] \in JobState /\ today \in Days /\ TrimSafe(job[j])
      /\ job[j].step = "delete"
  BY <1>2 DEF TypeOK, FeedTypeOK, TrimInv, DeleteKey, At
<1>4. c = Earliest(job[j].doomed) /\ job[j].doomed # {}
  BY <1>2, <1>3 DEF DeleteKey, TypeOK, FeedTypeOK, TrimSafe
<1>5. c \in job[j].doomed
  BY <1>3, <1>4, EarliestInSet, FeedAssumption DEF JobState, Cycles
<1>6. observed[c] \in job[j].todo
  BY <1>3, <1>5, EarliestDay DEF TrimSafe, JobState
<1>7. /\ KeepDays # NoRetention /\ observed[c] \in ArchivedDays
      /\ observed[c] < job[j].asOf - KeepDays /\ job[j].asOf <= today
  BY <1>3, <1>6 DEF TrimSafe
<1>8. archive[<<STATION_STATUS, observed[c]>>] # {}
  BY <1>7 DEF ArchivedDays
<1>9. observed[c] < today - KeepDays
  <2>1. KeepDays \in Int
    BY ArchiveAssumption DEF NoRetention
  <2>2. observed[c] \in Int
    BY <1>7, FeedAssumption DEF ArchivedDays, Days
  <2>3. job[j].asOf \in Int /\ today \in Int
    BY <1>3, FeedAssumption DEF JobState, Days
  <2>4. QED
    BY <1>7, <2>1, <2>2, <2>3
<1>10. QED
  BY <1>7, <1>8, <1>9

\* Whatever else runs, however executions are started and wherever they fail,
\* an object is deleted only while the archive holds its day and the day is
\* past the retention window.
THEOREM DeletionIsSafe == Spec => TrimsOnlyArchivedDays
<1>1. Spec => []TrimInv
  BY TypeCorrect, TrimInit, TrimInvStep, PTL DEF Spec
<1>2. QED
  BY <1>1, TypeCorrect, TrimStepHolds, PTL DEF Spec, TrimsOnlyArchivedDays
=============================================================================
