# Verification of urban-ml

`urban-ml` collects the state of a bike-share system every five minutes, keeps a
short serving window and a bucket of staged snapshots, publishes complete days to
a dataset on the Hugging Face Hub, and predicts how many bikes a station will
have. Three programs run beside each other and meet only in the object store:
the ingestion service, the archive job and the prediction API. This directory
models what they do to that store and to each other, checks the models with TLC
and proves the main results with TLAPS.

## The system

| Component | State | Operations | Meets |
|---|---|---|---|
| ingestion (`ingestion/`, `api/ingest_app.py`) | none of its own | one cycle: fix `observed_at`, fetch five feeds, transform, stage | the GBFS feed, the store, the scheduler |
| staging (`staging/snapshots.py`, `objects.py`) | snapshots per table and second; two serving files | `stage_cycle`: put status, put stations, put the serving stations, get and put the window | every other part |
| archive job (`archive/cli.py`, `staged.py`, `publish.py`, `retention.py`) | a staging directory; the dataset repository | list, export, upload, trim; modes `--day`, `--backfill`, `--dry-run`, `--staging-dir` | the store, the Hub, the scheduler |
| prediction API (`api/main.py`, `staging/serving.py`, `modeling/predict.py`) | cache of two files, the loaded model | start-up, `/ready`, `/predict`, `invalidate` | the store, concurrent threads |
| features (`features/build_features.py`) | none | lags, rolling windows, targets | predictions, training |
| training (`modeling/`, `archive/read.py`) | three model files in the working tree | read the archive, join, label, filter, split, fit, save | the archive, the API, deployments |
| deployment (`scripts/deploy.sh`, `Dockerfile`) | images, the revision that serves | upload the tree, roll out behind the startup probe | the model files, the API |
| database path (`storage/`, `archive/export.py`, `archive/retention.py`) | Postgres | day export and retention | shares the day rules with the archive job |
| transform and schemas (`processing/`, `schemas/`, `domain/`) | none | per-record mapping and validation | ingestion |

What is hard in it: the window is read, merged and written back with nothing in
between to stop another cycle; a cycle is four puts and an archive execution is
dozens of calls, any of which may be the last; the archive job remembers nothing
between executions; it deletes what it believes to be published; the API's
threads fill one cache outside its lock; readers turn missing files into
empty ones; a model is three files replaced one by one under whoever uploads or
loads them; and training sees an archive in which some cycles left rows but no
details of their stations. `PROJECT.json` lists these hazards with their lines and the
properties aimed at them.

Properties that make the components correct:

* staging: what readers find is durable; the window is neither too wide nor
  missing a cycle; objects appear under the right day, status first.
* archive job: no staged row is ever lost; a day is published once, complete and
  in full; deletion only follows publication; everything is eventually published
  and trimmed, failures notwithstanding; nothing before the start date.
* ingestion service: one fault costs no snapshot; cycles overlap only when a
  deadline has passed; a loop keeps its pace and runs once.
* features, targets and change log: lags, rolling windows and labels do not change
  with later rows, and tolerances bridge the gaps they are for; serving computes
  what training does; the log of a day replays it.
* training: no row is trained on without a code, details are the latest, the
  parts are apart in time, and a later run does not lose rows of an earlier one.
* model files: a finished save is accepted and arrives whole, the id reported is
  never newer than the model, and a code means one station.
* API: answers rest on data of bounded age; `/ready` does not vouch for ingestion
  that stopped; no failure outlives its cause.

## Modules

| Module | What it is |
|---|---|
| `SnapshotFeed` | What ingestion promises the archive: two objects per cycle, in order, under the day of `observed_at`; a cycle may be slow or stop anywhere. |
| `Staging` | `stage_cycle` call by call, by overlapping and failing cycles; implements `SnapshotFeed` (`FeedsTheArchive`). |
| `ArchiveJob` | Executions of `archive/cli.py` beside `SnapshotFeed`: one action per call to the bucket or the Hub. |
| `IngestService` | What makes cycles begin, fail, repeat and overlap: the feed client's retries, the service under the scheduler, the loop. |
| `DayArchive` | The abstract contract of ingestion and archive together: rows join an open day, the day is published once and in full, then trimmed. |
| `MCArchiveJob` | The command lines of the runs. |
| `Serving` | The API's threads, cache and answers beside ingestion, faults and restarts. |
| `TrainingData` | Features, targets and the change log of stations, over rows that are still coming in. |
| `Training` | What a training run makes of a growing archive: rows, details, codes, filters and the cut by time. |
| `ModelRelease` | The three model files under saves, uploads, roll-outs and starts of the API. |
| `StationEncoding` | The codes of stations, for both of these. |
| `ArchiveJobProofs` | Types and the safety of deletion, for any executions. |
| `ArchiveDailyProofs` | What holds under the deployment's schedule, and the refinement of `DayArchive`. |
| `TrainingDataProofs` | Everything `TrainingData` states. |
| `StagingProofs` | Everything `Staging` states, the refinement of `SnapshotFeed` included. |
| `ServingProofs` | What `Serving` states without fairness. |
| `IngestServiceProofs` | Everything `IngestService` promises, for every retry policy that leaves room. |
| `TrainingProofs` | Everything `Training` states. |
| `ModelReleaseProofs` | What holds of `ModelRelease`: all it states but `CodesMeanTheSame`. |

`ArchiveJob` extends `SnapshotFeed` instead of `Staging`: the archive job never
looks at the serving files. That the abstraction is right is the refinement
checked and proved of `Staging`. `IngestService` does the same job for `Staging` from the
other side: what `Staging` leaves free (when cycles begin and whether they
overlap) is what the service and the scheduler decide, and
`BeginningsApart` is what `Staging` takes for granted of keys that resolve
seconds. `TrainingData` stands on the promise of `DayArchive` that the rows of a
published day are all of its rows; `Training` uses its features, targets and
change logs (`Data == INSTANCE TrainingData`) and adds what ingestion can do to
the two tables together, which `SnapshotFeed` says. `ModelRelease` begins where
`Training` ends: a run is known by the catalog it read.

### How the models correspond to the code

*SnapshotFeed, ArchiveJob.* An object is named by its table and its cycle, and
cycles are numbered in the order of their keys. A partition of the archive is the
set of cycles it was built from, so "the rows of a day" is a set and losing one
is visible. `job[j]` is one execution: `step` is where `main()` stands, `asOf`
the date the current half of it works with (it is read in `_days_to_export` and
again before the trim), `seen` the first of the two listings a decision uses,
`todo` and `table` the position of the two nested loops, `doomed` the keys
`delete_staged_day` listed and has not yet deleted, `local` the staging
directory. `Start` parses the command line; `ListBucket` and `ListArchive` are
`_days_to_export`; `ExportTableDay` is `export_staged_day`; `Upload` is
`upload_partitions` (one commit, every file of the directory);
`ConfirmArchive`, `SurveyBucket`, `ListDoomed` and `DeleteKey` are
`apply_staged_retention` down to each `store.delete`. `Crash` is any call that
raises and any kill: `main()` catches nothing.
Reading a table-day is one action although it is a listing and many gets: objects
never change, so the gets of what was listed either all succeed with the same
contents or the execution fails. A stations object without rows, and the
collapsing of stations to their changes (`TrainingData`), are below this level.

*Staging.* Time is counted in instants; a key keeps the second. `snapshots`
holds for each key the cycle that wrote it last, `window` the cycles whose rows
are in the serving window. `read[c]` is what cycle `c` got and has not yet put
back: the lost update lives there. `Merge` is concatenation, `unique(keep="last")`
and `trim_to_window`. `overlapped` remembers whether cycles ever overlapped.

*IngestService.* A cycle is named by its round and its caller: the scheduler's
first call of a tick, its second, or a loop. `cycle[c]` is the state of one
`ingest_gbfs_station_feeds`: which of the requests of `fetch_raw_feeds` it is at,
the attempt and the delay of `fetch_json_with_retry`, and until when it is
waiting. A request takes no time or `Slow`; `urlopen`'s timeout of ten seconds
is one per socket operation, so `Slow` is an assumption about the feed's server and
not a consequence of the code. `Fetched` validates the way the client does: the
discovery document at once, the rest when all of them are there, and what is
unusable is not fetched again. `FetchError` is what the client retries,
`ReadError` what it does not catch. `End` is the end of a cycle for whoever
called it: an answer, which decides whether the scheduler repeats, or the rest
of a round of the loop. `GiveUp` answers the scheduler without stopping the
thread. `Pass` jumps to the next alarm, so nothing is late. `pace` is history: when
a loop began its first round, and by how much its rounds were longer than its
interval so far.

*TrainingData.* A row is a station, an `observed_at` and a value: the number of
vehicles in `station_status`, the six tracked fields together in `stations`.
Cycles come at any tick and bring any set of stations (the feed lists a station
once). `LagOf` and `TargetOf` are the two `join_asof` with their direction, their
inclusive tolerance and their nulls; `RollOf` is the set of rows in the trailing
window, open at its far end; `History` is the cut `/predict` makes, through the
cut of the serving window. The features are recomputed from the rows of every
state, so that "does not change" is a property of behaviours.
`ComputeFeatures` has the columns that come from the rows of a station: its value,
the lags (and with them `delta_15m`) and the rolling windows; the capacity and
`occupancy_ratio` come from its details and are `Training!FeatureRow`'s.
`CollapseStationChanges` compares neighbours as `shift(1).over("station_id")` and
`ne_missing` do, with `Missing` for null.

*Training.* `rows` and `details` are the two tables of the archive, a station's
size standing for its details; every station can have any size in every cycle,
one it had before or none included. `Cycle` is `ingest_gbfs_station_feeds`:
`Transforms` is the refusal of a status feed that knows more stations than the
information feed, `lost` counts the cycles that put their status object and not
their stations object. Everything else is computed from the state as `main()`
does in its order: `LoadStations` over the change logs of all days, `FeatureRow`
with its left join, `Labeled`, `ApplyQualityFilters`, and `time_split` with its
two cut-offs at the time of a row. In every state this is what a training run
would see, so "the next run" is a step. The archive has whole days only; taking
every cycle as a possible end includes those. `LossesAreRare` is an assumption: with
288 cycles or more of a station all ending between the two puts, one could be
trained on without a code.

*ModelRelease.* A file holds the run that wrote it, nothing, or a torn rest.
`OpenFile` and `CloseFile` are the truncation and the end of one write, `CutOff`
a failure or kill before, within or between them. A booster written in part may
or may not be refused by LightGBM (`Partial`, `Torn`); JSON in part is refused.
`CopyFile` is in any order, as an upload is; `Load` in the order of `lifespan`.
`upload.copy` and `api.copy` are history: whether a finished save was there
during the whole copy. A refused roll-out leaves the revision as it was. That
several deployments or training runs do not overlap each other is an assumption:
they are typed at one machine.

*StationEncoding.* Ids are numbers in the order of the sorted strings.
`CodesMeanTheSame` compares the codes of any two training runs, each over the
catalog it found; stations join catalogs and never leave the archive.

*Serving.* Only ages are kept: of each cycle in the window, of each cache entry
since it was stored, of what it holds since the bucket held it. An age saturates
at `Forever`, beyond every comparison in the code, so behaviours need no end.
`Ask`, `Look`, `Read`, `Store` are `_cached` and the endpoint around it; the lock
is held within `Look` and within `Store` and not in between. `Boot` is `lifespan`,
with or without `SYSTEM_ID`. `PredictCodes` is a set: whether a station is in
service or known to the model is data.

## Runs

| Run | Question | Bounds |
|---|---|---|
| `ArchiveDaily` | Does the deployed job lose, publish or delete anything it must not, does it implement `DayArchive`, and does everything get published and trimmed in the end? | four days, two cycles, one slot, daily and dry runs with and without a kept directory, two failures |
| `ArchiveOverlap` | Is a deletion justified at the moment it happens, with two executions in any modes at any time? | two days, two cycles, two slots (symmetric) |
| `ArchiveBackfill` (violation) | `--backfill` after an interrupted trim | three days, two cycles, one failure |
| `StagingCycles` | Durability, width and contents of the window; refinement of `SnapshotFeed` | three cycles, seven instants of half a second, one damaged window |
| `ServingCache` | Age of what the cache hands out; does `/ready` vouch for dead ingestion? | two threads, store faults, restarts |
| `ServingHeals` | Does everything come right after any history of faults? | one thread, faults of store, feed and files, restarts, no `SYSTEM_ID` |
| `IngestService` | When do cycles overlap, what does a fault cost, does a loop keep its pace? | three ticks or rounds, two requests of two attempts, one kill, scaled times, a loop's interval shorter than its longest round |
| `IngestLock` (violation) | Do two loops exclude each other? | two loops, two rounds |
| `TrainingData` | Are lags, windows and labels final and there when they should be, is serving training, is the log exact? | two stations, three cycles in eight ticks, two days, two lags and two windows |
| `Training` | Who is trained on, with which code and capacity; is the split apart in time; what does later data change? | two stations, four cycles in five ticks, two days, two sizes and none; at most two of: a row missing, a row out of service, a stations object lost, a size changed |
| `ModelRelease` | What serves after saves, cuts, uploads and starts in any order? | three stations, two training runs, any number of deployments and starts |
| `ModelCodes` (violation) | Does a code mean the same station in every run? | as `ModelRelease` |

Why the bounds are enough. In the archive a violation needs a cycle that lands
at the wrong moment of one execution: two cycles give one object already
published and one in flight, of the same day or of the next; four days give a day
before the start date, one to publish, one to trim and today; two failures let
the repair of one be cut off by the other. `KeepDays = 0` is the tightest
retention: a larger one only postpones the trim. With three cycles and one failure
TLC finds that the safety properties hold too, in 664,000 states. Two executions are
enough for one to invalidate what the other read. The theorems below have no
bounds. In staging, three cycles let a late one overwrite what two others wrote;
the instants exceed the window by more than a key's second, and a day ends among
them. The API's constants are scaled: a tick is one ingestion interval. What
matters is their order (read and TTL below the interval's multiples, lag below
lookback, lookback below the window), which is the deployment's. The lookback
must exceed the interval by a read and a TTL, as 90 minutes do: with one tick of
lookback `OutagesHeal` is false, for a window cached late is then too old.

`IngestService` runs with two requests of two attempts instead of five of
three, a deadline of 32 s and a tick of 84 s. The proportions are the
deployment's: the deadline is shorter than the longest cycle (two requests of
2 x 10 s and 1 s of backoff, and 4 s of staging: 46 s), so cycles do overlap, and the
tick is just longer than a deadline, a pause and a second cycle, so that one more
attempt breaks `OverlapNeedsDeadline`. Three ticks let what is left over from one
reach the next, and the next be judged. The loop has an interval of its own here,
30 s: rounds of 46 s overrun it and others of 24 s and less do not, so that in
three rounds a long one comes before, after and between short ones. With the deployed
numbers (five requests of three attempts, 300/120/5 s, staging of up to 9 s, two
ticks, no kill) TLC finds that the same properties hold, in 7.7 million states. A
staging longer than those 9 s after a worst-case fetch would reach into the next
tick.

`TrainingData`: three cycles give a row, its lag or target and a competitor for it,
or two changes of a station, and the ticks leave room for early, late and missing
ones. Both tolerances are a tick, so a match at the tolerance, one before it and
none all occur; the gap that `GapsAreBridged` allows is the widest, for with a tick
more TLC finds a lag missing, and a target; a history reaches a longest lag back
only from a fresh row, so `Reach` excludes some states and not others. The theorems
have no such bounds.

`Training`: four cycles with one or two rows each fill all three parts, also with
cut-offs a horizon and its tolerance apart (`TestIsUnseen`), and both a station
with too few rows and one with enough. `MinHistory` is 2 and one loss is below it.
What a cycle meets is free, each station's size included, and `MaxIrregular` bounds
how often in a behaviour it is out of the ordinary: two sizes changed are a change
and the change back within a day of three ticks (a log that names every state
once breaks `CatalogIsCurrent` there), or to nothing and back; a row missing and one
out of service, or a loss and a change, are other pairs. With three of them the
properties hold as well, in 806,000 states.
`TrainCutoff` takes 70 % in integers; `int(n * 0.7)` in floating point is one row
earlier for n = 90, 170, 180 and some others, which moves the cut and nothing the
properties say.

`ModelRelease`: two runs are an old model and a new one; three stations let a new
one sort before, between and after the others. With two stations and three runs
the same holds, in 9.7 million states. Nothing else is bounded, and
the system can always go on.

`CHECK_DEADLOCK FALSE` stands in the `Staging` runs, whose last cycle ends and whose
clock stops at its bound, in the `Serving` runs for the instants between due events,
and in the `IngestService` runs, `TrainingData` and `Training`, which end with their
last tick; the archive's executions can always be started again.

### Fairness

`ArchiveJob!FairSpec`: a running cycle ends (a request has a deadline), a running
execution takes its next step, and the scheduler keeps starting executions that are
not dry runs, which somebody has to type (`deploy.sh`, daily). Nothing is assumed of
the feed, and failures are bounded by `MaxCrash`: a job that fails every day
publishes nothing. `Serving!FairSpec`: time passes, due cycles begin and end
(successfully or not), threads run. Nothing is assumed of faults: `OutagesHeal`
speaks of behaviours in which they end.

## Proofs

`ArchiveJobProofs`, for every value of the constants, in any modes, with any
number of overlapping executions:

* `TypeCorrect`: `Spec => []TypeOK`.
* `DeletionIsSafe`: `Spec => TrimsOnlyArchivedDays`. The decision to delete is
  made from two listings and a date, all old by the time the deletion happens.
  `TrimInv` says why they still hold: for each execution the days to trim are
  published *now* and expired *as of its date*, and its date is not in the
  future. `GroundsKept` is the point of the proof: no step of anyone makes a
  published day unpublished, turns the date back or moves a cycle to another
  day. That the earliest of a non-empty set of days or cycles exists
  (`EarliestInSet`) rests on the well-foundedness of finite subsets.

`ArchiveDailyProofs`, under `DailyOnSchedule` (the schedule is kept and every
invocation is in daily mode; dry runs and kept directories are allowed):

* `RowsSurvive`: `Spec => []NoRowLost`,
* `StartDateIsAFloor`: `Spec => []FloorHolds`,
* `ImplementsDayArchive`: `Spec => PublishesThenTrims`.

`NoRowLost` is not inductive: that a row may be deleted depends on the archive
holding the day *in full*, which depends on the directory it was uploaded from,
which depends on no cycle of that day being active when the day was listed.
`DailyInv` has one part for each link: `FeedInv` (cycles and their days),
`DaysInv` (a published day is closed, not before the start date, and each of its
partitions is all its rows), `DirectoryInv` (a directory's partitions are
complete or already published), `PublishInv` (what the execution in progress has
listed is closed), `OneAtATime`. TLC checked it on small instances before it was
proved.

`TrainingDataProofs`, for any stations, values, lags, tolerances, windows and
horizon with `Lookback <= Window` (90 and 120 minutes in the code; only
`ServingIsTraining` needs it):

* `TypeCorrect`: `Spec => []TypeOK`. It is inductive, and says what the others
  rest on: rows are in the past, and no station has two at one time.
* `LagsAndRollsNeverChange`, `TargetsNeverChange`: `Spec => LagsAndRollsAreFinal` and
  `Spec => TargetsAreFinal`. New rows are later than all rows there are
  (`RowsJoinNow`); lags and windows look at rows up to their own, and a target found
  is the earliest in reach, which later rows cannot displace.
* `NoGapIsTooWide`: `Spec => []GapsAreBridged`. Of a station's rows around the moment a
  join searches (`RowsAround`), the last before it and the first after it are at
  most a gap apart, so one of them is within the tolerance.
* `ServingIsTraining`: `Spec => []ServedRowIsTrainingRow`. Features depend only on
  the rows within a lag and its tolerance (`FeaturesAreLocal`), and neither cut
  removes one of those.
* `LogIsFaithful`, `LogIsIrredundant`: `Spec => []LogReplaysTheDay` and
  `Spec => []LogIsMinimal`. `LogHolds` is the argument: between the last logged row
  and the row asked about, the first row to differ would differ from its
  predecessor and so be logged.

`StagingProofs`, for any number of cycles overlapping and failing anywhere, any
resolution of keys and any number of damaged windows:

* `TypeCorrect`: `Spec => []TypeOK`.
* `ServingDurable`: `Spec => []ServingIsDurable`. What a cycle shows to readers it
  has put before (`ProgressIsPut`), and so has every cycle whose rows it has read and not
  yet put back (`CopiesArePut`); no key is taken twice, for cycles begin in order
  and in different seconds (`BeginningsInOrder`).
* `WindowNarrow`: `Spec => []WindowIsNarrow`.
* `WindowExact`: `Spec => []WindowIsExact`. Without overlap one cycle is under way
  at most (`OneAtATime`), so what it read is still what is there when it writes
  (`ReadIsCurrent`).
* `FeedsArchive`: `Spec => FeedsTheArchive`. Each step of `Staging` begins a cycle,
  puts its next object, ends it or moves the day for `SnapshotFeed`, or is nothing
  to it.

`ServingProofs`, for any number of threads, any interval, window, lookback and
times to live, and any history of faults:

* `TypeCorrect`, `StalenessBounded`: `Spec => []TypeOK`, `Spec => []BoundedStaleness`.
* `ReadyIsTrue`: `Spec => ReadyMeansIngesting`.

Both rest on `ServingInv`: what a thread has read and not yet stored is stale by no
more than it has waited (`GoodRequest`), so what the cache got is stale by no more
than its age and one read (`GoodEntry`); and no row of any window, in the bucket,
the cache or a thread's hands, is newer than the last staged cycle (`NotNewer`).

`IngestServiceProofs`, for any number of requests, attempts, ticks, loops and
kills. The backoff multiplies, so the longest a request may take is a sum over a
recursion, which a proof cannot unfold for every policy. It is given instead by
what determines it: `Timetable` says that `Pause` and `Left` are the pauses and
longest remaining times of the policy, written backwards from its last attempt;
every policy has exactly one. The other hypotheses are inequalities about it:

| Theorem | States | Hypotheses | As deployed |
|---|---|---|---|
| `TypeCorrect` | `TypeOK` | | |
| `CadenceKept` | `Cadence` | | |
| `RoundsInTime` | no round is longer than the loop's interval | `RoundsFit` | 165 s and staging in 300 s |
| `OverlapNeedsGivingUp` | `OverlapNeedsDeadline` | `CyclesFit` | 125 s, 165 s and staging in less than 300 s |
| `BeginningsStayApart` | `BeginningsApart` | `AttemptsFit` | 120 s and twice 5 s in 300 s |
| `FaultAbsorbed` | `OneFaultIsAbsorbed` | `CyclesFit`, `SmoothCyclesFit` | also 50 s and staging in less than 125 s |

A request that needs all attempts takes 3 x 10 s and pauses of 1 s and 2 s, a cycle
five times that; `DeploymentFits` is the theorem that the hypotheses hold of the
deployment as long as staging takes less than 10 s. With `Pause = <<1, 2>>` and
`Left = <<21, 10>>` they hold too of the constants of the run, but for `RoundsFit`:
there the loop's interval is too short on purpose. `CadenceKept` needs none of them,
for what a round takes too long is counted when it ends; with `RoundsInTime` a
deployed loop has exactly one round per interval. For the others the argument is a
schedule: `CyclesInv` gives each cycle under way the latest time it can end from
where it stands (attempt, pauses to come, requests left), and `TicksInv` the latest
time of each of a tick's two calls. `BeginningsStayApart` needs no length of a
cycle: a call is answered at its deadline at the latest, which `TicksInv` has, and
`Apart` follows. `FaultsInv` counts: a tick with one fault has an attempt without,
and that one is over before its deadline.

`ModelReleaseProofs`, for any finite set of stations and any number of runs:

* `TypeCorrect`, `SaveIsServedWhole`, `SaveIsAccepted`, `IdFollows`: `Spec => []` of
  `TypeOK`, `FinishedSaveIsServedWhole`, `FinishedSaveIsAccepted`, `IdIsNeverAhead`.
  `ReleaseInv` follows a run's files on their way: in the tree they are in the
  order of writing and, between a save that finished and the next, all of one run
  (`TreeInOrder`, `FinishedIsWhole`); a copy that history calls whole or quiet
  agrees with the tree in what it has copied so far (`CopiesAreFaithful`); what is
  served was checked before (`ServedIsRight`).

`TrainingProofs`, for any stations, sizes, days, lags, windows, horizon and shares:

* `TypeCorrect`: `Spec => []TypeOK`.
* `CatalogIsUpToDate`: `Spec => []CatalogIsCurrent`. The last record of a station in
  the history is of the day it was last seen, since each day's log has the first
  record of a day (`SeenIsInHistory`), and within that day a log's last word holds
  to the end (`LogHolds`).
* `CodesForAll`: `Spec => []TrainedStationsHaveCodes`, from `LossesAreRare`. Not
  inductive: `LossInv` says that the times with rows and without details are no
  more than the losses, and that at any other time each row has its details. The
  rows of a station without any are then at different times of the first kind.
* `SplitIsByTime`: `Spec => []SplitKeepsTime`. That a frame has a k-th time and
  fewer than k rows before it is `TimeOfRow`; `Split` compares the two cuts.
* `TestStaysUnseen`: `Spec => []TestIsUnseen`.
* `TrainedStayTrained`, `CapacityAloneChanges`: `Spec => TrainedRowsStay` and
  `Spec => OnlyCapacityIsRewritten`. Labels stay (`LabelStays`), frames grow, and the
  catalog says something else of a station only by a later record of it
  (`CatalogFollowsDetails`).

The lemmas about rows and change logs stand in `TrainingDataProofs` and again in
`TrainingProofs`: the prover cannot cite a lemma through the `INSTANCE` by which
`Training` has their definitions.

Every safety property, action property and refinement a run checks is thereby a
theorem, except the three that runs show violated. Only model-checked: liveness
(`EveryDayIsPublished`, `StatusIsTrimmed`, `OutagesHeal`), which TLAPS cannot prove
here.

## Where the code does not do what is said of it

Each violation run is one; `PROJECT.json` quotes the lines under `findings`.
More were seen and have no run of their own:

* `archive/cli.py:47` does not compare the day of `--day` with today: an open day is
  published, counts as archived from then on, and its later rows are never
  exported and in the end deleted. `NoRowLost` is about daily executions.
* Of two overlapping cycles that read the same window the second put drops the
  rows of the first (`staging/snapshots.py:160-168`): `WindowIsExact` needs
  cycles that do not overlap.
* A staged object that can never be read stops every later day: it raises out of
  the batch before anything is published (`archive/staged.py:63`).
* `_lag_column` is a join "not .shift(n): a fixed row-shift [...] breaks under ingestion
  jitter or a skipped run" (`features/build_features.py:65-67`). Its tolerance of five
  minutes is the interval of ingestion, and `observed_at` is the moment a cycle
  begins, to the microsecond (`ingestion/gbfs_ingest.py:47`): with ordinary jitter two rows
  are a little more than five minutes apart, and a lag that falls in between is null
  although no run was skipped. `GapsAreBridged` says when that cannot happen; targets
  have ten minutes.
* `tests/unit/test_artifacts.py:109-111` wants a half-committed model to fail CI; a
  missing file makes `model_artifacts_exist` false and the test is skipped, and
  three files of two runs pass.
* `deploy.sh` looks for uncommitted changes (38-40) minutes before it uploads
  (135): the image can hold what its tag denies.
* `.github/workflows/ingest.yml` runs the ingestion without a bucket to stage to.
* `--day` also ignores `archive_start_date` ("Days before this are never
  archived.", `core/config.py:47`).
* A cycle that ends between the two puts of `_publish_stations` leaves the serving
  stations behind the snapshot, though `tests/unit/test_snapshots.py:341` says
  they "cannot drift apart".
* A read under way during `ServingData.invalidate` stores what it read before
  (`staging/serving.py:50-52,66`).
* Days to trim are found by their status objects, and status is deleted first:
  a trim interrupted between the tables leaves stations objects nobody deletes
  (`archive/retention.py:113-137`).
* `/ready` measures the depth of the window back from its newest row, which may be
  as old as the lookback; `/predict` keeps rows counted back from now. Ready, yet
  with null lags (`api/main.py:149-151`, `modeling/predict.py:30-35`).
  `ServedRowIsTrainingRow` says when it cannot happen: while the newest row is at
  most 90 - 60 - 5 minutes old.
* `/ready` does not read the station list, without which `/predict` answers 404.
* A timeout while a response is read raises `TimeoutError`, not `URLError`, and is
  not retried by the client (`ingestion/gbfs_client.py:68-78`); it ends the loop of
  `ingestion/loop.py`, whose `run_once` does not catch it.
* The 120 s deadline is shorter than the retries may take (five requests of
  3 x 10 s and 3 s of backoff), so a repeated request can run beside the first.
* The capacity of a row comes from the station's latest details, so in training
  `occupancy_ratio` does depend on later data, whatever
  `features/build_features.py:101-103` says of features (`OnlyCapacityIsRewritten`).
* `time_split` cuts by a row's own time: the labels of the last training rows
  are observed after the cut, and in the test period if validation is shorter
  than the horizon and its tolerance (`TestIsUnseen`).

## Not modelled

Fitting, metrics, plots and MLflow (numeric code around libraries), the calendar
features and the values of predictions, names and vehicle types of the feed and the
validation of its fields (per-record mapping), migrations, logging, the creation
of cloud resources. A feed that lists a station twice. `LocalObjectStore` is
constructed by tests only; its puts are atomic renames, as the bucket's are.

The database path (`storage/`, the SQL of `archive/export.py` and
`archive/retention.py`): nothing writes to its tables any more, its export and
retention are called by tests only, and training falls back to it when no
archive is configured. The two rules it shares with the archive job are modelled
there.

## Plan

The state machines came first (`SnapshotFeed`, `Staging`, `ArchiveJob`, `DayArchive`,
`Serving`, `IngestService`, `TrainingData`, `ModelRelease`, `Training`, in the order
of what is written, what is deleted for good, what readers are told, what drives
it, what is learnt from it, and how that gets to the readers), then a proof of
each safety property. What is left:

1. The safety half of the liveness properties: which states an archive execution
   can leave behind, and that none of them stands in the way of the next.
2. The archive beside the detailed ingestion: with `FeedsArchive`, the theorems of
   `ArchiveDailyProofs` for `Staging` and `ArchiveJob` together.
3. `IngestService` as the reason of `Staging`'s assumption that cycles begin in
   different seconds.
