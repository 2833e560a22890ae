---------------------------- MODULE IngestService ----------------------------
(***************************************************************************)
(* What makes ingestion cycles begin, fail, repeat and overlap: the client  *)
(* of the feeds with its retries (ingestion/gbfs_client.py), called either  *)
(* by the service the scheduler calls (api/ingest_app.py, deploy.sh) or by  *)
(* the loop that replaces it on a single machine (ingestion/loop.py).       *)
(*                                                                         *)
(* Time is in seconds and jumps from one due event to the next.  What a     *)
(* cycle stages is one step here and five store calls in Staging.           *)
(***************************************************************************)
EXTENDS Integers

CONSTANTS
    Feeds,       \* requests of a cycle: discovery and the feeds it names
    MaxAttempts, \* RetryPolicy.max_attempts
    Backoff,     \* RetryPolicy.initial_backoff_seconds
    Multiplier,  \* RetryPolicy.backoff_multiplier
    Slow,        \* bound: the longest a request takes
    Staging,     \* bound: the longest staging takes
    Interval,    \* between two ticks of the scheduler
    LoopInterval,\* INTERVAL_SECONDS of the loop
    Deadline,    \* after which the scheduler and Cloud Run give a request up
    RetryAfter,  \* from a failed attempt to the scheduler's second one
    Loops,       \* processes running the loop
    MaxRound,    \* bound: the last tick, or round of a loop
    MaxKill      \* bound: how often an instance or a loop is killed

ASSUME ServiceAssumption ==
    /\ Feeds \in Nat \ {0} /\ MaxAttempts \in Nat \ {0}
    /\ Backoff \in Nat /\ Multiplier \in Nat \ {0}
    /\ Slow \in Nat /\ Staging \in Nat
    /\ Interval \in Nat \ {0} /\ LoopInterval \in Nat \ {0} /\ Deadline \in Nat \ {0} /\ RetryAfter \in Nat \ {0}
    /\ MaxRound \in Nat /\ MaxKill \in Nat
    /\ Loops \cap {"call", "retry", "nobody"} = {}

Drivers == {"scheduler", "loop"}
Rounds  == 0..MaxRound
Callers == {"call", "retry"} \cup Loops
Cycles  == Rounds \X Callers
Calls   == Rounds \X {"call", "retry"}   \* what the scheduler starts
Never   == -1
Nobody  == "nobody"

VARIABLES
    now,
    driver,      \* a deployment has a scheduler or loops
    cycle,       \* each cycle's position in its requests
    retryAt,     \* when the scheduler repeats a tick's request, if it will
    loop,        \* where each loop is
    loopStarted, \* when its round began
    wakeAt,      \* when its sleep ends
    round,       \* its last round
    holder,      \* the process holding the lock file
    pace,        \* history: a loop's first round, and what its rounds took too long
    last,        \* history: when the scheduler's latest request began
    faults,      \* history: what went wrong in each tick, counted to two
    kills

vars == <<now, driver, cycle, retryAt, loop, loopStarted, wakeAt, round, holder, pace,
          last, faults, kills>>
loopVars == <<loop, loopStarted, wakeAt, round, holder, pace>>

\* A cycle is named by its round and its caller; `open` says that its caller is
\* waiting for an answer.
IdleCycle ==
    [ step |-> "idle", began |-> Never, open |-> FALSE, feed |-> 1, attempt |-> 1,
      delay |-> Backoff, until |-> 0, usable |-> TRUE ]

Working == {c \in Cycles : cycle[c].step \in {"request", "backoff", "stage"}}
Open    == {c \in Working : cycle[c].open}

TypeOK ==
    /\ now     \in Nat
    /\ driver  \in Drivers
    /\ cycle   \in [Cycles -> [ step    : {"idle", "request", "backoff", "stage",
                                           "staged", "failed"},
                                began   : Nat \cup {Never},
                                open    : BOOLEAN,
                                feed    : 1..Feeds,
                                attempt : 1..MaxAttempts,
                                delay   : Nat,
                                until   : Nat,
                                usable  : BOOLEAN ]]
    /\ retryAt     \in [Rounds -> Nat \cup {Never}]
    /\ loop        \in [Loops -> {"off", "lock", "running", "asleep"}]
    /\ loopStarted \in [Loops -> Nat]
    /\ wakeAt      \in [Loops -> Nat]
    /\ round       \in [Loops -> Rounds \cup {Never}]
    /\ holder      \in Loops \cup {Nobody}
    /\ pace        \in [Loops -> [since : Nat, first : Rounds, over : Nat]]
    /\ last        \in Nat \cup {Never}
    /\ faults      \in [Rounds -> 0..2]
    /\ kills       \in 0..MaxKill

Init ==
    /\ now         = 0
    /\ driver      \in Drivers
    /\ cycle       = [c \in Cycles |-> IdleCycle]
    /\ retryAt     = [k \in Rounds |-> Never]
    /\ loop        = [p \in Loops |-> "off"]
    /\ loopStarted = [p \in Loops |-> 0]
    /\ wakeAt      = [p \in Loops |-> 0]
    /\ round       = [p \in Loops |-> Never]
    /\ holder      = Nobody
    /\ pace        = [p \in Loops |-> [since |-> 0, first |-> 0, over |-> 0]]
    /\ last        = Never
    /\ faults      = [k \in Rounds |-> 0]
    /\ kills       = 0

-----------------------------------------------------------------------------
(* Parts of actions.                                                        *)

At(c, s) == cycle[c].step = s /\ (c \in Working => now = cycle[c].until)

\* A request is answered at once or as late as it can be.
Request(r) == {[r EXCEPT !.step = "request", !.until = now + d] : d \in {0, Slow}}

Begin(c) ==
    /\ cycle[c].step = "idle"
    /\ \E r \in Request([IdleCycle EXCEPT !.began = now, !.open = c \in Calls]) :
         cycle' = [cycle EXCEPT ![c] = r]

Fault(k) == faults' = [faults EXCEPT ![k] = IF @ < 2 THEN @ + 1 ELSE 2]

\* Mutants, here and below: a mistake in the definition that follows, which the
\* run must notice.  A scheduler that repeats at once.
RepeatAtOnce(c) == retryAt' = [retryAt EXCEPT ![c[1]] = IF c[2] = "call" THEN now ELSE @]

\* The scheduler repeats a tick's first request when it failed, once.
Repeat(c) == retryAt' = [retryAt EXCEPT ![c[1]] = IF c[2] = "call" THEN now + RetryAfter ELSE @]

\* A failure logged and answered as a success.
AnswerSwallowing(c, how) == UNCHANGED retryAt

\* The service answers a request that is still open: 200, or 502 or 500, which
\* are the same to the scheduler.
Answer(c, how) ==
    IF c \in Open /\ how # "staged" THEN Repeat(c) ELSE UNCHANGED retryAt

\* When the next round of a loop is due, and by how much its round is late for it.
Due(p)  == loopStarted[p] + LoopInterval
Late(p) == IF Due(p) < now THEN now - Due(p) ELSE 0

\* The loop sleeping until the moment its round was due from the start, to make up
\* for the rounds that took too long.
SleepCatchingUp(p) ==
    LET due == pace[p].since + (round[p] + 1 - pace[p].first) * LoopInterval
    IN  /\ loop'   = [loop EXCEPT ![p] = "asleep"]
        /\ wakeAt' = [wakeAt EXCEPT ![p] = IF due < now THEN now ELSE due]

\* The loop sleeps what is left of the interval; nothing after a longer round.
Sleep(p) ==
    /\ loop'   = [loop EXCEPT ![p] = "asleep"]
    /\ wakeAt' = [wakeAt EXCEPT ![p] = IF Due(p) < now THEN now ELSE Due(p)]

Overrun(p) == pace' = [pace EXCEPT ![p].over = @ + Late(p)]

\* What neither the service nor run_once catches ends a loop.
End(c, how) ==
    /\ cycle' = [cycle EXCEPT ![c] =
                   [IdleCycle EXCEPT !.step = IF how = "staged" THEN how ELSE "failed"]]
    /\ \/ c \in Calls /\ Answer(c, how) /\ UNCHANGED loopVars
       \/ /\ c \notin Calls
          /\ IF how = "raised" THEN loop' = [loop EXCEPT ![c[2]] = "off"] /\ UNCHANGED wakeAt
                               ELSE Sleep(c[2])
          /\ Overrun(c[2])
          /\ UNCHANGED <<retryAt, loopStarted, round, holder>>

-----------------------------------------------------------------------------
(* The steps of a cycle: fetch_raw_feeds, then the transform and staging.   *)

\* A payload arrived.  Discovery is validated at once and names the other feeds;
\* they are validated when all of them are there.  Nothing unusable is fetched
\* again.
Fetched(c) ==
    /\ At(c, "request")
    /\ \E usable \in BOOLEAN :
         LET r == [cycle[c] EXCEPT !.usable = @ /\ usable, !.attempt = 1, !.delay = Backoff]
         IN  /\ IF usable THEN UNCHANGED faults ELSE Fault(c[1])
             /\ \/ /\ r.feed < Feeds /\ (r.feed = 1 => r.usable)
                   /\ \E q \in Request([r EXCEPT !.feed = @ + 1]) :
                        cycle' = [cycle EXCEPT ![c] = q]
                   /\ UNCHANGED <<retryAt, loopVars>>
                \/ /\ r.feed = Feeds /\ r.usable
                   /\ \E d \in {0, Staging} :
                        cycle' = [cycle EXCEPT ![c] =
                                    [r EXCEPT !.step = "stage", !.until = now + d]]
                   /\ UNCHANGED <<retryAt, loopVars>>
                \/ /\ r.feed \in {1, Feeds} /\ ~ r.usable
                   /\ End(c, "failed")
    /\ UNCHANGED <<now, driver, last, kills>>

\* One attempt too many.
FetchErrorOnceMore(c) ==
    /\ At(c, "request")
    /\ Fault(c[1])
    /\ \/ /\ cycle[c].attempt = MaxAttempts + 1
          /\ End(c, "failed")
       \/ /\ cycle[c].attempt <= MaxAttempts
          /\ cycle' = [cycle EXCEPT ![c] =
                         [@ EXCEPT !.step    = "backoff",
                                   !.attempt = cycle[c].attempt + 1,
                                   !.until   = now + cycle[c].delay,
                                   !.delay   = cycle[c].delay * Multiplier]]
          /\ UNCHANGED <<retryAt, loopVars>>
    /\ UNCHANGED <<now, driver, last, kills>>

\* GbfsFetchError: no connection, an HTTP error, no JSON or no object.  Retried
\* after a pause that grows, up to the last attempt.
FetchError(c) ==
    /\ At(c, "request")
    /\ Fault(c[1])
    /\ \/ /\ cycle[c].attempt = MaxAttempts
          /\ End(c, "failed")
       \/ /\ cycle[c].attempt < MaxAttempts
          /\ cycle' = [cycle EXCEPT ![c] =
                         [@ EXCEPT !.step    = "backoff",
                                   !.attempt = cycle[c].attempt + 1,
                                   !.until   = now + cycle[c].delay,
                                   !.delay   = cycle[c].delay * Multiplier]]
          /\ UNCHANGED <<retryAt, loopVars>>
    /\ UNCHANGED <<now, driver, last, kills>>

\* A read that timed out or a connection lost after the request was sent is no
\* URLError: nobody catches it.
ReadError(c) ==
    /\ At(c, "request")
    /\ Fault(c[1])
    /\ End(c, "raised")
    /\ UNCHANGED <<now, driver, last, kills>>

Retry(c) ==
    /\ At(c, "backoff")
    /\ \E r \in Request(cycle[c]) : cycle' = [cycle EXCEPT ![c] = r]
    /\ UNCHANGED <<now, driver, retryAt, loopVars, last, faults, kills>>

StageDone(c) ==
    /\ At(c, "stage")
    /\ End(c, "staged")
    /\ UNCHANGED <<now, driver, last, faults, kills>>

\* No rows, a row that cannot be transformed, a failing store; or an exception of
\* none of the three kinds that run_once catches.
StageError(c) ==
    /\ At(c, "stage")
    /\ Fault(c[1])
    /\ \E how \in {"failed", "raised"} : End(c, how)
    /\ UNCHANGED <<now, driver, last, kills>>

-----------------------------------------------------------------------------
(* The scheduler and the service.                                           *)

Tick(k) ==
    /\ driver = "scheduler"
    /\ now = k * Interval
    /\ Begin(<<k, "call">>)
    /\ last' = now
    /\ UNCHANGED <<now, driver, retryAt, loopVars, faults, kills>>

\* The caller is told that the request took too long; the thread runs on.
GiveUp(c) ==
    /\ c \in Open
    /\ now = cycle[c].began + Deadline
    /\ cycle' = [cycle EXCEPT ![c].open = FALSE]
    /\ Repeat(c)
    /\ UNCHANGED <<now, driver, loopVars, last, faults, kills>>

TickAgain(k) ==
    /\ now = retryAt[k]
    /\ retryAt' = [retryAt EXCEPT ![k] = Never]
    /\ Begin(<<k, "retry">>)
    /\ last' = now
    /\ UNCHANGED <<now, driver, loopVars, faults, kills>>

\* The instance dies with every request it works on.
KillInstance ==
    /\ driver = "scheduler" /\ Working # {}
    /\ kills < MaxKill
    /\ kills'   = kills + 1
    /\ cycle'   = [c \in Cycles |-> IF c \in Working THEN [IdleCycle EXCEPT !.step = "failed"]
                                                     ELSE cycle[c]]
    /\ retryAt' = [k \in Rounds |-> IF <<k, "call">> \in Open THEN now + RetryAfter
                                                            ELSE retryAt[k]]
    /\ faults'  = [k \in Rounds |-> IF faults[k] < 2 /\ \E c \in Working : c[1] = k
                                    THEN faults[k] + 1 ELSE faults[k]]
    /\ UNCHANGED <<now, driver, loopVars, last>>

-----------------------------------------------------------------------------
(* The loop.                                                                *)

\* _acquire_lock: a process that finds the lock taken exits.
Launch(p) ==
    /\ driver = "loop" /\ loop[p] = "off" /\ round[p] < MaxRound
    /\ holder = Nobody
    /\ holder' = p
    /\ loop'   = [loop EXCEPT ![p] = "lock"]
    /\ UNCHANGED <<now, driver, cycle, retryAt, loopStarted, wakeAt, round, pace, last, faults,
                   kills>>

BeginRound(p) ==
    /\ Begin(<<round[p] + 1, p>>)
    /\ round'       = [round EXCEPT ![p] = @ + 1]
    /\ loop'        = [loop EXCEPT ![p] = "running"]
    /\ loopStarted' = [loopStarted EXCEPT ![p] = now]
    /\ UNCHANGED <<now, driver, retryAt, wakeAt, last, faults, kills>>

\* main() keeps no reference to the file _acquire_lock returns, so it is closed,
\* and the lock is gone, before the first round.
Enter(p) ==
    /\ loop[p] = "lock"
    /\ holder' = Nobody
    /\ pace'   = [pace EXCEPT ![p] = [since |-> now, first |-> round[p] + 1, over |-> 0]]
    /\ BeginRound(p)

WakeUp(p) ==
    /\ loop[p] = "asleep" /\ round[p] < MaxRound
    /\ now = wakeAt[p]
    /\ BeginRound(p)
    /\ UNCHANGED <<holder, pace>>

\* Ctrl+C, or killed; the system closes the lock file.
Interrupt(p) ==
    /\ loop[p] # "off"
    /\ kills < MaxKill
    /\ kills'  = kills + 1
    /\ loop'   = [loop EXCEPT ![p] = "off"]
    /\ holder' = IF holder = p THEN Nobody ELSE holder
    /\ cycle'  = [c \in Cycles |-> IF c \in Working /\ c[2] = p
                                   THEN [IdleCycle EXCEPT !.step = "failed"] ELSE cycle[c]]
    /\ UNCHANGED <<now, driver, retryAt, loopStarted, wakeAt, round, pace, last, faults>>

-----------------------------------------------------------------------------
Alarms ==
    {cycle[c].until : c \in Working}
    \cup {cycle[c].began + Deadline : c \in Open}
    \cup {retryAt[k] : k \in {k \in Rounds : retryAt[k] # Never}}
    \cup {k * Interval : k \in {k \in Rounds : /\ driver = "scheduler"
                                               /\ cycle[<<k, "call">>].step = "idle"}}
    \cup {wakeAt[p] : p \in {p \in Loops : loop[p] = "asleep" /\ round[p] < MaxRound}}

\* Time passes to the next event when nothing is left to do now.
Pass ==
    /\ \E t \in Alarms :
         /\ \A u \in Alarms : t <= u
         /\ now < t
         /\ now' = t
    /\ UNCHANGED <<driver, cycle, retryAt, loopVars, last, faults, kills>>

Advance(c) ==
    \/ Fetched(c) \/ FetchError(c) \/ ReadError(c) \/ Retry(c)
    \/ StageDone(c) \/ StageError(c)

Next ==
    \/ \E c \in Cycles : Advance(c) \/ GiveUp(c)
    \/ \E k \in Rounds : Tick(k) \/ TickAgain(k)
    \/ KillInstance
    \/ \E p \in Loops : Launch(p) \/ Enter(p) \/ WakeUp(p) \/ Interrupt(p)
    \/ Pass

Spec == Init /\ [][Next]_vars

-----------------------------------------------------------------------------
(* Properties.                                                              *)

\* Two cycles only run at the same time when they belong to one tick and the
\* first has outlived its deadline (deploy.sh:173,262): with these retries,
\* backoffs and timeouts the second is over before the next tick.
OverlapNeedsDeadline ==
    \A b, c \in Working \cap Calls : b # c /\ cycle[b].began <= cycle[c].began =>
        b[1] = c[1] /\ cycle[b].began + Deadline <= now

\* No two calls begin within the same second, which Staging takes for granted of
\* the keys made from it (staging/snapshots.py:44-52): a call that begins leaves at
\* least a retry's pause to the one before.
BeginningsApart ==
    [][ (\E c \in Calls : cycle[c].step = "idle" /\ cycle'[c].step # "idle") /\ last # Never
        => last + RetryAfter <= now ]_vars

\* "A transient error costs one snapshot rather than the whole loop"
\* (api/ingest_app.py:42): a single fault of any kind in a tick, in whatever call,
\* does not even cost that, whatever was left over from the tick before.
OneFaultIsAbsorbed ==
    driver = "scheduler" =>
        \A k \in Rounds : (k + 1) * Interval <= now /\ faults[k] <= 1 =>
            \E a \in {"call", "retry"} : cycle[<<k, a>>].step = "staged"

\* A loop keeps its pace: counted from its first round it has had one round per
\* interval, later only by what earlier rounds took beyond the interval themselves.
\* How long the other rounds take, and how any of them fails, does not add up; what
\* a long one took is not made up either (ingestion/loop.py:57-61).
Cadence ==
    \A p \in Loops : loop[p] \in {"running", "asleep"} =>
        LET rounds == round[p] - pace[p].first
        IN  /\ loop[p] = "running" =>
                 loopStarted[p] = pace[p].since + rounds * LoopInterval + pace[p].over
            /\ loop[p] = "asleep" =>
                 wakeAt[p] = pace[p].since + (rounds + 1) * LoopInterval + pace[p].over

\* "Refuse to start a second loop against the same machine." (ingestion/loop.py:21)
OneLoop == \A p, q \in Loops : loop[p] = "running" /\ loop[q] = "running" => p = q
=============================================================================
