------------------------- MODULE IngestServiceProofs -------------------------
(***************************************************************************)
(* What IngestService promises, for any number of feeds, attempts, ticks,   *)
(* loops and kills, and for every retry policy whose longest cycle leaves   *)
(* room in the interval.                                                    *)
(***************************************************************************)
EXTENDS IngestService, TLAPS

CONSTANTS
    Pause,  \* Pause[a]: the pause after the a-th attempt failed
    Left    \* Left[a]: the longest a request takes from its a-th attempt on

\* The retry policy's timetable, written backwards from the last attempt.  Every
\* policy has exactly one.
Timetable ==
    /\ Pause \in [1 .. MaxAttempts -> Nat] /\ Left \in [1 .. MaxAttempts -> Nat]
    /\ Pause[1] = Backoff
    /\ Left[MaxAttempts] = Slow
    /\ \A a \in 1 .. (MaxAttempts - 1) :
         /\ Pause[a + 1] = Pause[a] * Multiplier
         /\ Left[a] = Slow + Pause[a] + Left[a + 1]

LongestCycle  == Feeds * Left[1] + Staging
SmoothCycle   == Feeds * Slow + Staging        \* the longest without a fault
LatestAttempt == Deadline + RetryAfter         \* of a tick's two, from the tick on

\* A loop's round fits in the interval.
RoundsFit == LongestCycle <= LoopInterval

\* The scheduler's second attempt leaves a pause to the next tick.
AttemptsFit == LatestAttempt + RetryAfter <= Interval

\* It is over before the next tick.
CyclesFit == LatestAttempt + LongestCycle < Interval

\* It begins when a first attempt without a fault is over.
SmoothCyclesFit == SmoothCycle < LatestAttempt

-----------------------------------------------------------------------------
(***************************************************************************)
(* Cycles and rounds.                                                       *)
(***************************************************************************)
Going == {"request", "backoff", "stage"}

CycleState ==
    [ step : {"idle", "request", "backoff", "stage", "staged", "failed"},
      began : Nat \cup {Never}, open : BOOLEAN, feed : 1 .. Feeds,
      attempt : 1 .. MaxAttempts, delay : Nat, until : Nat, usable : BOOLEAN ]

Pace == [since : Nat, first : Rounds, over : Nat]

LEMMA Cast ==
    /\ \A c \in Cycles : /\ c[1] \in Rounds /\ c[2] \in Callers /\ c = <<c[1], c[2]>>
                         /\ c \in Calls <=> c[2] \in {"call", "retry"}
                         /\ c \notin Calls <=> c[2] \in Loops
    /\ \A k \in Rounds : <<k, "call">> \in Calls /\ <<k, "retry">> \in Calls
    /\ \A k \in Rounds, p \in Loops : <<k, p>> \in Cycles /\ <<k, p>> \notin Calls
    /\ Calls \subseteq Cycles
    /\ Rounds \subseteq Nat /\ MaxRound \in Nat
    /\ Never = -1 /\ Never \notin Nat
BY ServiceAssumption DEF Cycles, Calls, Callers, Rounds, Never

LEMMA CycleFields ==
    ASSUME NEW r \in CycleState
    PROVE  /\ r.began \in Nat \cup {Never} /\ r.open \in BOOLEAN /\ r.feed \in 1 .. Feeds
           /\ r.attempt \in 1 .. MaxAttempts /\ r.delay \in Nat /\ r.until \in Nat
           /\ r.usable \in BOOLEAN
BY DEF CycleState

LEMMA IdleIsACycle ==
    /\ IdleCycle \in CycleState /\ IdleCycle.step = "idle" /\ ~ IdleCycle.open
    /\ \A s \in {"staged", "failed"} :
         /\ [IdleCycle EXCEPT !.step = s] \in CycleState
         /\ [IdleCycle EXCEPT !.step = s].step = s
         /\ ~ [IdleCycle EXCEPT !.step = s].open
<1>1. IdleCycle \in CycleState
  BY ServiceAssumption DEF IdleCycle, CycleState
<1>2. IdleCycle.step = "idle" /\ ~ IdleCycle.open
  BY DEF IdleCycle
<1>3. ASSUME NEW s \in {"staged", "failed"}
      PROVE  /\ [IdleCycle EXCEPT !.step = s] \in CycleState
             /\ [IdleCycle EXCEPT !.step = s].step = s
             /\ ~ [IdleCycle EXCEPT !.step = s].open
  <2>1. [IdleCycle EXCEPT !.step = s] \in CycleState
    BY <1>1 DEF CycleState
  <2>2. QED
    BY <2>1 DEF IdleCycle
<1>4. QED
  BY <1>1, <1>2, <1>3

\* Ticks are an interval apart.
LEMMA TicksApart ==
    /\ \A k \in Rounds : k * Interval \in Nat
    /\ \A j, k \in Rounds : j < k => j * Interval + Interval <= k * Interval
<1>1. \A k \in Rounds : k * Interval \in Nat
  BY ServiceAssumption, Cast
<1>2. ASSUME NEW j \in Rounds, NEW k \in Rounds, j < k
      PROVE  j * Interval + Interval <= k * Interval
  <2>1. j \in Nat /\ k \in Nat /\ Interval \in Nat
    BY ServiceAssumption, Cast
  <2>2. PICK d \in Nat : k = j + 1 + d
    <3>1. k - j - 1 \in Nat /\ k = j + 1 + (k - j - 1)
      BY <1>2, <2>1
    <3>2. QED
      BY <3>1
  <2>3. k * Interval = j * Interval + Interval + d * Interval /\ d * Interval \in Nat
    BY <2>1, <2>2
  <2>4. QED
    BY <2>1, <2>3
<1>3. QED
  BY <1>1, <1>2

-----------------------------------------------------------------------------
(***************************************************************************)
(* The timetable.  Rest(r) is what is left of the longest cycle once r's     *)
(* step is over, SmoothRest(r) what is left of one without a fault.         *)
(***************************************************************************)
FeedsAfter(r) == Feeds - r.feed

Rest(r) ==
    CASE r.step = "request" -> Left[r.attempt] - Slow + FeedsAfter(r) * Left[1] + Staging
      [] r.step = "backoff" -> Left[r.attempt] + FeedsAfter(r) * Left[1] + Staging
      [] OTHER -> 0

SmoothRest(r) == IF r.step = "request" THEN FeedsAfter(r) * Slow + Staging ELSE 0

\* A cycle under way will take no longer than the longest one, nor, as long as
\* nothing went wrong in its round (f faults), than the longest without a fault.
OnSchedule(r, f) ==
    /\ r.began \in Nat
    /\ r.step \in {"request", "backoff"} => r.delay = Pause[r.attempt]
    /\ r.until + Rest(r) <= r.began + LongestCycle
    /\ f = 0 => /\ r.step # "backoff" /\ r.attempt = 1 /\ r.usable
                /\ r.until + SmoothRest(r) <= r.began + SmoothCycle

CycleInv(r, f, at) == r.step \in Going => at <= r.until /\ OnSchedule(r, f)

LEMMA LeftAtLeast ==
    ASSUME Timetable, NEW a \in 1 .. MaxAttempts
    PROVE  Left[a] \in Nat /\ Slow <= Left[a] /\ Slow \in Nat /\ Staging \in Nat
<1>1. Left[a] \in Nat /\ Slow \in Nat /\ Staging \in Nat /\ MaxAttempts \in Nat \ {0}
  BY ServiceAssumption DEF Timetable
<1>2. CASE a = MaxAttempts
  BY <1>1, <1>2 DEF Timetable
<1>3. CASE a # MaxAttempts
  <2>1. a \in 1 .. (MaxAttempts - 1) /\ a + 1 \in 1 .. MaxAttempts
    BY <1>1, <1>3
  <2>2. Left[a] = Slow + Pause[a] + Left[a + 1] /\ Pause[a] \in Nat /\ Left[a + 1] \in Nat
    BY <2>1 DEF Timetable
  <2>3. QED
    BY <1>1, <2>2
<1>4. QED
  BY <1>2, <1>3

LEMMA Policy ==
    ASSUME Timetable
    PROVE  /\ Slow \in Nat /\ Staging \in Nat /\ Left[1] \in Nat /\ Slow <= Left[1]
           /\ Pause[1] = Backoff
           /\ \A a \in 1 .. MaxAttempts : Left[a] \in Nat /\ Slow <= Left[a] /\ Pause[a] \in Nat
           /\ \A a \in 1 .. (MaxAttempts - 1) :
                /\ Pause[a + 1] = Pause[a] * Multiplier
                /\ Left[a] = Slow + Pause[a] + Left[a + 1]
<1>1. 1 \in 1 .. MaxAttempts /\ Slow \in Nat /\ Staging \in Nat
  BY ServiceAssumption
<1>2. \A a \in 1 .. MaxAttempts : Left[a] \in Nat /\ Slow <= Left[a]
  BY LeftAtLeast
<1>3. \A a \in 1 .. MaxAttempts : Pause[a] \in Nat
  BY DEF Timetable
<1>4. /\ Pause[1] = Backoff
      /\ \A a \in 1 .. (MaxAttempts - 1) :
           /\ Pause[a + 1] = Pause[a] * Multiplier
           /\ Left[a] = Slow + Pause[a] + Left[a + 1]
  BY DEF Timetable
<1>5. QED
  BY <1>1, <1>2, <1>3, <1>4

\* Products: what the remaining feeds take, one feed at a time.
LEMMA FeedsTake ==
    ASSUME NEW f \in 1 .. Feeds, NEW w \in Nat
    PROVE  /\ (Feeds - f) * w \in Nat /\ Feeds * w \in Nat
           /\ f < Feeds => (Feeds - f) * w = w + (Feeds - (f + 1)) * w
           /\ f = Feeds => (Feeds - f) * w = 0
           /\ Feeds * w = w + (Feeds - 1) * w
<1>1. Feeds \in Nat /\ f \in Nat /\ f <= Feeds
  BY ServiceAssumption
<1>2. Feeds - f \in Nat /\ Feeds - 1 \in Nat
  BY <1>1, ServiceAssumption
<1>3. \A m \in Nat : m * w \in Nat /\ (m + 1) * w = w + m * w
  OBVIOUS
<1>4. Feeds * w = w + (Feeds - 1) * w
  <2>1. Feeds = (Feeds - 1) + 1
    BY <1>1
  <2>2. QED
    BY <1>2, <1>3, <2>1
<1>5. ASSUME f < Feeds PROVE (Feeds - f) * w = w + (Feeds - (f + 1)) * w
  <2>1. Feeds - (f + 1) \in Nat /\ Feeds - f = (Feeds - (f + 1)) + 1
    BY <1>1, <1>5
  <2>2. QED
    BY <1>3, <2>1
<1>6. f = Feeds => (Feeds - f) * w = 0
  <2>1. 0 * w = 0
    OBVIOUS
  <2>2. f = Feeds => Feeds - f = 0
    BY <1>1
  <2>3. QED
    BY <2>1, <2>2
<1>7. (Feeds - f) * w \in Nat /\ Feeds * w \in Nat
  BY <1>1, <1>2, <1>3
<1>8. QED
  BY <1>4, <1>5, <1>6, <1>7

\* The sums above are of natural numbers.
LEMMA RestIsNatural ==
    ASSUME Timetable, NEW r \in CycleState
    PROVE  /\ Rest(r) \in Nat /\ SmoothRest(r) \in Nat
           /\ LongestCycle \in Nat /\ SmoothCycle \in Nat
<1>1. /\ Left[1] \in Nat /\ Left[r.attempt] \in Nat /\ Slow <= Left[r.attempt]
      /\ Slow \in Nat /\ Staging \in Nat
  BY LeftAtLeast, CycleFields, ServiceAssumption
<1>2. /\ FeedsAfter(r) * Left[1] \in Nat /\ FeedsAfter(r) * Slow \in Nat
      /\ Feeds * Left[1] \in Nat /\ Feeds * Slow \in Nat
  BY <1>1, FeedsTake, CycleFields DEF FeedsAfter
<1>3. Left[r.attempt] - Slow \in Nat
  BY <1>1
<1>4. SmoothRest(r) \in Nat /\ LongestCycle \in Nat /\ SmoothCycle \in Nat
  BY <1>1, <1>2 DEF SmoothRest, LongestCycle, SmoothCycle
<1>5. Rest(r) \in Nat
  BY <1>1, <1>2, <1>3 DEF Rest
<1>6. QED
  BY <1>4, <1>5

\* A cycle that begins now is on schedule.
LEMMA BeginsOnSchedule ==
    ASSUME Timetable, NEW at \in Nat, NEW r \in CycleState, NEW d \in {0, Slow}, NEW f,
           r.step = "request", r.began = at, r.until = at + d, r.feed = 1, r.attempt = 1,
           r.delay = Backoff, r.usable
    PROVE  CycleInv(r, f, at)
<1>1. Left[1] \in Nat /\ Slow \in Nat /\ Staging \in Nat /\ d \in Nat /\ d <= Slow
      /\ Pause[1] = Backoff
  BY Policy, CycleFields, ServiceAssumption
<1> DEFINE L == (Feeds - 1) * Left[1]
           S == (Feeds - 1) * Slow
<1>2. /\ L \in Nat /\ S \in Nat
      /\ Feeds * Left[1] = Left[1] + L /\ Feeds * Slow = Slow + S
  BY <1>1, FeedsTake, ServiceAssumption
<1>3. Rest(r) = Left[1] - Slow + L + Staging /\ SmoothRest(r) = S + Staging
  BY DEF Rest, SmoothRest, FeedsAfter
<1>4. LongestCycle = Left[1] + L + Staging /\ SmoothCycle = Slow + S + Staging
  BY <1>2 DEF LongestCycle, SmoothCycle
<1> HIDE DEF L, S
<1>5. QED
  BY <1>1, <1>2, <1>3, <1>4 DEF CycleInv, OnSchedule

\* The four ways on: to the next feed, to staging, to a pause, to the next attempt.
LEMMA NextFeedOnSchedule ==
    ASSUME Timetable, NEW at \in Nat, NEW old \in CycleState, NEW r \in CycleState,
           NEW d \in {0, Slow}, NEW f, NEW g, CycleInv(old, f, at), g = 0 => f = 0 /\ r.usable,
           old.step = "request", at = old.until, old.feed < Feeds,
           r.step = "request", r.began = old.began, r.until = at + d, r.feed = old.feed + 1,
           r.attempt = 1, r.delay = Backoff
    PROVE  CycleInv(r, g, at)
<1>1. /\ Left[1] \in Nat /\ Slow \in Nat /\ Staging \in Nat /\ d \in Nat /\ d <= Slow
      /\ Left[old.attempt] \in Nat /\ Slow <= Left[old.attempt] /\ Slow <= Left[1]
      /\ Pause[1] = Backoff
  BY Policy, CycleFields, ServiceAssumption
<1> DEFINE L == (Feeds - (old.feed + 1)) * Left[1]
           S == (Feeds - (old.feed + 1)) * Slow
<1>2. /\ L \in Nat /\ S \in Nat
      /\ FeedsAfter(old) * Left[1] = Left[1] + L /\ FeedsAfter(old) * Slow = Slow + S
  <2>1. old.feed \in 1 .. Feeds /\ old.feed + 1 \in 1 .. Feeds
    BY CycleFields, ServiceAssumption
  <2>2. L \in Nat /\ S \in Nat
    BY <1>1, <2>1, FeedsTake
  <2>3. QED
    BY <1>1, <2>1, <2>2, FeedsTake DEF FeedsAfter
<1>3. /\ Rest(r) = Left[1] - Slow + L + Staging /\ SmoothRest(r) = S + Staging
      /\ Rest(old) = Left[old.attempt] - Slow + FeedsAfter(old) * Left[1] + Staging
      /\ SmoothRest(old) = FeedsAfter(old) * Slow + Staging
  BY DEF Rest, SmoothRest, FeedsAfter
<1>4. OnSchedule(old, f) /\ LongestCycle \in Nat /\ SmoothCycle \in Nat
  BY RestIsNatural DEF CycleInv, Going
<1> HIDE DEF L, S
<1>5. QED
  BY <1>1, <1>2, <1>3, <1>4 DEF CycleInv, OnSchedule

LEMMA StagesOnSchedule ==
    ASSUME Timetable, NEW at \in Nat, NEW old \in CycleState, NEW r \in CycleState,
           NEW d \in {0, Staging}, NEW f, NEW g, CycleInv(old, f, at), g = 0 => f = 0 /\ r.usable,
           old.step = "request", at = old.until, old.feed = Feeds,
           r.step = "stage", r.began = old.began, r.until = at + d, r.attempt = 1
    PROVE  CycleInv(r, g, at)
<1>1. /\ Left[1] \in Nat /\ Slow \in Nat /\ Staging \in Nat /\ d \in Nat /\ d <= Staging
      /\ Left[old.attempt] \in Nat /\ Slow <= Left[old.attempt]
  BY Policy, CycleFields, ServiceAssumption
<1>2. FeedsAfter(old) * Left[1] = 0 /\ FeedsAfter(old) * Slow = 0
  BY <1>1, FeedsTake, CycleFields, ServiceAssumption DEF FeedsAfter
<1>3. /\ Rest(r) = 0 /\ SmoothRest(r) = 0
      /\ Rest(old) = Left[old.attempt] - Slow + Staging /\ SmoothRest(old) = Staging
  BY <1>1, <1>2 DEF Rest, SmoothRest
<1>4. OnSchedule(old, f) /\ LongestCycle \in Nat /\ SmoothCycle \in Nat
  BY RestIsNatural DEF CycleInv, Going
<1>5. QED
  BY <1>1, <1>3, <1>4 DEF CycleInv, OnSchedule

LEMMA PausesOnSchedule ==
    ASSUME Timetable, NEW at \in Nat, NEW old \in CycleState, NEW r \in CycleState,
           NEW f, NEW g, CycleInv(old, f, at), g # 0,
           old.step = "request", at = old.until, old.attempt < MaxAttempts,
           r.step = "backoff", r.began = old.began, r.until = at + old.delay,
           r.feed = old.feed, r.attempt = old.attempt + 1, r.delay = old.delay * Multiplier
    PROVE  CycleInv(r, g, at)
<1>1. old.attempt \in 1 .. (MaxAttempts - 1) /\ MaxAttempts \in Nat
  BY CycleFields, ServiceAssumption
<1>2. /\ Pause[r.attempt] = Pause[old.attempt] * Multiplier
      /\ Left[old.attempt] = Slow + Pause[old.attempt] + Left[r.attempt]
      /\ Pause[old.attempt] \in Nat
  BY <1>1, CycleFields, Policy
<1>3. /\ Left[1] \in Nat /\ Slow \in Nat /\ Staging \in Nat
      /\ Left[old.attempt] \in Nat /\ Left[r.attempt] \in Nat
  BY Policy, CycleFields, ServiceAssumption
<1>4. FeedsAfter(old) * Left[1] \in Nat /\ FeedsAfter(r) = FeedsAfter(old)
  BY <1>3, FeedsTake, CycleFields DEF FeedsAfter
<1>5. /\ Rest(r) = Left[r.attempt] + FeedsAfter(old) * Left[1] + Staging
      /\ Rest(old) = Left[old.attempt] - Slow + FeedsAfter(old) * Left[1] + Staging
  BY <1>4 DEF Rest
<1>6. OnSchedule(old, f) /\ LongestCycle \in Nat /\ old.delay = Pause[old.attempt]
  BY RestIsNatural DEF CycleInv, Going, OnSchedule
<1>7. r.delay = Pause[r.attempt]
  BY <1>2, <1>6
<1> DEFINE F == FeedsAfter(old) * Left[1]
<1>8. F \in Nat /\ Rest(r) = Left[r.attempt] + F + Staging
                /\ Rest(old) = Left[old.attempt] - Slow + F + Staging
  BY <1>4, <1>5
<1> HIDE DEF F
<1>9. QED
  BY <1>2, <1>3, <1>6, <1>7, <1>8 DEF CycleInv, OnSchedule

LEMMA RetriesOnSchedule ==
    ASSUME Timetable, NEW at \in Nat, NEW old \in CycleState, NEW r \in CycleState,
           NEW d \in {0, Slow}, NEW f, NEW g, CycleInv(old, f, at), g = 0 => f = 0,
           old.step = "backoff", at = old.until,
           r.step = "request", r.began = old.began, r.until = at + d,
           r.feed = old.feed, r.attempt = old.attempt, r.delay = old.delay
    PROVE  CycleInv(r, g, at)
<1>1. /\ Left[1] \in Nat /\ Slow \in Nat /\ Staging \in Nat /\ d \in Nat /\ d <= Slow
      /\ Left[old.attempt] \in Nat
  BY Policy, CycleFields, ServiceAssumption
<1>2. FeedsAfter(old) * Left[1] \in Nat /\ FeedsAfter(r) = FeedsAfter(old)
  BY <1>1, FeedsTake, CycleFields DEF FeedsAfter
<1> DEFINE F == FeedsAfter(old) * Left[1]
<1>3. F \in Nat /\ Rest(r) = Left[old.attempt] - Slow + F + Staging
                /\ Rest(old) = Left[old.attempt] + F + Staging
  BY <1>2 DEF Rest
<1>4. OnSchedule(old, f) /\ LongestCycle \in Nat
  BY RestIsNatural DEF CycleInv, Going
<1> HIDE DEF F
<1>5. QED
  BY <1>1, <1>3, <1>4 DEF CycleInv, OnSchedule

-----------------------------------------------------------------------------
(***************************************************************************)
(* A cycle's step: it goes on, or it ends.                                  *)
(***************************************************************************)
Goes(c, r) ==
    /\ cycle' = [cycle EXCEPT ![c] = r]
    /\ r \in CycleState
    /\ cycle[c].step \in Going /\ r.step \in Going
    /\ r.began = cycle[c].began /\ r.open = cycle[c].open
    /\ now = cycle[c].until
    /\ UNCHANGED faults \/ Fault(c[1])
    /\ ~ r.usable => ~ cycle[c].usable \/ Fault(c[1])
    /\ UNCHANGED <<now, driver, retryAt, loopVars, last, kills>>

Ends(c, how) ==
    /\ End(c, how) /\ how \in {"staged", "failed", "raised"}
    /\ cycle[c].step \in Going
    /\ now = cycle[c].until
    /\ UNCHANGED faults \/ Fault(c[1])
    /\ how # "staged" => ~ cycle[c].usable \/ Fault(c[1])
    /\ UNCHANGED <<now, driver, last, kills>>

\* The parts of the type invariant a cycle's step needs.
LEMMA TypeOfCycles ==
    TypeOK <=> /\ now \in Nat /\ driver \in Drivers /\ cycle \in [Cycles -> CycleState]
               /\ retryAt \in [Rounds -> Nat \cup {Never}]
               /\ loop \in [Loops -> {"off", "lock", "running", "asleep"}]
               /\ loopStarted \in [Loops -> Nat] /\ wakeAt \in [Loops -> Nat]
               /\ round \in [Loops -> Rounds \cup {Never}]
               /\ holder \in Loops \cup {Nobody} /\ pace \in [Loops -> Pace]
               /\ last \in Nat \cup {Never}
               /\ faults \in [Rounds -> 0 .. 2] /\ kills \in 0 .. MaxKill
BY DEF TypeOK, CycleState, Pace

LEMMA AtIsDue ==
    ASSUME TypeOK, NEW c \in Cycles, NEW s \in Going, At(c, s)
    PROVE  c \in Working /\ cycle[c].step = s /\ now = cycle[c].until
BY TypeOfCycles DEF At, Working, Going

\* After a fault its round has one.
LEMMA FaultCounts ==
    ASSUME TypeOK, NEW k \in Rounds, Fault(k)
    PROVE  /\ faults' \in [Rounds -> 0 .. 2]
           /\ faults'[k] > 0 /\ (faults[k] > 0 => faults'[k] > 1)
           /\ \A j \in Rounds : j # k => faults'[j] = faults[j]
BY TypeOfCycles DEF Fault

LEMMA FaultsOnlyGrow ==
    ASSUME TypeOK, NEW c \in Cycles, UNCHANGED faults \/ Fault(c[1])
    PROVE  /\ faults' \in [Rounds -> 0 .. 2]
           /\ \A k \in Rounds : faults[k] <= faults'[k]
           /\ \A k \in Rounds : k # c[1] => faults'[k] = faults[k]
<1>1. c[1] \in Rounds /\ faults \in [Rounds -> 0 .. 2]
  BY Cast, TypeOfCycles
<1>2. CASE UNCHANGED faults
  BY <1>1, <1>2
<1>3. CASE Fault(c[1])
  BY <1>1, <1>3 DEF Fault
<1>4. QED
  BY <1>2, <1>3

\* On schedule at the end of a step of c.
GoesInTime(c, r) ==
    Timetable /\ CycleInv(cycle[c], faults[c[1]], now) => CycleInv(r, faults'[c[1]], now)

LEMMA FetchedGoesOrEnds ==
    ASSUME TypeOK, NEW c \in Cycles, Fetched(c)
    PROVE  (\E r : Goes(c, r) /\ GoesInTime(c, r)) \/ (\E how : Ends(c, how))
<1> DEFINE old == cycle[c]
<1>1. /\ old \in CycleState /\ now \in Nat /\ now = old.until /\ old.step = "request"
      /\ c[1] \in Rounds /\ faults \in [Rounds -> 0 .. 2] /\ cycle \in [Cycles -> CycleState]
  BY TypeOfCycles, AtIsDue, Cast DEF Fetched, Going
<1>2. PICK usable \in BOOLEAN :
         LET r == [old EXCEPT !.usable = @ /\ usable, !.attempt = 1, !.delay = Backoff]
         IN  /\ IF usable THEN UNCHANGED faults ELSE Fault(c[1])
             /\ \/ /\ r.feed < Feeds /\ (r.feed = 1 => r.usable)
                   /\ \E q \in Request([r EXCEPT !.feed = @ + 1]) :
                        cycle' = [cycle EXCEPT ![c] = q]
                   /\ UNCHANGED <<retryAt, loopVars>>
                \/ /\ r.feed = Feeds /\ r.usable
                   /\ \E d \in {0, Staging} :
                        cycle' = [cycle EXCEPT ![c] =
                                    [r EXCEPT !.step = "stage", !.until = now + d]]
                   /\ UNCHANGED <<retryAt, loopVars>>
                \/ /\ r.feed \in {1, Feeds} /\ ~ r.usable
                   /\ End(c, "failed")
  BY DEF Fetched
<1> DEFINE r == [old EXCEPT !.usable = @ /\ usable, !.attempt = 1, !.delay = Backoff]
<1>3. UNCHANGED <<now, driver, last, kills>>
  BY DEF Fetched
<1>4. UNCHANGED faults \/ Fault(c[1])
  BY <1>2
<1>5. /\ r \in CycleState /\ r.step = "request" /\ r.began = old.began /\ r.open = old.open
      /\ r.feed = old.feed /\ r.attempt = 1 /\ r.delay = Backoff
      /\ r.usable = (old.usable /\ usable)
  <2>1. 1 \in 1 .. MaxAttempts /\ Backoff \in Nat /\ (old.usable /\ usable) \in BOOLEAN
    BY ServiceAssumption
  <2> HIDE DEF old
  <2>2. QED
    BY <1>1, <2>1 DEF CycleState
<1>6. ~ r.usable => ~ old.usable \/ Fault(c[1])
  BY <1>2, <1>5
<1>7. faults'[c[1]] = 0 => faults[c[1]] = 0 /\ (old.usable => r.usable)
  <2>1. CASE usable
    BY <1>2, <1>5, <2>1
  <2>2. CASE ~ usable
    BY <1>1, <1>2, <2>2, FaultCounts
  <2>3. QED
    BY <2>1, <2>2
<1>8. CycleInv(old, faults[c[1]], now) /\ faults'[c[1]] = 0 => r.usable
  BY <1>1, <1>7 DEF CycleInv, OnSchedule, Going
<1>9. /\ r.feed \in 1 .. Feeds /\ Slow \in Nat /\ Staging \in Nat /\ Feeds \in Nat
      /\ r.until \in Nat
  BY <1>5, CycleFields, ServiceAssumption
<1> HIDE DEF old
<1>10. CASE /\ r.feed < Feeds /\ (r.feed = 1 => r.usable)
            /\ \E q \in Request([r EXCEPT !.feed = @ + 1]) : cycle' = [cycle EXCEPT ![c] = q]
            /\ UNCHANGED <<retryAt, loopVars>>
  <2> HIDE DEF r
  <2>1. PICK d \in {0, Slow} :
           cycle' = [cycle EXCEPT ![c] = [[r EXCEPT !.feed = @ + 1] EXCEPT !.step = "request",
                                                                          !.until = now + d]]
    BY <1>10 DEF Request
  <2> DEFINE q == [[r EXCEPT !.feed = @ + 1] EXCEPT !.step = "request", !.until = now + d]
  <2>2. r.feed + 1 \in 1 .. Feeds /\ now + d \in Nat
    BY <1>1, <1>9, <1>10
  <2>3. /\ q \in CycleState /\ q.step = "request" /\ q.began = r.began /\ q.open = r.open
        /\ q.feed = r.feed + 1 /\ q.attempt = r.attempt /\ q.delay = r.delay
        /\ q.usable = r.usable /\ q.until = now + d
    BY <1>5, <2>2 DEF CycleState
  <2> HIDE DEF q
  <2>4. GoesInTime(c, q)
    <3>1. SUFFICES ASSUME Timetable, CycleInv(old, faults[c[1]], now)
                   PROVE  CycleInv(q, faults'[c[1]], now)
      BY DEF GoesInTime, old
    <3>2. faults'[c[1]] = 0 => faults[c[1]] = 0 /\ q.usable
      BY <1>7, <1>8, <2>3, <3>1
    <3>3. QED
      BY <1>1, <1>5, <1>10, <2>3, <3>1, <3>2, NextFeedOnSchedule
  <2>5. Goes(c, q)
    BY <1>1, <1>3, <1>4, <1>5, <1>6, <1>10, <2>1, <2>3 DEF Goes, Going, old, q
  <2>6. QED
    BY <2>4, <2>5
<1>11. CASE /\ r.feed = Feeds /\ r.usable
            /\ \E d \in {0, Staging} :
                 cycle' = [cycle EXCEPT ![c] = [r EXCEPT !.step = "stage", !.until = now + d]]
            /\ UNCHANGED <<retryAt, loopVars>>
  <2> HIDE DEF r
  <2>1. PICK d \in {0, Staging} :
           cycle' = [cycle EXCEPT ![c] = [r EXCEPT !.step = "stage", !.until = now + d]]
    BY <1>11
  <2> DEFINE q == [r EXCEPT !.step = "stage", !.until = now + d]
  <2>2. now + d \in Nat
    BY <1>1, <1>9
  <2>3. /\ q \in CycleState /\ q.step = "stage" /\ q.began = r.began /\ q.open = r.open
        /\ q.attempt = r.attempt /\ q.usable = r.usable /\ q.until = now + d
    BY <1>5, <2>2 DEF CycleState
  <2> HIDE DEF q
  <2>4. GoesInTime(c, q)
    <3>1. SUFFICES ASSUME Timetable, CycleInv(old, faults[c[1]], now)
                   PROVE  CycleInv(q, faults'[c[1]], now)
      BY DEF GoesInTime, old
    <3>2. faults'[c[1]] = 0 => faults[c[1]] = 0 /\ q.usable
      BY <1>7, <1>8, <2>3, <3>1
    <3>3. /\ old \in CycleState /\ old.step = "request" /\ old.feed = Feeds
          /\ q.step = "stage" /\ q.began = old.began /\ q.attempt = 1
      BY <1>1, <1>5, <1>11, <2>3
    <3>4. QED
      BY <1>1, <2>3, <3>1, <3>2, <3>3, StagesOnSchedule
  <2>5. Goes(c, q)
    BY <1>1, <1>3, <1>4, <1>5, <1>6, <1>11, <2>1, <2>3 DEF Goes, Going, old, q
  <2>6. QED
    BY <2>4, <2>5
<1>12. CASE r.feed \in {1, Feeds} /\ ~ r.usable /\ End(c, "failed")
  BY <1>1, <1>3, <1>4, <1>6, <1>12 DEF Ends, Going, old
<1>13. QED
  BY <1>2, <1>10, <1>11, <1>12 DEF old

LEMMA FetchErrorGoesOrEnds ==
    ASSUME TypeOK, NEW c \in Cycles, FetchError(c)
    PROVE  (\E r : Goes(c, r) /\ GoesInTime(c, r)) \/ (\E how : Ends(c, how))
<1> DEFINE old == cycle[c]
<1>1. /\ old \in CycleState /\ now \in Nat /\ now = old.until /\ old.step = "request"
      /\ c[1] \in Rounds /\ cycle \in [Cycles -> CycleState]
  BY TypeOfCycles, AtIsDue, Cast DEF FetchError, Going
<1>2. Fault(c[1]) /\ UNCHANGED <<now, driver, last, kills>>
  BY DEF FetchError
<1>3. faults'[c[1]] # 0
  BY <1>1, <1>2, FaultCounts
<1>4. CASE old.attempt = MaxAttempts /\ End(c, "failed")
  BY <1>1, <1>2, <1>4 DEF Ends, Going
<1>5. CASE /\ old.attempt < MaxAttempts
           /\ cycle' = [cycle EXCEPT ![c] =
                          [@ EXCEPT !.step    = "backoff",
                                    !.attempt = cycle[c].attempt + 1,
                                    !.until   = now + cycle[c].delay,
                                    !.delay   = cycle[c].delay * Multiplier]]
           /\ UNCHANGED <<retryAt, loopVars>>
  <2> DEFINE q == [old EXCEPT !.step = "backoff", !.attempt = old.attempt + 1,
                              !.until = now + old.delay, !.delay = old.delay * Multiplier]
  <2>1. cycle' = [cycle EXCEPT ![c] = q]
    BY <1>5
  <2> HIDE DEF old
  <2>2. /\ old.attempt + 1 \in 1 .. MaxAttempts /\ now + old.delay \in Nat
        /\ old.delay * Multiplier \in Nat
    <3>1. old.attempt \in 1 .. MaxAttempts /\ old.delay \in Nat /\ old.attempt < MaxAttempts
      BY <1>1, <1>5, CycleFields DEF old
    <3>2. MaxAttempts \in Nat /\ Multiplier \in Nat
      BY ServiceAssumption
    <3>3. QED
      BY <1>1, <3>1, <3>2
  <2>3. /\ q \in CycleState /\ q.step = "backoff" /\ q.began = old.began /\ q.open = old.open
        /\ q.feed = old.feed /\ q.attempt = old.attempt + 1
        /\ q.until = now + old.delay /\ q.delay = old.delay * Multiplier
    BY <1>1, <2>2 DEF CycleState
  <2> HIDE DEF q
  <2>4. GoesInTime(c, q)
    <3>1. SUFFICES ASSUME Timetable, CycleInv(old, faults[c[1]], now)
                   PROVE  CycleInv(q, faults'[c[1]], now)
      BY DEF GoesInTime, old
    <3>2. old.attempt < MaxAttempts
      BY <1>5 DEF old
    <3>3. QED
      BY <1>1, <1>3, <2>3, <3>1, <3>2, PausesOnSchedule
  <2>5. Goes(c, q)
    BY <1>1, <1>2, <1>5, <2>1, <2>3 DEF Goes, Going, old
  <2>6. QED
    BY <2>4, <2>5
<1>6. QED
  BY <1>4, <1>5 DEF FetchError

LEMMA RepeatGoes ==
    ASSUME TypeOK, NEW c \in Cycles, Retry(c)
    PROVE  \E r : Goes(c, r) /\ GoesInTime(c, r)
<1> DEFINE old == cycle[c]
<1>1. /\ old \in CycleState /\ now \in Nat /\ now = old.until /\ old.step = "backoff"
      /\ cycle \in [Cycles -> CycleState]
  BY TypeOfCycles, AtIsDue DEF Retry, Going
<1>2. UNCHANGED <<now, driver, retryAt, loopVars, last, faults, kills>>
  BY DEF Retry
<1>3. PICK d \in {0, Slow} :
         cycle' = [cycle EXCEPT ![c] = [old EXCEPT !.step = "request", !.until = now + d]]
  BY DEF Retry, Request
<1> DEFINE q == [old EXCEPT !.step = "request", !.until = now + d]
<1> HIDE DEF old
<1>4. /\ q \in CycleState /\ q.step = "request" /\ q.began = old.began /\ q.open = old.open
      /\ q.feed = old.feed /\ q.attempt = old.attempt /\ q.delay = old.delay
      /\ q.until = now + d /\ q.usable = old.usable
  <2>1. now + d \in Nat
    BY <1>1, ServiceAssumption
  <2>2. QED
    BY <1>1, <2>1 DEF CycleState
<1> HIDE DEF q
<1>5. GoesInTime(c, q)
  <2>1. SUFFICES ASSUME Timetable, CycleInv(old, faults[c[1]], now)
                 PROVE  CycleInv(q, faults'[c[1]], now)
    BY DEF GoesInTime, old
  <2>2. faults'[c[1]] = 0 => faults[c[1]] = 0
    BY <1>2
  <2>3. QED
    BY <1>1, <1>4, <2>1, <2>2, RetriesOnSchedule
<1>6. Goes(c, q)
  BY <1>1, <1>2, <1>3, <1>4 DEF Goes, Going, old, q
<1>7. QED
  BY <1>5, <1>6

LEMMA AdvanceGoesOrEnds ==
    ASSUME TypeOK, NEW c \in Cycles, Advance(c)
    PROVE  (\E r : Goes(c, r) /\ GoesInTime(c, r)) \/ (\E how : Ends(c, how))
<1>1. CASE Fetched(c)
  BY <1>1, FetchedGoesOrEnds
<1>2. CASE FetchError(c)
  BY <1>2, FetchErrorGoesOrEnds
<1>3. CASE ReadError(c)
  <2>1. cycle[c].step = "request" /\ now = cycle[c].until
    BY <1>3, AtIsDue DEF ReadError, Going
  <2>2. QED
    BY <1>3, <2>1 DEF ReadError, Ends, Going
<1>4. CASE Retry(c)
  BY <1>4, RepeatGoes
<1>5. CASE StageDone(c)
  <2>1. cycle[c].step = "stage" /\ now = cycle[c].until
    BY <1>5, AtIsDue DEF StageDone, Going
  <2>2. QED
    BY <1>5, <2>1 DEF StageDone, Ends, Going
<1>6. CASE StageError(c)
  <2>1. cycle[c].step = "stage" /\ now = cycle[c].until
    BY <1>6, AtIsDue DEF StageError, Going
  <2>2. QED
    BY <1>6, <2>1 DEF StageError, Ends, Going
<1>7. QED
  BY <1>1, <1>2, <1>3, <1>4, <1>5, <1>6 DEF Advance

\* A beginning: the cycle was idle, and is on schedule.
Begun(c, r) ==
    /\ cycle' = [cycle EXCEPT ![c] = r]
    /\ cycle[c].step = "idle"
    /\ r \in CycleState
    /\ r.step = "request" /\ r.began = now /\ r.open = (c \in Calls) /\ r.usable
    /\ Timetable => \A f : CycleInv(r, f, now)

LEMMA BeginBegins ==
    ASSUME TypeOK, NEW c \in Cycles, Begin(c)
    PROVE  \E r : Begun(c, r)
<1> DEFINE b == [IdleCycle EXCEPT !.began = now, !.open = c \in Calls]
<1>1. cycle[c].step = "idle" /\ now \in Nat /\ (c \in Calls) \in BOOLEAN
  BY TypeOfCycles DEF Begin
<1>2. PICK d \in {0, Slow} :
         cycle' = [cycle EXCEPT ![c] = [b EXCEPT !.step = "request", !.until = now + d]]
  BY DEF Begin, Request
<1>3. /\ b \in CycleState /\ b.began = now /\ b.open = (c \in Calls)
      /\ b.feed = 1 /\ b.attempt = 1 /\ b.delay = Backoff /\ b.usable
  <2>1. b \in CycleState
    BY <1>1, IdleIsACycle DEF CycleState
  <2>2. QED
    BY <2>1 DEF IdleCycle
<1> HIDE DEF b
<1> DEFINE q == [b EXCEPT !.step = "request", !.until = now + d]
<1>4. /\ q \in CycleState /\ q.step = "request" /\ q.began = now /\ q.open = (c \in Calls)
      /\ q.feed = 1 /\ q.attempt = 1 /\ q.delay = Backoff /\ q.usable /\ q.until = now + d
  <2>1. now + d \in Nat
    BY <1>1, ServiceAssumption
  <2>2. q \in CycleState
    BY <1>3, <2>1 DEF CycleState
  <2>3. QED
    BY <1>3, <2>2 DEF CycleState
<1> HIDE DEF q
<1>5. Timetable => \A f : CycleInv(q, f, now)
  BY <1>1, <1>4, BeginsOnSchedule
<1>6. QED
  BY <1>1, <1>2, <1>4, <1>5 DEF Begun, q

-----------------------------------------------------------------------------

(***************************************************************************)
(* Type correctness.  A loop that has the lock has a round left.            *)
(***************************************************************************)
Locked == \A p \in Loops : loop[p] = "lock" => round[p] < MaxRound

LEMMA NextTypeOfCycles ==
    TypeOK' <=> /\ now' \in Nat /\ driver' \in Drivers /\ cycle' \in [Cycles -> CycleState]
                /\ retryAt' \in [Rounds -> Nat \cup {Never}]
                /\ loop' \in [Loops -> {"off", "lock", "running", "asleep"}]
                /\ loopStarted' \in [Loops -> Nat] /\ wakeAt' \in [Loops -> Nat]
                /\ round' \in [Loops -> Rounds \cup {Never}]
                /\ holder' \in Loops \cup {Nobody} /\ pace' \in [Loops -> Pace]
                /\ last' \in Nat \cup {Never}
                /\ faults' \in [Rounds -> 0 .. 2] /\ kills' \in 0 .. MaxKill
BY DEF TypeOK, CycleState, Pace

LEMMA TypeInit == Init => TypeOK /\ Locked
<1> SUFFICES ASSUME Init PROVE TypeOK /\ Locked
  OBVIOUS
<1>1. TypeOK
  <2>1. pace \in [Loops -> Pace]
    BY ServiceAssumption DEF Init, Pace, Rounds
  <2>2. QED
    BY <2>1, ServiceAssumption, IdleIsACycle, TypeOfCycles DEF Init, Drivers
<1>2. Locked
  BY DEF Init, Locked
<1>3. QED
  BY <1>1, <1>2

\* How a cycle that ends leaves its caller.
LEMMA EndLeaves ==
    ASSUME TypeOK, NEW c \in Cycles, NEW how, Ends(c, how)
    PROVE  /\ \E r \in CycleState :
                /\ cycle' = [cycle EXCEPT ![c] = r]
                /\ r.step = (IF how = "staged" THEN "staged" ELSE "failed") /\ ~ r.open
           /\ c \in Calls => IF c \in Open /\ how # "staged" THEN Repeat(c) ELSE UNCHANGED retryAt
           /\ c \in Calls => UNCHANGED loopVars
           /\ c \notin Calls =>
                /\ IF how = "raised" THEN loop' = [loop EXCEPT ![c[2]] = "off"] /\ UNCHANGED wakeAt
                                     ELSE Sleep(c[2])
                /\ Overrun(c[2])
                /\ UNCHANGED <<retryAt, loopStarted, round, holder>>
<1>1. \E r \in CycleState :
         /\ cycle' = [cycle EXCEPT ![c] = r]
         /\ r.step = (IF how = "staged" THEN "staged" ELSE "failed") /\ ~ r.open
  <2> DEFINE s == IF how = "staged" THEN "staged" ELSE "failed"
             r == [IdleCycle EXCEPT !.step = s]
  <2>1. cycle' = [cycle EXCEPT ![c] = r]
    BY DEF Ends, End
  <2>2. s \in {"staged", "failed"}
    OBVIOUS
  <2> HIDE DEF s
  <2>3. r \in CycleState /\ r.step = s /\ ~ r.open
    BY <2>2, IdleIsACycle
  <2> HIDE DEF r
  <2>4. QED
    BY <2>1, <2>3 DEF s
<1>2. CASE c \in Calls
  BY <1>1, <1>2 DEF Ends, End, Answer
<1>3. CASE c \notin Calls
  BY <1>1, <1>3 DEF Ends, End
<1>4. QED
  BY <1>2, <1>3

LEMMA RepeatsAre ==
    ASSUME TypeOK, NEW c \in Cycles, Repeat(c)
    PROVE  /\ retryAt' \in [Rounds -> Nat \cup {Never}]
           /\ \A k \in Rounds :
                retryAt'[k] = IF c = <<k, "call">> THEN now + RetryAfter ELSE retryAt[k]
<1>1. c[1] \in Rounds /\ c = <<c[1], c[2]>>
  BY Cast
<1>2. retryAt \in [Rounds -> Nat \cup {Never}] /\ now + RetryAfter \in Nat
  BY TypeOfCycles, ServiceAssumption
<1>3. \A k \in Rounds : c = <<k, "call">> <=> k = c[1] /\ c[2] = "call"
  BY <1>1
<1>4. QED
  BY <1>1, <1>2, <1>3 DEF Repeat

LEMMA SleepsAre ==
    ASSUME TypeOK, NEW p \in Loops, Sleep(p)
    PROVE  /\ loop' = [loop EXCEPT ![p] = "asleep"]
           /\ wakeAt' \in [Loops -> Nat]
           /\ now <= wakeAt'[p] /\ (\A q \in Loops : q # p => wakeAt'[q] = wakeAt[q])
           /\ wakeAt'[p] = Due(p) + Late(p)
<1>1. wakeAt \in [Loops -> Nat] /\ Due(p) \in Nat /\ now \in Nat
  BY TypeOfCycles, ServiceAssumption DEF Due
<1>2. QED
  BY <1>1 DEF Sleep, Late

\* What a round adds to its loop's pace.
LEMMA PacesAre ==
    ASSUME TypeOK, NEW p \in Loops, Overrun(p)
    PROVE  /\ pace' \in [Loops -> Pace] /\ Late(p) \in Nat /\ pace[p].over \in Nat
           /\ pace'[p].since = pace[p].since /\ pace'[p].first = pace[p].first
           /\ pace'[p].over = pace[p].over + Late(p)
           /\ \A q \in Loops : q # p => pace'[q] = pace[q]
<1>1. pace \in [Loops -> Pace] /\ pace[p] \in Pace
  BY TypeOfCycles
<1>2. Late(p) \in Nat /\ pace[p].over \in Nat
  <2>1. Due(p) \in Nat /\ now \in Nat
    BY TypeOfCycles, ServiceAssumption DEF Due
  <2>2. QED
    BY <1>1, <2>1 DEF Late, Pace
<1>3. pace'[p] = [pace[p] EXCEPT !.over = pace[p].over + Late(p)]
  BY <1>1 DEF Overrun
<1>4. pace'[p] \in Pace
  BY <1>1, <1>2, <1>3 DEF Pace
<1>5. /\ pace'[p].since = pace[p].since /\ pace'[p].first = pace[p].first
      /\ pace'[p].over = pace[p].over + Late(p)
  BY <1>1, <1>3 DEF Pace
<1>6. QED
  BY <1>1, <1>2, <1>4, <1>5 DEF Overrun

\* Time does not pass over anything that is due.
LEMMA TimePasses ==
    ASSUME TypeOK, Pass
    PROVE  /\ now' \in Nat /\ now < now'
           /\ \A c \in Working : now' <= cycle[c].until
           /\ \A c \in Open : now' <= cycle[c].began + Deadline
           /\ \A k \in Rounds : retryAt[k] # Never => now' <= retryAt[k]
           /\ \A k \in Rounds : driver = "scheduler" /\ cycle[<<k, "call">>].step = "idle"
                               => now' <= k * Interval
           /\ \A p \in Loops : loop[p] = "asleep" /\ round[p] < MaxRound => now' <= wakeAt[p]
<1>1. PICK t \in Alarms : (\A u \in Alarms : t <= u) /\ now < t /\ now' = t
  BY DEF Pass
<1>2. /\ \A c \in Working : cycle[c].until \in Alarms
      /\ \A c \in Open : cycle[c].began + Deadline \in Alarms
      /\ \A k \in Rounds : retryAt[k] # Never => retryAt[k] \in Alarms
      /\ \A k \in Rounds : driver = "scheduler" /\ cycle[<<k, "call">>].step = "idle"
                          => k * Interval \in Alarms
      /\ \A p \in Loops : loop[p] = "asleep" /\ round[p] < MaxRound => wakeAt[p] \in Alarms
  BY DEF Alarms
<1>3. t \in Nat
  <2>1. \A c \in Cycles : cycle[c].until \in Nat /\ cycle[c].began + Deadline \in Int
    BY TypeOfCycles, CycleFields, ServiceAssumption DEF Never
  <2>2. Working \subseteq Cycles /\ Open \subseteq Cycles
    BY DEF Working, Open
  <2>3. (\E c \in Working : t = cycle[c].until)
        \/ (\E c \in Open : t = cycle[c].began + Deadline)
        \/ (\E k \in Rounds : t = retryAt[k])
        \/ (\E k \in Rounds : t = k * Interval)
        \/ (\E p \in Loops : t = wakeAt[p])
    BY <1>1 DEF Alarms
  <2>4. t \in Int
    BY <2>1, <2>2, <2>3, TypeOfCycles, TicksApart DEF Never
  <2>5. QED
    BY <1>1, <2>4, TypeOfCycles
<1>4. QED
  BY <1>1, <1>2, <1>3

\* A loop with a round left has a next one.
LEMMA RoundLeft ==
    ASSUME TypeOK, NEW p \in Loops, round[p] < MaxRound
    PROVE  round[p] + 1 \in Rounds
<1>1. round[p] \in Rounds \cup {Never}
  BY TypeOfCycles
<1>2. QED
  BY <1>1, ServiceAssumption DEF Rounds, Never

LEMMA TypeStep ==
    ASSUME TypeOK, Locked, [Next]_vars
    PROVE  TypeOK' /\ Locked'
<1>1. ASSUME NEW c \in Cycles, NEW r, Goes(c, r) PROVE TypeOK' /\ Locked'
  <2>1. cycle' \in [Cycles -> CycleState] /\ faults' \in [Rounds -> 0 .. 2]
    BY <1>1, TypeOfCycles, FaultsOnlyGrow DEF Goes
  <2>2. QED
    BY <1>1, <2>1, TypeOfCycles, NextTypeOfCycles DEF Goes, Locked, loopVars
<1>2. ASSUME NEW c \in Cycles, NEW how, Ends(c, how) PROVE TypeOK' /\ Locked'
  <2>1. cycle' \in [Cycles -> CycleState]
    BY <1>2, EndLeaves, TypeOfCycles
  <2>2. faults' \in [Rounds -> 0 .. 2] /\ UNCHANGED <<now, driver, last, kills>>
    BY <1>2, FaultsOnlyGrow DEF Ends
  <2>3. CASE c \in Calls
    <3>1. retryAt' \in [Rounds -> Nat \cup {Never}] /\ UNCHANGED loopVars
      BY <1>2, <2>3, EndLeaves, RepeatsAre, TypeOfCycles
    <3>2. QED
      BY <2>1, <2>2, <3>1, TypeOfCycles, NextTypeOfCycles DEF Locked, loopVars
  <2>4. CASE c \notin Calls
    <3>1. c[2] \in Loops
      BY <2>4, Cast
    <3>2. UNCHANGED <<retryAt, loopStarted, round, holder>>
      BY <1>2, <2>4, EndLeaves
    <3>3. /\ loop' \in [Loops -> {"off", "lock", "running", "asleep"}]
          /\ \A p \in Loops : loop'[p] = "lock" => loop[p] = "lock"
          /\ wakeAt' \in [Loops -> Nat]
      <4>1. CASE how = "raised"
        BY <1>2, <2>4, <3>1, <4>1, EndLeaves, TypeOfCycles
      <4>2. CASE how # "raised"
        <5>1. Sleep(c[2])
          BY <1>2, <2>4, <4>2, EndLeaves
        <5>2. QED
          BY <3>1, <5>1, SleepsAre, TypeOfCycles
      <4>3. QED
        BY <4>1, <4>2
    <3>4. pace' \in [Loops -> Pace]
      BY <1>2, <2>4, <3>1, EndLeaves, PacesAre
    <3>6. TypeOK'
      BY <2>1, <2>2, <3>2, <3>3, <3>4, TypeOfCycles, NextTypeOfCycles
    <3>5. QED
      BY <3>2, <3>3, <3>6 DEF Locked
  <2>5. QED
    BY <2>3, <2>4
<1>3. ASSUME NEW c \in Cycles, GiveUp(c) PROVE TypeOK' /\ Locked'
  <2>2. cycle' \in [Cycles -> CycleState]
    <3>1. cycle[c] \in CycleState
      BY TypeOfCycles
    <3>2. [cycle[c] EXCEPT !.open = FALSE] \in CycleState
      BY <3>1 DEF CycleState
    <3>3. QED
      BY <1>3, <3>2, TypeOfCycles DEF GiveUp
  <2>3. retryAt' \in [Rounds -> Nat \cup {Never}]
    BY <1>3, Cast, TypeOfCycles, ServiceAssumption DEF GiveUp, Repeat
  <2>4. QED
    BY <1>3, <2>2, <2>3, TypeOfCycles, NextTypeOfCycles DEF GiveUp, Locked, loopVars
<1>4. ASSUME NEW c \in Cycles, NEW r, Begun(c, r) PROVE cycle' \in [Cycles -> CycleState]
  BY <1>4, TypeOfCycles DEF Begun
<1>5. ASSUME NEW k \in Rounds, Tick(k) PROVE TypeOK' /\ Locked'
  <2>1. cycle' \in [Cycles -> CycleState]
    BY <1>4, <1>5, BeginBegins, Cast DEF Tick
  <2>2. QED
    BY <1>5, <2>1, TypeOfCycles, NextTypeOfCycles DEF Tick, Locked, loopVars
<1>6. ASSUME NEW k \in Rounds, TickAgain(k) PROVE TypeOK' /\ Locked'
  <2>1. cycle' \in [Cycles -> CycleState]
    BY <1>4, <1>6, BeginBegins, Cast DEF TickAgain
  <2>2. QED
    BY <1>6, <2>1, TypeOfCycles, NextTypeOfCycles DEF TickAgain, Locked, loopVars
<1>7. ASSUME KillInstance PROVE TypeOK' /\ Locked'
  <2>1. cycle' \in [Cycles -> CycleState]
    BY <1>7, IdleIsACycle, TypeOfCycles DEF KillInstance
  <2>2. retryAt' \in [Rounds -> Nat \cup {Never}]
    BY <1>7, TypeOfCycles, ServiceAssumption DEF KillInstance
  <2>3. faults' \in [Rounds -> 0 .. 2]
    BY <1>7, TypeOfCycles DEF KillInstance
  <2>4. kills' \in 0 .. MaxKill
    BY <1>7, TypeOfCycles, ServiceAssumption DEF KillInstance
  <2>5. QED
    BY <1>7, <2>1, <2>2, <2>3, <2>4, TypeOfCycles, NextTypeOfCycles
    DEF KillInstance, Locked, loopVars
<1>8. ASSUME NEW p \in Loops, Launch(p) PROVE TypeOK' /\ Locked'
  BY <1>8, TypeOfCycles, NextTypeOfCycles DEF Launch, Locked
<1>9. ASSUME NEW p \in Loops, BeginRound(p), holder' \in Loops \cup {Nobody},
             pace' \in [Loops -> Pace], round[p] < MaxRound
      PROVE  TypeOK' /\ Locked'
  <2>1. round[p] + 1 \in Rounds
    BY <1>9, RoundLeft
  <2>2. cycle' \in [Cycles -> CycleState]
    BY <1>4, <1>9, <2>1, BeginBegins, Cast DEF BeginRound
  <2>3. QED
    BY <1>9, <2>1, <2>2, TypeOfCycles, NextTypeOfCycles DEF BeginRound, Locked
<1>10. ASSUME NEW p \in Loops, Enter(p) PROVE TypeOK' /\ Locked'
  <2>1. round[p] < MaxRound /\ BeginRound(p) /\ holder' \in Loops \cup {Nobody}
    BY <1>10 DEF Enter, Locked
  <2>2. round[p] + 1 \in Rounds /\ now \in Nat
    BY <2>1, RoundLeft, TypeOfCycles
  <2>3. [since |-> now, first |-> round[p] + 1, over |-> 0] \in Pace
    BY <2>2 DEF Pace
  <2>4. pace' \in [Loops -> Pace]
    BY <1>10, <2>3, TypeOfCycles DEF Enter
  <2>5. QED
    BY <1>9, <2>1, <2>4
<1>11. ASSUME NEW p \in Loops, WakeUp(p) PROVE TypeOK' /\ Locked'
  BY <1>9, <1>11, TypeOfCycles DEF WakeUp
<1>12. ASSUME NEW p \in Loops, Interrupt(p) PROVE TypeOK' /\ Locked'
  <2>1. cycle' \in [Cycles -> CycleState]
    BY <1>12, IdleIsACycle, TypeOfCycles DEF Interrupt
  <2>2. kills' \in 0 .. MaxKill
    BY <1>12, TypeOfCycles, ServiceAssumption DEF Interrupt
  <2>3. QED
    BY <1>12, <2>1, <2>2, TypeOfCycles, NextTypeOfCycles DEF Interrupt, Locked, Nobody
<1>13. ASSUME Pass PROVE TypeOK' /\ Locked'
  <2>1. now' \in Nat
    BY <1>13, TimePasses
  <2>2. QED
    BY <1>13, <2>1, TypeOfCycles, NextTypeOfCycles DEF Pass, Locked, loopVars
<1>14. ASSUME UNCHANGED vars PROVE TypeOK' /\ Locked'
  BY <1>14, TypeOfCycles, NextTypeOfCycles DEF vars, Locked
<1>15. QED
  BY <1>1, <1>2, <1>3, <1>5, <1>6, <1>7, <1>8, <1>10, <1>11, <1>12, <1>13, <1>14,
     AdvanceGoesOrEnds DEF Next

\* Every cycle, retry and loop is in a state of the program: no request beyond the
\* last feed or the last attempt, no round beyond the last (IngestService!TypeOK).
THEOREM TypeCorrect == Spec => []TypeOK
<1>1. Spec => [](TypeOK /\ Locked)
  BY TypeInit, TypeStep, PTL DEF Spec
<1>2. QED
  BY <1>1, PTL

-----------------------------------------------------------------------------
(***************************************************************************)
(* Every cycle under way keeps to the timetable.                            *)
(***************************************************************************)
CyclesInv == \A c \in Cycles : CycleInv(cycle[c], faults[c[1]], now)

LEMMA MoreFaults ==
    ASSUME NEW r, NEW f \in Nat, NEW g \in Nat, f <= g, NEW at, CycleInv(r, f, at)
    PROVE  CycleInv(r, g, at)
BY DEF CycleInv, OnSchedule

LEMMA Others ==
    ASSUME TypeOK, NEW c \in Cycles, NEW r, cycle' = [cycle EXCEPT ![c] = r]
    PROVE  \A b \in Cycles : cycle'[b] = IF b = c THEN r ELSE cycle[b]
BY TypeOfCycles

\* The caller who stops waiting changes nothing else of the cycle.
LEMMA GivenUp ==
    ASSUME TypeOK, NEW c \in Cycles, GiveUp(c)
    PROVE  \E r \in CycleState :
             /\ cycle' = [cycle EXCEPT ![c] = r]
             /\ ~ r.open /\ r.usable = cycle[c].usable
             /\ r.step = cycle[c].step /\ r.began = cycle[c].began
             /\ \A f, at : CycleInv(cycle[c], f, at) => CycleInv(r, f, at)
<1> DEFINE r == [cycle[c] EXCEPT !.open = FALSE]
<1>1. cycle[c] \in CycleState
  BY TypeOfCycles
<1>2. /\ r \in CycleState /\ ~ r.open
      /\ r.step = cycle[c].step /\ r.began = cycle[c].began /\ r.until = cycle[c].until
      /\ r.feed = cycle[c].feed /\ r.attempt = cycle[c].attempt
      /\ r.delay = cycle[c].delay /\ r.usable = cycle[c].usable
  BY <1>1 DEF CycleState
<1>3. cycle' = [cycle EXCEPT ![c] = r]
  BY DEF GiveUp
<1> HIDE DEF r
<1>4. \A f, at : CycleInv(cycle[c], f, at) => CycleInv(r, f, at)
  BY <1>2 DEF CycleInv, OnSchedule, Rest, SmoothRest, FeedsAfter
<1>5. QED
  BY <1>2, <1>3, <1>4

LEMMA NextRound ==
    ASSUME TypeOK, Locked, NEW p \in Loops, Enter(p) \/ WakeUp(p)
    PROVE  /\ BeginRound(p) /\ loop[p] \in {"lock", "asleep"}
           /\ round[p] + 1 \in Rounds /\ <<round[p] + 1, p>> \in Cycles
           /\ <<round[p] + 1, p>> \notin Calls
<1>1. BeginRound(p) /\ loop[p] \in {"lock", "asleep"} /\ round[p] < MaxRound
  BY DEF Enter, WakeUp, Locked
<1>2. round[p] + 1 \in Rounds
  BY <1>1, RoundLeft
<1>3. QED
  BY <1>1, <1>2, Cast

LEMMA CyclesInit == Init => CyclesInv
BY Cast, IdleIsACycle DEF Init, CyclesInv, CycleInv, Going

LEMMA CyclesStep ==
    ASSUME Timetable, TypeOK, Locked, CyclesInv, [Next]_vars
    PROVE  CyclesInv'
<1>1. SUFFICES ASSUME NEW b \in Cycles PROVE CycleInv(cycle'[b], faults'[b[1]], now')
  BY DEF CyclesInv
<1>2. /\ CycleInv(cycle[b], faults[b[1]], now) /\ b[1] \in Rounds
      /\ faults \in [Rounds -> 0 .. 2] /\ now \in Nat /\ cycle \in [Cycles -> CycleState]
  BY Cast, TypeOfCycles DEF CyclesInv
<1>3. ASSUME NEW c \in Cycles, UNCHANGED faults \/ Fault(c[1])
      PROVE  CycleInv(cycle[b], faults'[b[1]], now)
  <2>1. /\ faults[b[1]] <= faults'[b[1]]
        /\ faults[b[1]] \in Nat /\ faults'[b[1]] \in Nat
    BY <1>2, <1>3, FaultsOnlyGrow
  <2>2. QED
    BY <1>2, <2>1, MoreFaults
<1>4. ASSUME NEW c \in Cycles, NEW r, Goes(c, r), GoesInTime(c, r)
      PROVE  CycleInv(cycle'[b], faults'[b[1]], now')
  <2>1. CASE b = c
    BY <1>2, <1>4, <2>1, Others DEF Goes, GoesInTime
  <2>2. CASE b # c
    BY <1>3, <1>4, <2>2, Others DEF Goes
  <2>3. QED
    BY <2>1, <2>2
<1>5. ASSUME NEW c \in Cycles, NEW how, Ends(c, how)
      PROVE  CycleInv(cycle'[b], faults'[b[1]], now')
  <2>1. PICK r : cycle' = [cycle EXCEPT ![c] = r] /\ r.step \in {"staged", "failed"}
    BY <1>5, EndLeaves
  <2>2. CASE b = c
    <3>1. cycle'[b] = r
      BY <1>2, <2>1, <2>2
    <3>2. QED
      BY <2>1, <3>1 DEF CycleInv, Going
  <2>3. CASE b # c
    BY <1>3, <1>5, <2>1, <2>3, Others DEF Ends
  <2>4. QED
    BY <2>2, <2>3
<1>6. ASSUME NEW c \in Cycles, GiveUp(c)
      PROVE  CycleInv(cycle'[b], faults'[b[1]], now')
  <2>1. PICK r : /\ cycle' = [cycle EXCEPT ![c] = r]
                 /\ \A f, at : CycleInv(cycle[c], f, at) => CycleInv(r, f, at)
    BY <1>6, GivenUp
  <2>2. UNCHANGED <<now, faults>>
    BY <1>6 DEF GiveUp
  <2>3. QED
    BY <1>2, <2>1, <2>2, Others
<1>7. ASSUME NEW c \in Cycles, Begin(c), UNCHANGED <<now, faults>>
      PROVE  CycleInv(cycle'[b], faults'[b[1]], now')
  <2>1. PICK r : Begun(c, r)
    BY <1>7, BeginBegins
  <2>2. QED
    BY <1>2, <1>7, <2>1, Others DEF Begun
<1>8. ASSUME NEW k \in Rounds, Tick(k) PROVE CycleInv(cycle'[b], faults'[b[1]], now')
  BY <1>7, <1>8, Cast DEF Tick
<1>9. ASSUME NEW k \in Rounds, TickAgain(k) PROVE CycleInv(cycle'[b], faults'[b[1]], now')
  BY <1>7, <1>9, Cast DEF TickAgain
<1>10. ASSUME KillInstance PROVE CycleInv(cycle'[b], faults'[b[1]], now')
  <2>1. UNCHANGED now
    BY <1>10 DEF KillInstance
  <2>2. /\ faults[b[1]] \in Nat /\ faults'[b[1]] \in Nat /\ faults[b[1]] <= faults'[b[1]]
    BY <1>2, <1>10 DEF KillInstance
  <2>3. cycle'[b] = cycle[b] \/ cycle'[b].step = "failed"
    BY <1>10, IdleIsACycle DEF KillInstance
  <2>4. QED
    BY <1>2, <2>1, <2>2, <2>3, MoreFaults DEF CycleInv, Going
<1>11. ASSUME NEW p \in Loops, Launch(p) PROVE CycleInv(cycle'[b], faults'[b[1]], now')
  BY <1>2, <1>11 DEF Launch
<1>12. ASSUME NEW p \in Loops, BeginRound(p), <<round[p] + 1, p>> \in Cycles
       PROVE  CycleInv(cycle'[b], faults'[b[1]], now')
  BY <1>7, <1>12 DEF BeginRound
<1>13. ASSUME NEW p \in Loops, Interrupt(p) PROVE CycleInv(cycle'[b], faults'[b[1]], now')
  <2>1. UNCHANGED <<now, faults>>
    BY <1>13 DEF Interrupt
  <2>2. cycle'[b] = cycle[b] \/ cycle'[b].step = "failed"
    BY <1>13, IdleIsACycle DEF Interrupt
  <2>3. QED
    BY <1>2, <2>1, <2>2 DEF CycleInv, Going
<1>14. ASSUME Pass PROVE CycleInv(cycle'[b], faults'[b[1]], now')
  <2>1. UNCHANGED <<cycle, faults>>
    BY <1>14 DEF Pass
  <2>2. cycle[b].step \in Going => now' <= cycle[b].until
    BY <1>14, TimePasses DEF Working, Going
  <2>3. QED
    BY <1>2, <2>1, <2>2 DEF CycleInv
<1>15. ASSUME UNCHANGED vars PROVE CycleInv(cycle'[b], faults'[b[1]], now')
  BY <1>2, <1>15 DEF vars
<1>16. \A p \in Loops : Enter(p) \/ WakeUp(p) => BeginRound(p) /\ <<round[p] + 1, p>> \in Cycles
  BY NextRound
<1>17. QED
  BY <1>4, <1>5, <1>6, <1>8, <1>9, <1>10, <1>11, <1>12, <1>13, <1>14, <1>15, <1>16,
     AdvanceGoesOrEnds DEF Next

-----------------------------------------------------------------------------
(***************************************************************************)
(* A loop's only cycle under way is that of its round.                      *)
(***************************************************************************)
LoopInv(p) ==
    /\ loop[p] # "off" => driver = "loop"
    /\ loop[p] = "asleep" => now <= wakeAt[p] \/ round[p] = MaxRound
    /\ \A k \in Rounds : cycle[<<k, p>>].step \in Going =>
         loop[p] = "running" /\ round[p] = k /\ cycle[<<k, p>>].began = loopStarted[p]

LoopsInv == \A p \in Loops : LoopInv(p)

LEMMA LoopsInit == Init => LoopsInv
BY Cast, IdleIsACycle DEF Init, LoopsInv, LoopInv, Going

\* What the scheduler drives is calls only.
LEMMA DrivenCycles ==
    ASSUME LoopsInv, NEW c \in Cycles, c \notin Calls, cycle[c].step \in Going
    PROVE  /\ driver = "loop" /\ loop[c[2]] = "running" /\ round[c[2]] = c[1]
           /\ cycle[c].began = loopStarted[c[2]]
<1>1. c[1] \in Rounds /\ c[2] \in Loops /\ c = <<c[1], c[2]>>
  BY Cast
<1>2. /\ loop[c[2]] = "running" /\ round[c[2]] = c[1] /\ cycle[c].began = loopStarted[c[2]]
      /\ loop[c[2]] # "off" => driver = "loop"
  BY <1>1 DEF LoopsInv, LoopInv
<1>3. QED
  BY <1>2

LEMMA LoopsStep ==
    ASSUME TypeOK, Locked, LoopsInv, [Next]_vars
    PROVE  LoopsInv'
<1>1. SUFFICES ASSUME NEW p \in Loops PROVE LoopInv(p)'
  BY DEF LoopsInv
<1>2. /\ LoopInv(p) /\ now \in Nat /\ cycle \in [Cycles -> CycleState]
      /\ loop \in [Loops -> {"off", "lock", "running", "asleep"}]
      /\ loopStarted \in [Loops -> Nat] /\ wakeAt \in [Loops -> Nat]
      /\ round \in [Loops -> Rounds \cup {Never}]
  BY TypeOfCycles DEF LoopsInv
<1>3. \A k \in Rounds : <<k, p>> \in Cycles /\ <<k, p>> \notin Calls
  BY Cast
<1>4. ASSUME NEW c \in Cycles, NEW r, Goes(c, r) PROVE LoopInv(p)'
  <2>1. \A k \in Rounds : /\ cycle'[<<k, p>>].step \in Going => cycle[<<k, p>>].step \in Going
                          /\ cycle'[<<k, p>>].began = cycle[<<k, p>>].began
    BY <1>3, <1>4, Others DEF Goes
  <2>2. UNCHANGED <<now, driver, loopVars>>
    BY <1>4 DEF Goes
  <2>3. QED
    BY <1>2, <2>1, <2>2 DEF LoopInv, loopVars
<1>5. ASSUME NEW c \in Cycles, NEW how, Ends(c, how) PROVE LoopInv(p)'
  <2>1. PICK r : cycle' = [cycle EXCEPT ![c] = r] /\ r.step \in {"staged", "failed"}
    BY <1>5, EndLeaves
  <2>2. \A k \in Rounds : cycle'[<<k, p>>].step \in Going =>
           /\ <<k, p>> # c
           /\ cycle[<<k, p>>].step \in Going
           /\ cycle'[<<k, p>>].began = cycle[<<k, p>>].began
    <3>1. \A k \in Rounds : cycle'[<<k, p>>] = IF <<k, p>> = c THEN r ELSE cycle[<<k, p>>]
      BY <1>3, <2>1, Others
    <3>2. r.step \notin Going
      BY <2>1 DEF Going
    <3>3. QED
      BY <3>1, <3>2
  <2>3. UNCHANGED <<now, driver>>
    BY <1>5 DEF Ends
  <2>4. CASE c \in Calls
    <3>1. UNCHANGED loopVars
      BY <1>5, <2>4, EndLeaves
    <3>2. QED
      BY <1>2, <2>2, <2>3, <3>1 DEF LoopInv, loopVars
  <2>5. CASE c \notin Calls
    <3>1. /\ c[1] \in Rounds /\ c[2] \in Loops /\ c = <<c[1], c[2]>>
          /\ driver = "loop" /\ loop[c[2]] = "running" /\ round[c[2]] = c[1]
      BY <1>5, <2>5, Cast, DrivenCycles DEF Ends
    <3>2. UNCHANGED <<loopStarted, round>>
      BY <1>5, <2>5, EndLeaves
    <3>3. /\ \A q \in Loops : q # c[2] => loop'[q] = loop[q] /\ wakeAt'[q] = wakeAt[q]
          /\ loop'[c[2]] = "asleep" => now <= wakeAt'[c[2]]
      <4>1. CASE how = "raised"
        BY <1>2, <1>5, <2>5, <3>1, <4>1, EndLeaves
      <4>2. CASE how # "raised"
        <5>1. Sleep(c[2])
          BY <1>5, <2>5, <4>2, EndLeaves
        <5>2. QED
          BY <1>2, <3>1, <5>1, SleepsAre
      <4>3. QED
        BY <4>1, <4>2
    <3>4. CASE p = c[2]
      <4>1. \A k \in Rounds : cycle'[<<k, p>>].step \notin Going
        BY <1>2, <2>2, <3>1, <3>4 DEF LoopInv
      <4>2. QED
        BY <2>3, <3>1, <3>3, <3>4, <4>1 DEF LoopInv
    <3>5. CASE p # c[2]
      BY <1>2, <2>2, <2>3, <3>2, <3>3, <3>5 DEF LoopInv
    <3>6. QED
      BY <3>4, <3>5
  <2>6. QED
    BY <2>4, <2>5
<1>6. ASSUME NEW c \in Cycles, GiveUp(c) PROVE LoopInv(p)'
  <2>1. PICK r : /\ cycle' = [cycle EXCEPT ![c] = r]
                 /\ r.step = cycle[c].step /\ r.began = cycle[c].began
    BY <1>6, GivenUp
  <2>2. \A k \in Rounds : /\ cycle'[<<k, p>>].step = cycle[<<k, p>>].step
                          /\ cycle'[<<k, p>>].began = cycle[<<k, p>>].began
    BY <1>3, <2>1, Others
  <2>3. UNCHANGED <<now, driver, loopVars>>
    BY <1>6 DEF GiveUp
  <2>4. QED
    BY <1>2, <2>2, <2>3 DEF LoopInv, loopVars
<1>7. ASSUME NEW c \in Calls, Begin(c), UNCHANGED <<now, driver, loopVars>> PROVE LoopInv(p)'
  <2>1. PICK r : cycle' = [cycle EXCEPT ![c] = r]
    BY <1>7, BeginBegins, Cast DEF Begun
  <2>2. \A k \in Rounds : cycle'[<<k, p>>] = cycle[<<k, p>>]
    BY <1>3, <1>7, <2>1, Others, Cast
  <2>3. QED
    BY <1>2, <1>7, <2>2 DEF LoopInv, loopVars
<1>8. ASSUME NEW k \in Rounds, Tick(k) PROVE LoopInv(p)'
  BY <1>7, <1>8, Cast DEF Tick
<1>9. ASSUME NEW k \in Rounds, TickAgain(k) PROVE LoopInv(p)'
  BY <1>7, <1>9, Cast DEF TickAgain
<1>10. ASSUME KillInstance PROVE LoopInv(p)'
  <2>1. \A k \in Rounds : cycle'[<<k, p>>] = cycle[<<k, p>>] \/ cycle'[<<k, p>>].step = "failed"
    BY <1>3, <1>10, IdleIsACycle DEF KillInstance
  <2>2. UNCHANGED <<now, driver, loopVars>>
    BY <1>10 DEF KillInstance
  <2>3. QED
    BY <1>2, <2>1, <2>2 DEF LoopInv, loopVars, Going
<1>11. ASSUME NEW q \in Loops, Launch(q) PROVE LoopInv(p)'
  BY <1>2, <1>11 DEF Launch, LoopInv
<1>12. ASSUME NEW q \in Loops, Enter(q) \/ WakeUp(q) PROVE LoopInv(p)'
  <2> DEFINE c == <<round[q] + 1, q>>
  <2>1. /\ BeginRound(q) /\ loop[q] \in {"lock", "asleep"} /\ round[q] + 1 \in Rounds
        /\ c \in Cycles
    BY <1>12, NextRound
  <2>2. PICK r : cycle' = [cycle EXCEPT ![c] = r] /\ r.began = now
    BY <2>1, BeginBegins DEF BeginRound, Begun
  <2>3. /\ round' = [round EXCEPT ![q] = @ + 1] /\ loop' = [loop EXCEPT ![q] = "running"]
        /\ loopStarted' = [loopStarted EXCEPT ![q] = now]
        /\ UNCHANGED <<now, driver, wakeAt>>
    BY <2>1 DEF BeginRound
  <2>4. LoopInv(q)
    BY DEF LoopsInv
  <2>5. CASE p = q
    <3>1. \A k \in Rounds : cycle[<<k, p>>].step \notin Going
      BY <2>1, <2>4, <2>5 DEF LoopInv
    <3>2. \A k \in Rounds : cycle'[<<k, p>>].step \in Going =>
             k = round[q] + 1 /\ cycle'[<<k, p>>].began = now
      BY <1>3, <2>1, <2>2, <2>5, <3>1, Others
    <3>3. loop'[p] = "running" /\ round'[p] = round[q] + 1 /\ loopStarted'[p] = now
      BY <1>2, <2>3, <2>5
    <3>4. driver' = "loop"
      BY <2>1, <2>3, <2>4 DEF LoopInv
    <3>5. QED
      BY <3>2, <3>3, <3>4 DEF LoopInv
  <2>6. CASE p # q
    <3>1. \A k \in Rounds : cycle'[<<k, p>>] = cycle[<<k, p>>]
      BY <1>3, <2>1, <2>2, <2>6, Others
    <3>2. loop'[p] = loop[p] /\ round'[p] = round[p] /\ loopStarted'[p] = loopStarted[p]
      BY <1>2, <2>3, <2>6
    <3>3. QED
      BY <1>2, <2>3, <3>1, <3>2 DEF LoopInv
  <2>7. QED
    BY <2>5, <2>6
<1>13. ASSUME NEW q \in Loops, Interrupt(q) PROVE LoopInv(p)'
  <2>1. \A k \in Rounds :
           /\ cycle'[<<k, p>>] = cycle[<<k, p>>] \/ cycle'[<<k, p>>].step = "failed"
           /\ p = q => cycle'[<<k, p>>].step \notin Going
    BY <1>3, <1>13, IdleIsACycle DEF Interrupt, Working, Going
  <2>2. UNCHANGED <<now, driver, loopStarted, wakeAt, round>>
        /\ loop' = [loop EXCEPT ![q] = "off"]
    BY <1>13 DEF Interrupt
  <2>3. QED
    BY <1>2, <2>1, <2>2 DEF LoopInv, Going
<1>14. ASSUME Pass PROVE LoopInv(p)'
  <2>1. UNCHANGED <<driver, cycle, loopVars>>
    BY <1>14 DEF Pass
  <2>2. loop[p] = "asleep" /\ round[p] < MaxRound => now' <= wakeAt[p]
    BY <1>14, TimePasses
  <2>3. round[p] < MaxRound \/ round[p] = MaxRound
    BY <1>2, ServiceAssumption DEF Rounds, Never
  <2>4. QED
    BY <1>2, <2>1, <2>2, <2>3 DEF LoopInv, loopVars
<1>15. ASSUME UNCHANGED vars PROVE LoopInv(p)'
  BY <1>2, <1>15 DEF vars, LoopInv
<1>16. QED
  BY <1>4, <1>5, <1>6, <1>8, <1>9, <1>10, <1>11, <1>12, <1>13, <1>14, <1>15,
     AdvanceGoesOrEnds DEF Next

-----------------------------------------------------------------------------
(***************************************************************************)
(* The loop's pace.                                                         *)
(***************************************************************************)
\* A cycle that is about to end has taken no longer than the longest one.
LEMMA EndsInTime ==
    ASSUME Timetable, TypeOK, CyclesInv, NEW c \in Cycles, cycle[c].step \in Going
    PROVE  /\ cycle[c].began \in Nat /\ now \in Nat /\ LongestCycle \in Nat
           /\ now <= cycle[c].began + LongestCycle
<1>1. CycleInv(cycle[c], faults[c[1]], now) /\ cycle[c] \in CycleState /\ now \in Nat
  BY TypeOfCycles DEF CyclesInv
<1>2. Rest(cycle[c]) \in Nat /\ LongestCycle \in Nat /\ cycle[c].until \in Nat
  BY <1>1, RestIsNatural, CycleFields
<1>3. QED
  BY <1>1, <1>2 DEF CycleInv, OnSchedule

\* One more round, one more interval.
LEMMA OneMore ==
    ASSUME NEW n \in Int
    PROVE  /\ n * LoopInterval \in Int /\ LoopInterval \in Nat
           /\ (n + 1) * LoopInterval = n * LoopInterval + LoopInterval
           /\ 0 * LoopInterval = 0
<1>1. LoopInterval \in Nat
  BY ServiceAssumption
<1>2. \A w \in Nat : n * w \in Int /\ (n + 1) * w = n * w + w /\ 0 * w = 0
  OBVIOUS
<1>3. QED
  BY <1>1, <1>2

PaceInv(p) ==
    LET at == pace[p].since + (round[p] - pace[p].first) * LoopInterval + pace[p].over
    IN  /\ loop[p] = "running" => loopStarted[p] = at
        /\ loop[p] = "asleep"  => wakeAt[p] = at + LoopInterval

LEMMA PaceIsCadence == TypeOK => (Cadence <=> \A p \in Loops : PaceInv(p))
<1> SUFFICES ASSUME TypeOK, NEW p \in Loops
             PROVE  pace[p].since + ((round[p] - pace[p].first) + 1) * LoopInterval + pace[p].over
                    = pace[p].since + (round[p] - pace[p].first) * LoopInterval + pace[p].over
                      + LoopInterval
  BY DEF Cadence, PaceInv
<1>1. pace[p] \in Pace /\ round[p] \in Int
  BY TypeOfCycles, Cast
<1>2. round[p] - pace[p].first \in Int /\ pace[p].since \in Nat /\ pace[p].over \in Nat
  BY <1>1, Cast DEF Pace
<1> DEFINE n == round[p] - pace[p].first
           m == n * LoopInterval
<1>3. m \in Int /\ LoopInterval \in Nat /\ (n + 1) * LoopInterval = m + LoopInterval
  BY <1>2, OneMore
<1> HIDE DEF m
<1>4. QED
  BY <1>2, <1>3 DEF m

\* The end of a round: what it took beyond its interval is what the next begins
\* later and what is added to the pace.
LEMMA PaceAtEnd ==
    ASSUME TypeOK, LoopsInv, \A p \in Loops : PaceInv(p), NEW c \in Cycles, c \notin Calls,
           NEW how, Ends(c, how), NEW p \in Loops
    PROVE  PaceInv(p)'
<1>1. /\ c[2] \in Loops /\ loop[c[2]] = "running"
      /\ Overrun(c[2])
      /\ UNCHANGED <<loopStarted, round>>
  BY Cast, DrivenCycles, EndLeaves DEF Ends
<1>2. loop \in [Loops -> {"off", "lock", "running", "asleep"}] /\ wakeAt \in [Loops -> Nat]
  BY TypeOfCycles
<1>3. CASE p # c[2]
  <2>1. pace'[p] = pace[p]
    BY <1>1, <1>3, PacesAre
  <2>2. loop'[p] = loop[p] /\ wakeAt'[p] = wakeAt[p]
    <3>1. CASE how = "raised"
      BY <1>1, <1>2, <1>3, <3>1, EndLeaves
    <3>2. CASE how # "raised"
      <4>1. Sleep(c[2])
        BY <3>2, EndLeaves
      <4>2. QED
        BY <1>1, <1>2, <1>3, <4>1, SleepsAre
    <3>3. QED
      BY <3>1, <3>2
  <2>3. QED
    BY <1>1, <2>1, <2>2 DEF PaceInv
<1>4. CASE p = c[2]
  <2>1. CASE how = "raised"
    <3>1. loop'[p] = "off"
      BY <1>1, <1>2, <1>4, <2>1, EndLeaves
    <3>2. QED
      BY <3>1 DEF PaceInv
  <2>2. CASE how # "raised"
    <3>1. Sleep(p)
      BY <1>4, <2>2, EndLeaves
    <3>2. loop'[p] = "asleep" /\ wakeAt'[p] = Due(p) + Late(p)
      BY <1>2, <3>1, SleepsAre
    <3>3. /\ pace'[p].since = pace[p].since /\ pace'[p].first = pace[p].first
          /\ pace'[p].over = pace[p].over + Late(p)
          /\ Late(p) \in Nat /\ pace[p].over \in Nat
      BY <1>1, <1>4, PacesAre
    <3> DEFINE n == round[p] - pace[p].first
               m == n * LoopInterval
    <3>4. /\ pace[p].since \in Nat /\ loopStarted[p] \in Nat /\ m \in Int
          /\ LoopInterval \in Nat
      <4>1. pace[p] \in Pace /\ round[p] \in Int /\ loopStarted[p] \in Nat
        BY TypeOfCycles, Cast
      <4>2. n \in Int /\ pace[p].since \in Nat
        BY <4>1, Cast DEF Pace
      <4> HIDE DEF n
      <4>3. QED
        BY <4>1, <4>2, OneMore
    <3>5. loopStarted[p] = pace[p].since + m + pace[p].over
      BY <1>1, <1>4 DEF PaceInv
    <3>6. (round'[p] - pace'[p].first) * LoopInterval = m
      BY <1>1, <3>3
    <3> HIDE DEF m
    <3>7. Due(p) + Late(p)
          = pace'[p].since + m + pace'[p].over + LoopInterval
      BY <3>3, <3>4, <3>5 DEF Due
    <3>8. QED
      BY <3>2, <3>6, <3>7 DEF PaceInv
  <2>3. QED
    BY <2>1, <2>2
<1>5. QED
  BY <1>3, <1>4

\* Its beginning: the first one starts to count, another is one more.
LEMMA PaceAtBeginning ==
    ASSUME TypeOK, Locked, \A p \in Loops : PaceInv(p), NEW q \in Loops,
           Enter(q) \/ WakeUp(q), NEW p \in Loops
    PROVE  PaceInv(p)'
<1>1. /\ BeginRound(q)
      /\ loop \in [Loops -> {"off", "lock", "running", "asleep"}]
      /\ loopStarted \in [Loops -> Nat] /\ round \in [Loops -> Rounds \cup {Never}]
      /\ pace \in [Loops -> Pace] /\ now \in Nat
  BY NextRound, TypeOfCycles
<1>2. /\ loop' = [loop EXCEPT ![q] = "running"]
      /\ loopStarted' = [loopStarted EXCEPT ![q] = now]
      /\ round' = [round EXCEPT ![q] = @ + 1]
      /\ UNCHANGED wakeAt
  BY <1>1 DEF BeginRound
<1>3. CASE p # q
  <2>1. pace'[p] = pace[p]
    BY <1>1, <1>3 DEF Enter, WakeUp
  <2>2. /\ loop'[p] = loop[p] /\ loopStarted'[p] = loopStarted[p] /\ round'[p] = round[p]
        /\ wakeAt'[p] = wakeAt[p]
    BY <1>1, <1>2, <1>3
  <2>3. QED
    BY <2>1, <2>2 DEF PaceInv
<1>4. CASE p = q
  <2>1. /\ loop'[p] = "running" /\ loopStarted'[p] = now /\ round'[p] = round[p] + 1
        /\ round[p] \in Int /\ pace[p] \in Pace
    BY <1>1, <1>2, <1>4, Cast
  <2>2. CASE Enter(q)
    <3>1. pace'[p] = [since |-> now, first |-> round[p] + 1, over |-> 0]
      BY <1>1, <1>4, <2>2 DEF Enter
    <3>2. round'[p] - pace'[p].first = 0
      BY <2>1, <3>1
    <3>3. (round'[p] - pace'[p].first) * LoopInterval = 0
      BY <3>2, OneMore
    <3>4. QED
      BY <1>1, <2>1, <3>1, <3>3 DEF PaceInv
  <2>3. CASE WakeUp(q)
    <3>1. loop[p] = "asleep" /\ now = wakeAt[p] /\ pace' = pace
      BY <1>4, <2>3 DEF WakeUp
    <3> DEFINE n == round[p] - pace[p].first
               m == n * LoopInterval
    <3>2. /\ n \in Int /\ pace[p].since \in Nat /\ pace[p].over \in Nat
          /\ round'[p] - pace'[p].first = n + 1
      BY <2>1, <3>1, Cast DEF Pace
    <3>3. now = pace[p].since + m + pace[p].over + LoopInterval
      BY <3>1 DEF PaceInv
    <3> HIDE DEF n
    <3>4. m \in Int /\ LoopInterval \in Nat /\ (n + 1) * LoopInterval = m + LoopInterval
      BY <3>2, OneMore
    <3>5. (round'[p] - pace'[p].first) * LoopInterval = m + LoopInterval
      BY <3>2, <3>4
    <3> HIDE DEF m
    <3>6. now = pace'[p].since + (m + LoopInterval) + pace'[p].over
      BY <3>1, <3>2, <3>3, <3>4
    <3>7. QED
      BY <2>1, <3>5, <3>6 DEF PaceInv
  <2>4. QED
    BY <2>2, <2>3
<1>5. QED
  BY <1>3, <1>4

LEMMA PaceStep ==
    ASSUME TypeOK, Locked, LoopsInv, \A p \in Loops : PaceInv(p), [Next]_vars
    PROVE  \A p \in Loops : PaceInv(p)'
<1>1. SUFFICES ASSUME NEW p \in Loops PROVE PaceInv(p)'
  OBVIOUS
<1>2. ASSUME UNCHANGED <<loop, loopStarted, wakeAt, round, pace>> PROVE PaceInv(p)'
  BY <1>2 DEF PaceInv
<1>3. ASSUME NEW c \in Cycles, NEW how, Ends(c, how) PROVE PaceInv(p)'
  <2>1. CASE c \in Calls
    BY <1>2, <1>3, <2>1, EndLeaves DEF loopVars
  <2>2. CASE c \notin Calls
    BY <1>3, <2>2, PaceAtEnd
  <2>3. QED
    BY <2>1, <2>2
<1>4. ASSUME NEW q \in Loops, Launch(q) \/ Interrupt(q) PROVE PaceInv(p)'
  <2>1. /\ UNCHANGED <<loopStarted, wakeAt, round, pace>>
        /\ loop'[p] \in {"running", "asleep"} => loop'[p] = loop[p]
    BY <1>4, TypeOfCycles DEF Launch, Interrupt
  <2>2. QED
    BY <2>1 DEF PaceInv
<1>5. ASSUME NEW q \in Loops, Enter(q) \/ WakeUp(q) PROVE PaceInv(p)'
  BY <1>5, PaceAtBeginning
<1>6. ASSUME NEW c \in Cycles, Advance(c) PROVE PaceInv(p)'
  BY <1>2, <1>3, <1>6, AdvanceGoesOrEnds DEF Goes, loopVars
<1>7. ASSUME \/ \E c \in Cycles : GiveUp(c)
             \/ \E k \in Rounds : Tick(k) \/ TickAgain(k)
             \/ KillInstance \/ Pass \/ UNCHANGED vars
      PROVE  PaceInv(p)'
  BY <1>2, <1>7 DEF GiveUp, Tick, TickAgain, KillInstance, Pass, vars, loopVars
<1>8. QED
  BY <1>4, <1>5, <1>6, <1>7 DEF Next

PacesInv == TypeOK /\ Locked /\ LoopsInv /\ \A p \in Loops : PaceInv(p)

LEMMA PacesInit == Init => PacesInv
BY TypeInit, LoopsInit DEF Init, PacesInv, PaceInv

LEMMA PacesStep == PacesInv /\ [Next]_vars => PacesInv'
BY TypeStep, LoopsStep, PaceStep DEF PacesInv

\* Whatever the policy, however many loops there are and however their rounds end, a
\* loop is later than an interval per round by exactly what its rounds took beyond
\* one (ingestion/loop.py:57-61).
THEOREM CadenceKept == Spec => []Cadence
<1>1. PacesInv => Cadence
  BY PaceIsCadence DEF PacesInv
<1>2. QED
  BY <1>1, PacesInit, PacesStep, PTL DEF Spec

\* When the longest round fits in the interval none takes too long, and by the
\* theorem before rounds begin exactly an interval apart.
THEOREM RoundsInTime ==
    ASSUME Timetable, RoundsFit
    PROVE  Spec => [](\A p \in Loops : pace[p].over = 0)
<1> DEFINE None == \A p \in Loops : pace[p].over = 0
           Inv  == TypeOK /\ Locked /\ CyclesInv /\ LoopsInv /\ None
<1>1. Init => Inv
  BY TypeInit, CyclesInit, LoopsInit DEF Init
<1>2. ASSUME Inv, [Next]_vars PROVE None'
  <2>1. ASSUME UNCHANGED pace PROVE None'
    BY <1>2, <2>1
  <2>2. ASSUME NEW c \in Cycles, NEW how, Ends(c, how) PROVE None'
    <3>1. CASE c \in Calls
      BY <1>2, <2>1, <2>2, <3>1, EndLeaves DEF loopVars
    <3>2. CASE c \notin Calls
      <4>1. /\ c[2] \in Loops /\ cycle[c].began = loopStarted[c[2]]
            /\ Overrun(c[2])
        BY <1>2, <2>2, <3>2, Cast, DrivenCycles, EndLeaves DEF Ends
      <4>2. Late(c[2]) = 0
        BY <1>2, <2>2, <4>1, EndsInTime, ServiceAssumption DEF Ends, RoundsFit, Late, Due
      <4>3. QED
        BY <1>2, <4>1, <4>2, PacesAre
    <3>3. QED
      BY <3>1, <3>2
  <2>3. ASSUME NEW q \in Loops, Enter(q) PROVE None'
    BY <1>2, <2>3, TypeOfCycles DEF Enter
  <2>4. ASSUME NEW q \in Loops, Launch(q) \/ WakeUp(q) \/ Interrupt(q) PROVE UNCHANGED pace
    BY <2>4 DEF Launch, WakeUp, Interrupt
  <2>5. ASSUME NEW c \in Cycles, Advance(c) PROVE None'
    BY <1>2, <2>1, <2>2, <2>5, AdvanceGoesOrEnds DEF Goes, loopVars
  <2>6. ASSUME \/ \E c \in Cycles : GiveUp(c)
               \/ \E k \in Rounds : Tick(k) \/ TickAgain(k)
               \/ KillInstance \/ Pass \/ UNCHANGED vars
        PROVE  UNCHANGED pace
    BY <2>6 DEF GiveUp, Tick, TickAgain, KillInstance, Pass, vars, loopVars
  <2>7. QED
    BY <1>2, <2>1, <2>3, <2>4, <2>5, <2>6 DEF Next
<1>3. Inv /\ [Next]_vars => Inv'
  BY <1>2, TypeStep, CyclesStep, LoopsStep
<1>4. Inv => None
  OBVIOUS
<1> HIDE DEF Inv
<1>5. QED
  BY <1>1, <1>3, <1>4, PTL DEF Spec

-----------------------------------------------------------------------------
(***************************************************************************)
(* What a step does to tick k, whose call is C and whose retry is R.        *)
(***************************************************************************)
Untouched(k, C, R) ==
    /\ cycle'[C] = cycle[C] /\ cycle'[R] = cycle[R] /\ retryAt'[k] = retryAt[k]
    /\ faults'[k] = faults[k] \/ driver # "scheduler"
    /\ UNCHANGED <<now, driver>>
    /\ \/ UNCHANGED last
       \/ /\ last' = now
          /\ \E j \in Rounds \ {k} : now = j * Interval \/ now = retryAt[j]

CallGoes(k, C, R) ==
    /\ cycle[C].step \in Going /\ cycle'[C].step \in Going
    /\ cycle'[C].began = cycle[C].began /\ cycle'[C].open = cycle[C].open
    /\ cycle'[R] = cycle[R] /\ retryAt'[k] = retryAt[k]
    /\ faults[k] <= faults'[k]
    /\ UNCHANGED <<now, driver, last>>

RetryGoes(k, C, R) ==
    /\ cycle[R].step \in Going /\ cycle'[R].step \in Going
    /\ cycle'[R].began = cycle[R].began
    /\ cycle'[C] = cycle[C] /\ retryAt'[k] = retryAt[k]
    /\ faults[k] <= faults'[k]
    /\ ~ cycle'[R].usable => ~ cycle[R].usable \/ (faults[k] > 0 => faults'[k] > 1)
    /\ UNCHANGED <<now, driver, last>>

CallEnds(k, C, R) ==
    /\ cycle[C].step \in Going /\ cycle'[C].step \in {"staged", "failed"}
    /\ cycle'[R] = cycle[R]
    /\ faults[k] <= faults'[k]
    /\ cycle'[C].step = "failed" => ~ cycle[C].usable \/ faults'[k] > 0
    /\ retryAt'[k] = IF cycle[C].open /\ cycle'[C].step = "failed" THEN now + RetryAfter
                                                                  ELSE retryAt[k]
    /\ UNCHANGED <<now, driver, last>>

RetryEnds(k, C, R) ==
    /\ cycle[R].step \in Going /\ cycle'[R].step \in {"staged", "failed"}
    /\ cycle'[C] = cycle[C] /\ retryAt'[k] = retryAt[k]
    /\ faults[k] <= faults'[k]
    /\ cycle'[R].step = "failed" => ~ cycle[R].usable \/ (faults[k] > 0 => faults'[k] > 1)
    /\ UNCHANGED <<now, driver, last>>

CallGivenUp(k, C, R) ==
    /\ cycle[C].step \in Going /\ cycle[C].open /\ now = cycle[C].began + Deadline
    /\ cycle'[C].step = cycle[C].step /\ cycle'[C].began = cycle[C].began
    /\ ~ cycle'[C].open
    /\ cycle'[R] = cycle[R] /\ retryAt'[k] = now + RetryAfter
    /\ UNCHANGED <<now, driver, faults, last>>

RetryGivenUp(k, C, R) ==
    /\ cycle'[R].step = cycle[R].step /\ cycle'[R].began = cycle[R].began
    /\ cycle'[R].usable = cycle[R].usable
    /\ cycle'[C] = cycle[C] /\ retryAt'[k] = retryAt[k]
    /\ UNCHANGED <<now, driver, faults, last>>

Called(k, C, R) ==
    /\ driver = "scheduler" /\ now = k * Interval
    /\ cycle[C].step = "idle" /\ cycle'[C].step = "request"
    /\ cycle'[C].began = now /\ cycle'[C].open
    /\ cycle'[R] = cycle[R] /\ retryAt'[k] = retryAt[k]
    /\ UNCHANGED <<now, driver, faults>> /\ last' = now

Retried(k, C, R) ==
    /\ now = retryAt[k] /\ retryAt'[k] = Never
    /\ cycle[R].step = "idle" /\ cycle'[R].step = "request"
    /\ cycle'[R].began = now /\ cycle'[R].usable
    /\ cycle'[C] = cycle[C]
    /\ UNCHANGED <<now, driver, faults>> /\ last' = now

Killed(k, C, R) ==
    /\ driver = "scheduler"
    /\ \A c \in {C, R} : IF cycle[c].step \in Going THEN cycle'[c].step = "failed"
                                                    ELSE cycle'[c] = cycle[c]
    /\ retryAt'[k] = IF cycle[C].step \in Going /\ cycle[C].open THEN now + RetryAfter
                                                               ELSE retryAt[k]
    /\ faults[k] <= faults'[k]
    /\ {cycle[C].step, cycle[R].step} \cap Going # {}
         => faults'[k] > 0 /\ (faults[k] > 0 => faults'[k] > 1)
    /\ cycle[C].step = "idle" /\ cycle[R].step = "idle" => faults'[k] = faults[k]
    /\ UNCHANGED <<now, driver, last>>

TimePassed(k, C, R) ==
    /\ now' \in Nat /\ now < now'
    /\ cycle[C].step \in Going => now' <= cycle[C].until
    /\ cycle[C].step \in Going /\ cycle[C].open => now' <= cycle[C].began + Deadline
    /\ retryAt[k] # Never => now' <= retryAt[k]
    /\ driver = "scheduler" /\ cycle[C].step = "idle" => now' <= k * Interval
    /\ UNCHANGED <<driver, cycle, retryAt, faults, last>>

TickStep(k, C, R) ==
    \/ Untouched(k, C, R)   \/ Called(k, C, R)       \/ Retried(k, C, R)
    \/ CallGoes(k, C, R)    \/ CallEnds(k, C, R)     \/ CallGivenUp(k, C, R)
    \/ RetryGoes(k, C, R)   \/ RetryEnds(k, C, R)    \/ RetryGivenUp(k, C, R)
    \/ Killed(k, C, R)      \/ TimePassed(k, C, R)

\* What the steps of a tick have in common: values, and that C is no R.
LEMMA TickValues ==
    ASSUME TypeOK, NEW k \in Rounds
    PROVE  /\ cycle \in [Cycles -> CycleState]
           /\ k * Interval \in Nat /\ now \in Nat /\ faults[k] \in 0 .. 2
           /\ cycle[<<k, "call">>] \in CycleState /\ cycle[<<k, "retry">>] \in CycleState
           /\ retryAt[k] \in Nat \cup {Never} /\ last \in Nat \cup {Never}
           /\ Deadline \in Nat \ {0} /\ RetryAfter \in Nat \ {0}
           /\ LatestAttempt = Deadline + RetryAfter /\ Never = -1
           /\ <<k, "call">> \in Calls /\ <<k, "retry">> \in Calls
           /\ <<k, "call">> \in Cycles /\ <<k, "retry">> \in Cycles
           /\ <<k, "call">> # <<k, "retry">>
           /\ \A c \in Cycles : c[1] = k /\ c \in Calls => c \in {<<k, "call">>, <<k, "retry">>}
BY TypeOfCycles, TicksApart, Cast, ServiceAssumption DEF LatestAttempt

\* A fault in the round of k counts for k; a fault of a cycle that is not one of
\* the two is of another round, or the loops'.
LEMMA FaultsOf ==
    ASSUME TypeOK, LoopsInv, NEW k \in Rounds, NEW c \in Cycles, cycle[c].step \in Going,
           UNCHANGED faults \/ Fault(c[1])
    PROVE  /\ faults[k] <= faults'[k]
           /\ c \notin {<<k, "call">>, <<k, "retry">>}
                => faults'[k] = faults[k] \/ driver # "scheduler"
           /\ c[1] = k /\ Fault(c[1]) => faults'[k] > 0 /\ (faults[k] > 0 => faults'[k] > 1)
<1>1. faults[k] <= faults'[k] /\ (c[1] # k => faults'[k] = faults[k])
  BY FaultsOnlyGrow
<1>2. c[1] = k /\ c \notin {<<k, "call">>, <<k, "retry">>} => driver # "scheduler"
  BY TickValues, DrivenCycles
<1>3. c[1] = k /\ Fault(c[1]) => faults'[k] > 0 /\ (faults[k] > 0 => faults'[k] > 1)
  BY FaultCounts
<1>4. QED
  BY <1>1, <1>2, <1>3

LEMMA StepOfTick ==
    ASSUME TypeOK, Locked, LoopsInv, [Next]_vars, NEW k \in Rounds
    PROVE  TickStep(k, <<k, "call">>, <<k, "retry">>)
<1> DEFINE C == <<k, "call">>
           R == <<k, "retry">>
<1>1. /\ cycle \in [Cycles -> CycleState] /\ cycle[C] \in CycleState /\ cycle[R] \in CycleState
      /\ now \in Nat /\ faults[k] \in 0 .. 2 /\ retryAt \in [Rounds -> Nat \cup {Never}]
      /\ C \in Calls /\ R \in Calls /\ C \in Cycles /\ R \in Cycles /\ C # R
      /\ C[1] = k /\ R[1] = k
  BY TickValues, TypeOfCycles
<1> HIDE DEF C, R
<1>2. ASSUME NEW c \in Cycles, NEW r, Goes(c, r) PROVE TickStep(k, C, R)
  <2>1. /\ cycle'[C] = IF c = C THEN r ELSE cycle[C]
        /\ cycle'[R] = IF c = R THEN r ELSE cycle[R]
    BY <1>1, <1>2 DEF Goes
  <2>2. /\ UNCHANGED <<now, driver, retryAt, last>>
        /\ faults[k] <= faults'[k]
        /\ c # C /\ c # R => faults'[k] = faults[k] \/ driver # "scheduler"
    BY <1>2, FaultsOf DEF Goes, C, R
  <2>3. CASE c # C /\ c # R
    BY <2>1, <2>2, <2>3 DEF TickStep, Untouched
  <2>4. CASE c = C
    BY <1>1, <1>2, <2>1, <2>2, <2>4 DEF Goes, TickStep, CallGoes
  <2>5. CASE c = R
    <3>1. ~ r.usable => ~ cycle[R].usable \/ (faults[k] > 0 => faults'[k] > 1)
      BY <1>1, <1>2, <2>5, FaultsOf DEF Goes
    <3>2. QED
      BY <1>1, <1>2, <2>1, <2>2, <2>5, <3>1 DEF Goes, TickStep, RetryGoes
  <2>6. QED
    BY <2>3, <2>4, <2>5
<1>3. ASSUME NEW c \in Cycles, NEW how, Ends(c, how) PROVE TickStep(k, C, R)
  <2>1. PICK r \in CycleState : /\ cycle' = [cycle EXCEPT ![c] = r]
                                /\ r.step = (IF how = "staged" THEN "staged" ELSE "failed")
    BY <1>3, EndLeaves
  <2>2. /\ cycle'[C] = IF c = C THEN r ELSE cycle[C]
        /\ cycle'[R] = IF c = R THEN r ELSE cycle[R]
    BY <1>1, <2>1
  <2>3. /\ UNCHANGED <<now, driver, last>> /\ cycle[c].step \in Going
        /\ faults[k] <= faults'[k]
        /\ c # C /\ c # R => faults'[k] = faults[k] \/ driver # "scheduler"
    BY <1>3, FaultsOf DEF Ends, C, R
  <2>4. how # "staged" /\ c[1] = k
          => ~ cycle[c].usable \/ (faults'[k] > 0 /\ (faults[k] > 0 => faults'[k] > 1))
    BY <1>3, FaultsOf DEF Ends
  <2>5. retryAt'[k] = IF c = C /\ cycle[C].open /\ how # "staged" THEN now + RetryAfter
                                                                 ELSE retryAt[k]
    <3>1. CASE c \notin Calls
      BY <1>1, <1>3, <3>1, EndLeaves
    <3>2. CASE c \in Calls
      <4>1. c \in Open <=> cycle[c].open
        BY <2>3 DEF Open, Working, Going
      <4>2. IF c \in Open /\ how # "staged" THEN Repeat(c) ELSE UNCHANGED retryAt
        BY <1>3, <3>2, EndLeaves
      <4>3. CASE c \in Open /\ how # "staged"
        BY <1>3, <4>1, <4>2, <4>3, RepeatsAre DEF C
      <4>4. CASE ~ (c \in Open /\ how # "staged")
        BY <4>1, <4>2, <4>4
      <4>5. QED
        BY <4>3, <4>4
    <3>3. QED
      BY <3>1, <3>2
  <2>6. CASE c # C /\ c # R
    BY <2>2, <2>3, <2>5, <2>6 DEF TickStep, Untouched
  <2>7. CASE c = C
    BY <1>1, <2>1, <2>2, <2>3, <2>4, <2>5, <2>7 DEF TickStep, CallEnds
  <2>8. CASE c = R
    BY <1>1, <2>1, <2>2, <2>3, <2>4, <2>5, <2>8 DEF TickStep, RetryEnds
  <2>9. QED
    BY <2>6, <2>7, <2>8
<1>4. ASSUME NEW c \in Cycles, GiveUp(c) PROVE TickStep(k, C, R)
  <2>1. PICK r \in CycleState : /\ cycle' = [cycle EXCEPT ![c] = r] /\ ~ r.open
                                /\ r.step = cycle[c].step /\ r.began = cycle[c].began
                                /\ r.usable = cycle[c].usable
    BY <1>4, GivenUp
  <2>2. /\ cycle'[C] = IF c = C THEN r ELSE cycle[C]
        /\ cycle'[R] = IF c = R THEN r ELSE cycle[R]
    BY <1>1, <2>1
  <2>3. /\ UNCHANGED <<now, driver, faults, last>> /\ now = cycle[c].began + Deadline
        /\ cycle[c].step \in Going /\ cycle[c].open
    BY <1>4 DEF GiveUp, Open, Working, Going
  <2>4. retryAt'[k] = IF c = C THEN now + RetryAfter ELSE retryAt[k]
    BY <1>4, RepeatsAre DEF GiveUp, C
  <2>5. CASE c # C /\ c # R
    BY <2>2, <2>3, <2>4, <2>5 DEF TickStep, Untouched
  <2>6. CASE c = C
    BY <1>1, <2>1, <2>2, <2>3, <2>4, <2>6 DEF TickStep, CallGivenUp
  <2>7. CASE c = R
    BY <1>1, <2>1, <2>2, <2>3, <2>4, <2>7 DEF TickStep, RetryGivenUp
  <2>8. QED
    BY <2>5, <2>6, <2>7
<1>5. ASSUME NEW j \in Rounds, Tick(j) PROVE TickStep(k, C, R)
  <2>1. PICK r : Begun(<<j, "call">>, r)
    BY <1>5, BeginBegins, Cast DEF Tick
  <2>2. /\ UNCHANGED <<now, driver, retryAt, faults>> /\ now = j * Interval
        /\ driver = "scheduler" /\ last' = now
    BY <1>5 DEF Tick
  <2>3. cycle'[C] = (IF j = k THEN r ELSE cycle[C]) /\ cycle'[R] = cycle[R]
    BY <1>1, <2>1 DEF Begun, C, R
  <2>4. CASE j # k
    BY <2>2, <2>3, <2>4 DEF TickStep, Untouched
  <2>5. CASE j = k
    <3>1. /\ r.step = "request" /\ r.began = now /\ r.open /\ cycle[C].step = "idle"
      BY <1>1, <2>1, <2>5 DEF Begun, C
    <3>2. QED
      BY <2>2, <2>3, <2>5, <3>1 DEF TickStep, Called
  <2>6. QED
    BY <2>4, <2>5
<1>6. ASSUME NEW j \in Rounds, TickAgain(j) PROVE TickStep(k, C, R)
  <2>1. PICK r : Begun(<<j, "retry">>, r)
    BY <1>6, BeginBegins, Cast DEF TickAgain
  <2>2. /\ UNCHANGED <<now, driver, faults>> /\ now = retryAt[j] /\ last' = now
        /\ retryAt'[k] = IF j = k THEN Never ELSE retryAt[k]
    BY <1>1, <1>6 DEF TickAgain
  <2>3. cycle'[R] = (IF j = k THEN r ELSE cycle[R]) /\ cycle'[C] = cycle[C]
    BY <1>1, <2>1 DEF Begun, C, R
  <2>4. CASE j # k
    BY <2>2, <2>3, <2>4 DEF TickStep, Untouched
  <2>5. CASE j = k
    <3>1. r.step = "request" /\ r.began = now /\ r.usable /\ cycle[R].step = "idle"
      BY <2>1, <2>5 DEF Begun, R
    <3>2. QED
      BY <2>2, <2>3, <2>5, <3>1 DEF TickStep, Retried
  <2>6. QED
    BY <2>4, <2>5
<1>7. ASSUME KillInstance PROVE TickStep(k, C, R)
  <2>1. driver = "scheduler" /\ UNCHANGED <<now, driver, last>>
    BY <1>7 DEF KillInstance
  <2>2. \A c \in {C, R} : IF cycle[c].step \in Going THEN cycle'[c].step = "failed"
                                                     ELSE cycle'[c] = cycle[c]
    BY <1>1, <1>7, IdleIsACycle DEF KillInstance, Working, Going
  <2>3. retryAt'[k] = IF cycle[C].step \in Going /\ cycle[C].open THEN now + RetryAfter
                                                                 ELSE retryAt[k]
    BY <1>1, <1>7 DEF KillInstance, Open, Working, Going, C
  <2>4. faults'[k] = IF faults[k] < 2 /\ (\E c \in Working : c[1] = k) THEN faults[k] + 1
                                                                      ELSE faults[k]
    BY <1>7 DEF KillInstance
  <2>5. {cycle[C].step, cycle[R].step} \cap Going # {} => \E c \in Working : c[1] = k
    BY <1>1 DEF Working, Going
  <2>6. ASSUME cycle[C].step = "idle", cycle[R].step = "idle", NEW c \in Working PROVE c[1] # k
    <3>1. c \in Cycles /\ cycle[c].step \in Going /\ c # C /\ c # R
      BY <2>6 DEF Working, Going
    <3>2. c \in Calls
      BY <2>1, <3>1, DrivenCycles
    <3>3. QED
      BY <3>1, <3>2, TickValues DEF C, R
  <2>7. /\ faults[k] <= faults'[k]
        /\ {cycle[C].step, cycle[R].step} \cap Going # {}
             => faults'[k] > 0 /\ (faults[k] > 0 => faults'[k] > 1)
        /\ cycle[C].step = "idle" /\ cycle[R].step = "idle" => faults'[k] = faults[k]
    BY <1>1, <2>4, <2>5, <2>6
  <2>8. QED
    BY <2>1, <2>2, <2>3, <2>7 DEF TickStep, Killed
<1>8. ASSUME NEW p \in Loops, Launch(p) PROVE TickStep(k, C, R)
  BY <1>8 DEF Launch, TickStep, Untouched
<1>9. ASSUME NEW p \in Loops, Enter(p) \/ WakeUp(p) PROVE TickStep(k, C, R)
  <2>1. /\ BeginRound(p) /\ <<round[p] + 1, p>> \in Cycles
        /\ <<round[p] + 1, p>> # C /\ <<round[p] + 1, p>> # R
    BY <1>1, <1>9, NextRound
  <2>2. PICK r : Begun(<<round[p] + 1, p>>, r)
    BY <2>1, BeginBegins DEF BeginRound
  <2>3. cycle'[C] = cycle[C] /\ cycle'[R] = cycle[R]
    BY <1>1, <2>1, <2>2 DEF Begun
  <2>4. QED
    BY <2>1, <2>3 DEF BeginRound, TickStep, Untouched
<1>10. ASSUME NEW p \in Loops, Interrupt(p) PROVE TickStep(k, C, R)
  <2>1. C[2] # p /\ R[2] # p
    BY ServiceAssumption DEF C, R
  <2>2. cycle'[C] = cycle[C] /\ cycle'[R] = cycle[R]
    BY <1>1, <1>10, <2>1 DEF Interrupt
  <2>3. QED
    BY <1>10, <2>2 DEF Interrupt, TickStep, Untouched
<1>11. ASSUME Pass PROVE TickStep(k, C, R)
  <2>1. UNCHANGED <<driver, cycle, retryAt, faults, last>>
    BY <1>11 DEF Pass
  <2>2. /\ now' \in Nat /\ now < now'
        /\ cycle[C].step \in Going => now' <= cycle[C].until
        /\ cycle[C].step \in Going /\ cycle[C].open => now' <= cycle[C].began + Deadline
        /\ retryAt[k] # Never => now' <= retryAt[k]
        /\ driver = "scheduler" /\ cycle[C].step = "idle" => now' <= k * Interval
    BY <1>1, <1>11, TimePasses DEF Open, Working, Going, C
  <2>3. QED
    BY <2>1, <2>2 DEF TickStep, TimePassed
<1>12. ASSUME UNCHANGED vars PROVE TickStep(k, C, R)
  BY <1>12 DEF vars, TickStep, Untouched
<1>13. TickStep(k, C, R)
  BY <1>2, <1>3, <1>4, <1>5, <1>6, <1>7, <1>8, <1>9, <1>10, <1>11, <1>12,
     AdvanceGoesOrEnds DEF Next
<1>14. QED
  BY <1>13 DEF C, R

-----------------------------------------------------------------------------
(***************************************************************************)
(* A tick's two attempts: its call, due at the tick, and the retry, due at   *)
(* t.  f is what went wrong in the tick, at the time, dr the driver.        *)
(***************************************************************************)
TickInv(due, call, retry, t, f, at, dr) ==
    /\ dr # "scheduler" => call.step = "idle"
    /\ call.step = "idle" => /\ t = Never /\ retry.step = "idle"
                             /\ dr = "scheduler" => f = 0 /\ at <= due
    /\ call.step # "idle" => due <= at
    /\ call.step \in Going =>
         /\ call.began = due
         /\ call.open => at <= due + Deadline /\ t = Never /\ retry.step = "idle"
         /\ ~ call.open => /\ due + Deadline <= at
                           /\ t # Never => t = due + LatestAttempt
    /\ t # Never => /\ retry.step = "idle"
                    /\ at <= t /\ due + RetryAfter <= t /\ t <= due + LatestAttempt
    /\ retry.step # "idle" => due + RetryAfter <= at
    /\ retry.step \in Going => /\ due + RetryAfter <= retry.began
                               /\ retry.began <= due + LatestAttempt

TickOf(k) == TickInv(k * Interval, cycle[<<k, "call">>], cycle[<<k, "retry">>],
                     retryAt[k], faults[k], now, driver)

TicksInv == \A k \in Rounds : TickOf(k)

LEMMA TicksInit == Init => TicksInv
<1> SUFFICES ASSUME Init, NEW k \in Rounds PROVE TickOf(k)
  BY DEF TicksInv
<1>1. /\ cycle[<<k, "call">>].step = "idle" /\ cycle[<<k, "retry">>].step = "idle"
      /\ retryAt[k] = Never /\ faults[k] = 0 /\ now = 0 /\ k * Interval \in Nat
  BY Cast, IdleIsACycle, TicksApart DEF Init
<1>2. QED
  BY <1>1 DEF TickOf, TickInv, Going

LEMMA TicksStep ==
    ASSUME TypeOK, Locked, LoopsInv, TicksInv, [Next]_vars
    PROVE  TicksInv'
<1>1. SUFFICES ASSUME NEW k \in Rounds PROVE TickOf(k)'
  BY DEF TicksInv
<1> DEFINE C == <<k, "call">>
           R == <<k, "retry">>
<1>2. /\ TickInv(k * Interval, cycle[C], cycle[R], retryAt[k], faults[k], now, driver)
      /\ k * Interval \in Nat /\ now \in Nat /\ faults[k] \in 0 .. 2
      /\ cycle[C].began \in Nat \cup {Never} /\ cycle[R].began \in Nat \cup {Never}
      /\ cycle[C].open \in BOOLEAN /\ retryAt[k] \in Nat \cup {Never}
      /\ Deadline \in Nat \ {0} /\ RetryAfter \in Nat \ {0}
      /\ LatestAttempt = Deadline + RetryAfter /\ Never = -1
  BY TickValues, CycleFields DEF TicksInv, TickOf
<1>3. TickStep(k, C, R)
  BY StepOfTick
<1> HIDE DEF C, R
<1>4. SUFFICES TickInv(k * Interval, cycle'[C], cycle'[R], retryAt'[k], faults'[k], now', driver')
  BY DEF TickOf, C, R
<1>5. CASE Untouched(k, C, R)
  BY <1>2, <1>5 DEF Untouched, TickInv
<1>6. CASE CallGoes(k, C, R)
  BY <1>2, <1>6 DEF CallGoes, TickInv, Going
<1>7. CASE RetryGoes(k, C, R)
  BY <1>2, <1>7 DEF RetryGoes, TickInv, Going
<1>8. CASE CallEnds(k, C, R)
  BY <1>2, <1>8 DEF CallEnds, TickInv, Going
<1>9. CASE RetryEnds(k, C, R)
  BY <1>2, <1>9 DEF RetryEnds, TickInv, Going
<1>10. CASE CallGivenUp(k, C, R)
  BY <1>2, <1>10 DEF CallGivenUp, TickInv, Going
<1>11. CASE RetryGivenUp(k, C, R)
  BY <1>2, <1>11 DEF RetryGivenUp, TickInv
<1>12. CASE Called(k, C, R)
  BY <1>2, <1>12 DEF Called, TickInv, Going
<1>13. CASE Retried(k, C, R)
  BY <1>2, <1>13 DEF Retried, TickInv, Going
<1>14. CASE Killed(k, C, R)
  <2>1. CASE cycle[C].step \in Going
    BY <1>2, <1>14, <2>1 DEF Killed, TickInv, Going
  <2>2. CASE cycle[C].step \notin Going
    BY <1>2, <1>14, <2>2 DEF Killed, TickInv, Going
  <2>3. QED
    BY <2>1, <2>2
<1>15. CASE TimePassed(k, C, R)
  BY <1>2, <1>15 DEF TimePassed, TickInv
<1>16. QED
  BY <1>3, <1>5, <1>6, <1>7, <1>8, <1>9, <1>10, <1>11, <1>12, <1>13, <1>14, <1>15
  DEF TickStep

-----------------------------------------------------------------------------
(***************************************************************************)
(* Overlapping cycles.                                                      *)
(***************************************************************************)
TimedInv == TypeOK /\ Locked /\ CyclesInv /\ LoopsInv /\ TicksInv

LEMMA TimedInit == Init => TimedInv
BY TypeInit, CyclesInit, LoopsInit, TicksInit DEF TimedInv

LEMMA TimedStep ==
    ASSUME Timetable
    PROVE  TimedInv /\ [Next]_vars => TimedInv'
BY TypeStep, CyclesStep, LoopsStep, TicksStep DEF TimedInv

\* When the second attempt is over before the next tick, a call under way is of the
\* tick that came last.
LEMMA WithinItsTick ==
    ASSUME Timetable, CyclesFit, TimedInv, NEW c \in Working \cap Calls
    PROVE  c[1] * Interval <= now /\ now < c[1] * Interval + Interval
<1> DEFINE k == c[1]
           C == <<k, "call">>
           R == <<k, "retry">>
<1>1. c \in Cycles /\ k \in Rounds /\ cycle[c].step \in Going
  BY Cast DEF Working, Going
<1>2. c \in {C, R}
  BY <1>1, TickValues DEF TimedInv
<1>3. /\ TickInv(k * Interval, cycle[C], cycle[R], retryAt[k], faults[k], now, driver)
      /\ k * Interval \in Nat /\ Deadline \in Nat \ {0} /\ RetryAfter \in Nat \ {0}
      /\ LatestAttempt = Deadline + RetryAfter
  BY <1>1, TickValues DEF TimedInv, TicksInv, TickOf
<1>4. /\ cycle[c].began \in Nat /\ now \in Nat /\ LongestCycle \in Nat
      /\ now <= cycle[c].began + LongestCycle
  BY <1>1, EndsInTime DEF TimedInv
<1> HIDE DEF k, C, R
<1>5. k * Interval <= now /\ cycle[c].began <= k * Interval + LatestAttempt
  <2>1. CASE c = C
    BY <1>1, <1>3, <1>4, <2>1 DEF TickInv, Going
  <2>2. CASE c = R
    BY <1>1, <1>3, <1>4, <2>2 DEF TickInv, Going
  <2>3. QED
    BY <1>2, <2>1, <2>2
<1>6. now < k * Interval + Interval
  BY <1>3, <1>4, <1>5, ServiceAssumption DEF CyclesFit
<1>7. QED
  BY <1>5, <1>6 DEF k

LEMMA OverlapsInOneTick ==
    ASSUME Timetable, CyclesFit, TimedInv
    PROVE  OverlapNeedsDeadline
<1>1. SUFFICES ASSUME NEW b \in Working \cap Calls, NEW c \in Working \cap Calls, b # c,
                      cycle[b].began <= cycle[c].began
               PROVE  b[1] = c[1] /\ cycle[b].began + Deadline <= now
  BY DEF OverlapNeedsDeadline
<1>2. /\ b \in Cycles /\ c \in Cycles /\ b[1] \in Rounds /\ c[1] \in Rounds
      /\ cycle[b].step \in Going /\ cycle[c].step \in Going
  BY Cast DEF Working, Going
<1>3. b[1] = c[1]
  <2>1. \A j \in Rounds, k \in Rounds : j < k /\ k * Interval <= now => ~ (now < j * Interval + Interval)
    BY TicksApart, ServiceAssumption, TypeOfCycles DEF TimedInv
  <2>2. /\ b[1] * Interval <= now /\ now < b[1] * Interval + Interval
        /\ c[1] * Interval <= now /\ now < c[1] * Interval + Interval
    BY WithinItsTick
  <2>3. ~ (b[1] < c[1]) /\ ~ (c[1] < b[1])
    BY <1>2, <2>1, <2>2
  <2>4. QED
    BY <1>2, <2>3, Cast
<1> DEFINE k == b[1]
           C == <<k, "call">>
           R == <<k, "retry">>
<1>4. b \in {C, R} /\ c \in {C, R}
  BY <1>2, <1>3, TickValues DEF TimedInv
<1>5. /\ TickInv(k * Interval, cycle[C], cycle[R], retryAt[k], faults[k], now, driver)
      /\ k * Interval \in Nat /\ Deadline \in Nat \ {0} /\ RetryAfter \in Nat \ {0}
      /\ cycle[C].open \in BOOLEAN
  BY <1>2, TickValues, CycleFields DEF TimedInv, TicksInv, TickOf
<1>6. cycle[b].began \in Nat /\ cycle[c].began \in Nat /\ now \in Nat
  BY <1>2, EndsInTime DEF TimedInv
<1> HIDE DEF k, C, R
<1>7. b = C /\ c = R
  BY <1>1, <1>2, <1>4, <1>5, <1>6 DEF TickInv
<1>8. cycle[b].began + Deadline <= now
  BY <1>2, <1>5, <1>6, <1>7 DEF TickInv, Going
<1>9. QED
  BY <1>3, <1>8

\* For every policy that leaves room for two attempts in an interval, calls only
\* run at the same time as the two of one tick, and only after the first was given
\* up on (scripts/deploy.sh:173,262).
THEOREM OverlapNeedsGivingUp ==
    ASSUME Timetable, CyclesFit
    PROVE  Spec => []OverlapNeedsDeadline
<1>1. TimedInv /\ [Next]_vars => TimedInv'
  BY TimedStep
<1>2. TimedInv => OverlapNeedsDeadline
  BY OverlapsInOneTick
<1>3. QED
  BY TimedInit, <1>1, <1>2, PTL DEF Spec

-----------------------------------------------------------------------------
(***************************************************************************)
(* Beginnings.  What is yet to begin in a tick is due a pause after the      *)
(* latest beginning ls.                                                     *)
(***************************************************************************)
ApartInv(due, call, t, ls, at, dr) ==
    ls # Never => /\ ls <= at
                  /\ dr = "scheduler" /\ call.step = "idle" => ls + RetryAfter <= due
                  /\ t # Never => ls + RetryAfter <= t

ApartOf(k) == ApartInv(k * Interval, cycle[<<k, "call">>], retryAt[k], last, now, driver)

Apart == \A k \in Rounds : ApartOf(k)

BeginningsInv == TypeOK /\ Locked /\ LoopsInv /\ TicksInv /\ Apart

LEMMA BeginningsInit == Init => BeginningsInv
<1>1. Init => Apart
  BY DEF Init, Apart, ApartOf, ApartInv
<1>2. QED
  BY <1>1, TypeInit, LoopsInit, TicksInit DEF BeginningsInv

\* What the other ticks know of tick j, in which a call begins now.
LEMMA ElsewhereLater ==
    ASSUME AttemptsFit, TypeOK, TicksInv, NEW k \in Rounds, NEW j \in Rounds \ {k},
           now = j * Interval \/ now = retryAt[j]
    PROVE  /\ driver = "scheduler" /\ cycle[<<k, "call">>].step = "idle"
                => now + RetryAfter <= k * Interval
           /\ retryAt[k] = Never \/ now + RetryAfter <= retryAt[k]
<1>1. /\ TickInv(k * Interval, cycle[<<k, "call">>], cycle[<<k, "retry">>],
                 retryAt[k], faults[k], now, driver)
      /\ TickInv(j * Interval, cycle[<<j, "call">>], cycle[<<j, "retry">>],
                 retryAt[j], faults[j], now, driver)
  BY DEF TicksInv, TickOf
<1>2. /\ k * Interval \in Nat /\ j * Interval \in Nat /\ now \in Nat
      /\ retryAt[k] \in Nat \cup {Never} /\ retryAt[j] \in Nat \cup {Never}
      /\ Deadline \in Nat \ {0} /\ RetryAfter \in Nat \ {0} /\ Interval \in Nat
      /\ LatestAttempt = Deadline + RetryAfter /\ Never = -1
      /\ k \in Nat /\ j \in Nat /\ j # k
  BY TickValues, Cast, ServiceAssumption
<1>3. LatestAttempt + RetryAfter <= Interval
  BY DEF AttemptsFit
<1>4. j * Interval <= now /\ now <= j * Interval + LatestAttempt
  BY <1>1, <1>2 DEF TickInv
<1>5. CASE j < k
  <2>1. j * Interval + Interval <= k * Interval
    BY <1>5, TicksApart
  <2>2. now + RetryAfter <= k * Interval
    BY <1>2, <1>3, <1>4, <2>1
  <2>3. QED
    BY <1>1, <1>2, <2>2 DEF TickInv
<1>6. CASE k < j
  <2>1. k * Interval + Interval <= j * Interval
    BY <1>6, TicksApart
  <2>2. ~ (now <= k * Interval) /\ ~ (now <= k * Interval + LatestAttempt)
    BY <1>2, <1>3, <1>4, <2>1
  <2>3. QED
    BY <1>1, <1>2, <2>2 DEF TickInv
<1>7. QED
  BY <1>2, <1>5, <1>6

LEMMA ApartStep ==
    ASSUME AttemptsFit, BeginningsInv, [Next]_vars
    PROVE  Apart'
<1>1. SUFFICES ASSUME NEW k \in Rounds PROVE ApartOf(k)'
  BY DEF Apart
<1> DEFINE C == <<k, "call">>
           R == <<k, "retry">>
<1>2. /\ TickInv(k * Interval, cycle[C], cycle[R], retryAt[k], faults[k], now, driver)
      /\ ApartInv(k * Interval, cycle[C], retryAt[k], last, now, driver)
      /\ k * Interval \in Nat /\ now \in Nat
      /\ retryAt[k] \in Nat \cup {Never} /\ last \in Nat \cup {Never}
      /\ Deadline \in Nat \ {0} /\ RetryAfter \in Nat \ {0} /\ Never = -1
  BY TickValues DEF BeginningsInv, TicksInv, TickOf, Apart, ApartOf
<1>3. TickStep(k, C, R)
  BY StepOfTick DEF BeginningsInv
<1>4. ASSUME NEW j \in Rounds \ {k}, now = j * Interval \/ now = retryAt[j]
      PROVE  /\ driver = "scheduler" /\ cycle[C].step = "idle" => now + RetryAfter <= k * Interval
             /\ retryAt[k] = Never \/ now + RetryAfter <= retryAt[k]
  BY <1>4, ElsewhereLater DEF BeginningsInv
<1> HIDE DEF C, R
<1>5. SUFFICES ApartInv(k * Interval, cycle'[C], retryAt'[k], last', now', driver')
  BY DEF ApartOf, C
<1>6. CASE Untouched(k, C, R)
  <2>1. CASE UNCHANGED last
    BY <1>2, <1>6, <2>1 DEF Untouched, ApartInv
  <2>2. CASE last' # last
    BY <1>2, <1>4, <1>6, <2>2 DEF Untouched, ApartInv
  <2>3. QED
    BY <2>1, <2>2
<1>7. CASE CallGoes(k, C, R)
  BY <1>2, <1>7 DEF CallGoes, ApartInv, Going
<1>8. CASE RetryGoes(k, C, R)
  BY <1>2, <1>8 DEF RetryGoes, ApartInv
<1>9. CASE CallEnds(k, C, R)
  BY <1>2, <1>9 DEF CallEnds, ApartInv
<1>10. CASE RetryEnds(k, C, R)
  BY <1>2, <1>10 DEF RetryEnds, ApartInv
<1>11. CASE CallGivenUp(k, C, R)
  BY <1>2, <1>11 DEF CallGivenUp, ApartInv, Going
<1>12. CASE RetryGivenUp(k, C, R)
  BY <1>2, <1>12 DEF RetryGivenUp, ApartInv
<1>13. CASE Called(k, C, R)
  BY <1>2, <1>13 DEF Called, ApartInv, TickInv
<1>14. CASE Retried(k, C, R)
  BY <1>2, <1>14 DEF Retried, ApartInv, TickInv
<1>15. CASE Killed(k, C, R)
  BY <1>2, <1>15 DEF Killed, ApartInv, Going
<1>16. CASE TimePassed(k, C, R)
  BY <1>2, <1>16 DEF TimePassed, ApartInv
<1>17. QED
  BY <1>3, <1>6, <1>7, <1>8, <1>9, <1>10, <1>11, <1>12, <1>13, <1>14, <1>15, <1>16
  DEF TickStep

\* When the second attempt leaves a pause to the next tick, no two calls begin
\* within a pause of each other, whatever fails, is given up on or killed; so the
\* keys made of their times differ (staging/snapshots.py:44-52).
THEOREM BeginningsStayApart ==
    ASSUME AttemptsFit
    PROVE  Spec => BeginningsApart
<1>1. BeginningsInv /\ [Next]_vars => BeginningsInv'
  BY TypeStep, LoopsStep, TicksStep, ApartStep DEF BeginningsInv
<1>2. ASSUME BeginningsInv, [Next]_vars, NEW c \in Calls, last # Never,
             cycle[c].step = "idle", cycle'[c].step # "idle"
      PROVE  last + RetryAfter <= now
  <2> DEFINE k == c[1]
             C == <<k, "call">>
             R == <<k, "retry">>
  <2>1. k \in Rounds /\ c \in {C, R}
    BY Cast, TickValues DEF BeginningsInv
  <2>2. TickStep(k, C, R)
    BY <1>2, <2>1, StepOfTick DEF BeginningsInv
  <2>3. /\ ApartInv(k * Interval, cycle[C], retryAt[k], last, now, driver)
        /\ retryAt[k] \in Nat \cup {Never} /\ now \in Nat /\ Never = -1
    BY <1>2, <2>1, TickValues DEF BeginningsInv, Apart, ApartOf
  <2> HIDE DEF k, C, R
  <2>4. Called(k, C, R) \/ Retried(k, C, R)
    BY <1>2, <2>1, <2>2
    DEF TickStep, Untouched, CallGoes, CallEnds, CallGivenUp, RetryGoes, RetryEnds,
        RetryGivenUp, Killed, TimePassed, Going
  <2>5. CASE Called(k, C, R)
    BY <1>2, <2>3, <2>5 DEF Called, ApartInv
  <2>6. CASE Retried(k, C, R)
    BY <1>2, <2>3, <2>6 DEF Retried, ApartInv
  <2>7. QED
    BY <2>4, <2>5, <2>6
<1>3. BeginningsInv /\ [Next]_vars =>
        [ (\E c \in Calls : cycle[c].step = "idle" /\ cycle'[c].step # "idle") /\ last # Never
          => last + RetryAfter <= now ]_vars
  BY <1>2
<1>4. QED
  BY BeginningsInit, <1>1, <1>3, PTL DEF Spec, BeginningsApart

-----------------------------------------------------------------------------
(***************************************************************************)
(* How the faults of a tick add up: it takes one for a retry to be needed,  *)
(* and another for the retry to fail.                                       *)
(***************************************************************************)
FaultInv(call, retry, t, f) ==
    /\ call.step = "failed" => f > 0 /\ (t # Never \/ retry.step # "idle")
    /\ call.step \in Going /\ ~ call.open => t # Never \/ retry.step # "idle"
    /\ retry.step # "idle" => f > 0 \/ call.step = "staged"
    /\ retry.step = "failed" \/ (retry.step \in Going /\ ~ retry.usable)
         => f > 1 \/ call.step = "staged"

FaultOf(k) == FaultInv(cycle[<<k, "call">>], cycle[<<k, "retry">>], retryAt[k], faults[k])

FaultsInv == driver = "scheduler" => \A k \in Rounds : FaultOf(k)

LEMMA FaultsInit == Init => FaultsInv
<1> SUFFICES ASSUME Init, NEW k \in Rounds PROVE FaultOf(k)
  BY DEF FaultsInv
<1>1. cycle[<<k, "call">>].step = "idle" /\ cycle[<<k, "retry">>].step = "idle"
  BY Cast, IdleIsACycle DEF Init
<1>2. QED
  BY <1>1 DEF FaultOf, FaultInv, Going

\* A call without a fault is over when its retry begins.
LEMMA SmoothInTime ==
    ASSUME Timetable, SmoothCyclesFit, TimedInv, NEW k \in Rounds,
           cycle[<<k, "call">>].step \in Going, ~ cycle[<<k, "call">>].open,
           now = retryAt[k], retryAt[k] # Never
    PROVE  faults[k] > 0
<1> DEFINE C == <<k, "call">>
<1>1. /\ TickInv(k * Interval, cycle[C], cycle[<<k, "retry">>], retryAt[k], faults[k], now, driver)
      /\ cycle[C] \in CycleState /\ C \in Cycles /\ C[1] = k
      /\ k * Interval \in Nat /\ now \in Nat /\ faults[k] \in Nat
      /\ LatestAttempt \in Nat
  BY TickValues DEF TimedInv, TicksInv, TickOf
<1>2. CycleInv(cycle[C], faults[k], now)
  BY <1>1 DEF TimedInv, CyclesInv
<1>3. SmoothRest(cycle[C]) \in Nat /\ SmoothCycle \in Nat /\ cycle[C].until \in Nat
  BY <1>1, RestIsNatural, CycleFields
<1>4. now = k * Interval + LatestAttempt /\ cycle[C].began = k * Interval
  BY <1>1 DEF TickInv
<1>5. faults[k] = 0 => now <= k * Interval + SmoothCycle
  BY <1>1, <1>2, <1>3, <1>4 DEF CycleInv, OnSchedule
<1>6. QED
  BY <1>1, <1>3, <1>4, <1>5 DEF SmoothCyclesFit

LEMMA FaultsStep ==
    ASSUME Timetable, SmoothCyclesFit, TimedInv, FaultsInv, [Next]_vars
    PROVE  FaultsInv'
<1>1. UNCHANGED driver
  BY TypeOfCycles DEF TimedInv, Next, Advance, Fetched, FetchError, ReadError, Retry, StageDone,
     StageError, GiveUp, Tick, TickAgain, KillInstance, Launch, Enter, WakeUp, BeginRound,
     Interrupt, Pass, vars
<1>2. SUFFICES ASSUME NEW k \in Rounds, driver = "scheduler" PROVE FaultOf(k)'
  BY <1>1 DEF FaultsInv
<1> DEFINE C == <<k, "call">>
           R == <<k, "retry">>
<1>3. /\ TickInv(k * Interval, cycle[C], cycle[R], retryAt[k], faults[k], now, driver)
      /\ FaultInv(cycle[C], cycle[R], retryAt[k], faults[k])
      /\ now \in Nat /\ faults[k] \in 0 .. 2 /\ faults'[k] \in 0 .. 2
      /\ retryAt[k] \in Nat \cup {Never} /\ RetryAfter \in Nat /\ Never = -1
      /\ cycle[C].usable \in BOOLEAN /\ cycle[C].open \in BOOLEAN
      /\ cycle[C].step \in {"idle", "request", "backoff", "stage", "staged", "failed"}
  <2>1. faults' \in [Rounds -> 0 .. 2]
    BY TypeStep DEF TimedInv, TypeOK
  <2>2. cycle[C] \in CycleState
    BY TickValues DEF TimedInv
  <2>3. cycle[C].step \in {"idle", "request", "backoff", "stage", "staged", "failed"}
    BY <2>2 DEF CycleState
  <2>4. QED
    BY <1>2, <2>1, <2>2, <2>3, TickValues, CycleFields
    DEF TimedInv, TicksInv, TickOf, FaultsInv, FaultOf
<1>4. cycle[C].step \in Going /\ ~ cycle[C].usable => faults[k] > 0
  <2>1. C \in Cycles /\ C[1] = k
    BY Cast
  <2>2. CycleInv(cycle[C], faults[k], now)
    BY <2>1 DEF TimedInv, CyclesInv
  <2>3. QED
    BY <1>3, <2>2 DEF CycleInv, OnSchedule
<1>5. cycle[C].step \in Going /\ ~ cycle[C].open /\ now = retryAt[k] => faults[k] > 0
  BY <1>3, SmoothInTime
<1>6. TickStep(k, C, R)
  BY StepOfTick DEF TimedInv
<1> HIDE DEF C, R
<1>7. SUFFICES FaultInv(cycle'[C], cycle'[R], retryAt'[k], faults'[k])
  BY DEF FaultOf, C, R
<1>8. CASE Untouched(k, C, R)
  BY <1>2, <1>3, <1>8 DEF Untouched, FaultInv
<1>9. CASE CallGoes(k, C, R)
  BY <1>3, <1>9 DEF CallGoes, FaultInv, Going
<1>10. CASE RetryGoes(k, C, R)
  BY <1>3, <1>10 DEF RetryGoes, FaultInv, Going
<1>11. CASE CallEnds(k, C, R)
  BY <1>3, <1>4, <1>11 DEF CallEnds, FaultInv, Going
<1>12. CASE RetryEnds(k, C, R)
  BY <1>3, <1>12 DEF RetryEnds, FaultInv, Going
<1>13. CASE CallGivenUp(k, C, R)
  BY <1>3, <1>13 DEF CallGivenUp, FaultInv, Going
<1>14. CASE RetryGivenUp(k, C, R)
  BY <1>3, <1>14 DEF RetryGivenUp, FaultInv
<1>15. CASE Called(k, C, R)
  BY <1>3, <1>15 DEF Called, FaultInv, TickInv, Going
<1>16. CASE Retried(k, C, R)
  <2>1. faults[k] > 0 \/ cycle[C].step = "staged"
    BY <1>3, <1>5, <1>16 DEF Retried, FaultInv, TickInv, Going
  <2>2. QED
    BY <1>3, <1>16, <2>1 DEF Retried, FaultInv, Going
<1>17. CASE Killed(k, C, R)
  <2>1. /\ cycle[C].step \in Going => cycle'[C].step = "failed"
        /\ cycle[C].step \notin Going => cycle'[C] = cycle[C]
        /\ cycle[R].step \in Going => cycle'[R].step = "failed"
        /\ cycle[R].step \notin Going => cycle'[R] = cycle[R]
    BY <1>17 DEF Killed
  <2>2. /\ faults[k] <= faults'[k]
        /\ cycle[C].step \in Going \/ cycle[R].step \in Going
             => faults'[k] > 0 /\ (faults[k] > 0 => faults'[k] > 1)
    BY <1>17 DEF Killed
  <2>3. /\ cycle[C].step \in Going /\ cycle[C].open => retryAt'[k] # Never
        /\ retryAt[k] # Never => retryAt'[k] # Never
    BY <1>3, <1>17 DEF Killed
  <2>4. cycle[R].step # "idle" => cycle'[R].step # "idle"
    BY <2>1
  <2>5. CASE cycle[C].step \in Going
    <3>1. cycle[C].step # "staged" /\ cycle[C].step # "failed" /\ cycle'[C].step = "failed"
      BY <2>1, <2>5 DEF Going
    <3>2. retryAt'[k] # Never \/ cycle'[R].step # "idle"
      BY <1>3, <2>3, <2>4, <2>5 DEF FaultInv
    <3>3. cycle[R].step # "idle" => faults'[k] > 1
      BY <1>3, <2>2, <2>5, <3>1 DEF FaultInv
    <3>4. cycle[R].step = "idle" => cycle'[R].step = "idle"
      BY <2>1 DEF Going
    <3>5. faults'[k] > 0
      BY <2>2, <2>5
    <3>6. QED
      BY <3>1, <3>2, <3>3, <3>4, <3>5 DEF FaultInv, Going
  <2>6. CASE cycle[C].step \notin Going
    <3>1. cycle'[C] = cycle[C]
      BY <2>1, <2>6
    <3>2. CASE cycle[R].step \in Going
      <4>1. /\ cycle'[R].step = "failed" /\ cycle[R].step # "idle"
            /\ faults'[k] > 0 /\ (faults[k] > 0 => faults'[k] > 1)
        BY <2>1, <2>2, <3>2 DEF Going
      <4>2. QED
        BY <1>3, <2>6, <3>1, <4>1 DEF FaultInv
    <3>3. CASE cycle[R].step \notin Going
      <4>1. cycle'[R] = cycle[R]
        BY <2>1, <3>3
      <4>2. QED
        BY <1>3, <2>2, <2>3, <3>1, <4>1 DEF FaultInv
    <3>4. QED
      BY <3>2, <3>3
  <2>7. QED
    BY <2>5, <2>6
<1>18. CASE TimePassed(k, C, R)
  BY <1>3, <1>18 DEF TimePassed, FaultInv
<1>19. QED
  BY <1>6, <1>8, <1>9, <1>10, <1>11, <1>12, <1>13, <1>14, <1>15, <1>16, <1>17, <1>18
  DEF TickStep

LEMMA AbsorbedInTime ==
    ASSUME Timetable, CyclesFit, TimedInv, FaultsInv
    PROVE  OneFaultIsAbsorbed
<1>1. SUFFICES ASSUME driver = "scheduler", NEW k \in Rounds, (k + 1) * Interval <= now,
                      faults[k] <= 1
               PROVE  \E a \in {"call", "retry"} : cycle[<<k, a>>].step = "staged"
  BY DEF OneFaultIsAbsorbed
<1> DEFINE C == <<k, "call">>
           R == <<k, "retry">>
<1>2. /\ TickInv(k * Interval, cycle[C], cycle[R], retryAt[k], faults[k], now, driver)
      /\ FaultInv(cycle[C], cycle[R], retryAt[k], faults[k])
      /\ k * Interval \in Nat /\ now \in Nat /\ faults[k] \in 0 .. 2
      /\ retryAt[k] \in Nat \cup {Never} /\ LatestAttempt \in Nat
      /\ C \in Cycles /\ R \in Cycles /\ C \in Calls /\ R \in Calls /\ C[1] = k /\ R[1] = k
      /\ cycle[C] \in CycleState /\ cycle[R] \in CycleState
  BY <1>1, TickValues DEF TimedInv, TicksInv, TickOf, FaultsInv, FaultOf
<1>3. (k + 1) * Interval = k * Interval + Interval /\ Interval \in Nat \ {0}
  <2>1. k \in Nat /\ Interval \in Nat \ {0}
    BY Cast, ServiceAssumption
  <2>2. QED
    BY <2>1
<1>4. k * Interval + Interval <= now
  BY <1>1, <1>3
<1>5. cycle[C].step \notin Going /\ cycle[R].step \notin Going
  <2>1. ASSUME NEW c \in {C, R}, cycle[c].step \in Going PROVE FALSE
    <3>1. c \in Working \cap Calls /\ c[1] = k
      BY <1>2, <2>1 DEF Working, Going
    <3>2. now < k * Interval + Interval
      BY <3>1, WithinItsTick
    <3>3. QED
      BY <1>2, <1>3, <1>4, <3>2
  <2>2. QED
    BY <2>1
<1>6. LongestCycle \in Nat
  BY <1>2, RestIsNatural
<1>7. cycle[C].step \in {"idle", "staged", "failed"} /\ cycle[R].step \in {"idle", "staged", "failed"}
  BY <1>2, <1>5 DEF CycleState, Going
<1> HIDE DEF C, R
<1>8. cycle[C].step # "idle"
  BY <1>1, <1>2, <1>3, <1>4 DEF TickInv
<1>9. retryAt[k] = Never
  <2>1. LatestAttempt < Interval
    BY <1>2, <1>3, <1>6 DEF CyclesFit
  <2>2. ~ (now <= k * Interval + LatestAttempt)
    BY <1>2, <1>3, <1>4, <2>1
  <2>3. retryAt[k] # Never => now <= k * Interval + LatestAttempt
    BY <1>2 DEF TickInv, Never
  <2>4. QED
    BY <2>2, <2>3
<1>10. cycle[C].step = "staged" \/ cycle[R].step = "staged"
  BY <1>1, <1>2, <1>7, <1>8, <1>9 DEF FaultInv
<1>11. QED
  BY <1>10 DEF C, R

\* A tick with a single fault, of whatever kind and in whatever call, stages its
\* snapshot before the next tick, whatever was left over from the tick before, when
\* two attempts fit in the interval and the second begins when a first without a
\* fault is over (api/ingest_app.py:42).
THEOREM FaultAbsorbed ==
    ASSUME Timetable, CyclesFit, SmoothCyclesFit
    PROVE  Spec => []OneFaultIsAbsorbed
<1>1. TimedInv /\ FaultsInv /\ [Next]_vars => (TimedInv /\ FaultsInv)'
  BY TimedStep, FaultsStep
<1>2. TimedInv /\ FaultsInv => OneFaultIsAbsorbed
  BY AbsorbedInTime
<1>3. QED
  BY TimedInit, FaultsInit, <1>1, <1>2, PTL DEF Spec

-----------------------------------------------------------------------------
(***************************************************************************)
(* The deployment.                                                          *)
(***************************************************************************)
\* Nothing above is asked in vain: three attempts of ten seconds with pauses of one
\* and two, for each of five requests, leave room between the deadlines and ticks
\* of the scheduler, as long as staging takes less than ten seconds
\* (ingestion/gbfs_client.py:88-90,125, scripts/deploy.sh:257-262).
THEOREM DeploymentFits ==
    ASSUME Feeds = 5, MaxAttempts = 3, Backoff = 1, Multiplier = 2, Slow = 10, Staging < 10,
           Interval = 300, LoopInterval = 300, Deadline = 120, RetryAfter = 5,
           Pause = <<1, 2, 4>>, Left = <<33, 22, 10>>
    PROVE  Timetable /\ RoundsFit /\ AttemptsFit /\ CyclesFit /\ SmoothCyclesFit
<1>1. Staging \in Nat
  BY ServiceAssumption
<1>2. Pause \in [1 .. 3 -> Nat] /\ Left \in [1 .. 3 -> Nat]
  OBVIOUS
<1>3. /\ Pause[1] = 1 /\ Pause[2] = 2 /\ Pause[3] = 4
      /\ Left[1] = 33 /\ Left[2] = 22 /\ Left[3] = 10
  OBVIOUS
<1>4. Timetable
  <2>1. 1 .. (MaxAttempts - 1) = {1, 2}
    OBVIOUS
  <2>2. QED
    BY <1>2, <1>3, <2>1 DEF Timetable
<1>5. RoundsFit /\ AttemptsFit /\ CyclesFit /\ SmoothCyclesFit
  BY <1>1, <1>3
  DEF RoundsFit, AttemptsFit, CyclesFit, SmoothCyclesFit, LongestCycle, SmoothCycle, LatestAttempt
<1>6. QED
  BY <1>4, <1>5
=============================================================================
