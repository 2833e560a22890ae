------------------------------- MODULE Serving -------------------------------
(***************************************************************************)
(* One instance of the prediction API reading the two serving files through *)
(* a cache with expiry (staging/serving.py, api/main.py), while ingestion   *)
(* replaces the files, the store and the feed come and go, and the instance *)
(* itself is stopped and started.                                           *)
(*                                                                         *)
(* Endpoints run on a thread pool: each request is a thread, and a thread   *)
(* holds the cache's lock only while it looks or stores, not while it reads *)
(* the bucket.  One action per look, read and store; the computation that   *)
(* follows is part of it.                                                   *)
(*                                                                         *)
(* Nothing reads the clock but to subtract, so the model keeps ages, not    *)
(* times, and behaviours are unbounded.  Ages saturate where no comparison  *)
(* in the code can tell them apart.  One station stands for all: every row  *)
(* of a cycle has the cycle's observed_at.                                  *)
(***************************************************************************)
EXTENDS Integers, FiniteSets

CONSTANTS
    Requests,    \* slots for concurrent requests
    Station,     \* the station asked for
    Interval,    \* ticks between ingestion cycles
    Window,      \* RECENT_WINDOW_MINUTES in ticks
    Lookback,    \* LOOKBACK_MINUTES in ticks
    WindowTtl,   \* WINDOW_TTL_SECONDS in ticks
    StationsTtl, \* STATIONS_TTL_SECONDS in ticks
    Faults,      \* bound: what goes wrong, of {"store", "feed", "file"}
    MaxRead,     \* a read of the bucket is over within this many ticks
    ModelLoaded, \* model artifacts are shipped with the image
    SystemIdSet  \* settings.system_id is set

ASSUME ServingAssumption ==
    /\ Interval \in Nat \ {0}
    /\ Window \in Nat /\ Lookback \in Nat
    /\ WindowTtl \in Nat /\ StationsTtl \in Nat /\ MaxRead \in Nat
    /\ Faults \subseteq {"store", "feed", "file"}
    /\ ModelLoaded \in BOOLEAN /\ SystemIdSet \in BOOLEAN

WINDOW   == "window"
STATIONS == "stations"
Files    == {WINDOW, STATIONS}

Ttl == [f \in Files |-> IF f = WINDOW THEN WindowTtl ELSE StationsTtl]

\* An age past all of the code's comparisons, span included.
Forever == 1 + (IF Window > 2 * Lookback THEN Window ELSE 2 * Lookback)
Ages    == 0 .. Forever
Older(a) == IF a < Forever THEN a + 1 ELSE Forever

\* A file's rows: the ages of the window's cycles, the stations of the list.
Frames == [f \in Files |-> IF f = WINDOW THEN SUBSET Ages ELSE SUBSET {Station}]

\* How long ago the bucket held what a reader works from.
Stale == 0 .. (MaxRead + WindowTtl + StationsTtl + 1)
Staler(n) == IF n + 1 \in Stale THEN n + 1 ELSE n

VARIABLES
    file,       \* the rows of each serving file; none when it does not exist
    readable,   \* the files that are Parquet
    reachable,  \* the object store answers
    feed,       \* the GBFS feed is up and ingestion can be reached
    overdue,    \* ticks since the last cycle was due
    cycling,    \* a cycle has written the stations and not yet the window
    lastCycle,  \* history: age of the last finished cycle
    up,         \* the instance is running
    cache,      \* ServingData._cache; an entry as old as its TTL is none
    request     \* what each thread is doing

ingestVars == <<file, readable, overdue, cycling, lastCycle>>
faultVars  == <<reachable, feed>>
vars == <<ingestVars, faultVars, up, cache, request>>

Entry(f) == [frame : Frames[f], age : 0 .. Ttl[f], stale : Stale]
NoEntry(f) == [frame |-> {}, age |-> Ttl[f], stale |-> 0]
NoCache == [f \in Files |-> NoEntry(f)]

Kinds == {"predict", "ready"}
Codes == {200, 404, 422, 503}

\* listed: the station list a prediction has read; frame, stale: the frame in
\* hand and how long ago the bucket held it.
Request ==
    [ step : {"idle", "look", "read", "store"}, kind : Kinds, want : Files,
      listed : SUBSET {Station}, frame : UNION {Frames[f] : f \in Files},
      stale : Stale, waited : 0 .. MaxRead, code : Codes ]
NoRequest ==
    [ step |-> "idle", kind |-> "ready", want |-> WINDOW, listed |-> {}, frame |-> {},
      stale |-> 0, waited |-> 0, code |-> 503 ]

TypeOK ==
    /\ \A f \in Files : file[f] \in Frames[f] /\ cache[f] \in Entry(f)
    /\ DOMAIN file = Files /\ DOMAIN cache = Files
    /\ readable  \in SUBSET Files
    /\ reachable \in BOOLEAN /\ feed \in BOOLEAN /\ cycling \in BOOLEAN /\ up \in BOOLEAN
    /\ overdue   \in 0 .. Interval
    /\ lastCycle \in Ages
    /\ request   \in [Requests -> Request]

Init ==
    /\ file      = [f \in Files |-> {}]
    /\ readable  = Files
    /\ reachable = TRUE /\ feed = TRUE
    /\ overdue   = 0
    /\ cycling   = FALSE
    /\ lastCycle = Forever
    /\ up        = FALSE
    /\ cache     = NoCache
    /\ request   = [r \in Requests |-> NoRequest]

-----------------------------------------------------------------------------
(* Ingestion, as the reader sees it.                                        *)

Newest(S) == CHOOSE a \in S : \A b \in S : a <= b
Oldest(S) == CHOOSE a \in S : \A b \in S : a >= b

\* Mutants, here and below: a mistake in the definition that follows, which the
\* runs must notice.  The serving window narrower than the history a prediction needs.
TrimmedShort(S) == {a \in S : a <= Newest(S) + Lookback - 1}

Trimmed(S) == {a \in S : a <= Newest(S) + Window}

\* _read_serving: an unreadable file counts as empty.
Contents(f) == IF f \in readable THEN file[f] ELSE {}

BeginCycle ==
    /\ overdue = Interval
    /\ overdue' = 0
    /\ IF feed /\ reachable
       THEN /\ file'     = [file EXCEPT ![STATIONS] = {Station}]
            /\ readable' = readable \cup {STATIONS}
            /\ cycling'  = TRUE
       ELSE UNCHANGED <<file, readable, cycling>>
    /\ UNCHANGED <<faultVars, lastCycle, up, cache, request>>

EndCycle ==
    /\ cycling
    /\ cycling' = FALSE
    /\ IF reachable
       THEN /\ file'      = [file EXCEPT ![WINDOW] = Trimmed(Contents(WINDOW) \cup {0})]
            /\ readable'  = readable \cup {WINDOW}
            /\ lastCycle' = 0
       ELSE UNCHANGED <<file, readable, lastCycle>>
    /\ UNCHANGED <<faultVars, overdue, up, cache, request>>

-----------------------------------------------------------------------------
(* Answers.                                                                 *)

\* build_feature_row keeps the rows of the last LOOKBACK_MINUTES.
Usable(frame) == {a \in frame : a <= Lookback}

\* The freshness of the cached read instead of the data's.
DataFreshRead(frame, stale) == frame # {} /\ stale <= Lookback

DataFresh(frame, stale) == frame # {} /\ Newest(frame) <= Lookback

DeepEnough(frame) == frame # {} /\ Oldest(frame) - Newest(frame) >= Lookback

\* A prediction with history may still be refused: the station is out of
\* service or was not in the training data.
PredictCodes(listed, frame) ==
    IF Station \notin listed THEN {404}
    ELSE IF Usable(frame) = {} THEN {422}
    ELSE {200, 422}

ReadyCodes(frame, stale) ==
    IF ModelLoaded /\ DataFresh(frame, stale) /\ DeepEnough(frame) THEN {200} ELSE {503}

-----------------------------------------------------------------------------
(* Requests.                                                                *)

Become(r, q) == request' = [request EXCEPT ![r] = q]

At(r, step) == request[r].step = step

Answered(code) == [NoRequest EXCEPT !.code = code]

\* A thread goes on with a file's rows: to the window, or to its answer.
Proceed(r, q, frame, stale) ==
    IF q.want = STATIONS
    THEN Become(r, [q EXCEPT !.step = "look", !.want = WINDOW, !.listed = frame,
                             !.frame = {}, !.stale = 0, !.waited = 0])
    ELSE \E code \in IF q.kind = "predict" THEN PredictCodes(q.listed, frame)
                                           ELSE ReadyCodes(frame, stale) :
           Become(r, Answered(code))

\* Without a model /predict reads nothing; /ready reads the window all the same.
Ask(r, kind) ==
    /\ up /\ At(r, "idle")
    /\ LET q == [NoRequest EXCEPT !.kind = kind, !.step = "look",
                                  !.want = IF kind = "predict" THEN STATIONS ELSE WINDOW]
       IN  Become(r, IF kind = "predict" /\ ~ ModelLoaded THEN Answered(503) ELSE q)
    /\ UNCHANGED <<ingestVars, faultVars, up, cache>>

Fresh(f) == cache[f].age < Ttl[f]

\* A hit that renews the entry, so a file in use never expires.
LookRenewing(r) ==
    /\ At(r, "look")
    /\ LET q == request[r]
           f == q.want
       IN  IF Fresh(f)
           THEN /\ Proceed(r, q, cache[f].frame, cache[f].stale)
                /\ cache' = [cache EXCEPT ![f].age = 0]
           ELSE Become(r, [q EXCEPT !.step = "read"]) /\ UNCHANGED cache
    /\ UNCHANGED <<ingestVars, faultVars, up>>

Look(r) ==
    /\ At(r, "look")
    /\ LET q == request[r]
           f == q.want
       IN  IF Fresh(f)
           THEN Proceed(r, q, cache[f].frame, cache[f].stale)
           ELSE Become(r, [q EXCEPT !.step = "read"])
    /\ UNCHANGED <<ingestVars, faultVars, up, cache>>

\* The bucket's answer; a store error ends the request and caches nothing.
Read(r) ==
    /\ At(r, "read")
    /\ LET q == request[r]
       IN  Become(r, IF reachable
                     THEN [q EXCEPT !.step = "store", !.frame = Contents(q.want)]
                     ELSE Answered(503))
    /\ UNCHANGED <<ingestVars, faultVars, up, cache>>

\* Storing does not look at what another thread stored meanwhile.
Store(r) ==
    /\ At(r, "store")
    /\ LET q == request[r]
       IN  /\ cache' = [cache EXCEPT ![q.want] =
                          IF Ttl[q.want] = 0 THEN NoEntry(q.want)
                          ELSE [frame |-> q.frame, age |-> 0, stale |-> q.stale]]
           /\ Proceed(r, q, q.frame, q.stale)
    /\ UNCHANGED <<ingestVars, faultVars, up>>

\* ServingData.invalidate; what a thread has in hand is not the cache's.
Invalidate ==
    /\ up
    /\ cache' = NoCache
    /\ UNCHANGED <<ingestVars, faultVars, up, request>>

-----------------------------------------------------------------------------
(* The instance and its surroundings.                                       *)

\* lifespan: without a configured system the station list must name one.
Boot ==
    /\ ~ up
    /\ \/ SystemIdSet /\ UNCHANGED cache
       \/ /\ ~ SystemIdSet /\ reachable /\ Contents(STATIONS) # {}
          /\ cache' = [cache EXCEPT ![STATIONS] =
                         IF StationsTtl = 0 THEN NoEntry(STATIONS)
                         ELSE [NoEntry(STATIONS) EXCEPT !.frame = Contents(STATIONS), !.age = 0]]
    /\ up' = TRUE
    /\ UNCHANGED <<ingestVars, faultVars, request>>

\* min-instances is 0: an instance goes with its cache and its threads.
Stop ==
    /\ up
    /\ up'      = FALSE
    /\ cache'   = NoCache
    /\ request' = [r \in Requests |-> NoRequest]
    /\ UNCHANGED <<ingestVars, faultVars>>

StoreFault ==
    /\ "store" \in Faults
    /\ reachable' = ~ reachable
    /\ UNCHANGED <<ingestVars, feed, up, cache, request>>

FeedFault ==
    /\ "feed" \in Faults
    /\ feed' = ~ feed
    /\ UNCHANGED <<ingestVars, reachable, up, cache, request>>

Corrupt(f) ==
    /\ "file" \in Faults
    /\ f \in readable /\ file[f] # {}
    /\ readable' = readable \ {f}
    /\ UNCHANGED <<file, overdue, cycling, lastCycle, faultVars, up, cache, request>>

\* An entry that outlives its TTL.
AgedEntryKept(f) ==
    [cache[f] EXCEPT !.frame = IF f = WINDOW THEN {Older(a) : a \in @} ELSE @,
                     !.age = @ + 1, !.stale = Staler(@)]

\* Frames age with the rows in them.  A due cycle and a read at its limit come
\* before the next tick; a cycle is over within the tick it began in.
AgedEntry(f) ==
    IF cache[f].age + 1 >= Ttl[f] THEN NoEntry(f)
    ELSE [cache[f] EXCEPT !.frame = IF f = WINDOW THEN {Older(a) : a \in @} ELSE @,
                          !.age = @ + 1, !.stale = Staler(@)]

AgedRequest(q) ==
    IF q.step = "idle" THEN NoRequest
    ELSE [q EXCEPT !.frame  = IF q.want = WINDOW THEN {Older(a) : a \in @} ELSE @,
                   !.stale  = IF q.step = "store" THEN Staler(@) ELSE @,
                   !.waited = IF q.step = "look" THEN @ ELSE @ + 1]

Tick ==
    /\ overdue < Interval /\ ~ cycling
    /\ \A r \in Requests : request[r].waited < MaxRead \/ request[r].step \in {"idle", "look"}
    /\ overdue'   = overdue + 1
    /\ file'      = [file EXCEPT ![WINDOW] = {Older(a) : a \in @}]
    /\ lastCycle' = Older(lastCycle)
    /\ cache'     = [f \in Files |-> AgedEntry(f)]
    /\ request'   = [r \in Requests |-> AgedRequest(request[r])]
    /\ UNCHANGED <<readable, cycling, faultVars, up>>

Serve(r) == Look(r) \/ Read(r) \/ Store(r)

Next ==
    \/ Tick \/ BeginCycle \/ EndCycle
    \/ StoreFault \/ FeedFault \/ \E f \in Files : Corrupt(f)
    \/ Boot \/ Stop \/ Invalidate
    \/ \E r \in Requests : Serve(r) \/ \E kind \in Kinds : Ask(r, kind)

Spec == Init /\ [][Next]_vars

\* Time passes, the scheduler keeps starting cycles, and threads run.
Fairness ==
    /\ WF_vars(Tick) /\ WF_vars(BeginCycle) /\ WF_vars(EndCycle)
    /\ \A r \in Requests : WF_vars(Serve(r))

FairSpec == Spec /\ Fairness

-----------------------------------------------------------------------------
(* Properties.                                                              *)

\* What the cache hands out was in the bucket no longer ago than the time to
\* live and one read, whichever thread stored it and however often it is used.
BoundedStaleness == \A f \in Files : Fresh(f) => cache[f].stale < Ttl[f] + MaxRead

\* This step answers a request of the given kind.
Replies(r, kind) ==
    /\ up' /\ request[r].kind = kind
    /\ ~ At(r, "idle") /\ request'[r].step = "idle"
Code(r) == request[r].code

\* The window the answer is computed from.
InHand(r) == IF At(r, "store") THEN request[r].frame ELSE cache[WINDOW].frame

\* /ready never takes the cache's freshness for the data's: when it answers
\* that predictions can be served, a cycle really ended within the lookback.
ReadyMeansIngesting ==
    [][ \A r \in Requests : Replies(r, "ready") /\ Code(r)' = 200 => lastCycle <= Lookback ]_vars

\* Once the store, the feed and the files are and stay in order, every later
\* answer of /ready is positive and /predict finds its station and its history:
\* no failure is remembered, not even by the cache.
InOrder == reachable /\ feed /\ readable = Files
Serves(r) ==
    /\ Replies(r, "ready") => Code(r)' = 200
    /\ Replies(r, "predict") => Code(r)' \in {200, 422} /\ Usable(InHand(r)) # {}
OutagesHeal == <>[]InOrder => <>[][ \A r \in Requests : Serves(r) ]_vars
=============================================================================
