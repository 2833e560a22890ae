---------------------------- MODULE ServingProofs ----------------------------
(***************************************************************************)
(* What Serving promises, for any number of concurrent requests, any        *)
(* interval, window, lookback and times to live, and any faults.            *)
(***************************************************************************)
EXTENDS Serving, FiniteSetTheorems, TLAPS

-----------------------------------------------------------------------------
(***************************************************************************)
(* Ages and frames.                                                         *)
(***************************************************************************)
LEMMA AgesAreNatural ==
    /\ Forever \in Nat \ {0} /\ Ages \subseteq Nat
    /\ 0 \in Ages /\ Forever \in Ages
    /\ \A a \in Ages : a <= Forever
BY ServingAssumption DEF Forever, Ages

LEMMA OlderAges ==
    ASSUME NEW a \in Ages
    PROVE  /\ Older(a) \in Ages
           /\ \A b \in Ages : a <= b => Older(a) <= Older(b)
BY AgesAreNatural DEF Older, Ages

LEMMA StaleCounts ==
    /\ Stale \subseteq Nat /\ 0 \in Stale
    /\ \A n \in Stale : Staler(n) \in Stale /\ Staler(n) <= n + 1
BY ServingAssumption DEF Stale, Staler

LEMMA FileNames ==
    /\ Files = {WINDOW, STATIONS} /\ WINDOW # STATIONS
    /\ Frames[WINDOW] = SUBSET Ages /\ Frames[STATIONS] = SUBSET {Station}
    /\ \A f \in Files : {} \in Frames[f] /\ Ttl[f] \in Nat
BY ServingAssumption DEF Files, WINDOW, STATIONS, Frames, Ttl

LEMMA Smallest ==
    ASSUME NEW S \in SUBSET Nat, S # {}
    PROVE  \E x \in S : \A y \in S : x <= y
<1> DEFINE Upto == {0 .. x : x \in S}
<1>1. Upto \subseteq FiniteSubsetsOf(Nat) /\ Upto # {}
  <2>1. ASSUME NEW x \in S PROVE 0 .. x \in FiniteSubsetsOf(Nat)
    BY FS_Interval DEF FiniteSubsetsOf
  <2>2. QED
    BY <2>1
<1>2. PICK U \in Upto : \A V \in Upto : ~ (<<V, U>> \in StrictSubsetOrdering(Nat))
  <2> HIDE DEF Upto
  <2>1. QED
    BY <1>1, FS_StrictSubsetOrderingWellFounded, WFMin
<1>3. PICK x \in S : U = 0 .. x
  BY <1>2
<1>4. ASSUME NEW y \in S, y < x PROVE FALSE
  <2>1. 0 .. y \in Upto
    OBVIOUS
  <2>2. <<0 .. y, 0 .. x>> \in StrictSubsetOrdering(Nat)
    BY <1>3, <1>4 DEF StrictSubsetOrdering
  <2>3. QED
    BY <1>2, <1>3, <2>1, <2>2
<1>5. QED
  BY <1>4

LEMMA NewestOf ==
    ASSUME NEW S \in SUBSET Ages, S # {}
    PROVE  Newest(S) \in S /\ \A a \in S : Newest(S) <= a
<1>1. \E x \in S : \A y \in S : x <= y
  BY Smallest, AgesAreNatural
<1>2. QED
  BY <1>1 DEF Newest

-----------------------------------------------------------------------------
(***************************************************************************)
(* What files, entries and requests have in common: no row is newer than    *)
(* the last finished cycle, and nothing is staler than it has been kept.    *)
(***************************************************************************)
NotNewer(f, frame, last) == f = WINDOW => \A a \in frame : last <= a

GoodFrame(f, frame, last) == frame \in Frames[f] /\ NotNewer(f, frame, last)

GoodEntry(f, e, last) ==
    /\ e \in Entry(f)
    /\ NotNewer(f, e.frame, last)
    /\ e.stale <= e.age + MaxRead

\* What a thread has in hand is a frame of the file it wants; only a frame read from
\* the bucket can be stale, and by no more than the thread has waited.
GoodRequest(q, last) ==
    /\ q \in Request
    /\ GoodFrame(q.want, q.frame, last)
    /\ q.step = "store" => q.stale <= q.waited
    /\ q.step # "store" => q.stale = 0

ServingInv ==
    /\ TypeOK
    /\ \A f \in Files : GoodFrame(f, file[f], lastCycle) /\ GoodEntry(f, cache[f], lastCycle)
    /\ \A r \in Requests : GoodRequest(request[r], lastCycle)

LEMMA NoEntryIsGood ==
    ASSUME NEW f \in Files, NEW last \in Ages
    PROVE  GoodEntry(f, NoEntry(f), last)
BY FileNames, StaleCounts, ServingAssumption DEF NoEntry, Entry, GoodEntry, NotNewer

LEMMA NoRequestIsGood ==
    ASSUME NEW last \in Ages, NEW code \in Codes
    PROVE  /\ GoodRequest(Answered(code), last) /\ GoodRequest(NoRequest, last)
           /\ Answered(code) = [NoRequest EXCEPT !.code = code]
<1>1. {} \in UNION {Frames[f] : f \in Files}
  BY FileNames
<1>2. NoRequest \in Request /\ Answered(code) \in Request
  BY <1>1, FileNames, StaleCounts, ServingAssumption
  DEF NoRequest, Answered, Request, Kinds, Codes
<1>3. /\ NoRequest.frame = {} /\ NoRequest.step = "idle" /\ NoRequest.stale = 0
      /\ NoRequest.want = WINDOW
      /\ Answered(code).frame = {} /\ Answered(code).step = "idle" /\ Answered(code).stale = 0
      /\ Answered(code).want = WINDOW
  BY DEF NoRequest, Answered
<1>4. QED
  BY <1>2, <1>3, FileNames DEF GoodRequest, GoodFrame, NotNewer, Answered

\* A cycle that ends now makes nothing newer than it.
LEMMA NothingIsNewerThanNow ==
    ASSUME NEW last \in Ages
    PROVE  /\ \A f \in Files : \A e : GoodEntry(f, e, last) => GoodEntry(f, e, 0)
           /\ \A q : GoodRequest(q, last) => GoodRequest(q, 0)
<1>1. ASSUME NEW f \in Files, NEW frame \in Frames[f] PROVE NotNewer(f, frame, 0)
  <2>1. ASSUME f = WINDOW, NEW a \in frame PROVE 0 <= a
    <3>1. frame \in SUBSET Ages
      BY <1>1, <2>1, FileNames
    <3>2. QED
      BY <3>1, AgesAreNatural
  <2>2. QED
    BY <2>1 DEF NotNewer
<1>2. \A f \in Files : \A e : GoodEntry(f, e, last) => GoodEntry(f, e, 0)
  BY <1>1 DEF GoodEntry, Entry
<1>3. \A q : GoodRequest(q, last) => GoodRequest(q, 0)
  BY <1>1 DEF GoodRequest, GoodFrame, Request
<1>4. QED
  BY <1>2, <1>3

-----------------------------------------------------------------------------
(***************************************************************************)
(* A thread's next state.                                                   *)
(***************************************************************************)
LEMMA RequestFields ==
    ASSUME NEW q \in Request
    PROVE  /\ q.step \in {"idle", "look", "read", "store"} /\ q.kind \in Kinds /\ q.want \in Files
           /\ q.listed \in SUBSET {Station} /\ q.stale \in Stale
           /\ q.waited \in 0 .. MaxRead /\ q.code \in Codes
BY DEF Request

\* A positive answer of /ready is earned: a cycle did end within the lookback.
Earned(q, n, last) ==
    q.kind = "ready" /\ n.step = "idle" /\ n.code = 200 => last <= Lookback

LEMMA ReadyIsEarned ==
    ASSUME NEW last \in Ages, NEW frame, GoodFrame(WINDOW, frame, last), NEW stale,
           200 \in ReadyCodes(frame, stale)
    PROVE  last <= Lookback
<1>1. frame # {} /\ Newest(frame) <= Lookback
  BY DEF ReadyCodes, DataFresh
<1>2. frame \in SUBSET Ages /\ \A a \in frame : last <= a
  BY FileNames DEF GoodFrame, NotNewer
<1>3. Newest(frame) \in frame
  BY <1>1, <1>2, NewestOf
<1>4. Newest(frame) \in Nat /\ last \in Nat /\ last <= Newest(frame)
  BY <1>2, <1>3, AgesAreNatural
<1>5. QED
  BY <1>1, <1>4, ServingAssumption

\* Going on with a good frame: to the window with nothing in hand, or to an answer.
LEMMA ProceedsWell ==
    ASSUME NEW last \in Ages, NEW r \in Requests, NEW q \in Request,
           NEW frame, GoodFrame(q.want, frame, last), NEW stale, Proceed(r, q, frame, stale)
    PROVE  \E n : /\ request' = [request EXCEPT ![r] = n]
                  /\ GoodRequest(n, last)
                  /\ Earned(q, n, last)
<1>1. CASE q.want = STATIONS
  <2> DEFINE n == [q EXCEPT !.step = "look", !.want = WINDOW, !.listed = frame,
                            !.frame = {}, !.stale = 0, !.waited = 0]
  <2>1. request' = [request EXCEPT ![r] = n]
    BY <1>1 DEF Proceed, Become
  <2>2. frame \in SUBSET {Station}
    BY <1>1, FileNames DEF GoodFrame
  <2>3. /\ {} \in UNION {Frames[f] : f \in Files} /\ WINDOW \in Files
        /\ 0 \in Stale /\ 0 \in 0 .. MaxRead
    BY FileNames, StaleCounts, ServingAssumption
  <2>4. n \in Request /\ n.frame = {} /\ n.stale = 0 /\ n.want = WINDOW /\ n.step = "look"
    BY <2>2, <2>3 DEF Request
  <2> HIDE DEF n
  <2>5. GoodRequest(n, last)
    BY <2>3, <2>4, FileNames DEF GoodRequest, GoodFrame, NotNewer
  <2>6. QED
    BY <2>1, <2>4, <2>5 DEF Earned
<1>2. CASE q.want # STATIONS
  <2>1. q.want = WINDOW
    BY <1>2, FileNames, RequestFields
  <2>2. PICK code \in IF q.kind = "predict" THEN PredictCodes(q.listed, frame)
                                            ELSE ReadyCodes(frame, stale) :
           request' = [request EXCEPT ![r] = Answered(code)]
    BY <1>2 DEF Proceed, Become
  <2>3. code \in Codes
    <3>1. PredictCodes(q.listed, frame) \subseteq Codes /\ ReadyCodes(frame, stale) \subseteq Codes
      BY DEF PredictCodes, ReadyCodes, Codes
    <3>2. QED
      BY <2>2, <3>1
  <2>4. GoodRequest(Answered(code), last) /\ Answered(code).code = code
    BY <2>3, NoRequestIsGood DEF NoRequest
  <2>5. q.kind = "ready" => code \in ReadyCodes(frame, stale)
    BY <2>2
  <2>6. Earned(q, Answered(code), last)
    BY <2>1, <2>4, <2>5, ReadyIsEarned DEF Earned
  <2>7. QED
    BY <2>2, <2>4, <2>6
<1>3. QED
  BY <1>1, <1>2

LEMMA AskedIsGood ==
    ASSUME NEW last \in Ages, NEW r \in Requests, NEW kind \in Kinds, Ask(r, kind)
    PROVE  \E n : /\ request' = [request EXCEPT ![r] = n]
                  /\ GoodRequest(n, last)
<1> DEFINE want == IF kind = "predict" THEN STATIONS ELSE WINDOW
<1> DEFINE q == [NoRequest EXCEPT !.kind = kind, !.step = "look", !.want = want]
<1>1. NoRequest \in Request /\ NoRequest.frame = {} /\ NoRequest.stale = 0
  BY NoRequestIsGood DEF Codes, GoodRequest, NoRequest
<1>2. \/ request' = [request EXCEPT ![r] = Answered(503)]
      \/ request' = [request EXCEPT ![r] = q]
  BY DEF Ask, Become
<1>3. GoodRequest(Answered(503), last)
  BY NoRequestIsGood DEF Codes
<1>4. want \in Files
  BY FileNames
<1> HIDE DEF want
<1>5. q \in Request /\ q.frame = {} /\ q.stale = 0 /\ q.step = "look" /\ q.want = want
  BY <1>1, <1>4 DEF Request
<1> HIDE DEF q
<1>6. GoodRequest(q, last)
  BY <1>4, <1>5, FileNames DEF GoodRequest, GoodFrame, NotNewer
<1>7. QED
  BY <1>2, <1>3, <1>6

\* A look: a hit goes on with the entry, a miss to the bucket.
LEMMA LookedIsGood ==
    ASSUME ServingInv, NEW r \in Requests, Look(r)
    PROVE  \E n : /\ request' = [request EXCEPT ![r] = n]
                  /\ GoodRequest(n, lastCycle)
                  /\ Earned(request[r], n, lastCycle)
<1> DEFINE q == request[r]
<1>1. GoodRequest(q, lastCycle) /\ q \in Request /\ q.want \in Files /\ lastCycle \in Ages
  BY RequestFields DEF ServingInv, TypeOK, GoodRequest
<1>2. GoodEntry(q.want, cache[q.want], lastCycle)
  BY <1>1 DEF ServingInv
<1>3. CASE Fresh(q.want)
  <2>1. Proceed(r, q, cache[q.want].frame, cache[q.want].stale)
    BY <1>3 DEF Look
  <2>2. GoodFrame(q.want, cache[q.want].frame, lastCycle)
    BY <1>2 DEF GoodEntry, GoodFrame, Entry
  <2>3. QED
    BY <1>1, <2>1, <2>2, ProceedsWell
<1>4. CASE ~ Fresh(q.want)
  <2> DEFINE n == [q EXCEPT !.step = "read"]
  <2>1. q.step = "look" /\ request' = [request EXCEPT ![r] = n]
    BY <1>4 DEF Look, Become, At
  <2>2. n \in Request /\ n.step = "read" /\ n.want = q.want /\ n.frame = q.frame /\ n.stale = q.stale
    BY <1>1 DEF Request
  <2>3. q.stale = 0
    BY <1>1, <2>1 DEF GoodRequest
  <2> HIDE DEF q, n
  <2>4. GoodRequest(n, lastCycle)
    BY <1>1, <2>2, <2>3 DEF GoodRequest
  <2>5. QED
    BY <2>1, <2>2, <2>4 DEF Earned, q
<1>5. QED
  BY <1>3, <1>4

\* What a read puts in hand is what the bucket holds now.
LEMMA ReadIsGood ==
    ASSUME ServingInv, NEW r \in Requests, Read(r)
    PROVE  \E n : /\ request' = [request EXCEPT ![r] = n]
                  /\ GoodRequest(n, lastCycle)
                  /\ Earned(request[r], n, lastCycle)
<1> DEFINE q == request[r]
<1>1. GoodRequest(q, lastCycle) /\ q \in Request /\ q.want \in Files /\ lastCycle \in Ages
  BY RequestFields DEF ServingInv, TypeOK, GoodRequest
<1>2. q.step = "read" /\ q.stale = 0
  BY <1>1 DEF Read, At, GoodRequest
<1>3. CASE reachable
  <2> DEFINE frame == Contents(q.want)
  <2> DEFINE n == [q EXCEPT !.step = "store", !.frame = frame]
  <2>2. request' = [request EXCEPT ![r] = n]
    BY <1>3 DEF Read, Become
  <2>3. GoodFrame(q.want, frame, lastCycle)
    <3>1. GoodFrame(q.want, file[q.want], lastCycle)
      BY <1>1 DEF ServingInv
    <3>2. QED
      BY <1>1, <3>1, FileNames DEF Contents, GoodFrame, NotNewer
  <2>4. frame \in UNION {Frames[f] : f \in Files}
    BY <1>1, <2>3 DEF GoodFrame
  <2> HIDE DEF frame, q
  <2>5. n \in Request /\ n.step = "store" /\ n.want = q.want /\ n.frame = frame
        /\ n.stale = q.stale /\ n.waited = q.waited
    BY <1>1, <2>4 DEF Request
  <2>6. n.stale = 0
    BY <1>2, <2>5
  <2>7. q.waited \in Nat
    BY <1>1, RequestFields, ServingAssumption
  <2> HIDE DEF n
  <2>8. GoodRequest(n, lastCycle)
    BY <2>3, <2>5, <2>6, <2>7 DEF GoodRequest
  <2>9. QED
    BY <2>2, <2>5, <2>8 DEF Earned
<1>4. CASE ~ reachable
  <2>1. request' = [request EXCEPT ![r] = Answered(503)]
    BY <1>4 DEF Read, Become
  <2>2. GoodRequest(Answered(503), lastCycle) /\ Answered(503).code # 200
    BY <1>1, NoRequestIsGood DEF Codes, NoRequest
  <2>3. QED
    BY <2>1, <2>2 DEF Earned
<1>5. QED
  BY <1>3, <1>4

LEMMA StoredIsGood ==
    ASSUME ServingInv, NEW r \in Requests, Store(r)
    PROVE  /\ \E n : /\ request' = [request EXCEPT ![r] = n]
                     /\ GoodRequest(n, lastCycle)
                     /\ Earned(request[r], n, lastCycle)
           /\ \E f \in Files : \E e : /\ cache' = [cache EXCEPT ![f] = e]
                                       /\ GoodEntry(f, e, lastCycle)
<1> DEFINE q == request[r]
<1> DEFINE e == [frame |-> q.frame, age |-> 0, stale |-> q.stale]
<1>1. GoodRequest(q, lastCycle) /\ q \in Request /\ q.want \in Files /\ lastCycle \in Ages
  BY RequestFields DEF ServingInv, TypeOK, GoodRequest
<1>2. GoodFrame(q.want, q.frame, lastCycle) /\ q.stale <= q.waited
  BY <1>1 DEF Store, At, GoodRequest
<1>3. Proceed(r, q, q.frame, q.stale)
  BY DEF Store
<1>4. \E n : /\ request' = [request EXCEPT ![r] = n]
             /\ GoodRequest(n, lastCycle)
             /\ Earned(q, n, lastCycle)
  BY <1>1, <1>2, <1>3, ProceedsWell
<1>5. \/ cache' = [cache EXCEPT ![q.want] = NoEntry(q.want)]
      \/ cache' = [cache EXCEPT ![q.want] = e]
  BY DEF Store
<1>6. GoodEntry(q.want, NoEntry(q.want), lastCycle)
  BY <1>1, NoEntryIsGood
<1>7. GoodEntry(q.want, e, lastCycle)
  <2>1. q.stale \in Stale /\ q.stale <= 0 + MaxRead
    <3>1. q.stale \in Stale /\ q.waited \in 0 .. MaxRead
      BY <1>1, RequestFields
    <3> HIDE DEF q
    <3>2. q.stale \in Nat
      BY <3>1, StaleCounts
    <3>3. QED
      BY <1>2, <3>1, <3>2, ServingAssumption
  <2>2. 0 \in 0 .. Ttl[q.want]
    BY <1>1, FileNames
  <2> HIDE DEF q
  <2>3. e \in Entry(q.want)
    BY <1>2, <2>1, <2>2 DEF Entry, GoodFrame
  <2>4. e.frame = q.frame /\ e.stale = q.stale /\ e.age = 0
    OBVIOUS
  <2> HIDE DEF e
  <2>5. QED
    BY <1>2, <2>1, <2>3, <2>4 DEF GoodEntry, GoodFrame
<1>8. QED
  BY <1>1, <1>4, <1>5, <1>6, <1>7

-----------------------------------------------------------------------------
(***************************************************************************)
(* A tick ages everything alike.                                            *)
(***************************************************************************)
LEMMA OlderFrame ==
    ASSUME NEW last \in Ages, NEW f \in Files, NEW frame, GoodFrame(f, frame, last)
    PROVE  GoodFrame(f, IF f = WINDOW THEN {Older(a) : a \in frame} ELSE frame, Older(last))
<1>1. CASE f = WINDOW
  <2>1. frame \in SUBSET Ages /\ \A a \in frame : last <= a
    BY <1>1, FileNames DEF GoodFrame, NotNewer
  <2>2. \A a \in frame : Older(a) \in Ages /\ Older(last) <= Older(a)
    BY <2>1, OlderAges
  <2>3. QED
    BY <1>1, <2>2, FileNames DEF GoodFrame, NotNewer
<1>2. CASE f # WINDOW
  BY <1>2 DEF GoodFrame, NotNewer
<1>3. QED
  BY <1>1, <1>2

LEMMA OlderEntry ==
    ASSUME NEW last \in Ages, NEW f \in Files, GoodEntry(f, cache[f], last)
    PROVE  GoodEntry(f, AgedEntry(f), Older(last))
<1> DEFINE e == cache[f]
<1>1. Older(last) \in Ages
  BY OlderAges
<1>2. CASE e.age + 1 >= Ttl[f]
  BY <1>1, <1>2, NoEntryIsGood DEF AgedEntry
<1>3. CASE ~ (e.age + 1 >= Ttl[f])
  <2> DEFINE frame == IF f = WINDOW THEN {Older(a) : a \in e.frame} ELSE e.frame
  <2> DEFINE n == [e EXCEPT !.frame = frame, !.age = e.age + 1, !.stale = Staler(e.stale)]
  <2>1. e \in Entry(f) /\ e.age \in 0 .. Ttl[f] /\ e.stale \in Stale /\ e.stale <= e.age + MaxRead
        /\ GoodFrame(f, e.frame, last)
    BY DEF GoodEntry, GoodFrame, Entry
  <2>2. AgedEntry(f) = n
    BY <1>3, <2>1 DEF AgedEntry, Entry
  <2>3. GoodFrame(f, frame, Older(last))
    BY <2>1, OlderFrame
  <2> HIDE DEF frame, e
  <2>4. e.age + 1 \in 0 .. Ttl[f] /\ Staler(e.stale) \in Stale
        /\ Staler(e.stale) <= e.age + 1 + MaxRead
    <3>1. Staler(e.stale) \in Stale /\ Staler(e.stale) <= e.stale + 1
      BY <2>1, StaleCounts
    <3>2. Staler(e.stale) \in Nat /\ e.stale \in Nat
      BY <2>1, <3>1, StaleCounts
    <3>3. QED
      BY <1>3, <2>1, <3>1, <3>2, FileNames, ServingAssumption
  <2>5. n \in Entry(f) /\ n.frame = frame /\ n.age = e.age + 1 /\ n.stale = Staler(e.stale)
    BY <2>1, <2>3, <2>4 DEF Entry, GoodFrame
  <2> HIDE DEF n
  <2>6. QED
    BY <2>2, <2>3, <2>4, <2>5 DEF GoodEntry, GoodFrame
<1>4. QED
  BY <1>2, <1>3

LEMMA OlderRequest ==
    ASSUME NEW last \in Ages, NEW q, GoodRequest(q, last),
           q.waited < MaxRead \/ q.step \in {"idle", "look"}
    PROVE  GoodRequest(AgedRequest(q), Older(last))
<1>1. Older(last) \in Ages
  BY OlderAges
<1>2. CASE q.step = "idle"
  BY <1>1, <1>2, NoRequestIsGood DEF AgedRequest, Codes
<1>3. CASE q.step # "idle"
  <2> DEFINE frame == IF q.want = WINDOW THEN {Older(a) : a \in q.frame} ELSE q.frame
  <2> DEFINE stale == IF q.step = "store" THEN Staler(q.stale) ELSE q.stale
  <2> DEFINE waited == IF q.step = "look" THEN q.waited ELSE q.waited + 1
  <2> DEFINE n == [q EXCEPT !.frame = frame, !.stale = stale, !.waited = waited]
  <2>1. /\ q \in Request /\ q.want \in Files /\ q.stale \in Stale /\ q.waited \in 0 .. MaxRead
        /\ GoodFrame(q.want, q.frame, last)
    BY RequestFields DEF GoodRequest
  <2>2. AgedRequest(q) = n
    BY <1>3 DEF AgedRequest
  <2>3. GoodFrame(q.want, frame, Older(last))
    BY <2>1, OlderFrame
  <2>4. frame \in UNION {Frames[f] : f \in Files}
    BY <2>1, <2>3 DEF GoodFrame
  <2>5. q.stale \in Nat /\ Staler(q.stale) \in Stale /\ Staler(q.stale) \in Nat
        /\ Staler(q.stale) <= q.stale + 1
    BY <2>1, StaleCounts
  <2>6. stale \in Stale
    BY <2>1, <2>5
  <2>7. waited \in 0 .. MaxRead
    BY <1>3, <2>1, ServingAssumption
  <2>8. /\ q.step = "store" => stale <= waited
        /\ q.step # "store" => stale = 0
    BY <2>1, <2>5, ServingAssumption DEF GoodRequest
  <2> HIDE DEF frame, stale, waited
  <2>9. n \in Request /\ n.want = q.want /\ n.step = q.step /\ n.frame = frame /\ n.stale = stale
        /\ n.waited = waited
    BY <2>1, <2>4, <2>6, <2>7 DEF Request
  <2> HIDE DEF n
  <2>10. QED
    BY <2>2, <2>3, <2>8, <2>9 DEF GoodRequest
<1>4. QED
  BY <1>2, <1>3

-----------------------------------------------------------------------------
(***************************************************************************)
(* The invariant.                                                           *)
(***************************************************************************)
LEMMA ServingInvInit == Init => ServingInv
<1> SUFFICES ASSUME Init PROVE ServingInv
  OBVIOUS
<1>1. lastCycle = Forever /\ Forever \in Ages /\ 0 \in 0 .. Interval
  BY AgesAreNatural, ServingAssumption DEF Init
<1>2. \A f \in Files : file[f] = {} /\ cache[f] = NoEntry(f)
  BY DEF Init, NoCache
<1>3. \A f \in Files : GoodFrame(f, file[f], lastCycle) /\ GoodEntry(f, cache[f], lastCycle)
  BY <1>1, <1>2, FileNames, NoEntryIsGood DEF GoodFrame, NotNewer
<1>4. \A r \in Requests : request[r] = NoRequest
  BY DEF Init
<1>5. \A r \in Requests : GoodRequest(request[r], lastCycle)
  BY <1>1, <1>4, NoRequestIsGood DEF Codes
<1>6. request \in [Requests -> Request]
  BY <1>1, NoRequestIsGood DEF Init, GoodRequest, Codes
<1>7. DOMAIN file = Files /\ DOMAIN cache = Files
  BY DEF Init, NoCache
<1>8. readable \in SUBSET Files /\ reachable \in BOOLEAN /\ feed \in BOOLEAN
      /\ cycling \in BOOLEAN /\ up \in BOOLEAN /\ overdue \in 0 .. Interval
  BY <1>1 DEF Init
<1>9. TypeOK
  BY <1>1, <1>3, <1>6, <1>7, <1>8 DEF TypeOK, GoodFrame, GoodEntry
<1>10. QED
  BY <1>3, <1>5, <1>9 DEF ServingInv

\* The parts of the invariant a step may change, each on its own.
FilesAreGood == DOMAIN file = Files /\ \A f \in Files : GoodFrame(f, file[f], lastCycle)
CacheIsGood  == DOMAIN cache = Files /\ \A f \in Files : GoodEntry(f, cache[f], lastCycle)
RequestsAreGood ==
    request \in [Requests -> Request] /\ \A r \in Requests : GoodRequest(request[r], lastCycle)
Surroundings ==
    /\ readable  \in SUBSET Files
    /\ reachable \in BOOLEAN /\ feed \in BOOLEAN /\ cycling \in BOOLEAN /\ up \in BOOLEAN
    /\ overdue   \in 0 .. Interval
    /\ lastCycle \in Ages

LEMMA InvInParts ==
    ServingInv <=> FilesAreGood /\ CacheIsGood /\ RequestsAreGood /\ Surroundings
BY DEF ServingInv, TypeOK, FilesAreGood, CacheIsGood, RequestsAreGood, Surroundings, GoodFrame,
       GoodEntry

LEMMA OneRequestChanges ==
    ASSUME RequestsAreGood, NEW r \in Requests, NEW n, GoodRequest(n, lastCycle),
           request' = [request EXCEPT ![r] = n], lastCycle' = lastCycle
    PROVE  RequestsAreGood'
<1>1. n \in Request
  BY DEF GoodRequest
<1>2. /\ request' \in [Requests -> Request] /\ request'[r] = n
      /\ \A x \in Requests \ {r} : request'[x] = request[x]
  BY <1>1 DEF RequestsAreGood
<1>3. QED
  BY <1>2 DEF RequestsAreGood

LEMMA ThreadsKeepInv ==
    ASSUME ServingInv, NEW r \in Requests, Serve(r) \/ \E kind \in Kinds : Ask(r, kind)
    PROVE  ServingInv'
<1>1. FilesAreGood /\ CacheIsGood /\ RequestsAreGood /\ Surroundings /\ lastCycle \in Ages
  BY InvInParts DEF Surroundings
<1>2. /\ file' = file /\ readable' = readable /\ overdue' = overdue /\ cycling' = cycling
      /\ lastCycle' = lastCycle /\ reachable' = reachable /\ feed' = feed /\ up' = up
  BY DEF Serve, Ask, Look, Read, Store, ingestVars, faultVars
<1>3. FilesAreGood' /\ Surroundings'
  BY <1>1, <1>2 DEF FilesAreGood, Surroundings
<1>4. RequestsAreGood'
  <2>1. PICK n : /\ request' = [request EXCEPT ![r] = n]
                 /\ GoodRequest(n, lastCycle)
    BY <1>1, AskedIsGood, LookedIsGood, ReadIsGood, StoredIsGood DEF Serve
  <2>2. QED
    BY <1>1, <1>2, <2>1, OneRequestChanges
<1>5. CacheIsGood'
  <2>1. CASE Store(r)
    <3>1. PICK f \in Files : \E e : /\ cache' = [cache EXCEPT ![f] = e]
                                    /\ GoodEntry(f, e, lastCycle)
      BY <2>1, StoredIsGood
    <3>2. PICK e : cache' = [cache EXCEPT ![f] = e] /\ GoodEntry(f, e, lastCycle)
      BY <3>1
    <3>3. QED
      BY <1>1, <1>2, <3>2 DEF CacheIsGood
  <2>2. CASE cache' = cache
    BY <1>1, <1>2, <2>2 DEF CacheIsGood
  <2>3. QED
    BY <2>1, <2>2 DEF Serve, Ask, Look, Read
<1>6. FilesAreGood' /\ CacheIsGood' /\ RequestsAreGood' /\ Surroundings'
  BY <1>3, <1>4, <1>5
<1>7. QED
  BY <1>6, InvInParts, PTL

LEMMA IngestionKeepsInv ==
    ASSUME ServingInv, BeginCycle \/ EndCycle
    PROVE  ServingInv'
<1>1. FilesAreGood /\ CacheIsGood /\ RequestsAreGood /\ Surroundings /\ lastCycle \in Ages
  BY InvInParts DEF Surroundings
<1>2. cache' = cache /\ request' = request
  BY DEF BeginCycle, EndCycle
<1>3. CASE BeginCycle
  <2>1. lastCycle' = lastCycle /\ reachable' = reachable /\ feed' = feed /\ up' = up
        /\ overdue' = 0
    BY <1>3 DEF BeginCycle, faultVars
  <2>2. \/ /\ file' = [file EXCEPT ![STATIONS] = {Station}]
           /\ readable' = readable \cup {STATIONS} /\ cycling' = TRUE
        \/ file' = file /\ readable' = readable /\ cycling' = cycling
    BY <1>3 DEF BeginCycle
  <2>3. GoodFrame(STATIONS, {Station}, lastCycle)
    BY FileNames DEF GoodFrame, NotNewer
  <2>4. FilesAreGood'
    BY <1>1, <2>1, <2>2, <2>3, FileNames DEF FilesAreGood
  <2>5. 0 \in 0 .. Interval
    BY ServingAssumption
  <2>6. readable' \in SUBSET Files /\ cycling' \in BOOLEAN
    BY <1>1, <2>2, FileNames DEF Surroundings
  <2>7. Surroundings'
    BY <1>1, <2>1, <2>5, <2>6 DEF Surroundings
  <2>8. CacheIsGood' /\ RequestsAreGood'
    BY <1>1, <1>2, <2>1 DEF CacheIsGood, RequestsAreGood
  <2>9. QED
    BY <2>4, <2>7, <2>8, InvInParts, PTL
<1>4. CASE EndCycle
  <2>1. reachable' = reachable /\ feed' = feed /\ up' = up /\ overdue' = overdue /\ cycling' = FALSE
    BY <1>4 DEF EndCycle, faultVars
  <2>2. CASE reachable
    <3> DEFINE S == Trimmed(Contents(WINDOW) \cup {0})
    <3>1. file' = [file EXCEPT ![WINDOW] = S] /\ readable' = readable \cup {WINDOW} /\ lastCycle' = 0
      BY <1>4, <2>2 DEF EndCycle
    <3>2. S \in SUBSET Ages
      <4>1. file[WINDOW] \in SUBSET Ages
        BY <1>1, FileNames DEF FilesAreGood, GoodFrame
      <4>2. QED
        BY <4>1, AgesAreNatural DEF Contents, Trimmed
    <3> HIDE DEF S
    <3>3. \A a \in Ages : 0 <= a
      BY AgesAreNatural
    <3>4. /\ file'[WINDOW] = S /\ file'[STATIONS] = file[STATIONS] /\ DOMAIN file' = Files
          /\ file[STATIONS] \in Frames[STATIONS]
      BY <1>1, <3>1, FileNames DEF FilesAreGood, GoodFrame
    <3>5. \A f \in Files : GoodFrame(f, file'[f], 0)
      BY <3>2, <3>3, <3>4, FileNames DEF GoodFrame, NotNewer
    <3>6. FilesAreGood'
      BY <3>1, <3>4, <3>5 DEF FilesAreGood
    <3>7. CacheIsGood' /\ RequestsAreGood'
      BY <1>1, <1>2, <3>1, NothingIsNewerThanNow DEF CacheIsGood, RequestsAreGood
    <3>8. readable' \in SUBSET Files /\ lastCycle' \in Ages
      BY <1>1, <3>1, FileNames, AgesAreNatural DEF Surroundings
    <3>9. Surroundings'
      BY <1>1, <2>1, <3>8 DEF Surroundings
    <3>10. QED
      BY <3>6, <3>7, <3>9, InvInParts, PTL
  <2>3. CASE ~ reachable
    <3>1. file' = file /\ readable' = readable /\ lastCycle' = lastCycle
      BY <1>4, <2>3 DEF EndCycle
    <3>2. FilesAreGood' /\ CacheIsGood' /\ RequestsAreGood' /\ Surroundings'
      BY <1>1, <1>2, <2>1, <3>1 DEF FilesAreGood, CacheIsGood, RequestsAreGood, Surroundings
    <3>3. QED
      BY <3>2, InvInParts, PTL
  <2>4. QED
    BY <2>2, <2>3
<1>5. QED
  BY <1>3, <1>4

LEMMA TickKeepsInv ==
    ASSUME ServingInv, Tick
    PROVE  ServingInv'
<1>1. FilesAreGood /\ CacheIsGood /\ RequestsAreGood /\ Surroundings /\ lastCycle \in Ages
  BY InvInParts DEF Surroundings
<1>2. /\ overdue < Interval /\ overdue' = overdue + 1
      /\ file' = [file EXCEPT ![WINDOW] = {Older(a) : a \in file[WINDOW]}]
      /\ lastCycle' = Older(lastCycle) /\ readable' = readable /\ cycling' = cycling
      /\ reachable' = reachable /\ feed' = feed /\ up' = up
      /\ \A r \in Requests : request[r].waited < MaxRead \/ request[r].step \in {"idle", "look"}
  BY DEF Tick, faultVars
<1>3. FilesAreGood'
  <2>1. \A f \in Files : GoodFrame(f, IF f = WINDOW THEN {Older(a) : a \in file[f]} ELSE file[f],
                                   Older(lastCycle))
    BY <1>1, OlderFrame DEF FilesAreGood
  <2>2. DOMAIN file' = Files
        /\ \A f \in Files : file'[f] = IF f = WINDOW THEN {Older(a) : a \in file[f]} ELSE file[f]
    BY <1>1, <1>2 DEF FilesAreGood
  <2>3. QED
    BY <1>2, <2>1, <2>2 DEF FilesAreGood
<1>4. CacheIsGood'
  <2>1. cache' = [f \in Files |-> AgedEntry(f)]
    BY DEF Tick
  <2>2. \A f \in Files : GoodEntry(f, AgedEntry(f), Older(lastCycle))
    BY <1>1, OlderEntry DEF CacheIsGood
  <2>3. QED
    BY <1>2, <2>1, <2>2 DEF CacheIsGood
<1>5. RequestsAreGood'
  <2>1. request' = [r \in Requests |-> AgedRequest(request[r])]
    BY DEF Tick
  <2>2. \A r \in Requests : GoodRequest(AgedRequest(request[r]), Older(lastCycle))
    BY <1>1, <1>2, OlderRequest DEF RequestsAreGood
  <2>3. QED
    BY <1>2, <2>1, <2>2 DEF RequestsAreGood, GoodRequest
<1>6. Surroundings'
  <2>1. overdue' \in 0 .. Interval
    BY <1>1, <1>2, ServingAssumption DEF Surroundings
  <2>2. lastCycle' \in Ages
    BY <1>1, <1>2, OlderAges
  <2>3. QED
    BY <1>1, <1>2, <2>1, <2>2 DEF Surroundings
<1>7. QED
  BY <1>3, <1>4, <1>5, <1>6, InvInParts, PTL

\* Faults and the instance's own coming and going leave nothing behind.
LEMMA EventsKeepInv ==
    ASSUME ServingInv,
           \/ StoreFault \/ FeedFault \/ \E f \in Files : Corrupt(f)
           \/ Boot \/ Stop \/ Invalidate \/ UNCHANGED vars
    PROVE  ServingInv'
<1>1. FilesAreGood /\ CacheIsGood /\ RequestsAreGood /\ Surroundings /\ lastCycle \in Ages
  BY InvInParts DEF Surroundings
<1>2. /\ file' = file /\ overdue' = overdue /\ cycling' = cycling /\ lastCycle' = lastCycle
      /\ readable' \subseteq readable
      /\ reachable' \in {reachable, ~ reachable} /\ feed' \in {feed, ~ feed}
      /\ up' \in {up, TRUE, FALSE}
  BY DEF StoreFault, FeedFault, Corrupt, Boot, Stop, Invalidate, vars, ingestVars, faultVars
<1>3. FilesAreGood' /\ Surroundings'
  BY <1>1, <1>2 DEF FilesAreGood, Surroundings
<1>4. RequestsAreGood'
  <2>1. CASE request' = request
    BY <1>1, <1>2, <2>1 DEF RequestsAreGood
  <2>2. CASE Stop
    <3>1. request' = [r \in Requests |-> NoRequest]
      BY <2>2 DEF Stop
    <3>2. GoodRequest(NoRequest, lastCycle) /\ NoRequest \in Request
      BY <1>1, NoRequestIsGood DEF Codes, GoodRequest
    <3>3. QED
      BY <1>2, <3>1, <3>2 DEF RequestsAreGood
  <2>3. QED
    BY <2>1, <2>2 DEF StoreFault, FeedFault, Corrupt, Boot, Invalidate, vars
<1>5. CacheIsGood'
  <2>1. CASE cache' = cache
    BY <1>1, <1>2, <2>1 DEF CacheIsGood
  <2>2. CASE cache' = NoCache
    BY <1>1, <1>2, <2>2, NoEntryIsGood DEF CacheIsGood, NoCache
  <2>3. CASE \E e : cache' = [cache EXCEPT ![STATIONS] = e] /\ GoodEntry(STATIONS, e, lastCycle)
    BY <1>1, <1>2, <2>3 DEF CacheIsGood
  <2>4. ASSUME Boot, cache' # cache
        PROVE  \E e : cache' = [cache EXCEPT ![STATIONS] = e] /\ GoodEntry(STATIONS, e, lastCycle)
    <3> DEFINE e == [NoEntry(STATIONS) EXCEPT !.frame = Contents(STATIONS), !.age = 0]
    <3>1. \/ cache' = [cache EXCEPT ![STATIONS] = NoEntry(STATIONS)]
          \/ cache' = [cache EXCEPT ![STATIONS] = e]
      BY <2>4 DEF Boot
    <3>2. GoodEntry(STATIONS, NoEntry(STATIONS), lastCycle)
      BY <1>1, FileNames, NoEntryIsGood
    <3>3. NoEntry(STATIONS) \in Entry(STATIONS) /\ NoEntry(STATIONS).stale = 0
      BY <3>2 DEF GoodEntry, NoEntry
    <3>4. Contents(STATIONS) \in Frames[STATIONS] /\ 0 \in 0 .. Ttl[STATIONS]
      BY <1>1, FileNames DEF Contents, FilesAreGood, GoodFrame
    <3>5. e \in Entry(STATIONS) /\ e.age = 0 /\ e.stale = 0
      BY <3>3, <3>4 DEF Entry
    <3> HIDE DEF e
    <3>6. GoodEntry(STATIONS, e, lastCycle)
      BY <3>5, FileNames, ServingAssumption DEF GoodEntry, NotNewer
    <3>7. QED
      BY <3>1, <3>2, <3>6
  <2>5. QED
    BY <2>1, <2>2, <2>3, <2>4 DEF StoreFault, FeedFault, Corrupt, Stop, Invalidate, vars
<1>6. QED
  BY <1>3, <1>4, <1>5, InvInParts, PTL

LEMMA ServingInvHolds == Spec => []ServingInv
<1>1. ServingInv /\ [Next]_vars => ServingInv'
  BY TickKeepsInv, IngestionKeepsInv, EventsKeepInv, ThreadsKeepInv DEF Next
<1>2. QED
  BY <1>1, ServingInvInit, PTL DEF Spec

-----------------------------------------------------------------------------
(***************************************************************************)
(* Theorems.                                                                *)
(***************************************************************************)
\* Frames, ages and answers are of the kinds the code knows.
THEOREM TypeCorrect == Spec => []TypeOK
BY ServingInvHolds, PTL DEF ServingInv

\* What the cache hands out was in the bucket no longer ago than the time to live
\* and one read (ServingData._cached_read), whichever threads raced to store it.
THEOREM StalenessBounded == Spec => []BoundedStaleness
<1>1. ServingInv => BoundedStaleness
  <2> SUFFICES ASSUME ServingInv, NEW f \in Files, cache[f].age < Ttl[f]
               PROVE  cache[f].stale < Ttl[f] + MaxRead
    BY DEF BoundedStaleness, Fresh
  <2>1. cache[f].age \in Nat /\ cache[f].stale \in Stale /\ cache[f].stale <= cache[f].age + MaxRead
    BY FileNames DEF ServingInv, GoodEntry, Entry
  <2>2. cache[f].stale \in Nat /\ Ttl[f] \in Nat
    BY <2>1, FileNames, StaleCounts
  <2>3. QED
    BY <2>1, <2>2, ServingAssumption
<1>2. QED
  BY <1>1, ServingInvHolds, PTL

\* A step that is not a thread's own answers nobody positively.
LEMMA OnlyThreadsAnswer ==
    ASSUME ServingInv, [Next]_vars, NEW r \in Requests, Replies(r, "ready")
    PROVE  \E n : /\ request' = [request EXCEPT ![r] = n]
                  /\ Earned(request[r], n, lastCycle)
<1>1. /\ up' /\ request[r].kind = "ready"
      /\ request[r].step # "idle" /\ request'[r].step = "idle"
  BY DEF Replies, At
<1>2. RequestsAreGood /\ lastCycle \in Ages
  BY InvInParts DEF Surroundings
<1>3. CASE Serve(r)
  BY <1>3, LookedIsGood, ReadIsGood, StoredIsGood DEF Serve
<1>4. ASSUME NEW x \in Requests, x # r, Serve(x) \/ \E kind \in Kinds : Ask(x, kind)
      PROVE  FALSE
  <2>1. \E n : request' = [request EXCEPT ![x] = n]
    BY <1>2, <1>4, AskedIsGood, LookedIsGood, ReadIsGood, StoredIsGood DEF Serve
  <2>2. request'[r] = request[r]
    BY <1>2, <1>4, <2>1 DEF RequestsAreGood
  <2>3. QED
    BY <1>1, <2>2
<1>5. ASSUME NEW kind \in Kinds, Ask(r, kind) PROVE FALSE
  BY <1>1, <1>5 DEF Ask, At
<1>6. ASSUME Tick PROVE FALSE
  <2>1. request'[r] = AgedRequest(request[r])
    BY <1>6 DEF Tick
  <2>2. request[r] \in Request
    BY <1>2 DEF RequestsAreGood
  <2>3. AgedRequest(request[r]).step = request[r].step
    BY <1>1, <2>2 DEF AgedRequest, Request
  <2>4. QED
    BY <1>1, <2>1, <2>3
<1>7. ~ Stop
  BY <1>1 DEF Stop
<1>8. request' # request
  BY <1>1
<1>9. QED
  BY <1>3, <1>4, <1>5, <1>6, <1>7, <1>8
  DEF Next, vars, BeginCycle, EndCycle, StoreFault, FeedFault, Corrupt, Boot, Invalidate

\* When /ready answers that predictions can be served, a cycle really ended within
\* the lookback: no row the answer is computed from is newer than that, however
\* long it lay in the cache or in a thread's hands (api/main.py, readiness).
THEOREM ReadyIsTrue == Spec => ReadyMeansIngesting
<1>1. ASSUME ServingInv, [Next]_vars
      PROVE  \A r \in Requests : Replies(r, "ready") /\ Code(r)' = 200 => lastCycle <= Lookback
  <2> SUFFICES ASSUME NEW r \in Requests, Replies(r, "ready"), request'[r].code = 200
               PROVE  lastCycle <= Lookback
    BY DEF Code
  <2>1. PICK n : /\ request' = [request EXCEPT ![r] = n]
                 /\ Earned(request[r], n, lastCycle)
    BY <1>1, OnlyThreadsAnswer
  <2>2. request'[r] = n
    BY <1>1, <2>1 DEF ServingInv, TypeOK
  <2>3. QED
    BY <2>1, <2>2 DEF Replies, Earned
<1>2. QED
  BY <1>1, ServingInvHolds, PTL DEF Spec, ReadyMeansIngesting
=============================================================================
