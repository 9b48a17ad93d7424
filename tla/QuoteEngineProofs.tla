------------------------- MODULE QuoteEngineProofs -------------------------
(***************************************************************************)
(* Proofs about QuoteEngine, for every number of workers, pools, routes,   *)
(* cycles and crashes: no follower waits for a request that is not under   *)
(* way, and no quote was sent before its pool had the asker's state.       *)
(***************************************************************************)
EXTENDS QuoteEngine, TLAPS

PcSet == {"idle", "ask", "follow", "lead", "answered"}

\* Every evaluation has its own record, and the forced goroutine evaluates
\* only while it is in its loop over the pool combinations.
PerActor ==
    /\ pc \in [Actors -> PcSet]
    /\ DOMAIN stage = Actors /\ DOMAIN route = Actors /\ DOMAIN hop = Actors
    /\ DOMAIN amount = Actors /\ DOMAIN seen = Actors
    /\ DOMAIN awaited = Actors /\ DOMAIN answer = Actors /\ DOMAIN sent = Actors
    /\ forcedPc # "evaluate" => pc[Forced] = "idle"

\* A request under way is one its leader still waits for, and a cache entry
\* that is not ready is the entry its leader asks for.
Leads(a, s) == a \in Actors /\ pc[a] = "lead" /\ stage[a] = s
CacheLed == \A k \in DOMAIN cache :
    cache[k].by # None => Leads(cache[k].by, "quote") /\ QuoteKey(cache[k].by) = k
SharedLed ==
    /\ DOMAIN shared = {"premium", "cost"}
    /\ \A v \in {"premium", "cost"} : shared[v].by # None => Leads(shared[v].by, v)

FollowInv == PerActor /\ CacheLed /\ SharedLed /\ NoStrandedFollower

LEMMA FollowInit == Init => FollowInv
<1> SUFFICES ASSUME Init PROVE FollowInv
    OBVIOUS
<1>1. PerActor
    BY DEF Init, PerActor, Each, PcSet, Actors
<1>2. CacheLed
    BY DEF Init, CacheLed, Empty
<1>3. SharedLed
    BY DEF Init, SharedLed, NoShared
<1>4. NoStrandedFollower
    BY DEF Init, NoStrandedFollower, Each
<1> QED  BY <1>1, <1>2, <1>3, <1>4 DEF FollowInv

\* Steps that leave every evaluation and both caches alone; the market cycle
\* may go on as long as the keys of requests under way do not change.
LEMMA FollowFrame ==
    ASSUME FollowInv, UNCHANGED <<evalVars, cache, shared>>,
           forcedPc' # "evaluate" => pc[Forced] = "idle",
           Persistent \/ cycle' = cycle
    PROVE  FollowInv'
<1>1. PerActor'
    BY DEF FollowInv, PerActor, evalVars
<1>2. \A a \in Actors : QuoteKey(a)' = QuoteKey(a)
    BY DEF QuoteKey, StateVersion, Pool, evalVars
<1>3. CacheLed'
    BY <1>2 DEF FollowInv, CacheLed, Leads, evalVars
<1>4. SharedLed'
    BY DEF FollowInv, SharedLed, Leads, evalVars
<1>5. NoStrandedFollower'
    BY DEF FollowInv, NoStrandedFollower, Pool, evalVars
<1> QED  BY <1>1, <1>3, <1>4, <1>5 DEF FollowInv

\* PrepareQuoteCache drops entries, those under way included.
LEMMA FollowPrepare ==
    ASSUME FollowInv, Prepare
    PROVE  FollowInv'
<1>1. UNCHANGED <<evalVars, shared, forcedVars>>
    BY DEF Prepare
<1>2. PerActor'
    BY <1>1 DEF FollowInv, PerActor, evalVars, forcedVars
<1>3. PICK dirty : cache' = Retained(dirty)
    BY DEF Prepare
<1>4. CacheLed'
    <2>1. CASE ~Persistent
        BY <1>3, <2>1 DEF Retained, Empty, CacheLed
    <2>2. CASE Persistent
        <3>1. \A a \in Actors : QuoteKey(a)' = QuoteKey(a)
            BY <1>1, <2>2 DEF QuoteKey, StateVersion, Pool, evalVars
        <3>2. \A k \in DOMAIN cache' : k \in DOMAIN cache /\ cache'[k] = cache[k]
            BY <1>3, <2>2 DEF Retained
        <3> QED  BY <1>1, <3>1, <3>2 DEF FollowInv, CacheLed, Leads, evalVars
    <2> QED  BY <2>1, <2>2
<1>5. SharedLed'
    BY <1>1 DEF FollowInv, SharedLed, Leads, evalVars
<1>6. NoStrandedFollower'
    BY <1>1 DEF FollowInv, NoStrandedFollower, Pool, evalVars
<1> QED  BY <1>2, <1>4, <1>5, <1>6 DEF FollowInv

\* A goroutine that leads nothing may change its own record in any way that
\* does not make it a follower.
LEMMA FollowOwn ==
    ASSUME FollowInv, NEW a \in Actors, pc[a] # "lead",
           NEW x \in PcSet \ {"follow"}, pc' = [pc EXCEPT ![a] = x],
           \A b \in Actors \ {a} : /\ stage'[b] = stage[b] /\ route'[b] = route[b]
                                   /\ hop'[b] = hop[b] /\ amount'[b] = amount[b]
                                   /\ seen'[b] = seen[b] /\ awaited'[b] = awaited[b],
           PerActor', UNCHANGED <<cycle, cache, shared>>
    PROVE  FollowInv'
<1>1. \A b \in Actors \ {a} : QuoteKey(b)' = QuoteKey(b) /\ Pool(b)' = Pool(b) /\ pc'[b] = pc[b]
    BY DEF QuoteKey, StateVersion, Pool, FollowInv, PerActor
<1>2. pc'[a] = x /\ x # "follow"
    BY DEF FollowInv, PerActor
<1>3. CacheLed'
    BY <1>1 DEF FollowInv, CacheLed, Leads
<1>4. SharedLed'
    BY <1>1 DEF FollowInv, SharedLed, Leads
<1>5. NoStrandedFollower'
    BY <1>1, <1>2 DEF FollowInv, NoStrandedFollower
<1> QED  BY <1>3, <1>4, <1>5 DEF FollowInv

LEMMA FollowBegin ==
    ASSUME FollowInv, NEW a \in Actors, NEW r, NEW versions, pc[a] = "idle",
           Begin(a, r, versions), UNCHANGED <<cache, shared, cycle>>,
           a # Forced => forcedPc' = forcedPc, a = Forced => forcedPc' = "evaluate"
    PROVE  FollowInv'
<1>1. PerActor'
    BY DEF FollowInv, PerActor, Begin, PcSet, Actors
<1> QED  BY <1>1, FollowOwn DEF Begin, PcSet, FollowInv, PerActor

\* An answer of any kind, the follower's own end of context included.
LEMMA FollowAnswer ==
    ASSUME FollowInv, NEW a \in Actors, pc[a] \in {"ask", "follow"}, NEW value, Answer(a, value),
           DOMAIN sent' = Actors,
           UNCHANGED <<stage, route, hop, amount, seen, cycle, forcedPc, cache, shared>>
    PROVE  FollowInv'
<1>1. PerActor'
    BY DEF FollowInv, PerActor, Answer, PcSet, Actors
<1> QED  BY <1>1, FollowOwn DEF Answer, PcSet, FollowInv, PerActor

\* A goroutine follows a request that is under way for what it asks.
LEMMA FollowFollow ==
    ASSUME FollowInv, NEW a \in Actors, pc[a] = "ask", NEW b, Leads(b, stage[a]),
           stage[a] = "quote" => Pool(b) = Pool(a) /\ amount[b] = amount[a],
           Follow(a, b),
           DOMAIN sent' = Actors,
           UNCHANGED <<stage, route, hop, amount, seen, cycle, forcedPc, cache, shared>>
    PROVE  FollowInv'
<1>1. PerActor'
    BY DEF FollowInv, PerActor, PcSet, Actors, Follow
<1>2. \A c \in Actors : QuoteKey(c)' = QuoteKey(c) /\ Pool(c)' = Pool(c)
    BY DEF QuoteKey, StateVersion, Pool
<1>3. /\ \A c \in Actors \ {a} : pc'[c] = pc[c] /\ awaited'[c] = awaited[c]
      /\ pc'[a] = "follow" /\ awaited'[a] = b
    BY DEF FollowInv, PerActor, Follow
<1>4. CacheLed'
    BY <1>2, <1>3 DEF FollowInv, CacheLed, Leads
<1>5. SharedLed'
    BY <1>3 DEF FollowInv, SharedLed, Leads
<1>6. NoStrandedFollower'
    BY <1>2, <1>3 DEF FollowInv, NoStrandedFollower, Leads
<1> QED  BY <1>1, <1>4, <1>5, <1>6 DEF FollowInv

\* Asking for a quote: a finished entry, the budget, a request to follow, or
\* a request of its own.
LEMMA FollowAskQuote ==
    ASSUME FollowInv, NEW a \in Actors, Ask(a), AskQuote(a)
    PROVE  FollowInv'
<1> DEFINE key == QuoteKey(a)
<1>1. /\ UNCHANGED <<stage, route, hop, amount, seen, cycle, forcedPc, shared>>
      /\ pc[a] = "ask" /\ stage[a] = "quote"
    BY DEF Ask, AskQuote, cycleVars, forcedVars
<1>1a. DOMAIN sent' = Actors
    BY DEF AskQuote, FollowInv, PerActor
<1>2. ASSUME NEW value, Answer(a, value), UNCHANGED cache  PROVE FollowInv'
    BY <1>1, <1>1a, <1>2, FollowAnswer
<1>3. CASE key \in DOMAIN cache /\ cache[key].by # None /\ Follow(a, cache[key].by)
           /\ UNCHANGED cache
    <2>1. Leads(cache[key].by, "quote") /\ QuoteKey(cache[key].by) = key
        BY <1>3 DEF FollowInv, CacheLed
    <2>2. Pool(cache[key].by) = Pool(a) /\ amount[cache[key].by] = amount[a]
        BY <2>1 DEF QuoteKey
    <2> QED  BY <1>1, <1>1a, <1>3, <2>1, <2>2, FollowFollow
<1>4. CASE /\ cache' = [k \in DOMAIN cache \union {key} |->
                            IF k = key THEN [by |-> a, result |-> Failed, sent |-> state[Pool(a)]]
                            ELSE cache[k]]
           /\ key \notin DOMAIN cache
           /\ sent' = [sent EXCEPT ![a] = state[Pool(a)]] /\ Lead(a)
    <2>1. PerActor'
        BY <1>1, <1>4 DEF FollowInv, PerActor, PcSet, Actors, Lead
    <2>2. \A c \in Actors : QuoteKey(c)' = QuoteKey(c) /\ Pool(c)' = Pool(c)
        BY <1>1 DEF QuoteKey, StateVersion, Pool
    <2>3. /\ \A c \in Actors \ {a} : pc'[c] = pc[c]
          /\ pc'[a] = "lead" /\ awaited' = awaited
        BY <1>4 DEF FollowInv, PerActor, Lead
    <2>4. CacheLed'
        <3> SUFFICES ASSUME NEW k \in DOMAIN cache', cache'[k].by # None
                     PROVE  (Leads(cache[k].by, "quote") /\ QuoteKey(cache[k].by) = k)'
            BY DEF CacheLed
        <3>1. CASE k = key
            <4>1. cache'[k].by = a
                BY <1>4, <3>1
            <4> QED  BY <1>1, <2>2, <2>3, <3>1, <4>1 DEF Leads
        <3>2. CASE k # key
            <4>1. k \in DOMAIN cache /\ cache'[k] = cache[k]
                BY <1>4, <3>2
            <4>2. Leads(cache[k].by, "quote") /\ QuoteKey(cache[k].by) = k
                BY <4>1 DEF FollowInv, CacheLed
            <4> QED  BY <1>1, <2>2, <2>3, <4>1, <4>2 DEF Leads
        <3> QED  BY <3>1, <3>2
    <2>5. SharedLed'
        BY <1>1, <2>3 DEF FollowInv, SharedLed, Leads
    <2>6. NoStrandedFollower'
        BY <1>1, <2>2, <2>3 DEF FollowInv, NoStrandedFollower
    <2> QED  BY <2>1, <2>4, <2>5, <2>6 DEF FollowInv
<1> QED  BY <1>2, <1>3, <1>4 DEF AskQuote

LEMMA FollowAskShared ==
    ASSUME FollowInv, NEW a \in Actors, Ask(a), AskShared(a)
    PROVE  FollowInv'
<1> DEFINE v == stage[a]
<1>1. /\ UNCHANGED <<stage, route, hop, amount, seen, cycle, forcedPc, cache, sent>>
      /\ pc[a] = "ask" /\ v \in {"premium", "cost"}
    BY DEF Ask, AskShared, cycleVars, forcedVars
<1>1a. DOMAIN sent' = Actors
    BY <1>1 DEF FollowInv, PerActor
<1>2. CASE Answer(a, 1) /\ UNCHANGED shared
    BY <1>1, <1>1a, <1>2, FollowAnswer
<1>3. CASE shared[v].by # None /\ Follow(a, shared[v].by) /\ UNCHANGED shared
    <2>1. Leads(shared[v].by, v)
        BY <1>1, <1>3 DEF FollowInv, SharedLed
    <2> QED  BY <1>1, <1>1a, <1>3, <2>1, FollowFollow
<1>4. CASE shared[v].by = None /\ shared' = [shared EXCEPT ![v].by = a] /\ Lead(a)
    <2>1. PerActor'
        BY <1>1, <1>4 DEF FollowInv, PerActor, PcSet, Actors, Lead
    <2>2. \A c \in Actors : QuoteKey(c)' = QuoteKey(c) /\ Pool(c)' = Pool(c)
        BY <1>1 DEF QuoteKey, StateVersion, Pool
    <2>3. /\ \A c \in Actors \ {a} : pc'[c] = pc[c]
          /\ pc'[a] = "lead" /\ awaited' = awaited
        BY <1>4 DEF FollowInv, PerActor, Lead
    <2>4. CacheLed'
        BY <1>1, <2>2, <2>3 DEF FollowInv, CacheLed, Leads
    <2>5. SharedLed'
        <3>1. DOMAIN shared = {"premium", "cost"}
            BY DEF FollowInv, SharedLed
        <3>2. \A u \in {"premium", "cost"} \ {v} : shared'[u].by = shared[u].by
            BY <1>4, <3>1
        <3>3. DOMAIN shared' = {"premium", "cost"}
            BY <1>4, <3>1
        <3>4. shared'[v].by \in {a, None}
            BY <1>1, <1>4, <3>1
        <3>5. ASSUME NEW u \in {"premium", "cost"}, shared'[u].by # None
              PROVE  Leads(shared[u].by, u)'
            <4>1. CASE u = v
                BY <1>1, <2>3, <3>4, <3>5, <4>1 DEF Leads
            <4>2. CASE u # v
                BY <1>1, <2>3, <3>2, <3>5, <4>2 DEF FollowInv, SharedLed, Leads
            <4> QED  BY <4>1, <4>2
        <3> QED  BY <3>3, <3>5 DEF SharedLed
    <2>6. NoStrandedFollower'
        BY <1>1, <2>2, <2>3 DEF FollowInv, NoStrandedFollower
    <2> QED  BY <2>1, <2>4, <2>5, <2>6 DEF FollowInv
<1> QED  BY <1>2, <1>3, <1>4 DEF AskShared

\* The leader's request returns: everyone who waits for it is woken.
LEMMA FollowLand ==
    ASSUME FollowInv, NEW a \in Actors, Land(a)
    PROVE  FollowInv'
<1>1. PICK result :
        /\ IF stage[a] = "quote" THEN LandQuote(a, result) ELSE LandShared(a, result)
        /\ answer' = [f \in Actors |-> IF f \in Woken(a, result) THEN result ELSE answer[f]]
        /\ pc' = [f \in Actors |-> IF f \in Woken(a, result) THEN "answered" ELSE pc[f]]
    BY DEF Land
<1>2. /\ UNCHANGED <<stage, route, hop, amount, seen, awaited, sent, cycle, forcedPc>>
      /\ pc[a] = "lead"
    BY DEF Land, cycleVars, forcedVars
<1>3. \A c \in Actors : QuoteKey(c)' = QuoteKey(c) /\ Pool(c)' = Pool(c)
    BY <1>2 DEF QuoteKey, StateVersion, Pool
<1>4. \A f \in Actors : pc'[f] = "follow" => pc[f] = "follow" /\ awaited[f] # a
    BY <1>1 DEF Woken
<1>5. \A f \in Actors : pc[f] = "lead" /\ f # a => pc'[f] = "lead"
    BY <1>1 DEF Woken
<1>6. PerActor'
    BY <1>1, <1>2 DEF FollowInv, PerActor, PcSet, Actors, Woken
<1>7. NoStrandedFollower'
    BY <1>2, <1>3, <1>4, <1>5 DEF FollowInv, NoStrandedFollower
<1>8. CASE stage[a] = "quote"
    <2>1. LandQuote(a, result)
        BY <1>1, <1>8
    <2>2. \A k \in DOMAIN cache' :
            k \in DOMAIN cache /\ (cache'[k].by # None => cache'[k].by = cache[k].by /\ cache[k].by # a)
        BY <1>2, <2>1 DEF LandQuote, FollowInv, CacheLed
    <2>3. CacheLed'
        BY <1>2, <1>3, <1>5, <2>2 DEF FollowInv, CacheLed, Leads
    <2>4. SharedLed'
        BY <1>2, <1>5, <1>8, <2>1 DEF LandQuote, FollowInv, SharedLed, Leads
    <2> QED  BY <1>6, <1>7, <2>3, <2>4 DEF FollowInv
<1>9. CASE stage[a] # "quote"
    <2>1. LandShared(a, result)
        BY <1>1, <1>9
    <2>2. CacheLed'
        BY <1>2, <1>3, <1>5, <1>9, <2>1 DEF LandShared, FollowInv, CacheLed, Leads
    <2>3. \A v \in {"premium", "cost"} :
            shared'[v].by # None => shared'[v].by = shared[v].by /\ v # stage[a]
        BY <2>1 DEF LandShared, FollowInv, SharedLed
    <2>4. DOMAIN shared' = {"premium", "cost"}
        BY <2>1 DEF LandShared, FollowInv, SharedLed
    <2>5. SharedLed'
        BY <1>2, <1>5, <2>3, <2>4 DEF FollowInv, SharedLed, Leads
    <2> QED  BY <1>6, <1>7, <2>2, <2>5 DEF FollowInv
<1> QED  BY <1>8, <1>9

LEMMA FollowReceive ==
    ASSUME FollowInv, NEW a \in Actors, Receive(a)
    PROVE  FollowInv'
<1>1. /\ pc[a] = "answered" /\ UNCHANGED <<seen, cycle, forcedPc, cache, shared>>
      /\ answer' = [answer EXCEPT ![a] = Failed] /\ awaited' = [awaited EXCEPT ![a] = None]
      /\ sent' = [sent EXCEPT ![a] = Failed]
    BY DEF Receive, cycleVars, cacheVars
<1>2. PICK x \in {"idle", "ask"} : pc' = [pc EXCEPT ![a] = x]
    BY DEF Receive
<1>3. /\ DOMAIN stage' = Actors /\ DOMAIN route' = Actors
      /\ DOMAIN hop' = Actors /\ DOMAIN amount' = Actors
      /\ \A b \in Actors \ {a} : /\ stage'[b] = stage[b] /\ route'[b] = route[b]
                                 /\ hop'[b] = hop[b] /\ amount'[b] = amount[b]
    <2>1. CASE answer[a] = Failed \/ Complete(a)
        BY <2>1 DEF Receive, FollowInv, PerActor
    <2>2. CASE ~(answer[a] = Failed \/ Complete(a))
        BY <2>2 DEF Receive, FollowInv, PerActor
    <2> QED  BY <2>1, <2>2
<1>4. PerActor'
    BY <1>1, <1>2, <1>3 DEF FollowInv, PerActor, PcSet, Actors
<1>5. \A b \in Actors \ {a} : seen'[b] = seen[b] /\ awaited'[b] = awaited[b]
    BY <1>1 DEF FollowInv, PerActor
<1>6. x \in PcSet \ {"follow"} /\ pc[a] # "lead"
    BY <1>1 DEF PcSet
<1> QED  BY <1>1, <1>2, <1>3, <1>4, <1>5, <1>6, FollowOwn

LEMMA FollowExpire ==
    ASSUME FollowInv, NEW v \in {"premium", "cost"}, Expire(v)
    PROVE  FollowInv'
<1>1. UNCHANGED <<evalVars, cache, forcedPc, cycle>>
    BY DEF Expire, cycleVars, forcedVars
<1>2. PerActor'
    BY <1>1 DEF FollowInv, PerActor, evalVars
<1>3. \A a \in Actors : QuoteKey(a)' = QuoteKey(a)
    BY <1>1 DEF QuoteKey, StateVersion, Pool, evalVars
<1>4. CacheLed'
    BY <1>1, <1>3 DEF FollowInv, CacheLed, Leads, evalVars
<1>5. /\ DOMAIN shared' = {"premium", "cost"}
      /\ \A u \in {"premium", "cost"} : shared'[u].by = shared[u].by
    BY DEF Expire, FollowInv, SharedLed
<1>6. SharedLed'
    BY <1>1, <1>5 DEF FollowInv, SharedLed, Leads, evalVars
<1>7. NoStrandedFollower'
    BY <1>1 DEF FollowInv, NoStrandedFollower, Pool, evalVars
<1> QED  BY <1>2, <1>4, <1>6, <1>7 DEF FollowInv

\* The forced goroutine reads its pools while it evaluates nothing.
LEMMA FollowReadForced ==
    ASSUME FollowInv, ReadForcedPools
    PROVE  FollowInv'
<1>1. Forced \in Actors /\ pc[Forced] = "idle"
    BY DEF Actors, FollowInv, PerActor, ReadForcedPools
<1>2. CASE UNCHANGED seen
    BY <1>1, <1>2, FollowFrame DEF ReadForcedPools, evalVars, cacheVars, cycleVars
<1>3. CASE seen' = [seen EXCEPT ![Forced] = state]
    <2>1. PerActor'
        BY <1>1, <1>3 DEF ReadForcedPools, FollowInv, PerActor
    <2>2. pc' = [pc EXCEPT ![Forced] = "idle"]
        BY <1>1 DEF ReadForcedPools, FollowInv, PerActor
    <2> QED  BY <1>1, <1>3, <2>1, <2>2, FollowOwn
                DEF ReadForcedPools, cacheVars, cycleVars, FollowInv, PerActor, PcSet
<1> QED  BY <1>2, <1>3 DEF ReadForcedPools

LEMMA FollowCrash ==
    ASSUME Crash
    PROVE  FollowInv'
<1>1. PerActor'
    BY DEF Crash, PerActor, Each, PcSet, Actors
<1>2. CacheLed'
    BY DEF Crash, CacheLed, Empty
<1>3. SharedLed'
    BY DEF Crash, SharedLed, NoShared
<1>4. NoStrandedFollower'
    BY DEF Crash, NoStrandedFollower, Each
<1> QED  BY <1>1, <1>2, <1>3, <1>4 DEF FollowInv

LEMMA FollowStep ==
    ASSUME FollowInv, [Next]_vars
    PROVE  FollowInv'
<1> USE DEF evalVars, cacheVars, cycleVars, forcedVars
<1>0. forcedPc # "evaluate" => pc[Forced] = "idle"
    BY DEF FollowInv, PerActor
<1>1. CASE UNCHANGED vars
    BY <1>0, <1>1, FollowFrame DEF vars
<1>2. ASSUME NEW p, Swap(p)  PROVE FollowInv'
    BY <1>0, <1>2, FollowFrame DEF Swap
<1>3. CASE CycleStep
    <2>1. CASE Prepare
        BY <2>1, FollowPrepare
    <2>2. CASE SetQuoteBudget \/ StopFeeding \/ EndCycle
        BY <1>0, <2>2, FollowFrame DEF SetQuoteBudget, StopFeeding, EndCycle
    <2> QED  BY <1>3, <2>1, <2>2 DEF CycleStep
<1>4. CASE Cancel
    BY <1>0, <1>4, FollowFrame DEF Cancel
<1>5. CASE ForcedStep
    <2>1. CASE ConsumeMarker
        BY <1>0, <2>1, FollowFrame DEF ConsumeMarker, ForcedGoto
    <2>2. CASE ReadForcedPools
        BY <2>2, FollowReadForced
    <2>3. ASSUME NEW r \in ForcedRoutes, ForcedTake(r)  PROVE FollowInv'
        BY <2>3, FollowBegin DEF ForcedTake, Actors
    <2>4. CASE ForcedDecide
        BY <2>4, FollowFrame DEF ForcedDecide, ForcedGoto
    <2>5. CASE ForcedProcess
        BY <1>0, <2>5, FollowFrame DEF ForcedProcess, ForcedGoto
    <2> QED  BY <1>5, <2>1, <2>2, <2>3, <2>4, <2>5 DEF ForcedStep
<1>6. CASE Crash
    BY <1>6, FollowCrash
<1>7. ASSUME NEW v \in {"premium", "cost"}, Expire(v)  PROVE FollowInv'
    BY <1>7, FollowExpire
<1>8. ASSUME NEW a \in Actors, EvaluationStep(a)  PROVE FollowInv'
    <2>1. CASE Ask(a)
        BY <2>1, FollowAskQuote, FollowAskShared DEF Ask
    <2> QED  BY <1>8, <2>1, FollowLand, FollowReceive DEF EvaluationStep
<1>9. ASSUME NEW w \in Workers, GiveUp(w)  PROVE FollowInv'
    <2>1. DOMAIN sent' = Actors
        BY <1>9 DEF GiveUp, FollowInv, PerActor
    <2> QED  BY <1>9, <2>1, FollowAnswer DEF GiveUp, Actors
<1>10. ASSUME NEW w \in Workers, NEW r \in Routes, Take(w, r)  PROVE FollowInv'
    BY <1>10, ActorsAssumption, FollowBegin DEF Take, Actors
<1> QED  BY <1>1, <1>2, <1>3, <1>4, <1>5, <1>6, <1>7, <1>8, <1>9, <1>10 DEF Next

\* A follower always waits for a request that is under way and asks what it
\* asks (quote, aavePremiumBPS, CachedCostModel.Estimate): its ready channel
\* will be closed.
THEOREM NobodyStranded == Spec => []NoStrandedFollower
<1>1. FollowInv => NoStrandedFollower
    BY DEF FollowInv
<1> QED  BY <1>1, FollowInit, FollowStep, PTL DEF Spec

-----------------------------------------------------------------------------
(* The age of quotes, with the cache kept over cycles (the default).  An   *)
(* entry's key holds the pool state its askers last read; the invariant    *)
(* bounds below by it the state at which the entry's request was sent, in  *)
(* the cache and with everyone who leads, follows or has got the answer.   *)

ChainTyped ==
    /\ state \in [Pools -> Nat] /\ known \in [Pools -> Nat]
    /\ \A p \in Pools : known[p] <= state[p]
SeenTyped ==
    \A a \in Actors : seen[a] \in [Pools -> Nat] /\ \A p \in Pools : seen[a][p] <= state[p]
OnRoute == \A a \in Actors :
    pc[a] # "idle" => route[a] \in Seq(Pools) /\ hop[a] \in 1..Len(route[a])

SentFresh == \A a \in Actors :
    /\ pc[a] \in {"lead", "follow", "answered"} /\ stage[a] = "quote"
    /\ pc[a] = "answered" => answer[a] # Failed
    => sent[a] \in Nat /\ sent[a] >= seen[a][Pool(a)]
CacheFresh == \A k \in DOMAIN cache : cache[k].sent \in Nat /\ cache[k].sent >= k[1]

FreshInv == ChainTyped /\ SeenTyped /\ OnRoute /\ SentFresh /\ CacheFresh

LEMMA FreshInit == Init => FreshInv
<1> SUFFICES ASSUME Init PROVE FreshInv
    OBVIOUS
<1>1. ChainTyped /\ SeenTyped
    BY DEF Init, ChainTyped, SeenTyped, Each
<1>2. \A a \in Actors : pc[a] = "idle"
    BY DEF Init, Each
<1>3. OnRoute /\ SentFresh
    BY <1>2 DEF OnRoute, SentFresh
<1>4. CacheFresh
    BY DEF Init, CacheFresh, Empty
<1> QED  BY <1>1, <1>3, <1>4 DEF FreshInv

\* The pool an evaluation is at.
LEMMA PoolTyped ==
    ASSUME OnRoute, NEW a \in Actors, pc[a] # "idle"
    PROVE  Pool(a) \in Pools
BY DEF OnRoute, Pool

\* The chain advances, the cycle goes on, entries are dropped; evaluations rest.
LEMMA FreshFrame ==
    ASSUME FreshInv, ChainTyped', \A p \in Pools : state[p] <= state'[p],
           \A k \in DOMAIN cache' : k \in DOMAIN cache /\ cache'[k] = cache[k],
           UNCHANGED evalVars
    PROVE  FreshInv'
<1>1. SeenTyped'
    <2> SUFFICES ASSUME NEW a \in Actors
                 PROVE  /\ seen'[a] \in [Pools -> Nat]
                        /\ \A p \in Pools : seen'[a][p] <= state'[p]
        BY DEF SeenTyped
    <2>1. seen[a] \in [Pools -> Nat] /\ \A p \in Pools : seen[a][p] <= state[p]
        BY DEF FreshInv, SeenTyped
    <2>2. state \in [Pools -> Nat] /\ state' \in [Pools -> Nat]
        BY DEF FreshInv, ChainTyped
    <2> QED  BY <2>1, <2>2 DEF evalVars
<1>2. OnRoute' /\ SentFresh'
    BY DEF FreshInv, OnRoute, SentFresh, Pool, evalVars
<1>3. CacheFresh'
    BY DEF FreshInv, CacheFresh
<1> QED  BY <1>1, <1>2, <1>3 DEF FreshInv

\* A goroutine that leads nothing begins, goes on or ends.
LEMMA FreshOwn ==
    ASSUME FollowInv, FreshInv, NEW a \in Actors, pc[a] # "lead",
           NEW x \in {"idle", "ask"}, pc' = [pc EXCEPT ![a] = x],
           \A b \in Actors \ {a} :
                /\ stage'[b] = stage[b] /\ route'[b] = route[b] /\ hop'[b] = hop[b]
                /\ seen'[b] = seen[b] /\ awaited'[b] = awaited[b]
                /\ answer'[b] = answer[b] /\ sent'[b] = sent[b],
           seen'[a] \in [Pools -> Nat], \A p \in Pools : seen'[a][p] <= state[p],
           x = "ask" => route'[a] \in Seq(Pools) /\ hop'[a] \in 1..Len(route'[a]),
           UNCHANGED <<state, known, cache>>
    PROVE  FreshInv'
<1>1. \A b \in Actors \ {a} : Pool(b)' = Pool(b) /\ pc'[b] = pc[b]
    BY DEF Pool, FollowInv, PerActor
<1>2. pc'[a] = x /\ x \notin {"follow", "lead", "answered"}
    BY DEF FollowInv, PerActor
<1>3. ChainTyped' /\ CacheFresh'
    BY DEF FreshInv, ChainTyped, CacheFresh
<1>4. SeenTyped'
    BY DEF FreshInv, SeenTyped
<1>5. OnRoute'
    BY <1>1, <1>2 DEF FreshInv, OnRoute
<1>6. SentFresh'
    BY <1>1, <1>2 DEF FreshInv, SentFresh
<1> QED  BY <1>3, <1>4, <1>5, <1>6 DEF FreshInv

\* An answer that is a failure, is for a shared value, or was sent late enough.
LEMMA FreshAnswer ==
    ASSUME FollowInv, FreshInv, NEW a \in Actors, pc[a] \in {"ask", "follow"}, NEW value,
           Answer(a, value), \A b \in Actors \ {a} : sent'[b] = sent[b],
           stage[a] = "quote" /\ value # Failed => sent'[a] \in Nat /\ sent'[a] >= seen[a][Pool(a)],
           UNCHANGED <<stage, route, hop, seen, state, known, cache>>
    PROVE  FreshInv'
<1>1. \A b \in Actors : Pool(b)' = Pool(b)
    BY DEF Pool
<1>2. /\ \A b \in Actors \ {a} : pc'[b] = pc[b] /\ answer'[b] = answer[b]
      /\ pc'[a] = "answered" /\ answer'[a] = value
    BY DEF Answer, FollowInv, PerActor
<1>3. ChainTyped' /\ CacheFresh' /\ SeenTyped'
    BY DEF FreshInv, ChainTyped, CacheFresh, SeenTyped
<1>4. OnRoute'
    BY <1>2 DEF FreshInv, OnRoute
<1>5. SentFresh'
    BY <1>1, <1>2 DEF FreshInv, SentFresh
<1> QED  BY <1>3, <1>4, <1>5 DEF FreshInv

\* A request to wait for, its own or another's, that is sent late enough.
LEMMA FreshWait ==
    ASSUME FollowInv, FreshInv, NEW a \in Actors, pc[a] = "ask",
           NEW x \in {"lead", "follow"}, pc' = [pc EXCEPT ![a] = x], answer' = answer,
           \A b \in Actors \ {a} : sent'[b] = sent[b],
           stage[a] = "quote" => sent'[a] \in Nat /\ sent'[a] >= seen[a][Pool(a)],
           CacheFresh', UNCHANGED <<stage, route, hop, seen, state, known>>
    PROVE  FreshInv'
<1>1. \A b \in Actors : Pool(b)' = Pool(b)
    BY DEF Pool
<1>2. /\ \A b \in Actors \ {a} : pc'[b] = pc[b]
      /\ pc'[a] = x /\ x # "answered"
    BY DEF FollowInv, PerActor
<1>3. ChainTyped' /\ SeenTyped'
    BY DEF FreshInv, ChainTyped, SeenTyped
<1>4. OnRoute'
    BY <1>2 DEF FreshInv, OnRoute
<1>5. SentFresh'
    BY <1>1, <1>2 DEF FreshInv, SentFresh
<1> QED  BY <1>3, <1>4, <1>5 DEF FreshInv

LEMMA FreshAsk ==
    ASSUME Persistent, FollowInv, FreshInv, NEW a \in Actors, Ask(a)
    PROVE  FreshInv'
<1> DEFINE key == QuoteKey(a)
<1>1. /\ UNCHANGED <<stage, route, hop, seen, state, known>>
      /\ pc[a] = "ask"
    BY DEF Ask, cycleVars, chainVars
<1>2. ASSUME UNCHANGED cache  PROVE CacheFresh'
    BY <1>2 DEF FreshInv, CacheFresh
<1>3. CASE AskQuote(a)
    <2>1. \A b \in Actors \ {a} : sent'[b] = sent[b]
        BY <1>3 DEF AskQuote, FollowInv, PerActor
    <2>2. key[1] = seen[a][Pool(a)]
        BY DEF QuoteKey, StateVersion
    <2>3. CASE /\ key \in DOMAIN cache /\ cache' = cache
               /\ sent' = [sent EXCEPT ![a] = cache[key].sent]
               /\ Answer(a, cache[key].result) \/ Follow(a, cache[key].by)
        <3>1. sent'[a] \in Nat /\ sent'[a] >= seen[a][Pool(a)]
            BY <2>2, <2>3 DEF FreshInv, CacheFresh, FollowInv, PerActor
        <3>2. CASE Answer(a, cache[key].result)
            BY <1>1, <2>1, <2>3, <3>1, <3>2, FreshAnswer
        <3>3. CASE Follow(a, cache[key].by)
            BY <1>1, <1>2, <2>1, <2>3, <3>1, <3>3, FreshWait DEF Follow
        <3> QED  BY <2>3, <3>2, <3>3
    <2>4. CASE Answer(a, Failed) /\ UNCHANGED <<cache, sent>>
        BY <1>1, <2>1, <2>4, FreshAnswer
    <2>5. CASE /\ cache' = [k \in DOMAIN cache \union {key} |->
                                IF k = key THEN [by |-> a, result |-> Failed, sent |-> state[Pool(a)]]
                                ELSE cache[k]]
               /\ sent' = [sent EXCEPT ![a] = state[Pool(a)]] /\ Lead(a)
        <3>1. Pool(a) \in Pools
            BY <1>1, PoolTyped DEF FreshInv
        <3>2. state[Pool(a)] \in Nat /\ state[Pool(a)] >= seen[a][Pool(a)]
            BY <3>1 DEF FreshInv, ChainTyped, SeenTyped
        <3>3. sent'[a] = state[Pool(a)]
            BY <2>5 DEF FollowInv, PerActor
        <3>4. ASSUME NEW k \in DOMAIN cache'
              PROVE  cache'[k].sent \in Nat /\ cache'[k].sent >= k[1]
            <4>1. CASE k = key
                <5>1. cache'[k].sent = state[Pool(a)]
                    BY <2>5, <4>1
                <5> QED  BY <2>2, <3>2, <4>1, <5>1
            <4>2. CASE k # key
                BY <2>5, <4>2 DEF FreshInv, CacheFresh
            <4> QED  BY <4>1, <4>2
        <3>5. CacheFresh'
            BY <3>4 DEF CacheFresh
        <3> QED  BY <1>1, <2>1, <2>5, <3>2, <3>3, <3>5, FreshWait DEF Lead
    <2> QED  BY <1>3, <2>3, <2>4, <2>5 DEF AskQuote
<1>4. CASE AskShared(a)
    <2>1. stage[a] # "quote" /\ UNCHANGED <<cache, sent>>
        BY <1>4 DEF AskShared
    <2>2. CASE Answer(a, 1)
        BY <1>1, <2>1, <2>2, FreshAnswer
    <2>3. CASE Follow(a, shared[stage[a]].by)
        BY <1>1, <1>2, <2>1, <2>3, FreshWait DEF Follow
    <2>4. CASE Lead(a)
        BY <1>1, <1>2, <2>1, <2>4, FreshWait DEF Lead
    <2> QED  BY <1>4, <2>2, <2>3, <2>4 DEF AskShared
<1> QED  BY <1>3, <1>4 DEF Ask

\* Those a request answers asked what it asks and know when it was sent.
LEMMA FreshLand ==
    ASSUME FollowInv, FreshInv, NEW a \in Actors, Land(a)
    PROVE  FreshInv'
<1>1. PICK result :
        /\ IF stage[a] = "quote" THEN LandQuote(a, result) ELSE LandShared(a, result)
        /\ answer' = [f \in Actors |-> IF f \in Woken(a, result) THEN result ELSE answer[f]]
        /\ pc' = [f \in Actors |-> IF f \in Woken(a, result) THEN "answered" ELSE pc[f]]
    BY DEF Land
<1>2. /\ UNCHANGED <<stage, route, hop, seen, sent, state, known>>
      /\ pc[a] = "lead"
    BY DEF Land, cycleVars, chainVars
<1>3. \A c \in Actors : Pool(c)' = Pool(c)
    BY <1>2 DEF Pool
<1>4. \A f \in Actors : f \notin Woken(a, result) => pc'[f] = pc[f] /\ answer'[f] = answer[f]
    BY <1>1
<1>5. \A f \in Woken(a, result) :
        f \in Actors /\ pc'[f] = "answered" /\ pc[f] \in {"lead", "follow"}
    BY <1>1, <1>2 DEF Woken
<1>6. ChainTyped' /\ SeenTyped'
    BY <1>2 DEF FreshInv, ChainTyped, SeenTyped
<1>7. OnRoute'
    BY <1>2, <1>4, <1>5 DEF FreshInv, OnRoute
<1>8. SentFresh'
    <2> SUFFICES ASSUME NEW f \in Actors, pc'[f] \in {"lead", "follow", "answered"},
                        stage[f] = "quote", pc'[f] = "answered" => answer'[f] # Failed
                 PROVE  sent[f] \in Nat /\ sent[f] >= seen[f][Pool(f)]
        BY <1>2, <1>3 DEF SentFresh
    <2>1. CASE f \in Woken(a, result)
        BY <1>5, <2>1 DEF FreshInv, SentFresh
    <2>2. CASE f \notin Woken(a, result)
        BY <1>4, <2>2 DEF FreshInv, SentFresh
    <2> QED  BY <2>1, <2>2
<1>9. CacheFresh'
    <2>1. CASE stage[a] # "quote"
        BY <1>1, <2>1 DEF LandShared, FreshInv, CacheFresh
    <2>2. CASE stage[a] = "quote"
        <3>1. DOMAIN cache' = DOMAIN cache /\ \A k \in DOMAIN cache : cache'[k].sent = cache[k].sent
            BY <1>1, <2>2 DEF LandQuote
        <3> QED  BY <3>1 DEF FreshInv, CacheFresh
    <2> QED  BY <2>1, <2>2
<1> QED  BY <1>6, <1>7, <1>8, <1>9 DEF FreshInv

LEMMA FreshReceive ==
    ASSUME FollowInv, FreshInv, NEW a \in Actors, Receive(a)
    PROVE  FreshInv'
<1>1. /\ pc[a] = "answered" /\ UNCHANGED <<seen, state, known, cache>>
      /\ answer' = [answer EXCEPT ![a] = Failed] /\ awaited' = [awaited EXCEPT ![a] = None]
      /\ sent' = [sent EXCEPT ![a] = Failed]
    BY DEF Receive, cycleVars, cacheVars, chainVars
<1>2. seen[a] \in [Pools -> Nat] /\ \A p \in Pools : seen[a][p] <= state[p]
    BY DEF FreshInv, SeenTyped
<1>3. route[a] \in Seq(Pools) /\ hop[a] \in 1..Len(route[a])
    BY <1>1 DEF FreshInv, OnRoute
<1>4. \A b \in Actors \ {a} : /\ stage'[b] = stage[b] /\ route'[b] = route[b] /\ hop'[b] = hop[b]
                              /\ seen'[b] = seen[b] /\ awaited'[b] = awaited[b]
                              /\ answer'[b] = answer[b] /\ sent'[b] = sent[b]
    <2>1. CASE answer[a] = Failed \/ Complete(a)
        BY <1>1, <2>1 DEF Receive, FollowInv, PerActor
    <2>2. CASE ~(answer[a] = Failed \/ Complete(a))
        BY <1>1, <2>2 DEF Receive, FollowInv, PerActor
    <2> QED  BY <2>1, <2>2
<1>5. CASE pc' = [pc EXCEPT ![a] = "idle"]
    BY <1>1, <1>2, <1>4, <1>5, FreshOwn
<1>6. CASE pc' = [pc EXCEPT ![a] = "ask"] /\ ~(answer[a] = Failed \/ Complete(a))
    <2>1. route' = route
        BY <1>6 DEF Receive
    <2>2. hop'[a] \in 1..Len(route[a])
        <3>1. CASE stage[a] = "quote" /\ hop[a] < Len(route[a])
            <4>1. hop'[a] = hop[a] + 1
                BY <1>6, <3>1 DEF Receive, FollowInv, PerActor
            <4>2. Len(route[a]) \in Nat
                BY <1>3
            <4> QED  BY <1>3, <3>1, <4>1, <4>2
        <3>2. CASE ~(stage[a] = "quote" /\ hop[a] < Len(route[a]))
            BY <1>3, <1>6, <3>2 DEF Receive
        <3> QED  BY <3>1, <3>2
    <2> QED  BY <1>1, <1>2, <1>3, <1>4, <1>6, <2>1, <2>2, FreshOwn
<1> QED  BY <1>5, <1>6 DEF Receive

LEMMA FreshBegin ==
    ASSUME FollowInv, FreshInv, NEW a \in Actors, NEW r \in Routes \union ForcedRoutes,
           NEW versions \in [Pools -> Nat], \A p \in Pools : versions[p] <= state[p],
           pc[a] = "idle", Begin(a, r, versions), UNCHANGED <<state, known, cache>>
    PROVE  FreshInv'
<1>1. /\ \A b \in Actors \ {a} : /\ stage'[b] = stage[b] /\ route'[b] = route[b] /\ hop'[b] = hop[b]
                                 /\ seen'[b] = seen[b] /\ awaited'[b] = awaited[b]
                                 /\ answer'[b] = answer[b] /\ sent'[b] = sent[b]
      /\ route'[a] = r /\ hop'[a] = 1 /\ seen'[a] = versions
    BY DEF Begin, FollowInv, PerActor
<1>2. r \in Seq(Pools) /\ Len(r) \in 2..4
    BY RoutesAssumption
<1>3. 1 \in 1..Len(r)
    BY <1>2
<1> QED  BY <1>1, <1>2, <1>3, FreshOwn DEF Begin

LEMMA FreshPrepare ==
    ASSUME Persistent, FollowInv, FreshInv, Prepare
    PROVE  FreshInv'
<1>1. PICK dirty \in SUBSET {p \in Pools : known[p] < state[p]} :
        /\ known' = [p \in Pools |-> IF p \in dirty THEN state[p] ELSE known[p]]
        /\ cache' = Retained(dirty)
    BY DEF Prepare
<1>2. UNCHANGED <<evalVars, state>>
    BY DEF Prepare, chainVars
<1>3. ChainTyped'
    BY <1>1, <1>2 DEF FreshInv, ChainTyped
<1>4. \A k \in DOMAIN cache' : k \in DOMAIN cache /\ cache'[k] = cache[k]
    BY <1>1 DEF Retained
<1>5. \A p \in Pools : state[p] <= state'[p]
    BY <1>2 DEF FreshInv, ChainTyped
<1> QED  BY <1>2, <1>3, <1>4, <1>5, FreshFrame

LEMMA FreshSwap ==
    ASSUME FreshInv, NEW p \in Volatile, Swap(p)
    PROVE  FreshInv'
<1>1. UNCHANGED <<evalVars, cache, known>> /\ p \in Pools
    BY RoutesAssumption DEF Swap, cacheVars, cycleVars
<1>2. ChainTyped' /\ \A q \in Pools : state[q] <= state'[q]
    BY <1>1 DEF FreshInv, ChainTyped, Swap
<1> QED  BY <1>1, <1>2, FreshFrame

LEMMA FreshCrash ==
    ASSUME FreshInv, Crash
    PROVE  FreshInv'
<1>1. ChainTyped' /\ SeenTyped'
    BY DEF FreshInv, ChainTyped, Crash, SeenTyped, Each
<1>2. \A a \in Actors : pc'[a] = "idle"
    BY DEF Crash, Each
<1>3. OnRoute' /\ SentFresh'
    BY <1>2 DEF OnRoute, SentFresh
<1>4. CacheFresh'
    BY DEF Crash, CacheFresh, Empty
<1> QED  BY <1>1, <1>3, <1>4 DEF FreshInv

LEMMA FreshReadForced ==
    ASSUME FollowInv, FreshInv, ReadForcedPools
    PROVE  FreshInv'
<1>1. /\ Forced \in Actors /\ pc[Forced] = "idle" /\ UNCHANGED <<state, known, cache>>
      /\ UNCHANGED <<pc, stage, route, hop, amount, awaited, answer, sent>>
    BY DEF Actors, FollowInv, PerActor, ReadForcedPools, chainVars, cacheVars, cycleVars
<1>2. state \in [Pools -> Nat] /\ \A p \in Pools : state[p] <= state[p]
    BY DEF FreshInv, ChainTyped
<1>3. CASE UNCHANGED seen
    <2>1. ChainTyped'
        BY <1>1 DEF FreshInv, ChainTyped
    <2> QED  BY <1>1, <1>2, <1>3, <2>1, FreshFrame DEF evalVars
<1>4. CASE seen' = [seen EXCEPT ![Forced] = state]
    <2>1. pc' = [pc EXCEPT ![Forced] = "idle"]
        BY <1>1 DEF FollowInv, PerActor
    <2>2. seen'[Forced] = state /\ \A b \in Actors \ {Forced} : seen'[b] = seen[b]
        BY <1>1, <1>4 DEF FollowInv, PerActor
    <2> QED  BY <1>1, <1>2, <2>1, <2>2, FreshOwn
<1> QED  BY <1>3, <1>4 DEF ReadForcedPools

LEMMA FreshStep ==
    ASSUME Persistent, FollowInv, FreshInv, [Next]_vars
    PROVE  FreshInv'
<1>0. ASSUME UNCHANGED <<evalVars, cache, state, known>>  PROVE FreshInv'
    <2>1. ChainTyped' /\ \A p \in Pools : state[p] <= state'[p]
        BY <1>0 DEF FreshInv, ChainTyped
    <2> QED  BY <1>0, <2>1, FreshFrame
<1> USE DEF cacheVars, cycleVars, chainVars
<1>1. CASE UNCHANGED vars
    BY <1>0, <1>1 DEF vars
<1>2. ASSUME NEW p \in Volatile, Swap(p)  PROVE FreshInv'
    BY <1>2, FreshSwap
<1>3. CASE CycleStep
    BY <1>0, <1>3, FreshPrepare DEF CycleStep, SetQuoteBudget, StopFeeding, EndCycle
<1>4. CASE Cancel
    BY <1>0, <1>4 DEF Cancel
<1>5. CASE ForcedStep
    <2>1. ASSUME NEW r \in ForcedRoutes, ForcedTake(r)  PROVE FreshInv'
        <3>1. Forced \in Actors
            BY DEF Actors
        <3>2. seen[Forced] \in [Pools -> Nat] /\ \A p \in Pools : seen[Forced][p] <= state[p]
            BY <3>1 DEF FreshInv, SeenTyped
        <3> QED  BY <2>1, <3>1, <3>2, FreshBegin DEF ForcedTake
    <2>2. CASE ConsumeMarker \/ ForcedDecide \/ ForcedProcess
        BY <1>0, <2>2 DEF ConsumeMarker, ForcedDecide, ForcedProcess
    <2> QED  BY <1>5, <2>1, <2>2, FreshReadForced DEF ForcedStep
<1>6. CASE Crash
    BY <1>6, FreshCrash
<1>7. ASSUME NEW v, Expire(v)  PROVE FreshInv'
    BY <1>0, <1>7 DEF Expire
<1>8. ASSUME NEW a \in Actors, EvaluationStep(a)  PROVE FreshInv'
    BY <1>8, FreshAsk, FreshLand, FreshReceive DEF EvaluationStep
<1>9. ASSUME NEW w \in Workers, GiveUp(w)  PROVE FreshInv'
    BY <1>9, FreshAnswer DEF GiveUp, Actors
<1>10. ASSUME NEW w \in Workers, NEW r \in Routes, Take(w, r)  PROVE FreshInv'
    <2>1. known \in [Pools -> Nat] /\ \A p \in Pools : known[p] <= state[p]
        BY DEF FreshInv, ChainTyped
    <2> QED  BY <1>10, <2>1, FreshBegin DEF Take, Actors
<1> QED  BY <1>1, <1>2, <1>3, <1>4, <1>5, <1>6, <1>7, <1>8, <1>9, <1>10 DEF Next

\* While quotes are kept over cycles (QUOTE_CACHE_ENABLED, the default), every
\* quote that answers an evaluation, the forced trade's included, was sent when
\* the pool already had the state the asker read (quote, quoteKey,
\* PrepareQuoteCache).  What the provider then answers is not assumed.
THEOREM QuotesAreFresh == Persistent => (Spec => []QuoteSentAfterRead)
<1> SUFFICES ASSUME Persistent PROVE Spec => []QuoteSentAfterRead
    OBVIOUS
<1> DEFINE Inv == FollowInv /\ FreshInv
<1>1. Init => Inv
    BY FollowInit, FreshInit
<1>2. Inv /\ [Next]_vars => Inv'
    BY FollowStep, FreshStep
<1>3. Inv => QuoteSentAfterRead
    BY DEF FreshInv, SentFresh, QuoteSentAfterRead
<1> QED  BY <1>1, <1>2, <1>3, PTL DEF Spec
=============================================================================
