----------------------------- MODULE MarketSync -----------------------------
(***************************************************************************)
(* The market-state core of go/internal/market/engine.go: the background   *)
(* dirty-log scanner (advanceMarketStateSync), the decision cycle          *)
(* (CycleAtWithSearchOptions) and the resumable reconciliation it drives,  *)
(* sharing the pool cache, the pending dirty set and two watermarks.       *)
(*                                                                         *)
(* Two goroutines take steps: the synchronizer (Sync...) and the scheduler *)
(* goroutine that runs the decision cycle.  The chain is the environment.  *)
(* A pool's mutable state (sqrtPriceX96, liquidity) is one abstract value; *)
(* all pool reads are pinned to a block number, so what they return is a   *)
(* function of the chain's history and not of when the reply arrives.      *)
(*                                                                         *)
(* A definition X_variant just before X is a plausible defect of X, used   *)
(* to show that the properties would notice it; no action uses it.         *)
(***************************************************************************)
EXTENDS Integers, FiniteSets

CONSTANTS
    Pools,              \* pool addresses; one discovery unit finds one pool
    Values,             \* abstract pool states
    Genesis,            \* the value every pool starts with
    Routes,             \* candidate cycles, each the set of pools it crosses
    InitialMarket,      \* the configured universe: the pools it can discover
    Markets,            \* the universes QueueLiveMarket may stage
    HopSettings,        \* maxHops of the operator's risk profiles
    NoMarket,           \* "no market staged"
    Bursts,             \* sets of pools that can emit a log in one block
    ChunkSize,          \* blocks per eth_getLogs request
    MaxChunks,          \* SyncMaxChunksPerIteration
    BatchBlocks,        \* incrementalRefreshBatchBlocks
    FullReconcileEvery, \* dirty cycles between reconciliations
    BatchPairs,         \* ReconcileBatchPairs, units of a startup batch
    MaxBlock            \* bound: the last block the chain produces

ASSUME ValuesAssumption == Genesis \in Values
ASSUME RoutesAssumption == Routes \subseteq SUBSET Pools
ASSUME MarketsAssumption ==
    /\ InitialMarket \in SUBSET Pools /\ Markets \subseteq SUBSET Pools
    /\ NoMarket \notin Markets
ASSUME BurstsAssumption == Bursts \subseteq SUBSET Pools
ASSUME NumbersAssumption ==
    /\ ChunkSize \in Nat \ {0} /\ MaxChunks \in Nat \ {0} /\ BatchBlocks \in Nat
    /\ FullReconcileEvery \in Nat \ {0} /\ BatchPairs \in Nat \ {0}
    /\ MaxBlock \in Nat \ {0}
    /\ HopSettings \subseteq Nat \ {0}

VARIABLES
    head,         \* newest block, as the scheduler observed it
    hist,         \* hist[p][b]: state of pool p at the end of block b
    touched,      \* touched[p]: blocks in which p emitted a log
    (* shared, guarded by the cache mutex and syncMu *)
    cached,       \* addresses in the pool cache
    val,          \* cached state of each pool
    upd,          \* LastUpdatedBlock of each cache entry
    pending,      \* pendingDirty
    scan,         \* dirtyScanBlock
    lastState,    \* lastStateBlock
    (* synchronizer *)
    syncPc,       \* "idle" or "scan" (getLogs in flight)
    syncAddrs,    \* address list of the newest log query
    syncTo,       \* last block of the query in flight
    (* decision cycle *)
    pc,           \* "idle","startup","refresh","evaluate","background","commit"
    stateBlock,   \* block the cycle is pinned to
    synced,       \* pendingDirtySnapshot taken by the cycle
    dirty,        \* dirty set after the refresh
    unresolved,   \* refreshStats.UnresolvedDirty
    forceAll,     \* forceAllEvaluation of this cycle
    reportedTo,   \* history: the scan watermark when synced was taken
    routeCache, cyclesSinceFull, forceEvaluateNext, forceFull, lastHops,
    market, pendingMarket,
    (* reconciliation checkpoint *)
    recActive, recHops, recTodo, recFound, recVal, recRead, recFailed,
    (* history variables: no action's guard reads them *)
    readAt,       \* block at which the cached state was really read
    covered,      \* covered[p]: blocks whose logs were fetched with p listed
    watchFrom,    \* scan watermark when p entered the address list
    outrun        \* changes of p acknowledged by a refresh pinned before them

chainVars == <<head, hist, touched>>
cacheVars == <<cached, val, upd, readAt>>
syncVars == <<syncPc, syncAddrs, syncTo, covered, watchFrom>>
recVars == <<recActive, recHops, recTodo, recFound, recVal, recRead, recFailed>>
planVars == <<routeCache, cyclesSinceFull, forceEvaluateNext, forceFull, lastHops>>
marketVars == <<market, pendingMarket>>
cycleVars == <<stateBlock, synced, dirty, unresolved, forceAll, reportedTo>>
vars == <<chainVars, cacheVars, pending, scan, lastState, syncVars, pc,
          cycleVars, planVars, marketVars, recVars, outrun>>

Lower(a, b) == IF a < b THEN a ELSE b
Upper(a, b) == IF a > b THEN a ELSE b
Zero == [p \in Pools |-> 0]
Blank == [p \in Pools |-> Genesis]

Init ==
    /\ head = 0 /\ touched = [p \in Pools |-> {}]
    /\ hist = [p \in Pools |-> [b \in 0..MaxBlock |-> Genesis]]
    /\ cached = {} /\ val = Blank /\ upd = Zero
    /\ pending = {} /\ scan = 0 /\ lastState = 0
    /\ syncPc = "idle" /\ syncAddrs = {} /\ syncTo = 0
    /\ pc = "idle" /\ stateBlock = 0 /\ synced = {} /\ dirty = {}
    /\ unresolved = {} /\ forceAll = FALSE /\ reportedTo = 0
    /\ routeCache = {} /\ cyclesSinceFull = 0 /\ lastHops = 0
    /\ forceEvaluateNext = FALSE /\ forceFull = FALSE
    /\ market = InitialMarket /\ pendingMarket = NoMarket
    /\ recActive = FALSE /\ recHops = 0 /\ recTodo = {} /\ recFound = {}
    /\ recVal = Blank /\ recRead = Zero /\ recFailed = {}
    /\ readAt = Zero /\ covered = [p \in Pools |-> {}]
    /\ watchFrom = Zero /\ outrun = [p \in Pools |-> {}]

-----------------------------------------------------------------------------
(* The chain and the universe manager: the engine's environment.           *)

\* A block is mined in which the pools of S emit a log and move to v[p]
\* (possibly the state they had: an out-of-range mint changes neither the
\* price nor the active liquidity).
NewBlock(S, v) ==
    /\ head < MaxBlock
    /\ head' = head + 1
    /\ touched' = [p \in Pools |-> IF p \in S THEN touched[p] \cup {head + 1} ELSE touched[p]]
    /\ hist' = [p \in Pools |-> [hist[p] EXCEPT ![head + 1] =
                                    IF p \in S THEN v ELSE hist[p][head]]]
    /\ UNCHANGED <<cacheVars, pending, scan, lastState, syncVars, pc, cycleVars,
                   planVars, marketVars, recVars, outrun>>

\* A block after the last one of the model: pools of S emit logs in it but keep
\* their state, and the synchronizer has fetched it.  So pools become dirty
\* again and again, as they do on a chain without end.
LaterBlock(S) ==
    /\ head = MaxBlock /\ scan = MaxBlock
    /\ pending' = pending \cup (S \cap syncAddrs)
    /\ UNCHANGED <<chainVars, cacheVars, scan, lastState, syncVars, pc, cycleVars,
                   planVars, marketVars, recVars, outrun>>

\* QueueLiveMarket stages a universe; the next cycle applies it.
QueueLiveMarket(m) ==
    /\ pendingMarket' = m
    /\ UNCHANGED <<chainVars, cacheVars, pending, scan, lastState, syncVars, pc,
                   cycleVars, planVars, market, recVars, outrun>>

-----------------------------------------------------------------------------
(* The synchronizer: one tick is SyncBegin and, if there is a range to     *)
(* scan, SyncEnd.                                                          *)

\* The watermark a tick starts from: the first tick takes the state
\* watermark, or the head when no cycle has set one.
ScanStart ==
    IF scan # 0 THEN scan ELSE IF lastState > 0 THEN lastState ELSE head

\* A tick scans at most MaxChunks chunks and never past the head.
ScanEnd_unclamped == ScanStart + MaxChunks * ChunkSize
ScanEnd == Lower(head, ScanStart + MaxChunks * ChunkSize)

SyncBegin ==
    /\ syncPc = "idle" /\ head > 0 /\ cached # {}
    /\ scan' = ScanStart
    /\ IF ScanStart < head
       THEN /\ syncPc' = "scan"
            /\ syncTo' = ScanEnd
            /\ syncAddrs' = cached
            /\ watchFrom' = [p \in Pools |-> IF p \in cached \ syncAddrs
                                             THEN ScanStart ELSE watchFrom[p]]
       ELSE UNCHANGED <<syncPc, syncTo, syncAddrs, watchFrom>>
    /\ UNCHANGED <<chainVars, cacheVars, pending, lastState, covered, pc,
                   cycleVars, planVars, marketVars, recVars, outrun>>

\* Chunks are fetched in order and the first failure ends the query, so k
\* successful chunks are the first k of the range.
Checkpoint_wholeRange(k) == syncTo
Checkpoint_offByOne(k) == Lower(syncTo, scan + k * ChunkSize) - 1
Checkpoint(k) == Lower(syncTo, scan + k * ChunkSize)

\* Addresses with a log in the chunks that were fetched.
ChangedPoolAddresses(k) ==
    {p \in syncAddrs : touched[p] \cap ((scan + 1)..Checkpoint(k)) # {}}

\* k chunks of the query succeeded: merge the dirty addresses and move the
\* checkpoint, under syncMu.
SyncEnd(k) ==
    /\ syncPc = "scan"
    /\ scan + (k - 1) * ChunkSize < syncTo
    /\ pending' = pending \cup ChangedPoolAddresses(k)
    /\ scan' = Upper(scan, Checkpoint(k))
    /\ covered' = [p \in Pools |->
                     IF p \in syncAddrs
                     THEN covered[p] \cup ((scan + 1)..Lower(syncTo, scan + k * ChunkSize))
                     ELSE covered[p]]
    /\ syncPc' = "idle" /\ syncTo' = 0
    /\ UNCHANGED <<chainVars, cacheVars, lastState, syncAddrs, watchFrom, pc,
                   cycleVars, planVars, marketVars, recVars, outrun>>

-----------------------------------------------------------------------------
(* Reconciliation.                                                         *)

\* startReconciliation: one unit per pool of the universe.
StartReconciliation(h, m) ==
    /\ recActive' = TRUE /\ recHops' = h /\ recTodo' = m
    /\ recFound' = {} /\ recVal' = Blank /\ recRead' = Zero /\ recFailed' = {}

\* The cache entry installed for a discovered pool: the cached one when its
\* LastUpdatedBlock is newer than the discovery read.
KeepsCached(p, read) == p \in cached /\ upd[p] > read[p]

\* The atomic commit at the end of a reconciliation: the cache becomes
\* exactly the discovered pools.
CommitReconciliation(found, v, read, failed) ==
    /\ cached' = found
    /\ val' = [p \in Pools |-> IF p \notin found THEN Genesis
                               ELSE IF KeepsCached(p, read) THEN val[p] ELSE v[p]]
    /\ upd' = [p \in Pools |-> IF p \notin found THEN 0
                               ELSE IF KeepsCached(p, read) THEN upd[p] ELSE read[p]]
    /\ readAt' = [p \in Pools |-> IF p \notin found THEN 0
                                  ELSE IF KeepsCached(p, read) THEN readAt[p] ELSE read[p]]
    /\ routeCache' = {r \in Routes : r \subseteq found /\ Cardinality(r) <= recHops}
    /\ cyclesSinceFull' = 0 /\ lastHops' = recHops
    /\ forceFull' = FALSE /\ forceEvaluateNext' = TRUE
    /\ recActive' = FALSE /\ recHops' = 0 /\ recTodo' = {} /\ recFound' = {}
    /\ recVal' = Blank /\ recRead' = Zero /\ recFailed' = failed

\* The state and block a discovery pinned to stateBlock records.
Discovered(ok) ==
    [p \in Pools |-> IF p \in ok THEN hist[p][stateBlock] ELSE recVal[p]]
DiscoveredAt(ok) ==
    [p \in Pools |-> IF p \in ok THEN stateBlock ELSE recRead[p]]

\* advanceReconciliationBatchWithin: ok are the units discovered, bad the
\* ones that failed (skipped until the next reconciliation); the batch
\* timeout may end it before n units.
ReconcileBatch(n) ==
    \E ok \in SUBSET recTodo : \E bad \in SUBSET (recTodo \ ok) :
        /\ Cardinality(ok \cup bad) <= n
        /\ IF recTodo = ok \cup bad
           THEN CommitReconciliation(recFound \cup ok, Discovered(ok), DiscoveredAt(ok),
                                     recFailed \cup bad)
           ELSE /\ recTodo' = recTodo \ (ok \cup bad)
                /\ recFound' = recFound \cup ok
                /\ recVal' = Discovered(ok) /\ recRead' = DiscoveredAt(ok)
                /\ recFailed' = recFailed \cup bad
                /\ UNCHANGED <<cacheVars, planVars, recActive, recHops>>

-----------------------------------------------------------------------------
(* The decision cycle.                                                     *)

\* applyPendingMarket reports a change only for a universe that differs.
MarketChanged == pendingMarket # NoMarket /\ pendingMarket # market

NeedsReconcile(h) ==
    \/ routeCache = {} \/ cyclesSinceFull >= FullReconcileEvery
    \/ h # lastHops \/ MarketChanged \/ forceFull

\* A reconciliation in progress is restarted only when its parameters changed.
RestartDue_always(h) == NeedsReconcile(h)
RestartDue(h) == NeedsReconcile(h) /\ (~recActive \/ recHops # h \/ MarketChanged)

\* Common prefix of every cycle: apply the staged market and (re)start the
\* reconciliation when one is due.
BeginCycle(h) ==
    /\ pc = "idle" /\ head > 0
    \* The scheduler triggers once per head.  A further trigger at MaxBlock
    \* stands for the later heads, whose logs LaterBlock reports.
    /\ head > stateBlock \/ head = MaxBlock
    /\ stateBlock' = head
    /\ market' = IF MarketChanged THEN pendingMarket ELSE market
    /\ pendingMarket' = NoMarket
    /\ forceFull' = (forceFull \/ MarketChanged)
    /\ IF RestartDue(h)
       THEN StartReconciliation(h, market')
       ELSE UNCHANGED recVars
    /\ UNCHANGED <<chainVars, cacheVars, pending, scan, lastState, syncVars, outrun,
                   routeCache, cyclesSinceFull, lastHops>>

ShouldDeferIncrementalRefresh(last, sb) ==
    BatchBlocks >= 2 /\ last # 0 /\ sb > last /\ sb - last < BatchBlocks

Deferred == pending = {} /\ ShouldDeferIncrementalRefresh(lastState, head)

\* No routes yet: the cycle will only run a startup batch.
CycleStartup(h) ==
    /\ routeCache = {}
    /\ BeginCycle(h)
    /\ pc' = "startup"
    /\ UNCHANGED <<synced, dirty, unresolved, forceAll, reportedTo, forceEvaluateNext>>

\* Nothing pending and the watermark is recent: the cycle returns at once.
CycleDeferred(h) ==
    /\ routeCache # {} /\ Deferred
    /\ BeginCycle(h)
    /\ pc' = "idle"
    /\ UNCHANGED <<synced, dirty, unresolved, forceAll, reportedTo, forceEvaluateNext>>

\* Otherwise the pending set is snapshotted for the refresh.
CycleRefresh(h) ==
    /\ routeCache # {} /\ ~Deferred
    /\ BeginCycle(h)
    /\ pc' = "refresh" /\ synced' = pending /\ reportedTo' = scan
    /\ forceAll' = forceEvaluateNext /\ forceEvaluateNext' = FALSE
    /\ UNCHANGED <<dirty, unresolved>>

\* The startup batch, after which the watermark is set whatever the batch did.
StartupBatch ==
    /\ pc = "startup"
    /\ ReconcileBatch(BatchPairs)
    /\ lastState' = Upper(lastState, stateBlock)
    /\ pc' = "idle"
    /\ UNCHANGED <<chainVars, pending, scan, syncVars, cycleVars, marketVars, outrun>>

\* refreshKnownDirty re-reads the snapshotted pools still in the cache.
Attempted == synced \cap cached

Unchanged(p) == hist[p][stateBlock] = val[p]

\* The LastUpdatedBlock of a re-read pool: an unchanged one keeps its own.
RefreshedBlock_kept(p) == upd[p]
RefreshedBlock(p) == IF Unchanged(p) THEN upd[p] ELSE stateBlock

\* PoolCache.Put refuses an entry older than the one it holds.
Accepted(done) == {p \in done : RefreshedBlock(p) >= upd[p]}

\* The cache after the pools of done were re-read.
RefreshPools(done) ==
    /\ val' = [p \in Pools |-> IF p \in Accepted(done) THEN hist[p][stateBlock] ELSE val[p]]
    /\ upd' = [p \in Pools |-> IF p \in Accepted(done) THEN RefreshedBlock(p) ELSE upd[p]]
    /\ readAt' = [p \in Pools |-> IF p \in Accepted(done) THEN stateBlock ELSE readAt[p]]
    /\ UNCHANGED cached

\* ackPendingDirty: drop the resolved keys, keep the unresolved ones.
AckPendingDirty_all(resolved, failed) == pending \ (resolved \cup failed)
AckPendingDirty_none(resolved, failed) == pending
AckPendingDirty(resolved, failed) == pending \ (resolved \ failed)

\* The refresh ends with the pools of failed unread; the rest is put in the
\* cache and acknowledged.
RefreshDone(failed) ==
    /\ pc = "refresh"
    /\ RefreshPools(Attempted \ failed)
    /\ pending' = AckPendingDirty(Attempted \ failed, failed)
    /\ outrun' = [p \in Pools |->
                    IF p \in Attempted \ failed
                    THEN outrun[p] \cup {b \in touched[p] \cap covered[p] : b > stateBlock}
                    ELSE outrun[p]]
    /\ unresolved' = failed
    /\ dirty' = synced \ {p \in Attempted \ failed : Unchanged(p)}
    /\ cyclesSinceFull' = IF dirty' # {} THEN Lower(cyclesSinceFull + 1, FullReconcileEvery)
                          ELSE cyclesSinceFull
    /\ pc' = "evaluate" /\ synced' = {}
    /\ UNCHANGED <<chainVars, scan, lastState, syncVars, stateBlock, forceAll, reportedTo,
                   routeCache, forceEvaluateNext, forceFull, lastHops, marketVars, recVars>>

\* The context of the cycle ends: its 45 or 60 seconds are over or, unless a
\* reconciliation is due, newer heads have superseded it, which they never
\* stop doing.
CycleCancelled == pc' = "idle" /\ forceAll' = FALSE

\* It ends while pools are being refreshed: those of done are already in the
\* cache, nothing is acknowledged.
RefreshCancelled(done) ==
    /\ pc = "refresh"
    /\ RefreshPools(done)
    /\ CycleCancelled /\ synced' = {}
    /\ UNCHANGED <<chainVars, pending, scan, lastState, syncVars, stateBlock, dirty,
                   unresolved, reportedTo, planVars, marketVars, recVars, outrun>>

\* Routes whose pools are all cached, that the dirty set touches (all of
\* them after a reconciliation), and that have no unresolved pool.
AffectedRoutes ==
    {r \in routeCache : r \subseteq cached /\ (forceAll \/ r \cap dirty # {})}
RoutesWithoutPools_all(rs, excluded) == rs
RoutesWithoutPools(rs, excluded) == {r \in rs : r \cap excluded = {}}
Evaluated == RoutesWithoutPools(AffectedRoutes, unresolved)

\* The evaluation of these routes is RouteEvaluation and QuoteEngine; here it
\* runs to its end or is cancelled.
Evaluate ==
    /\ pc = "evaluate"
    /\ \/ /\ pc' = IF dirty = {} /\ recActive THEN "background" ELSE "commit"
          /\ forceAll' = FALSE
          /\ UNCHANGED <<dirty, unresolved>>
       \/ CycleCancelled /\ dirty' = {} /\ unresolved' = {}
    /\ UNCHANGED <<chainVars, cacheVars, pending, scan, lastState, syncVars, stateBlock,
                   synced, reportedTo, planVars, marketVars, recVars, outrun>>

\* An idle cycle advances the reconciliation by at most one unit.
BackgroundBatch ==
    /\ pc = "background"
    /\ ReconcileBatch(1)
    /\ pc' = "commit"
    /\ UNCHANGED <<chainVars, pending, scan, lastState, syncVars, cycleVars, marketVars, outrun>>

\* The state watermark advances to the pinned block, held back to the scan
\* watermark, unless a pool stayed unresolved.
CommitCycle ==
    /\ pc = "commit"
    /\ lastState' = IF unresolved # {} THEN lastState
                    ELSE Upper(lastState, IF scan > 0 THEN Lower(scan, stateBlock) ELSE stateBlock)
    /\ pc' = "idle" /\ dirty' = {} /\ unresolved' = {}
    /\ UNCHANGED <<chainVars, cacheVars, pending, scan, syncVars, stateBlock, synced,
                   forceAll, reportedTo, planVars, marketVars, recVars, outrun>>

-----------------------------------------------------------------------------
Sync == SyncBegin \/ \E k \in 0..MaxChunks : SyncEnd(k)

Cycle ==
    \/ \E h \in HopSettings : CycleStartup(h) \/ CycleDeferred(h) \/ CycleRefresh(h)
    \/ StartupBatch \/ BackgroundBatch \/ Evaluate \/ CommitCycle
    \/ \E failed \in SUBSET Attempted : RefreshDone(failed)
    \/ \E done \in SUBSET Attempted : RefreshCancelled(done)

MineBlock == \E S \in Bursts, v \in Values : NewBlock(S, v)

Environment ==
    \/ MineBlock
    \/ \E S \in Bursts : LaterBlock(S)
    \/ \E m \in Markets : QueueLiveMarket(m)

Next == Sync \/ Cycle \/ Environment

Spec == Init /\ [][Next]_vars

\* Fairness: the synchronizer ticks once a second for as long as the process
\* runs, the scheduler goroutine finishes every cycle it starts, and the
\* chain keeps producing blocks.
Fairness == WF_vars(Sync) /\ WF_vars(Cycle) /\ WF_vars(MineBlock)
FairSpec == Spec /\ Fairness

-----------------------------------------------------------------------------
(* Properties.                                                             *)

BlockMap == [Pools -> 0..MaxBlock]

\* Every variable holds a value of the Go type it models.
TypeOK ==
    /\ head \in 0..MaxBlock /\ hist \in [Pools -> [0..MaxBlock -> Values]]
    /\ touched \in [Pools -> SUBSET (1..MaxBlock)]
    /\ cached \subseteq Pools /\ val \in [Pools -> Values] /\ upd \in BlockMap
    /\ pending \subseteq Pools /\ scan \in 0..MaxBlock /\ lastState \in 0..MaxBlock
    /\ syncPc \in {"idle", "scan"} /\ syncAddrs \subseteq Pools /\ syncTo \in 0..MaxBlock
    /\ pc \in {"idle", "startup", "refresh", "evaluate", "background", "commit"}
    /\ stateBlock \in 0..MaxBlock /\ synced \subseteq Pools /\ dirty \subseteq Pools
    /\ unresolved \subseteq Pools /\ forceAll \in BOOLEAN /\ reportedTo \in 0..MaxBlock
    /\ routeCache \subseteq Routes /\ cyclesSinceFull \in 0..FullReconcileEvery
    /\ forceEvaluateNext \in BOOLEAN /\ forceFull \in BOOLEAN
    /\ lastHops \in HopSettings \cup {0}
    /\ market \in Markets \cup {InitialMarket} /\ pendingMarket \in Markets \cup {NoMarket}
    /\ recActive \in BOOLEAN /\ recHops \in HopSettings \cup {0}
    /\ recTodo \subseteq Pools /\ recFound \subseteq Pools /\ recFailed \subseteq Pools
    /\ recVal \in [Pools -> Values] /\ recRead \in BlockMap
    /\ readAt \in BlockMap /\ watchFrom \in BlockMap
    /\ covered \in [Pools -> SUBSET (1..MaxBlock)]
    /\ outrun \in [Pools -> SUBSET (1..MaxBlock)]

\* LastUpdatedBlock tells the truth: at the block a cache entry is labelled
\* with, the pool had the cached state.  Candidates inherit the label as
\* SourceBlock and the execution pipeline judges staleness by it.
LabelSound ==
    \A p \in cached : upd[p] <= head /\ val[p] = hist[p][upd[p]]

\* Pool p left a state and came back to it (liquidity minted and burned).
Reverted(p) ==
    \E i, j, k \in 0..head :
        /\ i < j /\ j < k
        /\ hist[p][i] = hist[p][k] /\ hist[p][j] # hist[p][k]

\* A change whose log the synchronizer fetched for a cached pool is pending,
\* or is in the cache, or was acknowledged by a refresh pinned before it:
\* acknowledgement, retry, cancellation and the reconciliation commit lose
\* no other change.  A pool that returns to an earlier state is exempt,
\* because the commit compares LastUpdatedBlock, which an unchanged re-read
\* does not advance.
NoSilentLoss ==
    \A p \in cached : ~Reverted(p) =>
        \A b \in touched[p] \cap covered[p] :
            \/ p \in pending
            \/ b <= readAt[p]
            \/ hist[p][b] = val[p]
            \/ b \in outrun[p]

\* No block is skipped: from the moment a pool is in the address list, the
\* logs of every block up to the scan watermark have been fetched for it,
\* whatever chunks failed in between.
NoBlockSkipped ==
    \A p \in syncAddrs : (watchFrom[p] + 1)..scan \subseteq covered[p]

\* A cycle evaluates a route only from pool states that hold every change the
\* synchronizer had reported when the cycle took its snapshot, with the two
\* exceptions of NoSilentLoss: whatever failed to refresh in this cycle, was
\* cancelled or acknowledged in earlier ones or was replaced by a commit, a
\* price that was known to have moved is not used.
EvaluatedUpToDate ==
    pc = "evaluate" =>
        \A r \in Evaluated : \A p \in r : ~Reverted(p) =>
            \A b \in touched[p] \cap covered[p] \cap 1..reportedTo :
                b <= readAt[p] \/ hist[p][b] = val[p] \/ b \in outrun[p]

\* A step in which an RPC failed or timed out: a getLogs query without one
\* good chunk, a pool left unresolved, a discovery unit failed or not tried.
RpcFailure ==
    \/ syncPc = "scan" /\ syncPc' = "idle" /\ \E p \in syncAddrs : scan + 1 \notin covered'[p]
    \/ unresolved' \ unresolved # {}
    \/ recFailed' \ recFailed # {}
    \/ pc \in {"startup", "background"} /\ pc' # pc /\ recActive' /\ recTodo' = recTodo

\* The RPC providers fail only finitely often.
RpcRecovers == <>[][~RpcFailure]_vars

\* The synchronizer reaches every block, however many follow it.
ScanCatchesUp ==
    RpcRecovers => \A b \in 1..MaxBlock :
        (cached # {} /\ head >= b) ~> (scan >= b \/ cached = {})

\* Not every refresh from some time on is cancelled.
RefreshesComplete == []<>(pc = "refresh") => []<>(pc = "evaluate")

\* A pending pool that stays in the cache is re-read and acknowledged, although
\* other pools and itself become dirty again without end, as long as the time
\* limit and the heads that follow let a refresh complete now and then.
PendingDrains ==
    RpcRecovers /\ RefreshesComplete =>
        \A p \in Pools : (p \in pending) ~> (p \notin pending \/ p \notin cached)

\* Again and again a cycle that found nothing dirty comes to its end, or there
\* are no routes yet.  A live market owes the engine no such cycle, and a
\* pending pool that left the cache, which no refresh acknowledges, makes every
\* cycle dirty.
QuietCyclesRecur == []<>(routeCache = {} \/ (pc = "commit" /\ dirty = {}))

\* A reconciliation in progress ends if quiet cycles recur, each of which may
\* take it one unit further: it is not begun anew in between.
ReconciliationEnds == RpcRecovers /\ QuietCyclesRecur => (recActive ~> ~recActive)
=============================================================================
