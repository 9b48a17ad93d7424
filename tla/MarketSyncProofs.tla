-------------------------- MODULE MarketSyncProofs --------------------------
(***************************************************************************)
(* Proofs about MarketSync, for every set of pools, every chunk size and   *)
(* every length of the chain.  The inductive invariant IndInv strengthens  *)
(* the checked invariants by what ties the cache, the reconciliation       *)
(* checkpoint and the pending set to the block a cycle is pinned to.       *)
(***************************************************************************)
EXTENDS MarketSync, TLAPS

\* The watermarks and the pinned block trail the head, and no history
\* variable mentions a block that does not exist yet.
BlocksBounded ==
    /\ stateBlock <= head /\ scan <= head /\ lastState <= head
    /\ syncPc = "scan" => scan <= syncTo /\ syncTo <= head
    /\ \A p \in Pools : covered[p] \subseteq 1..head

\* Every entry of the reconciliation checkpoint is what the pool held at
\* the block it was read.
CheckpointSound ==
    \A p \in recFound : recRead[p] <= stateBlock /\ recVal[p] = hist[p][recRead[p]]

\* Every cache entry is what the pool held both at its label and at the
\* block it was last read.
CacheSound ==
    \A p \in cached :
        /\ upd[p] <= readAt[p] /\ readAt[p] <= stateBlock
        /\ val[p] = hist[p][upd[p]] /\ val[p] = hist[p][readAt[p]]

\* A fetched change beyond the pinned block is pending or was outrun.
FetchedBounded ==
    \A p \in Pools : \A b \in touched[p] \cap covered[p] :
        p \in pending \/ b \in outrun[p] \/ b <= stateBlock

\* A pool that is about to join the cache was read after every fetched
\* change that is neither pending nor outrun.
CheckpointCurrent ==
    \A p \in recFound \ cached : \A b \in touched[p] \cap covered[p] :
        p \in pending \/ b \in outrun[p] \/ b <= recRead[p]

\* Before the first scan nobody is in the address list.
FirstScan == scan = 0 => syncAddrs = {}

IndInv ==
    /\ BlocksBounded /\ CheckpointSound /\ CacheSound
    /\ FetchedBounded /\ CheckpointCurrent /\ NoSilentLoss
    /\ FirstScan /\ NoBlockSkipped

-----------------------------------------------------------------------------
(* Type correctness.                                                       *)

LEMMA LowerUpper ==
    ASSUME NEW a \in Int, NEW b \in Int
    PROVE  /\ Lower(a, b) \in {a, b} /\ Lower(a, b) <= a /\ Lower(a, b) <= b
           /\ Upper(a, b) \in {a, b} /\ Upper(a, b) >= a /\ Upper(a, b) >= b
  BY DEF Lower, Upper

LEMMA ChunkProduct ==
    ASSUME NEW k \in Nat
    PROVE  k * ChunkSize \in Nat
  BY NumbersAssumption

\* A block between the pinned one and the head is a block.
LEMMA CheckpointType ==
    ASSUME TypeOK, BlocksBounded, syncPc = "scan", NEW k \in 0..MaxChunks
    PROVE  /\ Checkpoint(k) \in scan..syncTo
           /\ Lower(syncTo, scan + k * ChunkSize) = Checkpoint(k)
           /\ scan \in 0..MaxBlock /\ syncTo \in 0..MaxBlock
  <1>1. k \in Nat /\ k * ChunkSize \in Nat
    BY ChunkProduct, NumbersAssumption
  <1>2. scan \in Nat /\ syncTo \in Nat /\ scan <= syncTo
    BY NumbersAssumption DEF TypeOK, BlocksBounded
  <1>. QED
    BY <1>1, <1>2, NumbersAssumption DEF Checkpoint, Lower, TypeOK

LEMMA InitType == Init => TypeOK
  <1> SUFFICES ASSUME Init PROVE TypeOK
    OBVIOUS
  <1>1. 0 \in 0..MaxBlock /\ 0 \in 0..FullReconcileEvery
    BY NumbersAssumption
  <1>2. Zero \in BlockMap /\ Blank \in [Pools -> Values]
    BY <1>1, ValuesAssumption DEF Zero, Blank, BlockMap
  <1>3. hist \in [Pools -> [0..MaxBlock -> Values]]
    BY ValuesAssumption DEF Init
  <1>4. /\ touched \in [Pools -> SUBSET (1..MaxBlock)]
        /\ covered \in [Pools -> SUBSET (1..MaxBlock)]
        /\ outrun \in [Pools -> SUBSET (1..MaxBlock)]
    BY DEF Init
  <1>. QED
    BY <1>1, <1>2, <1>3, <1>4 DEF Init, TypeOK

LEMMA NewBlockType ==
    ASSUME TypeOK, NEW S \in Bursts, NEW v \in Values, NewBlock(S, v)
    PROVE  TypeOK'
  <1>1. head' \in 0..MaxBlock /\ head + 1 \in 1..MaxBlock
    BY NumbersAssumption DEF TypeOK, NewBlock
  <1>2. touched' \in [Pools -> SUBSET (1..MaxBlock)]
    BY <1>1 DEF TypeOK, NewBlock
  <1>3. hist' \in [Pools -> [0..MaxBlock -> Values]]
    BY <1>1 DEF TypeOK, NewBlock
  <1>. QED
    BY <1>1, <1>2, <1>3
    DEF TypeOK, NewBlock, BlockMap, cacheVars, syncVars, cycleVars, planVars, marketVars, recVars

LEMMA QueueType ==
    ASSUME TypeOK, NEW m \in Markets, QueueLiveMarket(m)
    PROVE  TypeOK'
  BY DEF TypeOK, QueueLiveMarket, BlockMap, chainVars, cacheVars, syncVars, cycleVars,
         planVars, recVars

LEMMA LaterBlockType ==
    ASSUME TypeOK, NEW S \in Bursts, LaterBlock(S)
    PROVE  TypeOK'
  BY DEF TypeOK, LaterBlock, BlockMap, chainVars, cacheVars, syncVars, cycleVars,
         planVars, marketVars, recVars

LEMMA ScanStartType ==
    ASSUME TypeOK, BlocksBounded, head > 0
    PROVE  ScanStart \in 1..head /\ head \in 0..MaxBlock /\ ScanStart \in 0..MaxBlock
  BY NumbersAssumption DEF TypeOK, BlocksBounded, ScanStart

LEMMA SyncBeginType ==
    ASSUME TypeOK, BlocksBounded, SyncBegin
    PROVE  TypeOK'
  <1>1. ScanStart \in 1..head /\ head \in 0..MaxBlock /\ ScanStart \in 0..MaxBlock
    BY ScanStartType DEF SyncBegin
  <1>2. MaxChunks * ChunkSize \in Nat
    BY ChunkProduct, NumbersAssumption
  <1>3. ScanEnd \in 0..MaxBlock
    BY <1>1, <1>2, NumbersAssumption DEF ScanEnd, Lower
  <1>4. syncTo' \in 0..MaxBlock /\ syncPc' \in {"idle", "scan"} /\ syncAddrs' \subseteq Pools
    BY <1>3 DEF SyncBegin, TypeOK
  <1>5. watchFrom' \in BlockMap
    BY <1>1 DEF SyncBegin, TypeOK, BlockMap
  <1>6. scan' \in 0..MaxBlock
    BY <1>1 DEF SyncBegin
  <1>7. UNCHANGED <<chainVars, cacheVars, pending, lastState, covered, pc,
                    cycleVars, planVars, marketVars, recVars, outrun>>
    BY DEF SyncBegin
  <1>. QED
    BY <1>4, <1>5, <1>6, <1>7
    DEF TypeOK, BlockMap, chainVars, cacheVars, cycleVars, planVars, marketVars, recVars

LEMMA SyncEndType ==
    ASSUME TypeOK, BlocksBounded, NEW k \in 0..MaxChunks, SyncEnd(k)
    PROVE  TypeOK'
  <1>1. /\ Checkpoint(k) \in scan..syncTo
        /\ Lower(syncTo, scan + k * ChunkSize) = Checkpoint(k)
        /\ scan \in 0..MaxBlock /\ syncTo \in 0..MaxBlock
    BY CheckpointType DEF SyncEnd
  <1>2. scan' \in 0..MaxBlock
    BY <1>1, NumbersAssumption DEF SyncEnd, Upper
  <1>3. ((scan + 1)..Checkpoint(k)) \subseteq 1..MaxBlock
    BY <1>1, NumbersAssumption
  <1>4. covered' \in [Pools -> SUBSET (1..MaxBlock)]
    BY <1>1, <1>3 DEF SyncEnd, TypeOK
  <1>5. pending' \subseteq Pools
    BY DEF SyncEnd, TypeOK, ChangedPoolAddresses
  <1>. QED
    BY <1>2, <1>4, <1>5, NumbersAssumption
    DEF TypeOK, SyncEnd, BlockMap, chainVars, cacheVars, cycleVars, planVars, marketVars, recVars

LEMMA BatchType ==
    ASSUME TypeOK, NEW n, ReconcileBatch(n)
    PROVE  /\ cached' \subseteq Pools /\ val' \in [Pools -> Values]
           /\ upd' \in BlockMap /\ readAt' \in BlockMap
           /\ routeCache' \subseteq Routes /\ cyclesSinceFull' \in 0..FullReconcileEvery
           /\ forceEvaluateNext' \in BOOLEAN /\ forceFull' \in BOOLEAN
           /\ lastHops' \in HopSettings \cup {0}
           /\ recActive' \in BOOLEAN /\ recHops' \in HopSettings \cup {0}
           /\ recTodo' \subseteq Pools /\ recFound' \subseteq Pools /\ recFailed' \subseteq Pools
           /\ recVal' \in [Pools -> Values] /\ recRead' \in BlockMap
  <1>1. PICK ok \in SUBSET recTodo : \E bad \in SUBSET (recTodo \ ok) :
          /\ Cardinality(ok \cup bad) <= n
          /\ IF recTodo = ok \cup bad
             THEN CommitReconciliation(recFound \cup ok, Discovered(ok), DiscoveredAt(ok),
                                       recFailed \cup bad)
             ELSE /\ recTodo' = recTodo \ (ok \cup bad)
                  /\ recFound' = recFound \cup ok
                  /\ recVal' = Discovered(ok) /\ recRead' = DiscoveredAt(ok)
                  /\ recFailed' = recFailed \cup bad
                  /\ UNCHANGED <<cacheVars, planVars, recActive, recHops>>
    BY DEF ReconcileBatch
  <1>2. PICK bad \in SUBSET (recTodo \ ok) :
          IF recTodo = ok \cup bad
          THEN CommitReconciliation(recFound \cup ok, Discovered(ok), DiscoveredAt(ok),
                                    recFailed \cup bad)
          ELSE /\ recTodo' = recTodo \ (ok \cup bad)
               /\ recFound' = recFound \cup ok
               /\ recVal' = Discovered(ok) /\ recRead' = DiscoveredAt(ok)
               /\ recFailed' = recFailed \cup bad
               /\ UNCHANGED <<cacheVars, planVars, recActive, recHops>>
    BY <1>1
  <1>3. Discovered(ok) \in [Pools -> Values] /\ DiscoveredAt(ok) \in BlockMap
    <2>1. /\ hist \in [Pools -> [0..MaxBlock -> Values]] /\ stateBlock \in 0..MaxBlock
          /\ recVal \in [Pools -> Values] /\ recRead \in [Pools -> 0..MaxBlock]
      BY DEF TypeOK, BlockMap
    <2>2. \A p \in Pools : hist[p][stateBlock] \in Values
      BY <2>1
    <2>. QED
      BY <2>1, <2>2 DEF Discovered, DiscoveredAt, BlockMap
  <1>4. recFound \cup ok \subseteq Pools /\ recFailed \cup bad \subseteq Pools
    BY DEF TypeOK
  <1>5. CASE recTodo = ok \cup bad
    <2> DEFINE found == recFound \cup ok
               v == Discovered(ok)
               read == DiscoveredAt(ok)
    <2>1. CommitReconciliation(found, v, read, recFailed \cup bad)
      BY <1>2, <1>5
    <2>2. v \in [Pools -> Values] /\ read \in BlockMap /\ found \subseteq Pools
      BY <1>3, <1>4
    <2> HIDE DEF found, v, read
    <2>3. 0 \in 0..MaxBlock /\ 0 \in 0..FullReconcileEvery
      BY NumbersAssumption
    <2>4. val' \in [Pools -> Values]
      BY <2>1, <2>2, ValuesAssumption DEF CommitReconciliation, TypeOK
    <2>5. upd' \in BlockMap /\ readAt' \in BlockMap
      BY <2>1, <2>2, <2>3 DEF CommitReconciliation, TypeOK, BlockMap
    <2>6. recVal' \in [Pools -> Values] /\ recRead' \in BlockMap
      BY <2>1, <2>3, ValuesAssumption DEF CommitReconciliation, BlockMap, Zero, Blank
    <2>. QED
      BY <2>1, <2>2, <2>3, <2>4, <2>5, <2>6, <1>4 DEF CommitReconciliation, TypeOK
  <1>6. CASE recTodo # ok \cup bad
    BY <1>2, <1>3, <1>4, <1>6 DEF TypeOK, cacheVars, planVars
  <1>. QED
    BY <1>5, <1>6

LEMMA StartupBatchType ==
    ASSUME TypeOK, StartupBatch
    PROVE  TypeOK'
  <1>1. ReconcileBatch(BatchPairs) /\ lastState' = Upper(lastState, stateBlock) /\ pc' = "idle"
        /\ UNCHANGED <<chainVars, pending, scan, syncVars, cycleVars, marketVars, outrun>>
    BY DEF StartupBatch
  <1>2. lastState' \in 0..MaxBlock
    BY <1>1 DEF TypeOK, Upper
  <1>3. UNCHANGED <<chainVars, pending, scan, syncVars, cycleVars, marketVars, outrun>> /\ pc' = "idle"
    BY <1>1
  <1>. QED
    BY <1>1, <1>2, <1>3, BatchType
    DEF TypeOK, BlockMap, chainVars, syncVars, cycleVars, marketVars

LEMMA BackgroundBatchType ==
    ASSUME TypeOK, BackgroundBatch
    PROVE  TypeOK'
  BY BatchType DEF BackgroundBatch, TypeOK, BlockMap, chainVars, syncVars, cycleVars, marketVars

LEMMA BeginCycleType ==
    ASSUME TypeOK, NEW h \in HopSettings, BeginCycle(h)
    PROVE  /\ stateBlock' \in 0..MaxBlock /\ market' \in Markets \cup {InitialMarket}
           /\ pendingMarket' \in Markets \cup {NoMarket} /\ forceFull' \in BOOLEAN
           /\ recActive' \in BOOLEAN /\ recHops' \in HopSettings \cup {0}
           /\ recTodo' \subseteq Pools /\ recFound' \subseteq Pools /\ recFailed' \subseteq Pools
           /\ recVal' \in [Pools -> Values] /\ recRead' \in BlockMap
           /\ UNCHANGED <<chainVars, cacheVars, pending, scan, lastState, syncVars, outrun,
                          routeCache, cyclesSinceFull, lastHops>>
  <1>1. market' \in Markets \cup {InitialMarket}
    BY DEF BeginCycle, MarketChanged, TypeOK
  <1>2. market' \subseteq Pools
    BY <1>1, MarketsAssumption
  <1>3. Blank \in [Pools -> Values] /\ Zero \in BlockMap
    BY ValuesAssumption, NumbersAssumption DEF Blank, Zero, BlockMap
  <1>4. CASE UNCHANGED recVars
    BY <1>1, <1>4 DEF BeginCycle, TypeOK, recVars
  <1>5. CASE StartReconciliation(h, market')
    BY <1>1, <1>2, <1>3, <1>5 DEF BeginCycle, TypeOK, StartReconciliation
  <1>. QED
    BY <1>4, <1>5 DEF BeginCycle

LEMMA CycleStartType ==
    ASSUME TypeOK, NEW h \in HopSettings,
           CycleStartup(h) \/ CycleDeferred(h) \/ CycleRefresh(h)
    PROVE  TypeOK'
  <1>0. BeginCycle(h)
    BY DEF CycleStartup, CycleDeferred, CycleRefresh
  <1>1. /\ pc' \in {"idle", "startup", "refresh"}
        /\ synced' \subseteq Pools /\ forceAll' \in BOOLEAN /\ forceEvaluateNext' \in BOOLEAN
        /\ reportedTo' \in 0..MaxBlock /\ UNCHANGED <<dirty, unresolved>>
    BY DEF CycleStartup, CycleDeferred, CycleRefresh, TypeOK
  <1>. QED
    BY <1>0, <1>1, BeginCycleType DEF TypeOK, BlockMap, chainVars, cacheVars, syncVars

LEMMA RefreshPoolsType ==
    ASSUME TypeOK, NEW done, RefreshPools(done)
    PROVE  /\ val' \in [Pools -> Values] /\ upd' \in BlockMap /\ readAt' \in BlockMap
           /\ cached' = cached
  <1>1. /\ hist \in [Pools -> [0..MaxBlock -> Values]] /\ stateBlock \in 0..MaxBlock
        /\ val \in [Pools -> Values] /\ upd \in [Pools -> 0..MaxBlock]
        /\ readAt \in [Pools -> 0..MaxBlock]
    BY DEF TypeOK, BlockMap
  <1>2. \A p \in Pools : hist[p][stateBlock] \in Values /\ RefreshedBlock(p) \in 0..MaxBlock
    BY <1>1 DEF RefreshedBlock
  <1>. QED
    BY <1>1, <1>2 DEF RefreshPools, BlockMap

LEMMA RefreshDoneType ==
    ASSUME TypeOK, NEW failed \in SUBSET Attempted, RefreshDone(failed)
    PROVE  TypeOK'
  <1>1. /\ val' \in [Pools -> Values] /\ upd' \in BlockMap /\ readAt' \in BlockMap
        /\ cached' = cached
    BY RefreshPoolsType DEF RefreshDone
  <1>2. outrun' \in [Pools -> SUBSET (1..MaxBlock)]
    BY DEF RefreshDone, TypeOK
  <1>3. cyclesSinceFull' \in 0..FullReconcileEvery
    <2>1. cyclesSinceFull \in 0..FullReconcileEvery /\ FullReconcileEvery \in Nat
      BY NumbersAssumption DEF TypeOK
    <2>2. Lower(cyclesSinceFull + 1, FullReconcileEvery) \in 0..FullReconcileEvery
      BY <2>1 DEF Lower
    <2>. QED
      BY <2>1, <2>2 DEF RefreshDone
  <1>4. /\ pending' \subseteq Pools /\ unresolved' \subseteq Pools /\ dirty' \subseteq Pools
        /\ synced' \subseteq Pools /\ pc' = "evaluate"
    BY DEF RefreshDone, TypeOK, AckPendingDirty, Attempted
  <1>5. UNCHANGED <<chainVars, scan, lastState, syncVars, stateBlock, forceAll, reportedTo,
                    routeCache, forceEvaluateNext, forceFull, lastHops, marketVars, recVars>>
    BY DEF RefreshDone
  <1>. QED
    BY <1>1, <1>2, <1>3, <1>4, <1>5
    DEF TypeOK, BlockMap, chainVars, syncVars, marketVars, recVars

LEMMA RefreshCancelledType ==
    ASSUME TypeOK, NEW done \in SUBSET Attempted, RefreshCancelled(done)
    PROVE  TypeOK'
  <1>1. /\ val' \in [Pools -> Values] /\ upd' \in BlockMap /\ readAt' \in BlockMap
        /\ cached' = cached
    BY RefreshPoolsType DEF RefreshCancelled
  <1>. QED
    BY <1>1 DEF RefreshCancelled, CycleCancelled, TypeOK, BlockMap, chainVars, syncVars, planVars, marketVars, recVars

LEMMA EvaluateType ==
    ASSUME TypeOK, Evaluate
    PROVE  TypeOK'
  <1>1. /\ pc' \in {"background", "commit", "idle"} /\ forceAll' = FALSE
        /\ dirty' \subseteq Pools /\ unresolved' \subseteq Pools
    BY DEF Evaluate, CycleCancelled, TypeOK
  <1>2. UNCHANGED <<chainVars, cacheVars, pending, scan, lastState, syncVars, stateBlock,
                    synced, reportedTo, planVars, marketVars, recVars, outrun>>
    BY DEF Evaluate
  <1>. QED
    BY <1>1, <1>2 DEF TypeOK, BlockMap, chainVars, cacheVars, syncVars, planVars, marketVars, recVars

LEMMA CommitCycleType ==
    ASSUME TypeOK, CommitCycle
    PROVE  TypeOK'
  <1>1. lastState' \in 0..MaxBlock
    BY DEF CommitCycle, TypeOK, Upper, Lower
  <1>. QED
    BY <1>1 DEF CommitCycle, TypeOK, BlockMap, chainVars, cacheVars, syncVars, planVars,
                marketVars, recVars

-----------------------------------------------------------------------------
(* The inductive invariant, one lemma per action.                          *)

LEMMA InitInd == Init => IndInv
  BY NumbersAssumption
  DEF Init, IndInv, BlocksBounded, CheckpointSound, CacheSound, FetchedBounded,
      CheckpointCurrent, NoSilentLoss, FirstScan, NoBlockSkipped

\* A new block changes no recorded state of an older one.
LEMMA NewBlockKeeps ==
    ASSUME TypeOK, NEW S \in Bursts, NEW v \in Values, NewBlock(S, v)
    PROVE  /\ head' = head + 1 /\ head \in Nat
           /\ \A p \in Pools : \A b \in 0..head : hist'[p][b] = hist[p][b]
           /\ \A p \in Pools : touched'[p] \subseteq touched[p] \cup {head + 1}
           /\ \A p \in Pools : Reverted(p) => Reverted(p)'
  <1>1. head' = head + 1 /\ head \in Nat /\ head + 1 \in 0..MaxBlock
    BY NumbersAssumption DEF NewBlock, TypeOK
  <1>2. ASSUME NEW p \in Pools, NEW b \in 0..head
        PROVE  hist'[p][b] = hist[p][b]
    <2>1. b \in 0..MaxBlock /\ b # head + 1
      BY <1>1, NumbersAssumption
    <2>. QED
      BY <1>1, <2>1 DEF NewBlock, TypeOK
  <1>3. \A p \in Pools : touched'[p] \subseteq touched[p] \cup {head + 1}
    BY DEF NewBlock, TypeOK
  <1>4. ASSUME NEW p \in Pools, Reverted(p)
        PROVE  Reverted(p)'
    <2>1. PICK i \in 0..head, j \in 0..head, k \in 0..head :
              i < j /\ j < k /\ hist[p][i] = hist[p][k] /\ hist[p][j] # hist[p][k]
      BY <1>4 DEF Reverted
    <2>2. i \in 0..head' /\ j \in 0..head' /\ k \in 0..head'
      BY <1>1
    <2>3. hist'[p][i] = hist'[p][k] /\ hist'[p][j] # hist'[p][k]
      BY <2>1, <1>2
    <2>. QED
      BY <2>1, <2>2, <2>3 DEF Reverted
  <1>. QED
    BY <1>1, <1>2, <1>3, <1>4

LEMMA NewBlockInd ==
    ASSUME TypeOK, IndInv, NEW S \in Bursts, NEW v \in Values, NewBlock(S, v)
    PROVE  IndInv'
  <1>1. /\ head' = head + 1 /\ head \in Nat
        /\ \A p \in Pools : \A b \in 0..head : hist'[p][b] = hist[p][b]
        /\ \A p \in Pools : touched'[p] \subseteq touched[p] \cup {head + 1}
        /\ \A p \in Pools : Reverted(p) => Reverted(p)'
    BY NewBlockKeeps
  <1>2. UNCHANGED <<cacheVars, pending, scan, lastState, syncVars, stateBlock, recVars, outrun>>
    BY DEF NewBlock, cycleVars
  <1>3. BlocksBounded'
    BY <1>1, <1>2 DEF BlocksBounded, IndInv, TypeOK, syncVars
  <1>4. ASSUME NEW p \in Pools
        PROVE  (touched[p] \cap covered[p])' \subseteq touched[p] \cap covered[p]
    <2>1. covered'[p] = covered[p] /\ covered[p] \subseteq 1..head
      BY <1>2 DEF syncVars, IndInv, BlocksBounded
    <2>2. head + 1 \notin covered[p]
      BY <2>1, <1>1
    <2>. QED
      BY <2>1, <2>2, <1>1
  <1>5. CheckpointSound'
    <2> SUFFICES ASSUME NEW p \in recFound
                 PROVE  recRead[p] <= stateBlock /\ recVal[p] = hist'[p][recRead[p]]
      BY <1>2 DEF CheckpointSound, recVars
    <2>1. recRead[p] <= stateBlock /\ recVal[p] = hist[p][recRead[p]] /\ p \in Pools
      BY DEF IndInv, CheckpointSound, TypeOK
    <2>2. recRead[p] \in 0..head
      BY <2>1 DEF IndInv, BlocksBounded, TypeOK, BlockMap
    <2>. QED
      BY <2>1, <2>2, <1>1
  <1>6. CacheSound'
    <2> SUFFICES ASSUME NEW p \in cached
                 PROVE  /\ upd[p] <= readAt[p] /\ readAt[p] <= stateBlock
                        /\ val[p] = hist'[p][upd[p]] /\ val[p] = hist'[p][readAt[p]]
      BY <1>2 DEF CacheSound, cacheVars
    <2>1. /\ upd[p] <= readAt[p] /\ readAt[p] <= stateBlock /\ p \in Pools
          /\ val[p] = hist[p][upd[p]] /\ val[p] = hist[p][readAt[p]]
      BY DEF IndInv, CacheSound, TypeOK
    <2>2. upd[p] \in 0..head /\ readAt[p] \in 0..head
      BY <2>1 DEF IndInv, BlocksBounded, TypeOK, BlockMap
    <2>. QED
      BY <2>1, <2>2, <1>1
  <1>7. FetchedBounded' /\ CheckpointCurrent'
    BY <1>2, <1>4 DEF FetchedBounded, CheckpointCurrent, IndInv, recVars, cacheVars, TypeOK
  <1>8. NoSilentLoss'
    <2> SUFFICES ASSUME NEW p \in cached, ~Reverted(p)',
                        NEW b \in (touched[p] \cap covered[p])'
                 PROVE  \/ p \in pending \/ b <= readAt[p]
                        \/ hist'[p][b] = val[p] \/ b \in outrun[p]
      BY <1>2 DEF NoSilentLoss, cacheVars
    <2>1. p \in Pools /\ b \in touched[p] \cap covered[p] /\ ~Reverted(p)
      BY <1>1, <1>4 DEF TypeOK
    <2>2. b \in 0..head
      BY <2>1 DEF IndInv, BlocksBounded
    <2>3. \/ p \in pending \/ b <= readAt[p] \/ hist[p][b] = val[p] \/ b \in outrun[p]
      BY <2>1 DEF IndInv, NoSilentLoss
    <2>. QED
      BY <2>1, <2>2, <2>3, <1>1
  <1>9. FirstScan' /\ NoBlockSkipped'
    BY <1>2 DEF FirstScan, NoBlockSkipped, IndInv, syncVars
  <1>. QED
    BY <1>3, <1>5, <1>6, <1>7, <1>8, <1>9 DEF IndInv

\* Steps that touch neither the cache, the logs nor the checkpoint.
LEMMA FrameInd ==
    ASSUME TypeOK, IndInv, lastState' <= head,
           UNCHANGED <<chainVars, cacheVars, pending, scan, syncVars, stateBlock, recVars, outrun>>
    PROVE  IndInv'
  <1>1. BlocksBounded' /\ FirstScan' /\ NoBlockSkipped'
    BY DEF IndInv, BlocksBounded, FirstScan, NoBlockSkipped, chainVars, syncVars
  <1>2. CheckpointSound' /\ CacheSound'
    BY DEF IndInv, CheckpointSound, CacheSound, chainVars, recVars, cacheVars
  <1>3. FetchedBounded' /\ CheckpointCurrent'
    BY DEF IndInv, FetchedBounded, CheckpointCurrent, chainVars, recVars, cacheVars, syncVars
  <1>4. NoSilentLoss'
    BY DEF IndInv, NoSilentLoss, Reverted, chainVars, cacheVars, syncVars
  <1>. QED
    BY <1>1, <1>2, <1>3, <1>4 DEF IndInv

LEMMA QueueInd ==
    ASSUME TypeOK, IndInv, NEW m \in Markets, QueueLiveMarket(m)
    PROVE  IndInv'
  BY FrameInd DEF QueueLiveMarket, IndInv, BlocksBounded, cycleVars

\* More pools become pending, nothing else changes.
LEMMA LaterBlockInd ==
    ASSUME TypeOK, IndInv, NEW S \in Bursts, LaterBlock(S)
    PROVE  IndInv'
  <1>1. /\ pending \subseteq pending'
        /\ UNCHANGED <<chainVars, cacheVars, scan, lastState, syncVars, stateBlock, recVars, outrun>>
    BY DEF LaterBlock, cycleVars
  <1>2. BlocksBounded' /\ FirstScan' /\ NoBlockSkipped'
    BY <1>1 DEF IndInv, BlocksBounded, FirstScan, NoBlockSkipped, chainVars, syncVars
  <1>3. CheckpointSound' /\ CacheSound'
    BY <1>1 DEF IndInv, CheckpointSound, CacheSound, chainVars, recVars, cacheVars
  <1>4. FetchedBounded' /\ CheckpointCurrent'
    BY <1>1 DEF IndInv, FetchedBounded, CheckpointCurrent, chainVars, recVars, cacheVars, syncVars
  <1>5. NoSilentLoss'
    BY <1>1 DEF IndInv, NoSilentLoss, Reverted, chainVars, cacheVars, syncVars
  <1>. QED
    BY <1>2, <1>3, <1>4, <1>5 DEF IndInv

LEMMA EvaluateInd ==
    ASSUME TypeOK, IndInv, Evaluate
    PROVE  IndInv'
  BY FrameInd DEF Evaluate, IndInv, BlocksBounded

LEMMA CommitCycleInd ==
    ASSUME TypeOK, IndInv, CommitCycle
    PROVE  IndInv'
  <1>1. lastState' <= head
    BY DEF CommitCycle, IndInv, BlocksBounded, TypeOK, Upper, Lower
  <1>. QED
    BY <1>1, FrameInd DEF CommitCycle

\* A tick that starts a query, or only sets the watermark.
LEMMA SyncBeginInd ==
    ASSUME TypeOK, IndInv, SyncBegin
    PROVE  IndInv'
  <1>1. ScanStart \in 1..head /\ head \in Nat /\ scan' = ScanStart
    BY ScanStartType, NumbersAssumption DEF SyncBegin, IndInv
  <1>2. UNCHANGED <<chainVars, cacheVars, pending, lastState, covered, stateBlock, recVars, outrun>>
    BY DEF SyncBegin, cycleVars
  <1>3. MaxChunks * ChunkSize \in Nat
    BY ChunkProduct, NumbersAssumption
  <1>4. syncPc' = "scan" => scan' <= syncTo' /\ syncTo' <= head
    BY <1>1, <1>3 DEF SyncBegin, ScanEnd, Lower
  <1>5. BlocksBounded'
    BY <1>1, <1>2, <1>4 DEF BlocksBounded, IndInv, chainVars
  <1>6. CheckpointSound' /\ CacheSound' /\ FetchedBounded' /\ CheckpointCurrent'
    BY <1>2 DEF IndInv, CheckpointSound, CacheSound, FetchedBounded, CheckpointCurrent,
                chainVars, recVars, cacheVars
  <1>7. NoSilentLoss'
    BY <1>2 DEF IndInv, NoSilentLoss, Reverted, chainVars, cacheVars
  <1>8. FirstScan'
    BY <1>1 DEF FirstScan
  <1>9. NoBlockSkipped'
    <2> SUFFICES ASSUME NEW p \in syncAddrs'
                 PROVE  (watchFrom'[p] + 1)..scan' \subseteq covered[p]
      BY <1>2 DEF NoBlockSkipped
    <2>1. CASE p \in syncAddrs /\ watchFrom'[p] = watchFrom[p]
      <3>1. scan # 0
        BY <2>1 DEF IndInv, FirstScan
      <3>2. scan' = scan
        BY <3>1, <1>1 DEF ScanStart
      <3>. QED
        BY <3>2, <2>1 DEF IndInv, NoBlockSkipped
    <2>2. CASE watchFrom'[p] = ScanStart
      <3>1. ((watchFrom'[p] + 1)..scan') = {}
        BY <2>2, <1>1
      <3>. QED
        BY <3>1
    <2>3. p \in Pools
      BY DEF SyncBegin, TypeOK
    <2>. QED
      BY <2>1, <2>2, <2>3 DEF SyncBegin, TypeOK
  <1>. QED
    BY <1>5, <1>6, <1>7, <1>8, <1>9 DEF IndInv

\* The end of a query: what the fetched chunks report becomes pending before
\* the watermark moves.
LEMMA SyncEndInd ==
    ASSUME TypeOK, IndInv, NEW k \in 0..MaxChunks, SyncEnd(k)
    PROVE  IndInv'
  <1>1. /\ Checkpoint(k) \in scan..syncTo
        /\ Lower(syncTo, scan + k * ChunkSize) = Checkpoint(k)
        /\ scan \in Nat /\ syncTo \in Nat
    BY CheckpointType, NumbersAssumption DEF SyncEnd, IndInv
  <1>2. syncTo <= head /\ head \in Nat
    BY NumbersAssumption DEF SyncEnd, IndInv, BlocksBounded, TypeOK
  <1>3. scan' = Checkpoint(k) /\ scan' >= scan
    BY <1>1 DEF SyncEnd, Upper
  <1>4. UNCHANGED <<chainVars, cacheVars, lastState, syncAddrs, watchFrom, stateBlock, recVars, outrun>>
    BY DEF SyncEnd, cycleVars
  <1>5. \A p \in Pools : covered'[p] = IF p \in syncAddrs
                                       THEN covered[p] \cup ((scan + 1)..Checkpoint(k))
                                       ELSE covered[p]
    BY <1>1 DEF SyncEnd
  <1>6. pending \subseteq pending'
    BY DEF SyncEnd
  <1>7. ASSUME NEW p \in Pools, NEW b \in touched[p] \cap covered'[p], p \notin pending'
        PROVE  b \in touched[p] \cap covered[p]
    <2>1. SUFFICES ASSUME b \notin covered[p] PROVE FALSE
      OBVIOUS
    <2>2. p \in syncAddrs /\ b \in (scan + 1)..Checkpoint(k)
      BY <1>5, <2>1
    <2>3. p \in ChangedPoolAddresses(k)
      BY <2>2 DEF ChangedPoolAddresses
    <2>. QED
      BY <2>3, <1>7 DEF SyncEnd
  <1>8. BlocksBounded'
    <2>0. ((scan + 1)..Checkpoint(k)) \subseteq 1..head
      BY <1>1, <1>2
    <2>1. \A p \in Pools : covered'[p] \subseteq 1..head
      BY <2>0, <1>5 DEF IndInv, BlocksBounded
    <2>. QED
      BY <2>1, <1>1, <1>2, <1>3, <1>4 DEF SyncEnd, IndInv, BlocksBounded, chainVars
  <1>9. CheckpointSound' /\ CacheSound'
    BY <1>4 DEF IndInv, CheckpointSound, CacheSound, chainVars, recVars, cacheVars
  <1>10. FetchedBounded' /\ CheckpointCurrent'
    BY <1>4, <1>6, <1>7
    DEF IndInv, FetchedBounded, CheckpointCurrent, chainVars, recVars, cacheVars, TypeOK
  <1>11. NoSilentLoss'
    BY <1>4, <1>6, <1>7 DEF IndInv, NoSilentLoss, Reverted, chainVars, cacheVars, TypeOK
  <1>12. FirstScan'
    BY <1>1, <1>3, <1>4 DEF IndInv, FirstScan
  <1>13. NoBlockSkipped'
    <2> SUFFICES ASSUME NEW p \in syncAddrs, NEW b \in (watchFrom[p] + 1)..scan'
                 PROVE  b \in covered'[p]
      BY <1>4 DEF NoBlockSkipped
    <2>1. p \in Pools /\ watchFrom[p] \in Nat
      BY NumbersAssumption DEF TypeOK, BlockMap
    <2>2. CASE b <= scan
      <3>1. b \in (watchFrom[p] + 1)..scan
        BY <2>1, <2>2, <1>1
      <3>. QED
        BY <3>1, <2>1, <1>5 DEF IndInv, NoBlockSkipped
    <2>3. CASE ~(b <= scan)
      <3>1. b \in (scan + 1)..Checkpoint(k)
        BY <2>1, <2>3, <1>1, <1>3
      <3>. QED
        BY <3>1, <2>1, <1>5
    <2>. QED
      BY <2>2, <2>3
  <1>. QED
    BY <1>8, <1>9, <1>10, <1>11, <1>12, <1>13 DEF IndInv

\* A cycle starts: the pinned block moves to the head, and a restarted
\* reconciliation forgets its checkpoint.
LEMMA BeginCycleInd ==
    ASSUME TypeOK, IndInv, NEW h \in HopSettings, BeginCycle(h)
    PROVE  IndInv'
  <1>1. /\ stateBlock' = head /\ stateBlock <= head /\ stateBlock \in Nat /\ head \in Nat
        /\ UNCHANGED <<chainVars, cacheVars, pending, scan, lastState, syncVars, outrun>>
    BY NumbersAssumption DEF BeginCycle, IndInv, BlocksBounded, TypeOK
  <1>2. recFound' = {} \/ UNCHANGED recVars
    BY DEF BeginCycle, StartReconciliation
  <1>3. BlocksBounded' /\ FirstScan' /\ NoBlockSkipped'
    BY <1>1 DEF IndInv, BlocksBounded, FirstScan, NoBlockSkipped, chainVars, syncVars
  <1>4. CheckpointSound'
    <2> SUFFICES ASSUME NEW p \in recFound, UNCHANGED recVars
                 PROVE  recRead[p] <= stateBlock' /\ recVal[p] = hist[p][recRead[p]]
      BY <1>1, <1>2 DEF CheckpointSound, recVars, chainVars
    <2>1. recRead[p] <= stateBlock /\ recVal[p] = hist[p][recRead[p]] /\ recRead[p] \in Nat
      BY NumbersAssumption DEF IndInv, CheckpointSound, TypeOK, BlockMap
    <2>. QED
      BY <2>1, <1>1
  <1>5. CacheSound'
    <2> SUFFICES ASSUME NEW p \in cached
                 PROVE  /\ upd[p] <= readAt[p] /\ readAt[p] <= stateBlock'
                        /\ val[p] = hist[p][upd[p]] /\ val[p] = hist[p][readAt[p]]
      BY <1>1 DEF CacheSound, cacheVars, chainVars
    <2>1. readAt[p] \in Nat
      BY NumbersAssumption DEF TypeOK, BlockMap
    <2>. QED
      BY <2>1, <1>1 DEF IndInv, CacheSound
  <1>6. FetchedBounded'
    <2> SUFFICES ASSUME NEW p \in Pools, NEW b \in touched[p] \cap covered[p],
                        p \notin pending, b \notin outrun[p]
                 PROVE  b <= stateBlock'
      BY <1>1 DEF FetchedBounded, chainVars, syncVars
    <2>1. b <= stateBlock /\ b \in Nat
      BY DEF IndInv, FetchedBounded, TypeOK
    <2>. QED
      BY <2>1, <1>1
  <1>7. CheckpointCurrent'
    BY <1>1, <1>2 DEF IndInv, CheckpointCurrent, chainVars, syncVars, cacheVars, recVars
  <1>8. NoSilentLoss'
    BY <1>1 DEF IndInv, NoSilentLoss, Reverted, chainVars, cacheVars, syncVars
  <1>. QED
    BY <1>3, <1>4, <1>5, <1>6, <1>7, <1>8 DEF IndInv

\* Re-reading pools at the pinned block keeps every entry truthful and brings
\* the re-read ones up to that block.
LEMMA RefreshPoolsSound ==
    ASSUME TypeOK, IndInv, NEW done \in SUBSET cached, RefreshPools(done),
           UNCHANGED <<chainVars, stateBlock>>
    PROVE  /\ CacheSound' /\ cached' = cached
           /\ \A p \in done : readAt'[p] = stateBlock
           /\ \A p \in cached \ done : readAt'[p] = readAt[p] /\ val'[p] = val[p]
  <1>1. ASSUME NEW p \in cached
        PROVE  /\ p \in Pools /\ upd[p] \in Nat /\ readAt[p] \in Nat /\ stateBlock \in Nat
               /\ upd[p] <= readAt[p] /\ readAt[p] <= stateBlock
               /\ val[p] = hist[p][upd[p]] /\ val[p] = hist[p][readAt[p]]
    BY NumbersAssumption DEF IndInv, CacheSound, TypeOK, BlockMap
  <1>2. ASSUME NEW p \in done
        PROVE  p \in Accepted(done)
    BY <1>1 DEF Accepted, RefreshedBlock
  <1>3. \A p \in Pools \ done : p \notin Accepted(done)
    BY DEF Accepted
  <1>4. ASSUME NEW p \in done
        PROVE  /\ readAt'[p] = stateBlock /\ val'[p] = hist[p][stateBlock]
               /\ upd'[p] = RefreshedBlock(p)
    BY <1>1, <1>2 DEF RefreshPools
  <1>5. ASSUME NEW p \in cached \ done
        PROVE  readAt'[p] = readAt[p] /\ val'[p] = val[p] /\ upd'[p] = upd[p]
    BY <1>1, <1>3 DEF RefreshPools
  <1>6. cached' = cached
    BY DEF RefreshPools
  <1>7. CacheSound'
    <2> SUFFICES ASSUME NEW p \in cached
                 PROVE  /\ upd'[p] <= readAt'[p] /\ readAt'[p] <= stateBlock
                        /\ val'[p] = hist[p][upd'[p]] /\ val'[p] = hist[p][readAt'[p]]
      BY <1>6 DEF CacheSound, chainVars
    <2>1. CASE p \in done
      BY <2>1, <1>1, <1>4 DEF RefreshedBlock, Unchanged
    <2>2. CASE p \notin done
      BY <2>2, <1>1, <1>5
    <2>. QED
      BY <2>1, <2>2
  <1>. QED
    BY <1>4, <1>5, <1>6, <1>7

LEMMA RefreshDoneInd ==
    ASSUME TypeOK, IndInv, NEW failed \in SUBSET Attempted, RefreshDone(failed)
    PROVE  IndInv'
  <1> DEFINE done == Attempted \ failed
  <1>1. /\ done \in SUBSET cached /\ RefreshPools(done) /\ pending' = pending \ done
        /\ UNCHANGED <<chainVars, scan, lastState, syncVars, stateBlock, recVars>>
    BY DEF RefreshDone, Attempted, AckPendingDirty
  <1>2. \A p \in Pools : outrun'[p] = IF p \in done
              THEN outrun[p] \cup {b \in touched[p] \cap covered[p] : b > stateBlock}
              ELSE outrun[p]
    BY DEF RefreshDone
  <1> HIDE DEF done
  <1>3. /\ CacheSound' /\ cached' = cached
        /\ \A p \in done : readAt'[p] = stateBlock
        /\ \A p \in cached \ done : readAt'[p] = readAt[p] /\ val'[p] = val[p]
    BY <1>1, RefreshPoolsSound
  <1>4. BlocksBounded' /\ FirstScan' /\ NoBlockSkipped'
    BY <1>1 DEF IndInv, BlocksBounded, FirstScan, NoBlockSkipped, chainVars, syncVars
  <1>5. CheckpointSound'
    BY <1>1 DEF IndInv, CheckpointSound, chainVars, recVars
  <1>6. ASSUME NEW p \in Pools, NEW b \in touched[p] \cap covered[p]
        PROVE  b \in Nat /\ stateBlock \in Nat
    BY NumbersAssumption DEF TypeOK
  <1>6a. ASSUME NEW p \in done, NEW b \in touched[p] \cap covered[p]
         PROVE  b \in outrun'[p] \/ b <= stateBlock
    <2>1. p \in Pools
      BY <1>1 DEF TypeOK
    <2>2. outrun'[p] = outrun[p] \cup {c \in touched[p] \cap covered[p] : c > stateBlock}
      BY <2>1, <1>2, <1>6a
    <2>3. b \in Nat /\ stateBlock \in Nat
      BY <2>1, <1>6
    <2>4. CASE b > stateBlock
      BY <2>2, <2>4
    <2>5. CASE ~(b > stateBlock)
      BY <2>3, <2>5
    <2>. QED
      BY <2>4, <2>5
  <1>7. FetchedBounded'
    <2> SUFFICES ASSUME NEW p \in Pools, NEW b \in touched[p] \cap covered[p]
                 PROVE  p \in pending' \/ b \in outrun'[p] \/ b <= stateBlock
      BY <1>1 DEF FetchedBounded, chainVars, syncVars
    <2>1. CASE p \in done
      BY <2>1, <1>6a
    <2>2. CASE p \notin done
      BY <2>2, <1>1, <1>2 DEF IndInv, FetchedBounded
    <2>. QED
      BY <2>1, <2>2
  <1>8. CheckpointCurrent'
    BY <1>1, <1>2, <1>3 DEF IndInv, CheckpointCurrent, chainVars, syncVars, recVars, TypeOK
  <1>9. NoSilentLoss'
    <2> SUFFICES ASSUME NEW p \in cached, ~Reverted(p), NEW b \in touched[p] \cap covered[p]
                 PROVE  \/ p \in pending' \/ b <= readAt'[p]
                        \/ hist[p][b] = val'[p] \/ b \in outrun'[p]
      BY <1>1, <1>3 DEF NoSilentLoss, Reverted, chainVars, syncVars
    <2>1. p \in Pools
      BY DEF TypeOK
    <2>2. CASE p \in done
      <3>1. b \in outrun'[p] \/ b <= stateBlock
        BY <2>2, <1>6a
      <3>. QED
        BY <3>1, <2>2, <1>3
    <2>3. CASE p \notin done
      BY <2>1, <2>3, <1>1, <1>2, <1>3 DEF IndInv, NoSilentLoss
    <2>. QED
      BY <2>2, <2>3
  <1>. QED
    BY <1>3, <1>4, <1>5, <1>7, <1>8, <1>9 DEF IndInv

LEMMA RefreshCancelledInd ==
    ASSUME TypeOK, IndInv, NEW done \in SUBSET Attempted, RefreshCancelled(done)
    PROVE  IndInv'
  <1>1. /\ done \in SUBSET cached /\ RefreshPools(done)
        /\ UNCHANGED <<chainVars, pending, scan, lastState, syncVars, stateBlock, recVars, outrun>>
    BY DEF RefreshCancelled, Attempted
  <1>2. /\ CacheSound' /\ cached' = cached
        /\ \A p \in done : readAt'[p] = stateBlock
        /\ \A p \in cached \ done : readAt'[p] = readAt[p] /\ val'[p] = val[p]
    BY <1>1, RefreshPoolsSound
  <1>3. BlocksBounded' /\ FirstScan' /\ NoBlockSkipped'
    BY <1>1 DEF IndInv, BlocksBounded, FirstScan, NoBlockSkipped, chainVars, syncVars
  <1>4. CheckpointSound' /\ FetchedBounded' /\ CheckpointCurrent'
    BY <1>1, <1>2 DEF IndInv, CheckpointSound, FetchedBounded, CheckpointCurrent,
                      chainVars, recVars, syncVars
  <1>5. NoSilentLoss'
    <2> SUFFICES ASSUME NEW p \in cached, ~Reverted(p), NEW b \in touched[p] \cap covered[p]
                 PROVE  \/ p \in pending \/ b <= readAt'[p]
                        \/ hist[p][b] = val'[p] \/ b \in outrun[p]
      BY <1>1, <1>2 DEF NoSilentLoss, Reverted, chainVars, syncVars
    <2>1. p \in Pools
      BY DEF TypeOK
    <2>2. CASE p \in done
      BY <2>1, <2>2, <1>2 DEF IndInv, FetchedBounded
    <2>3. CASE p \notin done
      BY <2>3, <1>2 DEF IndInv, NoSilentLoss
    <2>. QED
      BY <2>2, <2>3
  <1>. QED
    BY <1>2, <1>3, <1>4, <1>5 DEF IndInv

\* What the units of a batch record is what their pools hold at the pinned
\* block, so the merged checkpoint stays truthful and current.
LEMMA DiscoveredSound ==
    ASSUME TypeOK, IndInv, NEW ok \in SUBSET recTodo, NEW p \in recFound \cup ok
    PROVE  /\ p \in Pools /\ DiscoveredAt(ok)[p] \in Nat /\ DiscoveredAt(ok)[p] <= stateBlock
           /\ Discovered(ok)[p] = hist[p][DiscoveredAt(ok)[p]]
           /\ \A b \in touched[p] \cap covered[p] :
                p \in ok => p \in pending \/ b \in outrun[p] \/ b <= DiscoveredAt(ok)[p]
  <1>1. p \in Pools /\ stateBlock \in Nat
    BY NumbersAssumption DEF TypeOK
  <1>2. CASE p \in ok
    BY <1>1, <1>2 DEF Discovered, DiscoveredAt, IndInv, FetchedBounded
  <1>3. CASE p \notin ok
    BY <1>1, <1>3, NumbersAssumption
    DEF Discovered, DiscoveredAt, IndInv, CheckpointSound, TypeOK, BlockMap
  <1>. QED
    BY <1>2, <1>3

\* A pool that never returns to an earlier state keeps one state between two
\* blocks at which it is the same.
LEMMA NoReversal ==
    ASSUME TypeOK, NEW p \in Pools, ~Reverted(p),
           NEW i \in 0..head, NEW j \in 0..head, NEW k \in 0..head,
           i <= j, j <= k, hist[p][i] = hist[p][k]
    PROVE  hist[p][j] = hist[p][k]
  <1>1. CASE i < j /\ j < k
    BY <1>1 DEF Reverted
  <1>2. CASE ~(i < j /\ j < k)
    <2>1. i = j \/ j = k
      BY <1>2, NumbersAssumption DEF TypeOK
    <2>. QED
      BY <2>1
  <1>. QED
    BY <1>1, <1>2

\* The commit keeps every fetched change: an entry it overwrites with an
\* older read had not changed in between.
LEMMA MergeLosesNothing ==
    ASSUME TypeOK, IndInv, NEW ok \in SUBSET recTodo, NEW p \in recFound \cup ok,
           ~Reverted(p), ~KeepsCached(p, DiscoveredAt(ok)),
           NEW b \in touched[p] \cap covered[p], p \notin pending, b \notin outrun[p]
    PROVE  b <= DiscoveredAt(ok)[p] \/ hist[p][b] = Discovered(ok)[p]
  <1> DEFINE r == DiscoveredAt(ok)[p]
  <1>1. /\ p \in Pools /\ r \in Nat /\ r <= stateBlock
        /\ Discovered(ok)[p] = hist[p][r]
        /\ p \in ok => b <= r
    BY DiscoveredSound
  <1>2. p \notin ok => r = recRead[p]
    BY <1>1 DEF DiscoveredAt
  <1> HIDE DEF r
  <1>3. /\ b \in 1..head /\ stateBlock <= head /\ head \in Nat /\ stateBlock \in Nat
    BY <1>1, NumbersAssumption DEF IndInv, BlocksBounded, TypeOK
  <1> SUFFICES ASSUME ~(b <= r) PROVE hist[p][b] = hist[p][r]
    BY <1>1 DEF r
  <1>4. p \in recFound
    BY <1>1
  <1>5. p \in cached
    BY <1>1, <1>2, <1>4 DEF IndInv, CheckpointCurrent
  <1>6. /\ upd[p] \in Nat /\ readAt[p] \in Nat /\ readAt[p] <= stateBlock
        /\ val[p] = hist[p][upd[p]] /\ val[p] = hist[p][readAt[p]]
        /\ upd[p] <= readAt[p]
    BY <1>1, <1>5, NumbersAssumption DEF IndInv, CacheSound, TypeOK, BlockMap
  <1>7. upd[p] <= r
    BY <1>1, <1>5, <1>6 DEF KeepsCached, r
  <1>8. r \in 0..head /\ upd[p] \in 0..head /\ readAt[p] \in 0..head /\ b \in 0..head /\ r <= b
    BY <1>1, <1>3, <1>6
  <1>9. b <= readAt[p] \/ hist[p][b] = val[p]
    BY <1>5 DEF IndInv, NoSilentLoss
  <1>10. CASE b <= readAt[p]
    <2>1. upd[p] <= b /\ r <= readAt[p]
      BY <1>7, <1>8, <1>10
    <2>2. hist[p][upd[p]] = hist[p][readAt[p]]
      BY <1>6
    <2>3. hist[p][r] = hist[p][readAt[p]]
      BY <1>1, <1>7, <1>8, <2>1, <2>2, NoReversal
    <2>4. hist[p][b] = hist[p][readAt[p]]
      BY <1>1, <1>8, <1>10, <2>1, <2>2, NoReversal
    <2>. QED
      BY <2>3, <2>4
  <1>11. CASE hist[p][b] = val[p]
    <2>1. hist[p][upd[p]] = hist[p][b]
      BY <1>6, <1>11
    <2>. QED
      BY <2>1, <1>1, <1>7, <1>8, NoReversal
  <1>. QED
    BY <1>9, <1>10, <1>11

LEMMA BatchInd ==
    ASSUME TypeOK, IndInv, NEW n, ReconcileBatch(n), lastState' <= head,
           UNCHANGED <<chainVars, pending, scan, syncVars, stateBlock, outrun>>
    PROVE  IndInv'
  <1>1. PICK ok \in SUBSET recTodo, bad \in SUBSET recTodo :
          \/ CommitReconciliation(recFound \cup ok, Discovered(ok), DiscoveredAt(ok),
                                  recFailed \cup bad)
          \/ /\ recFound' = recFound \cup ok
             /\ recVal' = Discovered(ok) /\ recRead' = DiscoveredAt(ok)
             /\ UNCHANGED cacheVars
    BY DEF ReconcileBatch
  <1> DEFINE found == recFound \cup ok
             v == Discovered(ok)
             read == DiscoveredAt(ok)
  <1>2. ASSUME NEW p \in found
        PROVE  /\ p \in Pools /\ read[p] \in Nat /\ read[p] <= stateBlock
               /\ v[p] = hist[p][read[p]]
               /\ \A b \in touched[p] \cap covered[p] :
                    p \in ok => p \in pending \/ b \in outrun[p] \/ b <= read[p]
    BY DiscoveredSound
  <1>3. BlocksBounded' /\ FirstScan' /\ NoBlockSkipped'
    BY DEF IndInv, BlocksBounded, FirstScan, NoBlockSkipped, chainVars, syncVars
  <1>4. FetchedBounded'
    BY DEF IndInv, FetchedBounded, chainVars, syncVars
  <1>5. CASE CommitReconciliation(found, v, read, recFailed \cup bad)
    <2>1. cached' = found /\ recFound' = {}
      BY <1>5 DEF CommitReconciliation
    <2>2. ASSUME NEW p \in found
          PROVE  \/ /\ KeepsCached(p, read)
                    /\ val'[p] = val[p] /\ upd'[p] = upd[p] /\ readAt'[p] = readAt[p]
                 \/ /\ ~KeepsCached(p, read)
                    /\ val'[p] = v[p] /\ upd'[p] = read[p] /\ readAt'[p] = read[p]
      <3>1. p \in Pools
        BY <1>2
      <3> HIDE DEF found, v, read
      <3>. QED
        BY <3>1, <1>5 DEF CommitReconciliation
    <2>3. CheckpointSound' /\ CheckpointCurrent'
      BY <2>1 DEF CheckpointSound, CheckpointCurrent
    <2>4. CacheSound'
      <3> SUFFICES ASSUME NEW p \in found
                   PROVE  /\ upd'[p] <= readAt'[p] /\ readAt'[p] <= stateBlock
                          /\ val'[p] = hist[p][upd'[p]] /\ val'[p] = hist[p][readAt'[p]]
        BY <2>1 DEF CacheSound, chainVars
      <3> HIDE DEF found, v, read
      <3>1. CASE KeepsCached(p, read)
        BY <3>1, <2>2 DEF KeepsCached, IndInv, CacheSound
      <3>2. CASE ~KeepsCached(p, read)
        BY <3>2, <2>2, <1>2
      <3>. QED
        BY <3>1, <3>2
    <2>5. NoSilentLoss'
      <3> SUFFICES ASSUME NEW p \in found, ~Reverted(p), NEW b \in touched[p] \cap covered[p],
                          p \notin pending, b \notin outrun[p]
                   PROVE  b <= readAt'[p] \/ hist[p][b] = val'[p]
        BY <2>1 DEF NoSilentLoss, Reverted, chainVars, syncVars
      <3>1. CASE KeepsCached(p, read)
        <4>1. p \in cached
          BY <3>1 DEF KeepsCached
        <4>2. val'[p] = val[p] /\ readAt'[p] = readAt[p]
          BY <3>1, <2>2
        <4>. QED
          BY <4>1, <4>2 DEF IndInv, NoSilentLoss
      <3>2. CASE ~KeepsCached(p, read)
        <4>1. b <= read[p] \/ hist[p][b] = v[p]
          BY <3>2, MergeLosesNothing
        <4>2. val'[p] = v[p] /\ readAt'[p] = read[p]
          BY <3>2, <2>2
        <4>. QED
          BY <4>1, <4>2
      <3>. QED
        BY <3>1, <3>2
    <2>. QED
      BY <1>3, <1>4, <2>3, <2>4, <2>5 DEF IndInv
  <1>6. CASE recFound' = found /\ recVal' = v /\ recRead' = read /\ UNCHANGED cacheVars
    <2>1. CheckpointSound'
      BY <1>2, <1>6 DEF CheckpointSound, chainVars
    <2>2. CacheSound' /\ NoSilentLoss'
      BY <1>6 DEF IndInv, CacheSound, NoSilentLoss, Reverted, chainVars, cacheVars, syncVars
    <2>3. CheckpointCurrent'
      <3> SUFFICES ASSUME NEW p \in found \ cached, NEW b \in touched[p] \cap covered[p],
                          p \notin pending, b \notin outrun[p]
                   PROVE  b <= read[p]
        BY <1>6 DEF CheckpointCurrent, chainVars, cacheVars, syncVars
      <3>1. CASE p \in ok
        BY <3>1, <1>2
      <3>2. CASE p \notin ok
        <4>1. p \in Pools /\ p \in recFound
          BY <1>2, <3>2
        <4>2. read[p] = recRead[p]
          BY <4>1, <3>2 DEF DiscoveredAt
        <4>. QED
          BY <4>1, <4>2 DEF IndInv, CheckpointCurrent
      <3>. QED
        BY <3>1, <3>2
    <2>. QED
      BY <1>3, <1>4, <2>1, <2>2, <2>3 DEF IndInv
  <1>. QED
    BY <1>1, <1>5, <1>6

LEMMA BatchesInd ==
    ASSUME TypeOK, IndInv, StartupBatch \/ BackgroundBatch
    PROVE  IndInv'
  <1>1. stateBlock <= head /\ lastState <= head
    BY DEF IndInv, BlocksBounded
  <1>2. CASE StartupBatch
    <2>1. lastState' <= head
      BY <1>1, <1>2 DEF StartupBatch, Upper
    <2>. QED
      BY <2>1, <1>2, BatchInd DEF StartupBatch, cycleVars
  <1>3. CASE BackgroundBatch
    BY <1>1, <1>3, BatchInd DEF BackgroundBatch, cycleVars
  <1>. QED
    BY <1>2, <1>3

-----------------------------------------------------------------------------
(* The step lemma and the theorems.                                        *)

Inv == TypeOK /\ IndInv

LEMMA SyncStep ==
    ASSUME Inv, Sync
    PROVE  Inv'
  <1>1. TypeOK /\ IndInv /\ BlocksBounded
    BY DEF Inv, IndInv
  <1>2. CASE SyncBegin
    BY <1>1, <1>2, SyncBeginType, SyncBeginInd DEF Inv
  <1>3. CASE \E k \in 0..MaxChunks : SyncEnd(k)
    BY <1>1, <1>3, SyncEndType, SyncEndInd DEF Inv
  <1>. QED
    BY <1>2, <1>3 DEF Sync

LEMMA CycleStep ==
    ASSUME Inv, Cycle
    PROVE  Inv'
  <1>1. TypeOK /\ IndInv
    BY DEF Inv
  <1>2. ASSUME NEW h \in HopSettings, CycleStartup(h) \/ CycleDeferred(h) \/ CycleRefresh(h)
        PROVE  Inv'
    <2>1. BeginCycle(h)
      BY <1>2 DEF CycleStartup, CycleDeferred, CycleRefresh
    <2>. QED
      BY <1>1, <1>2, <2>1, CycleStartType, BeginCycleInd DEF Inv
  <1>3. CASE StartupBatch \/ BackgroundBatch
    BY <1>1, <1>3, StartupBatchType, BackgroundBatchType, BatchesInd DEF Inv
  <1>4. CASE Evaluate
    BY <1>1, <1>4, EvaluateType, EvaluateInd DEF Inv
  <1>5. CASE CommitCycle
    BY <1>1, <1>5, CommitCycleType, CommitCycleInd DEF Inv
  <1>6. ASSUME NEW failed \in SUBSET Attempted, RefreshDone(failed)
        PROVE  Inv'
    BY <1>1, <1>6, RefreshDoneType, RefreshDoneInd DEF Inv
  <1>7. ASSUME NEW done \in SUBSET Attempted, RefreshCancelled(done)
        PROVE  Inv'
    BY <1>1, <1>7, RefreshCancelledType, RefreshCancelledInd DEF Inv
  <1>. QED
    BY <1>2, <1>3, <1>4, <1>5, <1>6, <1>7 DEF Cycle

LEMMA EnvironmentStep ==
    ASSUME Inv, Environment
    PROVE  Inv'
  <1>1. TypeOK /\ IndInv
    BY DEF Inv
  <1>2. ASSUME NEW S \in Bursts, NEW v \in Values, NewBlock(S, v)
        PROVE  Inv'
    BY <1>1, <1>2, NewBlockType, NewBlockInd DEF Inv
  <1>3. ASSUME NEW m \in Markets, QueueLiveMarket(m)
        PROVE  Inv'
    BY <1>1, <1>3, QueueType, QueueInd DEF Inv
  <1>4. ASSUME NEW S \in Bursts, LaterBlock(S)
        PROVE  Inv'
    BY <1>1, <1>4, LaterBlockType, LaterBlockInd DEF Inv
  <1>. QED
    BY <1>2, <1>3, <1>4 DEF Environment, MineBlock

LEMMA StutterStep ==
    ASSUME Inv, UNCHANGED vars
    PROVE  Inv'
  <1>1. UNCHANGED <<chainVars, cacheVars, pending, scan, lastState, syncVars, pc,
                    cycleVars, planVars, marketVars, recVars, outrun>>
    BY DEF vars
  <1>2. TypeOK'
    BY <1>1 DEF Inv, TypeOK, BlockMap, chainVars, cacheVars, syncVars, cycleVars,
                planVars, marketVars, recVars
  <1>3. IndInv'
    BY <1>1, FrameInd DEF Inv, IndInv, BlocksBounded, cycleVars
  <1>. QED
    BY <1>2, <1>3 DEF Inv

\* IndInv holds in every reachable state, together with TypeOK.
THEOREM InductiveInvariant == Spec => []Inv
  <1>1. Init => Inv
    BY InitType, InitInd DEF Inv
  <1>2. Inv /\ [Next]_vars => Inv'
    BY SyncStep, CycleStep, EnvironmentStep, StutterStep DEF Next
  <1>. QED
    BY <1>1, <1>2, PTL DEF Spec

\* Type correctness of the market engine's state.
THEOREM TypeCorrect == Spec => []TypeOK
  <1>1. Inv => TypeOK
    BY DEF Inv
  <1>. QED
    BY <1>1, InductiveInvariant, PTL

\* However the synchronizer, the refreshes, the cancellations and the
\* reconciliation commits interleave, the block a cache entry is labelled
\* with is one at which the pool really had the cached state.
THEOREM LabelsTellTheTruth == Spec => []LabelSound
  <1>1. Inv => LabelSound
    <2> SUFFICES ASSUME Inv, NEW p \in cached
                 PROVE  upd[p] <= head /\ val[p] = hist[p][upd[p]]
      BY DEF LabelSound
    <2>1. /\ upd[p] <= readAt[p] /\ readAt[p] <= stateBlock /\ stateBlock <= head
          /\ val[p] = hist[p][upd[p]]
      BY DEF Inv, IndInv, CacheSound, BlocksBounded
    <2>2. upd[p] \in Nat /\ readAt[p] \in Nat /\ stateBlock \in Nat /\ head \in Nat
      BY NumbersAssumption DEF Inv, TypeOK, BlockMap
    <2>. QED
      BY <2>1, <2>2
  <1>. QED
    BY <1>1, InductiveInvariant, PTL

\* A fetched change of a pool that does not return to an earlier state is
\* never lost except to an acknowledgement pinned before it.
THEOREM ChangesAreNotLost == Spec => []NoSilentLoss
  <1>1. Inv => NoSilentLoss
    BY DEF Inv, IndInv
  <1>. QED
    BY <1>1, InductiveInvariant, PTL

\* The log scanner never moves its checkpoint over a block whose logs it did
\* not fetch, for any chunk size, chunk budget and pattern of failures.
THEOREM NoBlockIsSkipped == Spec => []NoBlockSkipped
  <1>1. Inv => NoBlockSkipped
    BY DEF Inv, IndInv
  <1>. QED
    BY <1>1, InductiveInvariant, PTL

-----------------------------------------------------------------------------
(* What a cycle evaluates.                                                 *)

\* The cached state of p holds every change reported up to the snapshot.
UpToDate(p) ==
    \A b \in touched[p] \cap covered[p] \cap 1..reportedTo :
        b <= readAt[p] \/ hist[p][b] = val[p] \/ b \in outrun[p]

\* A cached pool is in the snapshot, later among the unresolved ones, or up to
\* date.
SnapshotInv ==
    /\ reportedTo <= scan /\ (pc = "refresh" => reportedTo <= stateBlock)
    /\ pc = "refresh" => \A p \in cached : Reverted(p) \/ p \in synced \/ UpToDate(p)
    /\ pc = "evaluate" => \A p \in cached : Reverted(p) \/ p \in unresolved \/ UpToDate(p)

\* A block is added, or more blocks are scanned.
LEMMA SnapshotNewBlock ==
    ASSUME Inv, SnapshotInv, NEW S \in Bursts, NEW v \in Values, NewBlock(S, v)
    PROVE  SnapshotInv'
  <1>1. /\ head' = head + 1 /\ head \in Nat
        /\ \A p \in Pools : \A b \in 0..head : hist'[p][b] = hist[p][b]
        /\ \A p \in Pools : touched'[p] \subseteq touched[p] \cup {head + 1}
        /\ \A p \in Pools : Reverted(p) => Reverted(p)'
    BY NewBlockKeeps DEF Inv
  <1>2. /\ UNCHANGED <<cacheVars, scan, syncVars, pc, outrun>>
        /\ UNCHANGED <<stateBlock, synced, unresolved, reportedTo>>
    BY DEF NewBlock, cycleVars
  <1>3. ASSUME NEW p \in Pools, UpToDate(p)
        PROVE  UpToDate(p)'
    <2> SUFFICES ASSUME NEW b \in touched'[p] \cap covered'[p] \cap 1..reportedTo'
                 PROVE  b <= readAt'[p] \/ hist'[p][b] = val'[p] \/ b \in outrun'[p]
      BY DEF UpToDate
    <2>1. covered'[p] = covered[p] /\ covered[p] \subseteq 1..head /\ reportedTo' = reportedTo
      BY <1>2 DEF syncVars, Inv, IndInv, BlocksBounded
    <2>2. b \in 1..head /\ b # head + 1
      BY <2>1, <1>1
    <2>3. b \in touched[p] \cap covered[p] \cap 1..reportedTo
      BY <2>1, <2>2, <1>1
    <2>4. b <= readAt[p] \/ hist[p][b] = val[p] \/ b \in outrun[p]
      BY <2>3, <1>3 DEF UpToDate
    <2>. QED
      BY <2>2, <2>4, <1>1, <1>2 DEF cacheVars
  <1>. QED
    BY <1>1, <1>2, <1>3 DEF SnapshotInv, cacheVars, Inv, TypeOK

LEMMA SnapshotSync ==
    ASSUME Inv, SnapshotInv, Sync
    PROVE  SnapshotInv'
  <1>1. /\ UNCHANGED <<chainVars, cacheVars, pc, outrun>>
        /\ UNCHANGED <<stateBlock, synced, unresolved, reportedTo>>
    BY DEF Sync, SyncBegin, SyncEnd, cycleVars
  <1>2. scan <= scan' /\ scan \in Nat /\ scan' \in Int
    <2>1. CASE SyncBegin
      <3>1. ScanStart \in 1..head /\ scan \in Nat
        BY <2>1, ScanStartType, NumbersAssumption DEF SyncBegin, Inv, IndInv, TypeOK
      <3>. QED
        BY <3>1, <2>1 DEF SyncBegin, ScanStart
    <2>2. CASE \E k \in 0..MaxChunks : SyncEnd(k)
      <3> PICK k \in 0..MaxChunks : SyncEnd(k)
        BY <2>2
      <3>1. Checkpoint(k) \in scan..syncTo /\ scan \in 0..MaxBlock /\ syncTo \in 0..MaxBlock
        BY CheckpointType DEF SyncEnd, Inv, IndInv
      <3>2. scan' = Upper(scan, Checkpoint(k))
        BY DEF SyncEnd
      <3>. QED
        BY <3>1, <3>2, NumbersAssumption DEF Upper
    <2>. QED
      BY <2>1, <2>2 DEF Sync
  <1>3. reportedTo \in Nat /\ reportedTo <= scan
    BY NumbersAssumption DEF SnapshotInv, Inv, TypeOK
  <1>4. ASSUME NEW p \in Pools
        PROVE  covered'[p] \cap 1..reportedTo \subseteq covered[p]
    <2>1. CASE SyncBegin
      BY <2>1 DEF SyncBegin
    <2>2. CASE \E k \in 0..MaxChunks : SyncEnd(k)
      <3> PICK k \in 0..MaxChunks : SyncEnd(k)
        BY <2>2
      <3> DEFINE e == Lower(syncTo, scan + k * ChunkSize)
      <3>1. covered'[p] \subseteq covered[p] \cup ((scan + 1)..e)
        BY DEF SyncEnd
      <3>2. e \in Int
        BY CheckpointType, NumbersAssumption DEF SyncEnd, Inv, IndInv
      <3> HIDE DEF e
      <3>3. ((scan + 1)..e) \cap 1..reportedTo = {}
        BY <3>2, <1>2, <1>3
      <3>. QED
        BY <3>1, <3>3
    <2>. QED
      BY <2>1, <2>2 DEF Sync
  <1>5. ASSUME NEW p \in Pools, UpToDate(p)
        PROVE  UpToDate(p)'
    BY <1>1, <1>4, <1>5 DEF UpToDate, chainVars, cacheVars
  <1>6. \A p \in Pools : Reverted(p)' <=> Reverted(p)
    BY <1>1 DEF Reverted, chainVars
  <1>7. cached \subseteq Pools /\ cached' = cached
    BY <1>1 DEF Inv, TypeOK, cacheVars
  <1>. QED
    BY <1>1, <1>2, <1>3, <1>5, <1>6, <1>7 DEF SnapshotInv

\* Steps that touch neither the cache, the logs nor the cycle.
LEMMA SnapshotFrame ==
    ASSUME SnapshotInv, UNCHANGED <<chainVars, cacheVars, scan, syncVars, pc, cycleVars, outrun>>
    PROVE  SnapshotInv'
  BY DEF SnapshotInv, UpToDate, Reverted, chainVars, cacheVars, syncVars, cycleVars

\* What is not in the snapshot is up to date, by NoSilentLoss.
LEMMA SnapshotTaken ==
    ASSUME Inv, SnapshotInv, NEW h \in HopSettings, CycleRefresh(h)
    PROVE  SnapshotInv'
  <1>1. /\ UNCHANGED <<chainVars, cacheVars, scan, syncVars, outrun>>
        /\ pc' = "refresh" /\ reportedTo' = scan /\ synced' = pending /\ stateBlock' = head
    BY DEF CycleRefresh, BeginCycle
  <1>2. scan <= head /\ scan \in Nat
    BY NumbersAssumption DEF Inv, IndInv, BlocksBounded, TypeOK
  <1>3. ASSUME NEW p \in cached, ~Reverted(p), p \notin pending
        PROVE  UpToDate(p)'
    BY <1>1, <1>3 DEF Inv, IndInv, NoSilentLoss, UpToDate, chainVars, cacheVars, syncVars
  <1>4. \A p \in cached : Reverted(p)' <=> Reverted(p)
    BY <1>1 DEF Reverted, chainVars
  <1>. QED
    BY <1>1, <1>2, <1>3, <1>4 DEF SnapshotInv, cacheVars

\* What was read is up to date, what was not is unresolved.
LEMMA SnapshotRefreshed ==
    ASSUME Inv, SnapshotInv, NEW failed \in SUBSET Attempted, RefreshDone(failed)
    PROVE  SnapshotInv'
  <1> DEFINE done == Attempted \ failed
  <1>1. /\ done \in SUBSET cached /\ RefreshPools(done) /\ unresolved' = failed
        /\ UNCHANGED <<chainVars, scan, syncVars, stateBlock, reportedTo>>
        /\ pc = "refresh" /\ pc' = "evaluate"
    BY DEF RefreshDone, Attempted
  <1>2. \A p \in Pools \ done : outrun'[p] = outrun[p]
    BY DEF RefreshDone
  <1>3. \A p \in synced \cap cached : p \in done \/ p \in failed
    BY DEF Attempted
  <1> HIDE DEF done
  <1>4. /\ cached' = cached
        /\ \A p \in done : readAt'[p] = stateBlock
        /\ \A p \in cached \ done : readAt'[p] = readAt[p] /\ val'[p] = val[p]
    BY <1>1, RefreshPoolsSound DEF Inv
  <1>5. reportedTo <= stateBlock /\ reportedTo \in Nat /\ stateBlock \in Nat
    BY <1>1, NumbersAssumption DEF SnapshotInv, Inv, TypeOK
  <1>6. ASSUME NEW p \in done
        PROVE  UpToDate(p)'
    BY <1>1, <1>4, <1>5, <1>6 DEF UpToDate
  <1>7. ASSUME NEW p \in cached \ done, UpToDate(p)
        PROVE  UpToDate(p)'
    BY <1>1, <1>2, <1>4, <1>7 DEF UpToDate, chainVars, syncVars, Inv, TypeOK
  <1>8. \A p \in cached : Reverted(p)' <=> Reverted(p)
    BY <1>1 DEF Reverted, chainVars
  <1>9. ASSUME NEW p \in cached, ~Reverted(p), p \notin failed
        PROVE  UpToDate(p)'
    BY <1>1, <1>3, <1>6, <1>7, <1>9 DEF SnapshotInv
  <1>. QED
    BY <1>1, <1>4, <1>8, <1>9 DEF SnapshotInv

LEMMA SnapshotStep ==
    ASSUME Inv, SnapshotInv, [Next]_vars
    PROVE  SnapshotInv'
  <1>1. ASSUME pc' \notin {"refresh", "evaluate"}, UNCHANGED <<scan, reportedTo>>
        PROVE  SnapshotInv'
    BY <1>1 DEF SnapshotInv
  <1>2. CASE UNCHANGED vars
    BY <1>2, SnapshotFrame DEF vars
  <1>3. CASE Sync
    BY <1>3, SnapshotSync
  <1>4. CASE Environment
    BY <1>4, SnapshotNewBlock, SnapshotFrame DEF Environment, MineBlock, QueueLiveMarket, LaterBlock
  <1>5. CASE StartupBatch \/ BackgroundBatch \/ Evaluate \/ CommitCycle
    BY <1>1, <1>5 DEF StartupBatch, BackgroundBatch, Evaluate, CycleCancelled, CommitCycle, cycleVars
  <1>6. CASE \E h \in HopSettings : CycleStartup(h) \/ CycleDeferred(h)
    BY <1>1, <1>6 DEF CycleStartup, CycleDeferred, BeginCycle
  <1>7. CASE \E h \in HopSettings : CycleRefresh(h)
    BY <1>7, SnapshotTaken
  <1>8. CASE \E failed \in SUBSET Attempted : RefreshDone(failed)
    BY <1>8, SnapshotRefreshed
  <1>9. CASE \E done \in SUBSET Attempted : RefreshCancelled(done)
    BY <1>1, <1>9 DEF RefreshCancelled, CycleCancelled
  <1>. QED
    BY <1>2, <1>3, <1>4, <1>5, <1>6, <1>7, <1>8, <1>9 DEF Next, Cycle

\* A cycle evaluates routes only from pool states that hold every change that
\* the synchronizer had reported when the cycle began its refresh, whatever
\* this refresh left unread and earlier cycles left pending; outrun changes and
\* pools that return to an earlier state are the exceptions.
THEOREM RoutesAreUpToDate == Spec => []EvaluatedUpToDate
  <1>1. Init => SnapshotInv
    BY DEF Init, SnapshotInv
  <1>2. Inv /\ SnapshotInv /\ [Next]_vars => SnapshotInv'
    BY SnapshotStep
  <1>3. SnapshotInv => EvaluatedUpToDate
    <2> SUFFICES ASSUME SnapshotInv, pc = "evaluate", NEW r \in Evaluated, NEW p \in r, ~Reverted(p)
                 PROVE  UpToDate(p)
      BY DEF EvaluatedUpToDate, UpToDate
    <2>1. p \in cached /\ p \notin unresolved
      BY DEF Evaluated, RoutesWithoutPools, AffectedRoutes
    <2>. QED
      BY <2>1 DEF SnapshotInv
  <1>. QED
    BY <1>1, <1>2, <1>3, InductiveInvariant, PTL DEF Spec
=============================================================================
