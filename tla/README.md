# TitanArb engine: TLA+ models, checks and proofs

TitanArb is an arbitrage engine for Arbitrum. The Go service under `go/` listens
for chain heads, keeps a cache of Uniswap V3 and Camelot V3 pool states current,
prices closed routes through those pools, and hands profitable candidates to an
execution pipeline that checks, simulates, signs and broadcasts a flash-loan
transaction. This directory models the concurrent and failure-prone core of that
service, checks it with TLC on small instances, and proves the main safety
results with TLAPS for every value of the parameters.

`PROJECT.json` lists, per definition, the source lines it models; the runs with
their properties; for each property a defect of the code that would break it;
the hazards; and the theorems.

## 1. Inventory

### Goroutines and how they interact

```
 websocket session loop --> reader goroutine(s) --> events channel (16)
                                                        |
 poll ticker (HTTP fallback) -------------> select loop of main
                                                        | Submit
                                             scheduler.Latest (one slot)
                                                        | Run
     market state synchronizer  <--cache, pendingDirty-->  decision cycle
        (log scanner, 1 s)           dirtyScanBlock             |
                                                                | candidates
     forced trade (once) ----------------------------> execution pipeline
                                   shared NonceManager          |
                                                          RPC client --> node

     decision cycle --snapshots, evaluations--> shadow decision service (1 min)
     synchronizer   --pools, swaps-----------> pair intelligence --> staged market
```

### Components

| Component | State | Operations | What is hard | Correct when |
|---|---|---|---|---|
| Latest-head scheduler (`scheduler/latest.go`) | atomic `latest`, one `pending` slot, `wake` channel of one place, `coalesced` | `Submit`, `Run`, `take` | Submit's three steps interleave with Run | newest head is kept and always handled; no wake-up lost |
| WebSocket client (`websocket/client.go`) | endpoints with cooldowns, `active`, `connected`, `lastBlock` | `Start`, `read`, `currentEndpoint`, `markFailed`, `markSuccess` | a lost session's reader overlaps its successor; bounded channel | no head twice; fallback takes over |
| Select loop (`cmd/titanarb/main.go`) | `fallbackActive` | heads, poll ticker, health, metrics | fallback and websocket race | heads reach the scheduler |
| Market engine (`market/engine.go`) | pool cache, `pendingDirty`, `dirtyScanBlock`, `lastStateBlock`, route cache, reconciliation checkpoint, staged market | `advanceMarketStateSync`, `CycleAtWithSearchOptions`, `refreshKnownDirty`, `ackPendingDirty`, `startReconciliation`, `advanceReconciliationBatchWithin`, `QueueLiveMarket` | scanner and cycle share state; chunks, pools and units fail one by one; cycles are cancelled | no change is lost; labels are true; no block is skipped; work drains |
| Pool cache, discovery (`cache`, `pools`) | address to pool with `LastUpdatedBlock` | `Put`, `Replace`, `RefreshPoolAt`, `ChangedPoolAddressesAtWithStats` | old answers over new ones | entry is the newest read |
| Execution pipeline (`execution/pipeline.go`) | per trade only | `ProcessWithObserver` | every external call may fail or lose its reply | sent only when every flag allows; booked truthfully |
| Wallet (`wallet/wallet.go`) | `next` nonce | `Next`, `Release` | two goroutines; lagging pending counts; ambiguous broadcast | no nonce held twice or reused once acknowledged; no gap |
| Forced trade (`main.go`) | marker file | `runForcedTrade`, `consumeForcedTrade` | crash and restart | at most one send |
| RPC client (`rpc/client.go`) | per-provider cooldown, probation, failures, latency, requests; budgets, limiters | `Call`, `callOnceNoFailover`, `chooseReadProvider`, `recordFailure`, `failover` | concurrent callers, time | a usable provider is used; one send per broadcast |
| Opportunity engine (`opportunity/engine.go`) | quote cache with in-flight entries, budget, premium and cost flights | `quote`, `Evaluate`, `PrepareQuoteCache`, `aavePremiumBPS` | single flight with cancelled leaders, beside the forced trade | nobody waits for ever; the cache never answers with a quote sent before the asker's pool state |
| Evaluation of a cycle (`market/engine.go`, `nearmiss`, `optimizer`) | route memory, near misses, budgets | `evaluate`, `selectEvaluationCandidates`, sizing | rounding of shares, slots and samples | budgets hold; exploration keeps its slots; the best size priced is taken |
| Pair intelligence (`pairintel/`) | pairs, venues, tokens, checkpoints, snapshot file | `scanOnce`, `ObservePool`, `RecordDepth`, `SelectShadow`, `SelectLive`, `Save`, `Load` | failing requests, restarts, full memory, busy market | limits, cooldowns and grace hold; no pool skipped |
| Decision service (`decision/`) | mailbox, histories, round | `Offer`, `Observe`, `Run`, `Select`, `probe` | race of Offer and Run; starvation | newest snapshot survives; routes and assets get their turn |
| Routes, graph, search | none | pure algorithms | boundaries | equal to an exhaustive definition |
| Universe | staged universes | scan, promotion | restart | reload what was saved |
| Runtime config, Telegram control, operations | settings file, bounded queues | commands, publish, retry | concurrent commands, full queues | no critical alert lost silently |
| Contracts (`contracts/`) | owner, allow-lists, lock | `executeArbitrage`, flash-loan callback | callback protocol | loan repaid or revert; only via own loan |
| Python bot (`bot/`) | nonce, provider index | polling loop | RPC failover | as above, single-threaded |

The hard behaviours, each with its line and the properties that would notice it
going wrong, are the `hazards` of `PROJECT.json`.

## 2. Modules

### MarketSync (`market/engine.go`, with the cache and the pool discoverer)

Two processes and an environment. A pool's price and liquidity are one abstract
value; `hist[p][b]` is that value at the end of block `b` and `touched[p]` the
blocks in which the pool emitted a log. All reads of the engine are pinned to a
block, so their results are a function of `hist`.

* Synchronizer: `SyncBegin` (choice of range and of the address list) and
  `SyncEnd(k)` (`k` chunks of the range succeeded, merge under `syncMu`). Between
  the two the log query is in flight and everything else may happen.
* Decision cycle: `CycleStartup`, `CycleDeferred` or `CycleRefresh` (which
  snapshots `pendingDirty`), then `RefreshDone`, `Evaluate`, `BackgroundBatch`
  and `CommitCycle`. `CycleCancelled` is the end of the cycle's context during its
  refresh or its evaluation, at any time: the time limit of `main.go` passed or
  newer heads superseded it.
* Reconciliation: `StartReconciliation` inside `BeginCycle`; `ReconcileBatch`
  picks the units that succeed and fail and commits with
  `CommitReconciliation` when none is left.
* Environment: `NewBlock`, `QueueLiveMarket`, and `LaterBlock`, the heads after
  `MaxBlock`: they bring no new block number, but their logs make pools dirty
  again for ever, so the traffic of a live chain does not end with the bound.

The history variables `readAt`, `covered`, `watchFrom`, `outrun` and `reportedTo`
are read by properties only.

### ExecutionPipeline (`execution/pipeline.go`, `wallet`, `tx`, forced trade)

`pc[t]` is the stage of goroutine `t`: the gates in source order, then `nonce`,
`gas`, `send`, `wire` (request in flight) and `receipt`. `Deliver` is the moment
the node gets the transaction, `BroadcastAcknowledged` and `BroadcastFailed` are
what the caller sees, so a reply may be lost after the delivery. `PendingCounts`
is what a provider may answer to a pending nonce query: it may lag. `Crash`
resets the process, which finds new flags and has seen no head, and keeps the
chain, the ledger and the marker file. Writes to the ledger may fail, as the code ignores their error.

### HeadFeed, LatestScheduler, HeadStream

`HeadFeed` is the abstract promise to the market cycle: heads are observed in
increasing order, and the handler is started on strictly newer heads only. `LatestScheduler` splits
`Submit` at its atomic accesses (compare-and-swap, store under the mutex, token)
against `Run`. It is shown to implement `HeadFeed`. `HeadStream` extends it with
the websocket client, its readers and the select loop, and inherits the promise.

### RpcClient (`rpc/client.go`)

`pc[c]` is where caller `c` stands in `Call`: `admit` (minute budgets), `choose`
or `send` (provider of a read, of a broadcast), `waiting` (cooldown), `flight`,
`failover`. Deadlines are the ticks left until they pass, a tick being the
shortest cooldown. An answer is success, the caller's own error, an ordinary
failure, a rate limit or an exhausted quota, and every call may be abandoned.
`RecordSuccess` and `RecordFailure` move cooldown, probation and streaks;
latency and load only order providers of one tier, and the order is left open.

### QuoteEngine (`opportunity/engine.go`, evaluation goroutines, forced trade)

An evaluation walks its route hop by hop, then asks for the premium and the
cost. `Ask` finds a finished entry, follows a request under way or leads one,
`Land` is the leader's answer, `Receive` what an asker does with it. A pool state
is a number and an amount is the path of quotes before it. A quote is an
`eth_call` at latest, so `Land` answers from any state up to the chain's: the
provider may lag behind the one that read the pool. `sent` is history, the state
of the chain when the request went out. `Prepare` and `SetQuoteBudget` begin a cycle in two
steps, as the code does, with the forced trade running between them; `Cancel` is
supersession by a newer head, `Crash` a restart that keeps the marker.

### RouteEvaluation (`market/engine.go` evaluate, `nearmiss`, `optimizer`)

One cycle: `BeginCycle` marks the affected routes, `SelectAsset` selects and
bounds the routes of one asset after another, `EvaluateRoute` is an answer of
the pool of goroutines, then the optimizer takes the promising routes in turn
(probe, refinement around its best). Scores are integers. What averages and
volatility add is any member of `Learned`. A sort and a cut in the code is
`First`: the sets of the right size whose members come before all others in the
code's order, one set if the order is total. What fits the quotes (`Bound`) is
the set its loop ends with: a route is taken exactly when it fits after those
taken before it, and its cost is the number of its hops. `HandedOut` lets a
cancellation stop the optimizer's samples at any point.

### PairMemory and PairScan (`pairintel/`)

`PairMemory` has the pairs with their state, venues, cooldown and grace
counter, and an action per operation: tokens, pools, depth probes, the shadow and
the live selection with its save, the save at shutdown, the clock, a restart. A
swap only moves a score, which is drawn anew whenever it is used, and is no
action. `saved` is the state file: every save may fail, as the code ignores its
error, and `Restart` reads the last file that was written or starts empty when it
cannot be read. `resting` and `unfit` are history: the rest a pair owes since it
was last cooled, and the selections it failed. A crash takes them back to the
moment of the file, because what no file knows of is not remembered. A selection is the set its greedy loop
ends with: a candidate is in it exactly when there was room after the better
ones in it (`Choices`, `LiveSets`). `PairScan` has the factory scan request by
request, the pools of the hot path, the save tick and the snapshot file; every
request waits for an idle market. `rejected` and `since`, the first block of the
first scan that reached its checkpoint, are history: a later warm-up from a stale
observed head reads older blocks again and must not count them as covered.

### ShadowDecision (`decision/`)

`Offer` is split at its channel operations against `Run`. An analysis ranks the
candidates in any order and selects with exploration and rotation. `Select` is
stated by what its loop does to each candidate: it is added when the proposals
and the quota of its asset have place after the earlier ones added. The probe
reads hop by hop, may fail, yield or run out of its minute's reads. `passed` and
`skipped` count for how long a route or an asset has been left out: `passed` the
explorations that ended in a probe, `skipped` the analyses in a row in which every
asset had candidates.

The modules `MC...` hold the constants for TLC. `HeadStream` needs numbers only
and is run directly. The modules meet at these points: `QueueLiveMarket` of
MarketSync is what `SelectLive` of PairMemory stages, `Evaluate` of MarketSync
is RouteEvaluation, whose answers QuoteEngine prices, and the forced trade that
ends QuoteEngine's part is the forced thread of ExecutionPipeline.

In every module a definition `X_variant` placed before `X` is a plausible defect
of `X`. No action uses one.

## 3. Runs

| Run | Question | Bounds | Result |
|---|---|---|---|
| `market_safety` | All interleavings of scanner, cycle and chain, with universe changes that restart reconciliations and drop pools: are labels true, is no change lost and no block skipped? | 2 pools, 1 route, 3 blocks, chunks of 1 block, 2 per tick, batches of 2 | pass |
| `market_live` | Do scan, pending set and reconciliation make progress once RPC failures stop, with cancellations and dirty pools without end? | 2 pools, 1 route, 3 blocks and endless later ones, chunks of 1 block, 2 per tick | pass |
| `execution_safety` | Nonces, forced trade, ledger and flags across a crash and a restart with other flags, with drops and lost replies | 2 goroutines, 3 trades, 1 crash, every flag off in turn | pass |
| `execution_single` | With one goroutine: no nonce hole, and every trade leaves the pipeline | 3 trades, 3 heads, 1 crash | pass |
| `execution_stale` | Is a stale candidate kept from broadcast? | 1 trade, 3 heads | violated |
| `stream_feed` | Overlapping readers, failover, polls; `HeadFeed`; does the newest head reach the handler? | 2 heads, 2 endpoints, 1 place, 2 sessions | pass |
| `rpc` | Do reads avoid unfit providers, does a broadcast go out once and to the primary, do the budgets hold? | 2 callers, 2 providers, 1 retry, 3 calls | pass |
| `quote` | Is nobody stranded, was every quote sent after its pool's state was read, does the cycle end? | 1 worker and the forced trade, 2 pools, 2 states, 2 cycles, 1 crash | pass |
| `evaluation` | Do budgets, slots and bounds hold, and is the best size taken? | 5 routes, 3 assets, 3 option sets, 1 profit curve, 2 cycles | pass |
| `pairs` | Do limits, cooldowns and grace windows hold through failed saves and restarts? | 2 pairs, 2 scores, cooldown longer than the observation time, 2 grace windows, restarts at any time | pass |
| `scan` | Is every pool below a checkpoint accounted for, and every new pool seen? | 2 pools, 3 blocks, chunks of 1, 1 crash | pass |
| `shadow` | Does the newest snapshot survive, is nobody starved? | 3 routes, 3 assets, 2 slots, 5 rounds, 1 restart | pass |

Why the bounds are enough to see the cases: the market properties relate one
pool to its own history, so one pool that moves and one that does not show every
ordering. Three blocks hold a change before, during and after a query or
a reconciliation, and two values hold a change and its reversal. Two goroutines and three
trades hold a failed, an acknowledged and a later trade. Two sessions are one
overlap, and an event channel of one place is full while a reader holds the next
head. Two RPC callers with one retry show a provider failing under a call that
another caller prolongs; the budgets are one call, so the second meets them. The
worker and the forced trade are a leader and a follower, and two states let a
pool change between their reads. Three assets make the shares round; the option
sets differ in what runs out first, samples or quotes, and the third turns
ranking and adaptive sizing off. The curve loses at both ends and has a peak
between them, and a reserve of one makes the range of loans empty. Two pairs
compete for one shadow place and one dynamic token. Both fit in the memory:
dropping a record is reached through an unreadable file, and dropping from a full
memory, which a third pair would need, is left to the proofs. The scan meets a
failing chunk, a warm-up and a restart with one crash. Five rounds see the
rotation of three assets come round and go on.

Deadlock checking is on for the stream, the RPC client, the pair memory and the
scan. It is off where the bounded chain, candidates, cycles or rounds may simply
be used up.

### Fairness

* Market: the synchronizer's ticker, the scheduler goroutine and the chain keep
  going. RPC answers are not assumed fair: the liveness properties have the
  premise `RpcRecovers`, that failures end at some point. Cancellation and new
  dirty pools never have to end, and the properties say what they need of them.
  `ScanCatchesUp` needs nothing: every block is reached. `PendingDrains` has the
  premise `RefreshesComplete`: refreshes that begin for ever are not all
  cancelled. `ReconciliationEnds` has the premise `QuietCyclesRecur`: cycles with
  nothing dirty recur and complete. The code guarantees neither. A node slower
  than the time limit, or trading in every block, starves the work, and the
  properties say that nothing else does.
* Execution: the Go runtime runs both goroutines and every HTTP call ends (the
  client has a timeout), so stages make progress. The market trade's receipt
  wait ends because `main.go` gives it a 45 s deadline. The forced trade has no
  deadline and `MarketTradeEnds` does not speak about it.
* Stream: goroutines run; a live subscription delivers the newest head; a
  provider that is polled again and again answers with it at some point; Go's
  `select` starves neither the channel nor the ticker (strong fairness). A
  subscription that is connected and silent is excluded. The code has no remedy
  for one either, see the hazards.
* Quotes: goroutines run and requests return, with an answer or an error,
  because the HTTP client has a timeout. The end of a cycle's context is not
  assumed.
* Scan: cycles end, the tickers fire and the market keeps reporting blocks
  (weak); the limiter polls until the market is idle for a moment, and a request
  for logs that is repeated for ever sometimes succeeds (strong).

### Disagreements between the code and its documents

`execution_stale` is kept as a violated run: freshness is checked once at entry,
so heads that arrive during the gates are not noticed and a candidate that
became stale is broadcast, although the comment on the latest-block source says
it is kept from broadcast.

The models show five more, which no run records. In each case the property that
holds is checked instead.

* `engine.go:1182` says the cache entry of a failed discovery unit is preserved.
  The commit replaces the cache by what was discovered, so the entry is gone
  until a later reconciliation.
* `engine.go:1183` says one unavailable pair must not block checkpoint progress.
  A log query in flight while a commit drops a pool reports that pool as dirty
  afterwards, nothing acknowledges it and background reconciliation never runs
  again. So does a market that is dirty in every cycle. `ReconciliationEnds` takes
  quiet cycles as a premise.
* `wallet.go:1` promises thread-safe reservation. When the market trade reserves
  `n`, the forced trade `n+1` and the market trade fails, `n` is never sent.
  `NoNonceHole` is checked and proved for one goroutine. And when the reply to a
  broadcast is lost, the nonce is given back (`pipeline.go:236`) although the node
  has the transaction, so the next trade may sign with it and replace a live
  transaction. `NonceExclusive` therefore speaks only of nonces held at the same
  time and of acknowledged ones.
* The WSS remediation document says older heads are dropped. The check of
  `lastBlock` is under the mutex and the send is not, so an old session's reader
  can emit an older head; the scheduler drops it, as `ImplementsFeed` shows.
* `pairintel/service.go:169` says no pool event after activation is lost. A pool
  is marked as seen before it is validated, so one failed request rejects it for
  good. `PoolsAccounted` counts it as rejected.

## 4. Proofs

Every property that a passing run checks without fairness is a theorem for all
values of the constants.
The assumptions are the named `ASSUME`s on the constants (finite sets, bounds
that are not zero, routes and markets made of known pools), which TLC evaluates
on every run, and the hypotheses stated in three theorems, `NoHoleAlone`,
`QuotesAreFresh` and `NoRouteStarves`. Each inductive invariant was checked by
TLC on the instance of the module's run before it was proved.

* `MarketSyncProofs`. `InductiveInvariant` proves `TypeOK /\ IndInv`. `IndInv`
  strengthens the goals by what the argument needs: all block numbers held by
  the engine are at most `head` (`BlocksBounded`); a reconciliation entry and a
  cache entry carry the state the pool had at their block (`CheckpointSound`,
  `CacheSound`), and an entry's state has not changed between its label and the
  block it was really read at; only blocks up to the scan watermark count as
  fetched (`FetchedBounded`); a checkpoint read at or after a fetched change
  holds it (`CheckpointCurrent`); before the first scan nothing is listed
  (`FirstScan`). From it follow `LabelsTellTheTruth`, `ChangesAreNotLost` and
  `NoBlockIsSkipped`. `RoutesAreUpToDate` adds that whatever was reported before
  the cycle's snapshot of `pendingDirty` is in the cache, was read or is still to
  be refreshed by this cycle (`SnapshotInv`), so that the routes left after the
  unresolved pools are taken out cross no pool known to be old, also when earlier
  cycles were cancelled half-way. The delicate
  step is the commit (`MergeLosesNothing`): it
  compares labels, not reads, and an unchanged re-read does not advance the
  label. That is harmless unless the pool returned to an earlier state, which is
  why `NoSilentLoss` exempts such a pool.
* `ExecutionPipelineProofs`. `NonceInv` orders every held and acknowledged nonce
  below `next` and keeps the held ones apart, which gives `NoncesAreExclusive`
  for any number of goroutines. `ForcedInv` ties the number of sends to the
  marker and the stage of the forced goroutine: `ForcedTradeOnce` over any
  number of crashes. `LedgerInv` says trade identities are unique to a goroutine
  and a terminal entry belongs to a trade that left the pipeline:
  `SuccessesAreExecuted`. `BroadcastNeedsEveryFlag` is inductive by itself
  (`FlagsAreObeyed`). `NoHoleAlone` proves `NoNonceHole` under the
  hypothesis that one goroutine uses the wallet and the node drops nothing.
* `NodeAccessProofs`, the proofs about the two clients of the node. For the head
  stream, `SchedulerInv` locates the newest accepted head (in
  Submit's hand, in the slot, or with the handler) and the token. From it follow
  `NoWakeupLost`, `NewestIsKept`, `CoalescedIsExact` and the step simulation
  `SchedulerImplementsFeed`. `StreamInv` says heads in readers' hands and in the
  channel are pairwise different and at most `lastBlock`: `NoHeadTwice`.
  `StreamDrivesScheduler` shows every step is a scheduler step or a stutter, so
  the scheduler's theorems carry over (`StreamImplementsFeed`,
  `StreamKeepsNewest`).
  For the RPC client, `OnceInv` says that a single-shot call never enters the
  retry loop and has sent nothing before it is in flight, and that a returning
  call resets its request: `OnceHolds` (`BroadcastOnce`). `PerCaller` and
  `OwnChoice` show that a call reaches `waiting` only by its own choice of a
  provider. What that choice returns is then a fact about the pool alone
  (`ReadChoiceFits`, `SendTakesPrimary`), which gives `ReadsAvoid` and
  `PrefersPrimary` for every pool. `ClientTypes` proves `TypeOK` with its limits
  (minute budgets, longest cooldown, requests per call) from `TypeInv`, which
  adds that a budget lists its calls in the order of their times (`Ordered`), so
  that those that left the minute are the prefix `Allow` drops (`Ageing`), and
  that a call has sent at most one request per attempt (`SendsCounted`).
  `DoublingAssumption` states that `2^k` grows with `k`, which the provers do not
  know; TLC evaluates it.
* `QuoteEngineProofs`. `FollowInv` says that every entry under way, in the quote
  cache or shared, has a leader that still waits for exactly that answer
  (`CacheLed`, `SharedLed`). A leader leaves only through `Land`, which answers
  its followers in the same step, and a follower keeps its entry when
  `PrepareQuoteCache` drops it from the map: `NobodyStranded`. `FreshInv` bounds
  what every party has read of a pool by the chain's state, and from below the
  moment a quote of a given key was sent (`SentFresh`, `CacheFresh`):
  `QuotesAreFresh`. It is about the cache, not the answer: a lagging provider may
  still answer from an older state, as
  `TITANARB_PHASE2_DECISION_ARCHITECTURE.md:25` warns. Its
  hypothesis `Persistent` (QUOTE_CACHE_ENABLED, on by default) is needed: with
  the cache switched off the key is the cycle's block alone, and TLC shows the
  forced trade, which reads its pools outside the cycle, being answered with a
  quote sent before its read.
* `PairMemoryProofs`. The lemmas on the greedy choice show that the last
  candidate taken still had room, so the set taken obeys the limits; with the
  pairs kept in their grace this gives `LimitsHold`. `RestKnown` ties the
  rest really owed to what the memory knows: the pair is tracked with it, or was
  dropped, and then its observation time starts again, so what it owes is the
  shorter of the two. Nothing is assumed of their lengths:
  `PAIR_MIN_OBSERVATION_MINUTES` may be shorter than the cooldown. The file obeys
  the same invariant (`Sound` of both), so that a crash with an unsaved memory
  falls back to a sound one: `CooldownsServed`. `GraceKnown` equates the counter of an
  admitted pair with the selections it really failed: `NoStalePairLive` and the
  action property `GraceIsServed`.
* `PairScanProofs`. `MemoryGood` is the goal for one memory and holds of the
  process and of the file, so a crash at any point falls back to a good one.
  `RangeGood` says that a scan continues its checkpoint or stays below it,
  `FetchedGood` that the pools of the blocks fetched so far are tracked,
  rejected or still listed, `SeenGood` and `TokensGood` that a pool marked as
  seen is accounted for unless it is the one being validated. Together they give
  `CheckpointsAreSound`.
* `ShadowDecisionProofs`. `SnapshotInv` says that the snapshot of an Offer under
  way is the newest and that after the drain nobody else fills the channel:
  `NewestIsKept`. `SkippedInv` adds the turns an asset still has to wait to the
  analyses that skipped it, a sum that stays below the number of assets; it needs
  that the asset whose turn is first always gets a proposal
  (`FirstTurnProposed`), although the explored route comes before it:
  `NoAssetStarves`. `PassedInv` counts the explorations that passed over a route
  by the other routes that were sampled; an exploration passes over a route never
  sampled only for another never sampled: `NoRouteStarves`. Its hypothesis
  `RoutesFit`, that the sampling history (4096) has place for all routes, is
  needed because a full history forgets the smallest key. Neither bound says more
  than its counter: an unfunded route in the exploration slot is not counted, and
  an analysis in which some asset has no candidates starts the turns again.

* `RouteEvaluationProofs`. `Inv` accounts for everything a cycle may spend:
  initial quotes are spent or left (`QuotesInv`), samples of an adaptive cycle
  likewise, and a sizing that may go deep still has its samples (`SamplesInv`);
  runs, the routes queued for one and the routes waiting for one are together
  within the limit (`RunsInv`). With the lemmas on the operators these give
  `BudgetsKept`. The delicate ones: a share rounded up is no more than what is
  left (`ShareBound`); the set `Bound` leaves costs no more than its budget
  (`BoundCost`), because the last route it took, in an order that
  `SelectionOrder` shows to be one, fitted after all the others; and samples
  that coincide are never more than those asked for (`SamplesFacts`).
  `RankedFacts` counts the four parts of a selection, which are disjoint and
  together fill the limit: `SelectionKeepsMix`. `SizingInv` says that a sizing
  under way knows the best of what it priced: `SizedIsBest`. `MemoryInv` says
  that a route the cycle may still observe has been observed at most once in each
  cycle before, and that pruning follows every observation; `NearInv` bounds the
  near misses: `EvaluationTypes`.
  `FirstIsOne` and `BoundIsOne` show that the declarative `First` and `Bound` name
  exactly one set for every strict order (`SelectionOrder` is one), as the code's
  sorts and loop have one result; the argument takes the last element off a
  smallest set for which it would fail.

Model-checked only: everything under fairness (`ScanCatchesUp`, `PendingDrains`,
`ReconciliationEnds`, `MarketTradeEnds`, `HeadReachesHandler`,
`CycleEnds`, `PoolsEventuallySeen`), which TLAPS cannot treat here.

## 5. Abstractions and what is not modelled

* Chain: no reorganisations; a provider's answer to a pinned read is right or an
  error. Block numbers, nonces and trades stop at named bounds.
* Market: one discovery unit finds at most one pool; the order of units is free;
  the liquidity filter, the truncation to `maxRoutes` and the ranking of routes
  are left out, so `Routes` is every route the pools could form. `SyncBegin`
  reads the cache and the watermarks in one step; the code takes the locks one
  after the other, and only the synchronizer writes the watermark it reads. The
  path without a synchronizer (`incrementalRefresh`) is left out; production
  always starts one. A further trigger at `MaxBlock` stands for later heads, in
  which pools emit logs (`LaterBlock`) but keep their state. `BatchBlocks = 1` switches the deferral off where it
  would only stop the bounded chain from reaching the next refresh.
* Execution: the gates pass or reject; their arithmetic and ABI work is left
  out. The HTTP layer may send the same signed bytes again; this is counted as
  one delivery.
* Stream: the length of cooldowns and back-off is free; shutdown by context
  cancellation is left out. One goroutine submits, as in `main.go`.
* RPC: one request is one HTTP exchange; batches, limiter pacing and latency
  averages are left out, and `inflight` only orders providers of a tier.
* Quotes: the profit arithmetic is left out; an evaluation that has all its
  answers is profitable or not.
* Evaluation: fixed-point scores and big integers are small integers; a sizing
  follows one of the given profit curves.
* Pairs: scores, confidence and depth are verdicts drawn at each selection, so
  the properties hold whatever the statistics say. The snapshot file is written
  in one step or not at all, as the rename in `Save` makes it.
* Shadow decisions: scores are any order, and the report files are left out.
* Telemetry, logging and formatting everywhere.

`components` in `PROJECT.json` gives the reason for every part left out.

## 6. Plan

Done: MarketSync, ExecutionPipeline, HeadFeed, LatestScheduler, HeadStream,
RpcClient, QuoteEngine, RouteEvaluation, PairMemory, PairScan and ShadowDecision
with their runs and proofs. Next, in this order:

1. **Composition** of PairMemory with MarketSync through `QueueLiveMarket`, and
   the refresh path without a synchronizer.
2. **Universe**: scan, promotion and persisted state.
3. **Routes and graph**: operators against a reference definition over bounded
   inputs.
4. **Executor contract**: flash-loan protocol, allow-lists, repayment.
5. **Operations, Telegram, runtime configuration**: bounded queues and commands.
6. **Python bot**: provider failover and nonce handling.
