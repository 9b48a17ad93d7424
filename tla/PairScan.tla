------------------------------ MODULE PairScan ------------------------------
(***************************************************************************)
(* The background discovery of pools (go/internal/pairintel/service.go):   *)
(* the factory scan with its checkpoints, the pools reported by the market *)
(* hot path, and the snapshot file that a restart loads                    *)
(* (pairintel/memory.go: Save, Load).  Scoring, depth probes and selection *)
(* are in PairMemory; here a pool is tracked once it is observed.          *)
(*                                                                         *)
(* All requests share one paced limiter, which waits while the market is   *)
(* busy: every step that makes a request is guarded by ~busy.  The steps   *)
(* Save takes under its lock are one step, and a failed write leaves the   *)
(* old file.                                                               *)
(*                                                                         *)
(* X_variant just before X is a plausible defect of X; no action uses it.  *)
(***************************************************************************)
EXTENDS Integers, FiniteSets, Sequences

CONSTANTS
    Factories,       \* their order in the scan
    Pools, FactoryOf, BornAt, TokensOf,
    Configured,      \* tokens registered at start-up
    Unusable,        \* pools without liquidity
    Codeless,        \* tokens without code or usable decimals
    WarmupBlocks,    \* initialWarmupBlocks (128)
    SpanBlocks,      \* blocks of one scan (2000)
    ChunkBlocks,     \* blocks of one eth_getLogs (5)
    PoolEvents,      \* capacity of the channel (256)
    MaxBlock, MaxCrashes

FactorySet == {Factories[i] : i \in DOMAIN Factories}
Tokens == UNION {TokensOf[p] : p \in Pools}
\* Pools of the configured market; the hot path reads them.
MarketPools == {p \in Pools : TokensOf[p] \subseteq Configured}

ASSUME FactoriesAssumption ==
    /\ Factories \in Seq(FactorySet)
    /\ FactoryOf \in [Pools -> FactorySet] /\ IsFiniteSet(Pools)
ASSUME PoolsAssumption ==
    /\ BornAt \in [Pools -> 1..MaxBlock]
    /\ Unusable \subseteq Pools /\ Configured \intersect Codeless = {}
ASSUME LimitsAssumption ==
    /\ {WarmupBlocks, SpanBlocks, ChunkBlocks, PoolEvents, MaxBlock} \subseteq Nat \ {0}
    /\ MaxCrashes \in Nat

VARIABLES
    head,            \* of the chain
    observedHead,
    busy,            \* HotBusy
    memory, disk,    \* the pair memory, and the snapshot file
    seen,            \* seenPools
    poolEvents,
    scan,            \* scanOnce
    crashes
envVars == <<head, busy, crashes>>
vars == <<envVars, observedHead, memory, disk, seen, poolEvents, scan>>

Least(a, b) == IF a < b THEN a ELSE b
Greatest(a, b) == IF a > b THEN a ELSE b

\* NewMemory.  History, rolled back with the rest: the block that the first scan
\* with a checkpoint began at, and the pools that were rejected.
NewMemory ==
    [tokens |-> Configured, venues |-> {}, checkpoint |-> [f \in FactorySet |-> 0],
     since |-> [f \in FactorySet |-> 0], rejected |-> {}]
Idle == [pc |-> "idle"]

Init ==
    /\ head = 1 /\ busy = FALSE /\ crashes = 0
    /\ observedHead = 0
    /\ memory = NewMemory /\ disk = NewMemory
    /\ seen = {}
    /\ poolEvents = <<>>
    /\ scan = Idle

-----------------------------------------------------------------------------
(* The chain, and the market's hot path.                                   *)

NewBlock ==
    /\ head < MaxBlock
    /\ head' = head + 1
    /\ UNCHANGED <<busy, crashes, observedHead, memory, disk, seen, poolEvents, scan>>

\* A market cycle.
CycleBegins ==
    /\ ~busy /\ busy' = TRUE
    /\ UNCHANGED <<head, crashes, observedHead, memory, disk, seen, poolEvents, scan>>
CycleEnds ==
    /\ busy /\ busy' = FALSE
    /\ UNCHANGED <<head, crashes, observedHead, memory, disk, seen, poolEvents, scan>>

Offer(queue, limit, x) == IF Len(queue) < limit THEN Append(queue, x) ELSE queue

\* advanceHead keeps the newest block.
advanceHead(block) == observedHead' = Greatest(observedHead, block)

\* The observer of the discoverer; a full channel drops the pool.
ObservePool(p) ==
    /\ p \in MarketPools /\ BornAt[p] <= head
    /\ advanceHead(head)
    /\ poolEvents' = Offer(poolEvents, PoolEvents, p)
    /\ UNCHANGED <<envVars, memory, disk, seen, scan>>

\* A swap carries a block too; what it adds to a pair is in PairMemory.
ObserveSwap ==
    /\ observedHead < head
    /\ advanceHead(head)
    /\ UNCHANGED <<envVars, memory, disk, seen, poolEvents, scan>>

-----------------------------------------------------------------------------
(* The service loop.                                                       *)

\* Memory.ObservePool ignores pools of tokens it does not know.
Observed(m, p) == IF TokensOf[p] \subseteq m.tokens THEN [m EXCEPT !.venues = @ \union {p}] ELSE m

TakePoolEvent ==
    /\ poolEvents # <<>>
    /\ LET p == Head(poolEvents)
       IN /\ memory' = Observed(memory, p)
          /\ seen' = seen \union {p}
    /\ poolEvents' = Tail(poolEvents)
    /\ UNCHANGED <<envVars, observedHead, disk, scan>>

\* Save, also on shutdown; its errors are ignored.
Save == disk' \in {memory, disk}

SaveTick ==
    /\ disk # memory
    /\ Save
    /\ UNCHANGED <<envVars, observedHead, memory, seen, poolEvents, scan>>

\* seenPools is not part of the snapshot.
SeenAfterLoad_kept == seen
SeenAfterLoad == {}

\* The process ends at any point, having saved or not, and starts again.
Restart ==
    /\ crashes < MaxCrashes
    /\ crashes' = crashes + 1
    /\ Save
    /\ memory' = disk'
    /\ seen' = SeenAfterLoad
    /\ observedHead' = 0
    /\ poolEvents' = <<>>
    /\ scan' = Idle
    /\ UNCHANGED <<head, busy>>

-----------------------------------------------------------------------------
(* scanOnce: one scan at a time (scanning).                                *)

\* A scan ends.
Released_held == [pc |-> "held"]
Released == Idle

scanFrame == <<envVars, observedHead, disk, poolEvents>>

FactoryTick ==
    /\ scan = Idle
    /\ scan' = IF observedHead > 0 THEN [pc |-> "factory", head |-> observedHead, i |-> 1]
               ELSE [pc |-> "head"]
    /\ UNCHANGED <<scanFrame, memory, seen>>

\* No head observed yet: ask for it, possibly from a provider that lags.
AskHead ==
    /\ scan.pc = "head" /\ ~busy
    /\ \/ \E b \in Greatest(1, head - 1)..head : scan' = [pc |-> "factory", head |-> b, i |-> 1]
       \/ scan' = Released
    /\ UNCHANGED <<scanFrame, memory, seen>>

\* The blocks to scan: on from the checkpoint, or a warm-up range when there
\* is none or it is ahead of the head.
From(f, at) ==
    IF memory.checkpoint[f] = 0 \/ memory.checkpoint[f] + 1 > at
    THEN IF at > WarmupBlocks THEN at - WarmupBlocks ELSE 1
    ELSE memory.checkpoint[f] + 1

Step(pc) == [scan EXCEPT !.pc = pc]
NextFactory == [pc |-> "factory", head |-> scan.head, i |-> scan.i + 1]
Factory == Factories[scan.i]

ScanFactory ==
    /\ scan.pc = "factory" /\ scan.i \in DOMAIN Factories
    /\ LET from == From(Factory, scan.head)
           to == Least(from + SpanBlocks - 1, scan.head)
       IN scan' = IF from > to THEN NextFactory
                  ELSE [pc |-> "logs", head |-> scan.head, i |-> scan.i,
                        from |-> from, start |-> from, to |-> to, logs |-> <<>>, need |-> {}]
    /\ UNCHANGED <<scanFrame, memory, seen>>

\* factoryLogs: a failing chunk gives up this factory, without a checkpoint.
ChunkEnd == Least(scan.start + ChunkBlocks - 1, scan.to)
Found(f, a, b) == {p \in Pools : FactoryOf[p] = f /\ BornAt[p] \in a..b}
\* The logs of some pools: each once, by block.
Logs(found) ==
    {s \in [1..Cardinality(found) -> found] :
        /\ \A p \in found : \E i \in DOMAIN s : s[i] = p
        /\ \A i, j \in DOMAIN s : i < j => BornAt[s[i]] <= BornAt[s[j]]}
FetchChunk(ok) ==
    /\ scan.pc = "logs" /\ ~busy
    /\ \E chunk \in Logs(Found(Factory, scan.start, ChunkEnd)) :
         scan' = IF ~ok THEN NextFactory
                 ELSE [scan EXCEPT !.pc = IF ChunkEnd = scan.to THEN "log" ELSE "logs",
                                   !.start = ChunkEnd + 1, !.logs = @ \o chunk]
    /\ UNCHANGED <<scanFrame, memory, seen>>

\* The pool is marked as seen before it is validated.
Dedupe ==
    /\ scan.pc = "log" /\ scan.logs # <<>>
    /\ LET p == Head(scan.logs)
       IN /\ seen' = seen \union {p}
          /\ scan' = IF p \in seen THEN [scan EXCEPT !.logs = Tail(@)]
                     ELSE [scan EXCEPT !.pc = "token", !.need = TokensOf[p] \ memory.tokens]
    /\ UNCHANGED <<scanFrame, memory>>

Rejected(m, p) == [m EXCEPT !.rejected = @ \union {p}]
Dropped == [scan EXCEPT !.pc = "log", !.logs = Tail(@), !.need = {}]

\* validateToken: a token with code and decimals is registered; a request that
\* fails rejects the pool like a token without code.
ValidateToken(ok) ==
    /\ scan.pc = "token" /\ scan.need # {} /\ ~busy
    /\ \E t \in scan.need :
         IF ok /\ t \notin Codeless
         THEN /\ memory' = [memory EXCEPT !.tokens = @ \union {t}]
              /\ scan' = [scan EXCEPT !.need = @ \ {t}]
         ELSE /\ memory' = Rejected(memory, Head(scan.logs))
              /\ scan' = Dropped
    /\ UNCHANGED <<scanFrame, seen>>

\* RefreshPoolAt reads the pool at its block of creation.
RefreshPool(ok) ==
    /\ scan.pc = "token" /\ scan.need = {} /\ ~busy
    /\ LET p == Head(scan.logs)
       IN IF ok /\ p \notin Unusable
          THEN memory' = Observed(memory, p)
          ELSE memory' = Rejected(memory, p)
    /\ scan' = Dropped
    /\ UNCHANGED <<scanFrame, seen>>

\* SetCheckpoint never goes back.
Checkpoint ==
    /\ scan.pc = "log" /\ scan.logs = <<>>
    /\ memory' = [memory EXCEPT !.checkpoint[Factory] = Greatest(@, scan.to),
                                !.since[Factory] = IF @ = 0 THEN scan.from ELSE @]
    /\ scan' = NextFactory
    /\ UNCHANGED <<scanFrame, seen>>

EndScan ==
    /\ scan.pc = "factory" /\ scan.i \notin DOMAIN Factories
    /\ Save
    /\ scan' = Released
    /\ UNCHANGED <<envVars, observedHead, memory, seen, poolEvents>>

ScanStep ==
    \/ AskHead \/ ScanFactory \/ Dedupe \/ Checkpoint \/ EndScan
    \/ \E ok \in BOOLEAN : FetchChunk(ok) \/ ValidateToken(ok) \/ RefreshPool(ok)

Next ==
    \/ NewBlock \/ CycleBegins \/ CycleEnds \/ ObserveSwap
    \/ \E p \in Pools : ObservePool(p)
    \/ TakePoolEvent \/ SaveTick \/ Restart
    \/ FactoryTick \/ ScanStep

Spec == Init /\ [][Next]_vars

\* Cycles end and the limiter polls until the market is idle for a moment, the
\* tickers fire, the market keeps reporting blocks, and a request for
\* logs that is repeated for ever sometimes succeeds.
Fairness ==
    /\ WF_vars(CycleEnds)
    /\ WF_vars(ObserveSwap) /\ WF_vars(FactoryTick)
    /\ WF_vars(ScanFactory \/ Dedupe \/ Checkpoint \/ EndScan)
    /\ SF_vars(AskHead) /\ SF_vars(\E ok \in BOOLEAN : ValidateToken(ok) \/ RefreshPool(ok))
    /\ \A i \in DOMAIN Factories, b \in 1..MaxBlock :
         SF_vars(FetchChunk(TRUE) /\ scan.i = i /\ scan.start = b)
FairSpec == Spec /\ Fairness

-----------------------------------------------------------------------------
(* Properties.                                                             *)

Covered(m, p) ==
    LET f == FactoryOf[p] IN m.checkpoint[f] > 0 /\ BornAt[p] \in m.since[f]..m.checkpoint[f]

\* Every pool created since the first scan and up to the checkpoint was tracked
\* or rejected, in memory and in the file: a restart never finds a checkpoint
\* ahead of the pools (scanOnce, Save, Load).
PoolsAccounted ==
    \A m \in {memory, disk}, p \in Pools : Covered(m, p) => p \in m.venues \union m.rejected

\* Once a checkpoint is on disk, a pool created after it is eventually looked
\* at, even when the market is hardly ever idle (Run, scanOnce).
PoolsEventuallySeen ==
    \A p \in Pools :
        (disk.checkpoint[FactoryOf[p]] \in 1..(BornAt[p] - 1) /\ head >= BornAt[p]) ~> p \in seen
=============================================================================
