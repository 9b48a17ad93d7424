--------------------------- MODULE PairScanProofs ---------------------------
(***************************************************************************)
(* Proofs about PairScan, for any factories, pools, block ranges and       *)
(* numbers of crashes: a checkpoint never covers a block whose pools were  *)
(* not looked at, in the memory of the process or in the snapshot file.    *)
(***************************************************************************)
EXTENDS PairScan, FiniteSetTheorems, TLAPS

-----------------------------------------------------------------------------
(* The invariant.                                                          *)

Memories ==
    [tokens : SUBSET (Tokens \union Configured), venues : SUBSET Pools,
     checkpoint : [FactorySet -> Nat], since : [FactorySet -> Nat], rejected : SUBSET Pools]

Scanning == {"logs", "log", "token"}

ScanTyped ==
    \/ scan \in [pc : {"idle", "head"}]
    \/ scan \in [pc : {"factory"}, head : Nat \ {0}, i : Nat]
    \/ scan \in [pc : Scanning, head : Nat \ {0}, i : DOMAIN Factories, from : Nat \ {0},
                 start : Nat, to : Nat, logs : Seq(Pools), need : SUBSET Tokens]

Types ==
    /\ memory \in Memories /\ disk \in Memories
    /\ head \in Nat \ {0} /\ observedHead \in Nat
    /\ poolEvents \in Seq(MarketPools)
    /\ seen \subseteq Pools
    /\ ScanTyped

Accounted(m) == m.venues \union m.rejected

\* What holds of a memory, loaded or not.
MemoryGood(m) ==
    /\ Configured \subseteq m.tokens
    /\ \A f \in FactorySet : m.since[f] = 0 <=> m.checkpoint[f] = 0
    /\ \A p \in Pools : Covered(m, p) => p \in Accounted(m)

\* A pool that was seen is accounted for, or is the one being validated.
SeenGood ==
    \A p \in seen : p \in Accounted(memory) \/ (scan.pc = "token" /\ p = Head(scan.logs))

\* The range of a scan continues the checkpoint, or leaves it where it is.
RangeGood ==
    scan.pc \in Scanning =>
        /\ \/ memory.checkpoint[Factory] = 0
           \/ scan.from = memory.checkpoint[Factory] + 1
           \/ scan.to <= memory.checkpoint[Factory]
        /\ scan.from <= scan.start /\ scan.from <= scan.to
        /\ scan.pc = "logs" => scan.start <= scan.to
        /\ scan.pc # "logs" => scan.start = scan.to + 1

\* The pools of the blocks fetched so far are accounted for or still listed.
FetchedGood ==
    scan.pc \in Scanning =>
        \A p \in Pools : (FactoryOf[p] = Factory /\ scan.from <= BornAt[p] /\ BornAt[p] < scan.start)
                             => \/ p \in Accounted(memory)
                                \/ \E k \in 1..Len(scan.logs) : scan.logs[k] = p

\* The unknown tokens of the pool being validated are still to be validated.
TokensGood ==
    scan.pc = "token" =>
        scan.logs # <<>> /\ TokensOf[Head(scan.logs)] \ memory.tokens \subseteq scan.need

Inv ==
    /\ Types
    /\ MemoryGood(memory) /\ MemoryGood(disk)
    /\ SeenGood /\ RangeGood /\ FetchedGood /\ TokensGood

-----------------------------------------------------------------------------
(* Memories that grow.                                                     *)

Grown(m, n) ==
    /\ n \in Memories
    /\ n.checkpoint = m.checkpoint /\ n.since = m.since
    /\ m.tokens \subseteq n.tokens
    /\ Accounted(m) \subseteq Accounted(n)

LEMMA GrownGood ==
    ASSUME NEW m, NEW n, MemoryGood(m), Grown(m, n)
    PROVE  MemoryGood(n)
BY DEF MemoryGood, Grown, Covered

LEMMA SameGrown ==
    ASSUME NEW m \in Memories
    PROVE  Grown(m, m)
BY DEF Grown

LEMMA ObservedGrown ==
    ASSUME NEW m \in Memories, NEW p \in Pools
    PROVE  /\ Grown(m, Observed(m, p))
           /\ TokensOf[p] \subseteq m.tokens => p \in Accounted(Observed(m, p))
<1>1. CASE TokensOf[p] \subseteq m.tokens
  <2>1. /\ Observed(m, p) \in Memories
        /\ Observed(m, p).tokens = m.tokens /\ Observed(m, p).rejected = m.rejected
        /\ Observed(m, p).venues = m.venues \union {p}
        /\ Observed(m, p).checkpoint = m.checkpoint /\ Observed(m, p).since = m.since
    BY <1>1 DEF Observed, Memories
  <2>2. QED
    BY <2>1 DEF Grown, Accounted
<1>2. CASE ~(TokensOf[p] \subseteq m.tokens)
  BY <1>2, SameGrown DEF Observed
<1>3. QED
  BY <1>1, <1>2

LEMMA RejectedGrown ==
    ASSUME NEW m \in Memories, NEW p \in Pools
    PROVE  Grown(m, Rejected(m, p)) /\ p \in Accounted(Rejected(m, p))
<1>1. /\ Rejected(m, p) \in Memories
      /\ Rejected(m, p).tokens = m.tokens /\ Rejected(m, p).venues = m.venues
      /\ Rejected(m, p).rejected = m.rejected \union {p}
      /\ Rejected(m, p).checkpoint = m.checkpoint /\ Rejected(m, p).since = m.since
  BY DEF Rejected, Memories
<1>2. QED
  BY <1>1 DEF Grown, Accounted

-----------------------------------------------------------------------------
(* The steps.                                                              *)

LEMMA Numbers ==
    /\ WarmupBlocks \in Nat /\ WarmupBlocks > 0 /\ SpanBlocks \in Nat /\ SpanBlocks > 0
    /\ ChunkBlocks \in Nat /\ ChunkBlocks > 0
    /\ \A p \in Pools : BornAt[p] \in Nat /\ BornAt[p] > 0 /\ FactoryOf[p] \in FactorySet
    /\ DOMAIN Factories \subseteq Nat
    /\ \A i \in DOMAIN Factories : Factories[i] \in FactorySet
BY LimitsAssumption, PoolsAssumption, FactoriesAssumption DEF FactorySet

LEMMA ScanRecord ==
    ASSUME ScanTyped, scan.pc \in Scanning
    PROVE  /\ scan \in [pc : Scanning, head : Nat \ {0}, i : DOMAIN Factories, from : Nat \ {0},
                        start : Nat, to : Nat, logs : Seq(Pools), need : SUBSET Tokens]
           /\ Factory \in FactorySet /\ scan.i \in Nat
BY Numbers DEF ScanTyped, Scanning, Factory

LEMMA InitInv == Init => Inv
<1> SUFFICES ASSUME Init PROVE Inv
  OBVIOUS
<1>1. NewMemory \in Memories /\ MemoryGood(NewMemory)
  BY Numbers DEF NewMemory, Memories, MemoryGood, Covered
<1>2. scan.pc = "idle" /\ scan \in [pc : {"idle", "head"}]
  BY DEF Init, Idle
<1>3. Types
  BY <1>1, <1>2 DEF Init, Types, ScanTyped
<1>4. SeenGood /\ RangeGood /\ FetchedGood /\ TokensGood
  BY <1>2 DEF Init, SeenGood, RangeGood, FetchedGood, TokensGood, Scanning
<1>5. QED
  BY <1>1, <1>3, <1>4 DEF Init, Inv

\* A step that is not one of the scan: memory may gain pools, and the file be
\* written.
LEMMA OtherInv ==
    ASSUME Inv, Types', Grown(memory, memory'), disk' \in {memory, disk}, scan' = scan,
           \A p \in seen' : p \in seen \union Accounted(memory')
    PROVE  Inv'
<1>1. MemoryGood(memory') /\ MemoryGood(disk')
  BY GrownGood DEF Inv
<1>2. SeenGood'
  BY DEF Inv, SeenGood, Grown, Accounted
<1>3. RangeGood' /\ FetchedGood' /\ TokensGood'
  BY DEF Inv, RangeGood, FetchedGood, TokensGood, Grown, Accounted, Factory
<1>4. QED
  BY <1>1, <1>2, <1>3 DEF Inv, MemoryGood, Covered, Accounted

\* A step after which no factory is being scanned.
LEMMA BetweenInv ==
    ASSUME Inv, Types', MemoryGood(memory'), disk' \in {memory, disk}, scan'.pc \notin Scanning,
           seen' \subseteq Accounted(memory')
    PROVE  Inv'
<1>1. MemoryGood(disk')
  BY DEF Inv
<1>2. SeenGood' /\ RangeGood' /\ FetchedGood' /\ TokensGood'
  BY DEF SeenGood, RangeGood, FetchedGood, TokensGood, Scanning, Accounted
<1>3. QED
  BY <1>1, <1>2 DEF Inv, MemoryGood, Covered, Accounted

LEMMA TakePoolEventInv == Inv /\ TakePoolEvent => Inv'
<1> SUFFICES ASSUME Inv, TakePoolEvent PROVE Inv'
  OBVIOUS
<1> DEFINE p == Head(poolEvents)
<1>1. /\ p \in MarketPools /\ p \in Pools /\ TokensOf[p] \subseteq memory.tokens
      /\ Tail(poolEvents) \in Seq(MarketPools)
  BY DEF TakePoolEvent, Inv, Types, MarketPools, MemoryGood
<1>2. memory' = Observed(memory, p) /\ seen' = seen \union {p} /\ disk' = disk /\ scan' = scan
  BY DEF TakePoolEvent
<1>3. Grown(memory, memory') /\ p \in Accounted(memory')
  BY <1>1, <1>2, ObservedGrown DEF Inv, Types
<1>4. Types'
  BY <1>1, <1>2, <1>3 DEF Inv, Types, TakePoolEvent, ScanTyped, Grown, envVars
<1>5. QED
  BY <1>2, <1>3, <1>4, OtherInv

LEMMA QuietInv ==
    ASSUME Inv, \/ UNCHANGED vars \/ NewBlock \/ CycleBegins \/ CycleEnds \/ ObserveSwap \/ SaveTick
                \/ \E p \in Pools : ObservePool(p)
    PROVE  Inv'
<1>1. /\ memory' = memory /\ disk' \in {memory, disk} /\ scan' = scan /\ seen' = seen
  BY DEF vars, envVars, NewBlock, CycleBegins, CycleEnds, ObserveSwap, SaveTick, Save, ObservePool
<1>2. head' \in Nat \ {0} /\ observedHead' \in Nat
  BY DEF vars, envVars, NewBlock, CycleBegins, CycleEnds, ObserveSwap, SaveTick, ObservePool,
         advanceHead, Greatest, Inv, Types
<1>3. poolEvents' \in Seq(MarketPools)
  <2>1. CASE UNCHANGED poolEvents
    BY <2>1 DEF Inv, Types
  <2>2. ASSUME NEW p \in Pools, ObservePool(p) PROVE poolEvents' \in Seq(MarketPools)
    BY <2>2 DEF ObservePool, Offer, Inv, Types
  <2>3. QED
    BY <2>1, <2>2 DEF vars, NewBlock, CycleBegins, CycleEnds, ObserveSwap, SaveTick
<1>4. Types'
  BY <1>1, <1>2, <1>3 DEF Inv, Types, ScanTyped
<1>5. QED
  BY <1>1, <1>4, SameGrown, OtherInv DEF Inv, Types

LEMMA SeenIdle ==
    ASSUME Inv, scan.pc # "token"
    PROVE  seen \subseteq Accounted(memory)
BY DEF Inv, SeenGood

LEMMA RestartInv == Inv /\ Restart => Inv'
<1> SUFFICES ASSUME Inv, Restart PROVE Inv'
  OBVIOUS
<1>1. disk' \in {memory, disk} /\ memory' = disk' /\ seen' = {} /\ scan' = Idle
  BY DEF Restart, Save, SeenAfterLoad
<1>2. memory' \in Memories /\ MemoryGood(memory')
  BY <1>1 DEF Inv, Types
<1>3. scan' \in [pc : {"idle", "head"}] /\ scan'.pc \notin Scanning
  BY <1>1 DEF Idle, Scanning
<1>4. Types'
  BY <1>1, <1>2, <1>3 DEF Restart, Inv, Types, ScanTyped
<1>5. QED
  BY <1>1, <1>2, <1>3, <1>4, BetweenInv

\* The steps of the scan that leave a factory, or come to one.
LEMMA ToFactoryInv ==
    ASSUME Inv, scan.pc # "token", UNCHANGED <<memory, seen, head, observedHead, poolEvents>>,
           disk' \in {memory, disk},
           \/ scan' \in [pc : {"idle", "head"}]
           \/ scan' \in [pc : {"factory"}, head : Nat \ {0}, i : Nat]
    PROVE  Inv'
<1>1. Types'
  BY DEF Inv, Types, ScanTyped
<1>2. scan'.pc \notin Scanning /\ MemoryGood(memory')
  BY DEF Inv, Scanning
<1>3. seen' \subseteq Accounted(memory')
  BY SeenIdle
<1>4. QED
  BY <1>1, <1>2, <1>3, BetweenInv

LEMMA FactoryTickInv == Inv /\ FactoryTick => Inv'
<1> SUFFICES ASSUME Inv, FactoryTick PROVE Inv'
  OBVIOUS
<1>1. scan.pc # "token"
  BY DEF FactoryTick, Idle
<1>2. \/ scan' \in [pc : {"idle", "head"}]
      \/ scan' \in [pc : {"factory"}, head : Nat \ {0}, i : Nat]
  BY DEF FactoryTick, Inv, Types
<1>3. QED
  BY <1>1, <1>2, ToFactoryInv DEF FactoryTick, scanFrame, envVars

LEMMA AskHeadInv == Inv /\ AskHead => Inv'
<1> SUFFICES ASSUME Inv, AskHead PROVE Inv'
  OBVIOUS
<1>1. scan.pc # "token"
  BY DEF AskHead
<1>2. \/ scan' \in [pc : {"idle", "head"}]
      \/ scan' \in [pc : {"factory"}, head : Nat \ {0}, i : Nat]
  BY DEF AskHead, Inv, Types, Greatest, Released, Idle
<1>3. QED
  BY <1>1, <1>2, ToFactoryInv DEF AskHead, scanFrame, envVars

LEMMA EndScanInv == Inv /\ EndScan => Inv'
<1> SUFFICES ASSUME Inv, EndScan PROVE Inv'
  OBVIOUS
<1>1. scan.pc # "token" /\ scan' \in [pc : {"idle", "head"}]
  BY DEF EndScan, Released, Idle
<1>2. QED
  BY <1>1, ToFactoryInv DEF EndScan, Save, envVars

LEMMA ScanFactoryInv == Inv /\ ScanFactory => Inv'
<1> SUFFICES ASSUME Inv, ScanFactory PROVE Inv'
  OBVIOUS
<1> DEFINE from == From(Factory, scan.head)
           to == Least(from + SpanBlocks - 1, scan.head)
           c == memory.checkpoint[Factory]
<1>1. /\ scan.pc = "factory" /\ scan.head \in Nat /\ scan.head > 0 /\ scan.i \in DOMAIN Factories
      /\ scan.i \in Nat /\ Factory \in FactorySet /\ c \in Nat
  BY Numbers DEF ScanFactory, Inv, Types, ScanTyped, Scanning, Factory, Memories
<1>2. /\ from \in Nat /\ from > 0 /\ to \in Int
      /\ c = 0 \/ from = c + 1 \/ to <= c
  BY <1>1, Numbers DEF From, Least
<1>3. UNCHANGED <<memory, seen, disk, head, observedHead, poolEvents>>
  BY DEF ScanFactory, scanFrame, envVars
<1>4. CASE from > to
  <2>1. scan' \in [pc : {"factory"}, head : Nat \ {0}, i : Nat]
    BY <1>1, <1>4 DEF ScanFactory, NextFactory
  <2>2. QED
    BY <1>1, <1>3, <2>1, ToFactoryInv
<1>5. CASE ~(from > to)
  <2>1. scan' = [pc |-> "logs", head |-> scan.head, i |-> scan.i,
                 from |-> from, start |-> from, to |-> to, logs |-> <<>>, need |-> {}]
    BY <1>5, Zenon DEF ScanFactory
  <2> HIDE DEF from, to
  <2>2. /\ scan'.pc = "logs" /\ scan'.i = scan.i /\ scan'.from = from /\ scan'.start = from
        /\ scan'.to = to
        /\ scan' \in [pc : Scanning, head : Nat \ {0}, i : DOMAIN Factories, from : Nat \ {0},
                      start : Nat, to : Nat, logs : Seq(Pools), need : SUBSET Tokens]
    BY <1>1, <1>2, <1>5, <2>1 DEF Scanning
  <2>3. Types'
    BY <1>3, <2>2 DEF Inv, Types, ScanTyped
  <2>4. SeenGood'
    BY <1>1, <1>3, SeenIdle DEF SeenGood, Accounted
  <2>5. RangeGood'
    BY <1>2, <1>3, <1>5, <2>2 DEF RangeGood, Factory
  <2>6. FetchedGood'
    BY <1>2, <2>2, Numbers DEF FetchedGood
  <2>7. TokensGood' /\ MemoryGood(memory)' /\ MemoryGood(disk)'
    BY <1>3, <2>2 DEF Inv, TokensGood, MemoryGood, Covered, Accounted
  <2>8. QED
    BY <2>3, <2>4, <2>5, <2>6, <2>7 DEF Inv
<1>6. QED
  BY <1>4, <1>5

LEMMA LogsFacts ==
    ASSUME NEW found, found \subseteq Pools, NEW chunk \in Logs(found)
    PROVE  chunk \in Seq(Pools) /\ \A p \in found : \E k \in 1..Len(chunk) : chunk[k] = p
<1>1. IsFiniteSet(found) /\ Cardinality(found) \in Nat
  BY FactoriesAssumption, FS_Subset, FS_CardinalityType
<1>2. /\ chunk \in [1..Cardinality(found) -> found]
      /\ \A p \in found : \E k \in DOMAIN chunk : chunk[k] = p
  BY DEF Logs
<1>3. chunk \in Seq(Pools) /\ DOMAIN chunk = 1..Len(chunk)
  BY <1>1, <1>2
<1>4. QED
  BY <1>2, <1>3

LEMMA Listed ==
    ASSUME NEW s \in Seq(Pools), NEW t \in Seq(Pools), NEW k \in 1..Len(s)
    PROVE  k \in 1..Len(s \o t) /\ (s \o t)[k] = s[k]
OBVIOUS

LEMMA FetchChunkInv ==
    ASSUME Inv, NEW ok \in BOOLEAN, FetchChunk(ok)
    PROVE  Inv'
<1>1. /\ scan \in [pc : Scanning, head : Nat \ {0}, i : DOMAIN Factories, from : Nat \ {0},
                   start : Nat, to : Nat, logs : Seq(Pools), need : SUBSET Tokens]
      /\ scan.pc = "logs" /\ scan.i \in Nat /\ Factory \in FactorySet
  BY ScanRecord DEF FetchChunk, Scanning, Inv, Types
<1>2. UNCHANGED <<memory, seen, disk, head, observedHead, poolEvents>>
  BY DEF FetchChunk, scanFrame, envVars
<1>3. CASE ~ok
  <2>1. scan' \in [pc : {"factory"}, head : Nat \ {0}, i : Nat]
    BY <1>1, <1>3 DEF FetchChunk, NextFactory
  <2>2. QED
    BY <1>1, <1>2, <2>1, ToFactoryInv
<1>4. CASE ok
  <2> DEFINE found == Found(Factory, scan.start, ChunkEnd)
             pc == IF ChunkEnd = scan.to THEN "log" ELSE "logs"
  <2>1. PICK chunk \in Logs(found) :
          scan' = [scan EXCEPT !.pc = pc, !.start = ChunkEnd + 1, !.logs = @ \o chunk]
    BY <1>4 DEF FetchChunk
  <2>2. found \subseteq Pools
    BY DEF Found
  <2>3. chunk \in Seq(Pools) /\ \A p \in found : \E k \in 1..Len(chunk) : chunk[k] = p
    BY <2>1, <2>2, LogsFacts
  <2>4. /\ scan.from <= scan.start /\ scan.from <= scan.to /\ scan.start <= scan.to
        /\ ChunkEnd \in Nat /\ scan.start <= ChunkEnd /\ ChunkEnd <= scan.to
    BY <1>1, Numbers DEF Inv, RangeGood, Scanning, ChunkEnd, Least
  <2>5. /\ scan.logs \in Seq(Pools) /\ scan.logs \o chunk \in Seq(Pools)
        /\ pc \in Scanning /\ ChunkEnd + 1 \in Nat
    BY <1>1, <2>3, <2>4 DEF Scanning
  <2>6. /\ scan'.pc = pc /\ scan'.i = scan.i /\ scan'.from = scan.from /\ scan'.to = scan.to
        /\ scan'.start = ChunkEnd + 1 /\ scan'.logs = scan.logs \o chunk
        /\ scan' \in [pc : Scanning, head : Nat \ {0}, i : DOMAIN Factories, from : Nat \ {0},
                      start : Nat, to : Nat, logs : Seq(Pools), need : SUBSET Tokens]
    <3> HIDE DEF pc, found
    <3>1. QED
      BY <1>1, <2>1, <2>5
  <2>7. Types'
    BY <1>2, <2>6 DEF Inv, Types, ScanTyped
  <2>8. SeenGood'
    BY <1>1, <1>2, SeenIdle DEF SeenGood, Accounted
  <2>9. RangeGood'
    BY <1>1, <1>2, <2>4, <2>6 DEF Inv, RangeGood, Factory, Scanning
  <2>10. FetchedGood'
    <3>1. SUFFICES ASSUME NEW p \in Pools, FactoryOf[p] = Factory,
                          scan.from <= BornAt[p], BornAt[p] < ChunkEnd + 1
                   PROVE  \/ p \in Accounted(memory)
                          \/ \E k \in 1..Len(scan.logs \o chunk) : (scan.logs \o chunk)[k] = p
      BY <1>2, <2>6 DEF FetchedGood, Factory, Accounted
    <3>2. CASE BornAt[p] < scan.start
      BY <1>1, <2>3, <3>1, <3>2, Listed DEF Inv, FetchedGood, Scanning
    <3>3. CASE ~(BornAt[p] < scan.start)
      <4>1. p \in found
        BY <1>1, <2>4, <3>1, <3>3, Numbers DEF Found
      <4>2. \E k \in 1..Len(chunk) : chunk[k] = p
        BY <2>3, <4>1
      <4>3. chunk \in Seq(Pools) /\ scan.logs \in Seq(Pools)
        BY <2>3, <2>5
      <4>4. \E k \in 1..Len(scan.logs \o chunk) : (scan.logs \o chunk)[k] = p
        <5>1. PICK k \in 1..Len(chunk) : chunk[k] = p
          BY <4>2
        <5>2. Len(scan.logs) + k \in 1..Len(scan.logs \o chunk)
          BY <4>3, <5>1
        <5>3. (scan.logs \o chunk)[Len(scan.logs) + k] = p
          BY <4>3, <5>1
        <5>4. QED
          BY <5>2, <5>3
      <4>5. QED
        BY <4>4
    <3>4. QED
      BY <3>2, <3>3
  <2>11. TokensGood' /\ MemoryGood(memory)' /\ MemoryGood(disk)'
    BY <1>2, <2>6 DEF Inv, TokensGood, MemoryGood, Covered, Accounted
  <2>12. QED
    BY <2>7, <2>8, <2>9, <2>10, <2>11 DEF Inv
<1>5. QED
  BY <1>3, <1>4

\* The first log is taken from the list.
LEMMA TailListed ==
    ASSUME NEW s \in Seq(Pools), s # <<>>
    PROVE  /\ Head(s) \in Pools /\ Tail(s) \in Seq(Pools)
           /\ \A k \in 1..Len(s) : s[k] = Head(s) \/ \E j \in 1..Len(Tail(s)) : Tail(s)[j] = s[k]
<1>1. Len(s) \in Nat /\ Len(s) > 0 /\ Len(Tail(s)) = Len(s) - 1 /\ Head(s) = s[1]
  OBVIOUS
<1>2. ASSUME NEW k \in 1..Len(s), k # 1
      PROVE  \E j \in 1..Len(Tail(s)) : Tail(s)[j] = s[k]
  <2>1. k - 1 \in 1..Len(Tail(s)) /\ Tail(s)[k - 1] = s[k]
    BY <1>1, <1>2
  <2>2. QED
    BY <2>1
<1>3. QED
  BY <1>1, <1>2

\* The pool at the head of the list is dealt with, or was seen before.
LEMMA DroppedInv ==
    ASSUME Inv, scan.pc \in {"log", "token"}, scan.logs # <<>>, Grown(memory, memory'),
           UNCHANGED <<head, observedHead, disk, poolEvents>>,
           Head(scan.logs) \in Accounted(memory'), seen' \subseteq seen \union {Head(scan.logs)},
           \/ scan' = [scan EXCEPT !.logs = Tail(@)] /\ scan.pc = "log"
           \/ scan' = Dropped
    PROVE  Inv'
<1>1. /\ scan \in [pc : Scanning, head : Nat \ {0}, i : DOMAIN Factories, from : Nat \ {0},
                   start : Nat, to : Nat, logs : Seq(Pools), need : SUBSET Tokens]
      /\ scan.pc \in Scanning /\ scan.pc # "logs"
  BY ScanRecord DEF Scanning, Inv, Types
<1>2. /\ Head(scan.logs) \in Pools /\ Tail(scan.logs) \in Seq(Pools)
      /\ \A k \in 1..Len(scan.logs) :
           \/ scan.logs[k] = Head(scan.logs)
           \/ \E j \in 1..Len(Tail(scan.logs)) : Tail(scan.logs)[j] = scan.logs[k]
  BY <1>1, TailListed
<1>3. /\ scan'.pc = "log" /\ scan'.i = scan.i /\ scan'.from = scan.from /\ scan'.to = scan.to
      /\ scan'.start = scan.start /\ scan'.logs = Tail(scan.logs)
      /\ scan' \in [pc : Scanning, head : Nat \ {0}, i : DOMAIN Factories, from : Nat \ {0},
                    start : Nat, to : Nat, logs : Seq(Pools), need : SUBSET Tokens]
  BY <1>1, <1>2 DEF Dropped, Scanning
<1>4. Accounted(memory) \subseteq Accounted(memory') /\ memory'.checkpoint = memory.checkpoint
  BY DEF Grown
<1>5. Types'
  BY <1>2, <1>3 DEF Inv, Types, ScanTyped, Grown
<1>6. SeenGood'
  <2>1. \A p \in seen : p \in Accounted(memory) \/ p = Head(scan.logs)
    BY DEF Inv, SeenGood
  <2>2. \A p \in seen' : p \in Accounted(memory')
    BY <1>4, <2>1
  <2>3. QED
    BY <2>2 DEF SeenGood, Accounted
<1>7. RangeGood'
  BY <1>1, <1>3, <1>4 DEF Inv, RangeGood, Factory
<1>8. FetchedGood'
  <2>1. SUFFICES ASSUME NEW p \in Pools, FactoryOf[p] = Factory,
                        scan.from <= BornAt[p], BornAt[p] < scan.start
                 PROVE  \/ p \in Accounted(memory')
                        \/ \E k \in 1..Len(Tail(scan.logs)) : Tail(scan.logs)[k] = p
    BY <1>3 DEF FetchedGood, Factory, Accounted
  <2>2. \/ p \in Accounted(memory)
        \/ \E k \in 1..Len(scan.logs) : scan.logs[k] = p
    BY <1>1, <2>1 DEF Inv, FetchedGood
  <2>3. QED
    BY <1>2, <1>4, <2>2
<1>9. TokensGood'
  BY <1>3 DEF TokensGood
<1>10. MemoryGood(memory') /\ MemoryGood(disk')
  BY GrownGood DEF Inv
<1>11. QED
  BY <1>5, <1>6, <1>7, <1>8, <1>9, <1>10 DEF Inv, MemoryGood, Covered, Accounted

LEMMA DedupeInv == Inv /\ Dedupe => Inv'
<1> SUFFICES ASSUME Inv, Dedupe PROVE Inv'
  OBVIOUS
<1> DEFINE p == Head(scan.logs)
<1>1. /\ scan \in [pc : Scanning, head : Nat \ {0}, i : DOMAIN Factories, from : Nat \ {0},
                   start : Nat, to : Nat, logs : Seq(Pools), need : SUBSET Tokens]
      /\ scan.pc = "log" /\ scan.logs # <<>>
  BY ScanRecord DEF Dedupe, Scanning, Inv, Types
<1>2. p \in Pools
  BY <1>1, TailListed
<1>3. UNCHANGED <<memory, disk, head, observedHead, poolEvents>> /\ seen' = seen \union {p}
  BY DEF Dedupe, scanFrame, envVars
<1>4. seen \subseteq Accounted(memory)
  BY <1>1, SeenIdle
<1>5. CASE p \in seen
  <2>1. scan' = [scan EXCEPT !.logs = Tail(@)]
    BY <1>5 DEF Dedupe
  <2>2. Grown(memory, memory') /\ p \in Accounted(memory')
    BY <1>3, <1>4, <1>5, SameGrown DEF Inv, Types
  <2>3. QED
    BY <1>1, <1>3, <2>1, <2>2, DroppedInv
<1>6. CASE p \notin seen
  <2>1. scan' = [scan EXCEPT !.pc = "token", !.need = TokensOf[p] \ memory.tokens]
    BY <1>6 DEF Dedupe
  <2>2. TokensOf[p] \ memory.tokens \subseteq Tokens
    BY <1>2 DEF Tokens
  <2>3. /\ scan'.pc = "token" /\ scan'.i = scan.i /\ scan'.from = scan.from /\ scan'.to = scan.to
        /\ scan'.start = scan.start /\ scan'.logs = scan.logs
        /\ scan'.need = TokensOf[p] \ memory.tokens
        /\ scan' \in [pc : Scanning, head : Nat \ {0}, i : DOMAIN Factories, from : Nat \ {0},
                      start : Nat, to : Nat, logs : Seq(Pools), need : SUBSET Tokens]
    <3> HIDE DEF p
    <3>1. QED
      BY <1>1, <2>1, <2>2 DEF Scanning
  <2>4. Types'
    BY <1>2, <1>3, <2>3 DEF Inv, Types, ScanTyped
  <2>5. SeenGood'
    BY <1>3, <1>4, <2>3 DEF SeenGood, Accounted
  <2>6. RangeGood' /\ FetchedGood'
    BY <1>1, <1>3, <2>3 DEF Inv, RangeGood, FetchedGood, Factory, Accounted, Scanning
  <2>7. TokensGood' /\ MemoryGood(memory)' /\ MemoryGood(disk)'
    BY <1>1, <1>3, <2>3 DEF Inv, TokensGood, MemoryGood, Covered, Accounted
  <2>8. QED
    BY <2>4, <2>5, <2>6, <2>7 DEF Inv
<1>7. QED
  BY <1>5, <1>6

LEMMA ValidateTokenInv ==
    ASSUME Inv, NEW ok \in BOOLEAN, ValidateToken(ok)
    PROVE  Inv'
<1>1. /\ scan \in [pc : Scanning, head : Nat \ {0}, i : DOMAIN Factories, from : Nat \ {0},
                   start : Nat, to : Nat, logs : Seq(Pools), need : SUBSET Tokens]
      /\ scan.pc = "token" /\ scan.logs # <<>> /\ Head(scan.logs) \in Pools
      /\ memory \in Memories
  BY ScanRecord, TailListed DEF ValidateToken, Scanning, Inv, Types, TokensGood
<1>2. UNCHANGED <<disk, head, observedHead, poolEvents, seen>>
  BY DEF ValidateToken, scanFrame, envVars
<1>3. PICK t \in scan.need :
        \/ /\ memory' = [memory EXCEPT !.tokens = @ \union {t}]
           /\ scan' = [scan EXCEPT !.need = @ \ {t}]
        \/ /\ memory' = Rejected(memory, Head(scan.logs))
           /\ scan' = Dropped
  BY DEF ValidateToken
<1>4. CASE memory' = Rejected(memory, Head(scan.logs)) /\ scan' = Dropped
  BY <1>1, <1>2, <1>4, RejectedGrown, DroppedInv
<1>5. CASE /\ memory' = [memory EXCEPT !.tokens = @ \union {t}]
           /\ scan' = [scan EXCEPT !.need = @ \ {t}]
  <2>1. /\ scan'.pc = "token" /\ scan'.i = scan.i /\ scan'.from = scan.from /\ scan'.to = scan.to
        /\ scan'.start = scan.start /\ scan'.logs = scan.logs
        /\ scan'.need = scan.need \ {t}
        /\ scan' \in [pc : Scanning, head : Nat \ {0}, i : DOMAIN Factories, from : Nat \ {0},
                      start : Nat, to : Nat, logs : Seq(Pools), need : SUBSET Tokens]
    BY <1>1, <1>5
  <2>2. /\ memory' \in Memories /\ memory'.tokens = memory.tokens \union {t}
        /\ memory'.venues = memory.venues /\ memory'.rejected = memory.rejected
        /\ memory'.checkpoint = memory.checkpoint /\ memory'.since = memory.since
    BY <1>1, <1>3, <1>5 DEF Memories
  <2>3. Types'
    BY <1>2, <2>1, <2>2 DEF Inv, Types, ScanTyped
  <2>4. SeenGood'
    BY <1>1, <1>2, <2>1, <2>2 DEF Inv, SeenGood, Accounted
  <2>5. RangeGood' /\ FetchedGood'
    BY <1>1, <1>2, <2>1, <2>2 DEF Inv, RangeGood, FetchedGood, Factory, Accounted, Scanning
  <2>6. TokensGood'
    BY <1>1, <2>1, <2>2 DEF Inv, TokensGood
  <2>7. MemoryGood(memory)' /\ MemoryGood(disk)'
    BY <1>2, <2>2 DEF Inv, MemoryGood, Covered, Accounted
  <2>8. QED
    BY <2>3, <2>4, <2>5, <2>6, <2>7 DEF Inv
<1>6. QED
  BY <1>3, <1>4, <1>5

LEMMA RefreshPoolInv ==
    ASSUME Inv, NEW ok \in BOOLEAN, RefreshPool(ok)
    PROVE  Inv'
<1>1. /\ scan.pc = "token" /\ scan.logs # <<>> /\ Head(scan.logs) \in Pools
      /\ memory \in Memories /\ scan.need = {}
  BY ScanRecord, TailListed DEF RefreshPool, Scanning, Inv, Types, TokensGood
<1>2. UNCHANGED <<disk, head, observedHead, poolEvents, seen>> /\ scan' = Dropped
  BY DEF RefreshPool, scanFrame, envVars
<1>3. TokensOf[Head(scan.logs)] \subseteq memory.tokens
  BY <1>1 DEF Inv, TokensGood
<1>4. memory' \in {Observed(memory, Head(scan.logs)), Rejected(memory, Head(scan.logs))}
  BY DEF RefreshPool
<1>5. Grown(memory, memory') /\ Head(scan.logs) \in Accounted(memory')
  BY <1>1, <1>3, <1>4, ObservedGrown, RejectedGrown
<1>6. QED
  BY <1>1, <1>2, <1>5, DroppedInv

LEMMA CheckpointInv == Inv /\ Checkpoint => Inv'
<1> SUFFICES ASSUME Inv, Checkpoint PROVE Inv'
  OBVIOUS
<1> DEFINE c == memory.checkpoint[Factory]
           b == memory.since[Factory]
<1>1. /\ scan \in [pc : Scanning, head : Nat \ {0}, i : DOMAIN Factories, from : Nat \ {0},
                   start : Nat, to : Nat, logs : Seq(Pools), need : SUBSET Tokens]
      /\ scan.pc = "log" /\ scan.logs = <<>> /\ scan.i \in Nat /\ Factory \in FactorySet
      /\ memory \in Memories /\ c \in Nat /\ b \in Nat
  BY ScanRecord DEF Checkpoint, Scanning, Inv, Types, Memories
<1>2. UNCHANGED <<disk, head, observedHead, poolEvents, seen>>
  BY DEF Checkpoint, scanFrame, envVars
<1>3. /\ memory'.tokens = memory.tokens /\ memory'.venues = memory.venues
      /\ memory'.rejected = memory.rejected
      /\ memory'.checkpoint = [memory.checkpoint EXCEPT ![Factory] = Greatest(@, scan.to)]
      /\ memory'.since = [memory.since EXCEPT ![Factory] = IF @ = 0 THEN scan.from ELSE @]
      /\ memory' \in Memories
  BY <1>1 DEF Checkpoint, Memories, Greatest
<1>4. scan' \in [pc : {"factory"}, head : Nat \ {0}, i : Nat] /\ scan'.pc \notin Scanning
  BY <1>1 DEF Checkpoint, NextFactory, Scanning
<1>5. Types'
  BY <1>2, <1>3, <1>4 DEF Inv, Types, ScanTyped
<1>6. seen' \subseteq Accounted(memory') /\ Accounted(memory') = Accounted(memory)
  BY <1>1, <1>2, <1>3, SeenIdle DEF Accounted
<1>7. MemoryGood(memory')
  <2>1. Configured \subseteq memory'.tokens
    BY <1>3 DEF Inv, MemoryGood
  <2>2. /\ \A f \in FactorySet \ {Factory} : /\ memory'.checkpoint[f] = memory.checkpoint[f]
                                             /\ memory'.since[f] = memory.since[f]
        /\ memory'.checkpoint[Factory] = Greatest(c, scan.to)
        /\ memory'.since[Factory] = IF b = 0 THEN scan.from ELSE b
    BY <1>1, <1>3 DEF Memories
  <2>3. /\ c = 0 \/ scan.from = c + 1 \/ scan.to <= c
        /\ scan.from <= scan.to /\ scan.start = scan.to + 1 /\ (b = 0 <=> c = 0)
    BY <1>1 DEF Inv, RangeGood, Scanning, MemoryGood
  <2>4. \A f \in FactorySet : memory'.since[f] = 0 <=> memory'.checkpoint[f] = 0
    BY <1>1, <2>2, <2>3 DEF Inv, MemoryGood, Greatest
  <2>5. ASSUME NEW p \in Pools, Covered(memory', p)
        PROVE  p \in Accounted(memory)
    <3>1. CASE FactoryOf[p] # Factory
      BY <2>2, <2>5, <3>1, Numbers DEF Inv, MemoryGood, Covered
    <3>2. CASE FactoryOf[p] = Factory
      <4>1. BornAt[p] \in Nat /\ memory'.since[Factory] <= BornAt[p]
              /\ BornAt[p] <= memory'.checkpoint[Factory]
        BY <2>2, <2>5, <3>2, Numbers DEF Covered, Greatest
      <4>2. CASE scan.from <= BornAt[p] /\ BornAt[p] <= scan.to
        BY <1>1, <2>3, <3>2, <4>1, <4>2 DEF Inv, FetchedGood, Scanning
      <4>3. CASE ~(scan.from <= BornAt[p] /\ BornAt[p] <= scan.to)
        <5>1. c > 0 /\ BornAt[p] \in b..c
          BY <1>1, <2>2, <2>3, <4>1, <4>3 DEF Greatest
        <5>2. Covered(memory, p)
          BY <3>2, <5>1 DEF Covered
        <5>3. QED
          BY <5>2 DEF Inv, MemoryGood
      <4>4. QED
        BY <4>2, <4>3
    <3>3. QED
      BY <3>1, <3>2
  <2>6. QED
    BY <1>6, <2>1, <2>4, <2>5 DEF MemoryGood
<1>8. QED
  BY <1>2, <1>4, <1>5, <1>6, <1>7, BetweenInv

-----------------------------------------------------------------------------
(* The theorem.                                                            *)

LEMMA NextInv == Inv /\ [Next]_vars => Inv'
<1> SUFFICES ASSUME Inv, [Next]_vars PROVE Inv'
  OBVIOUS
<1>1. CASE \/ UNCHANGED vars \/ NewBlock \/ CycleBegins \/ CycleEnds \/ ObserveSwap \/ SaveTick
           \/ \E p \in Pools : ObservePool(p)
  BY <1>1, QuietInv
<1>2. CASE TakePoolEvent \/ Restart \/ FactoryTick
  BY <1>2, TakePoolEventInv, RestartInv, FactoryTickInv
<1>3. CASE ScanStep
  BY <1>3, AskHeadInv, ScanFactoryInv, DedupeInv, CheckpointInv, EndScanInv,
     FetchChunkInv, ValidateTokenInv, RefreshPoolInv DEF ScanStep
<1>4. QED
  BY <1>1, <1>2, <1>3 DEF Next

\* Whatever the factories, the blocks and the sizes of ranges and chunks, and
\* wherever the process ends, every pool created since the first scan and up
\* to a checkpoint, in memory or in the file, was tracked or rejected
\* (scanOnce, SetCheckpoint, Save, Load).
THEOREM CheckpointsAreSound == Spec => []PoolsAccounted
<1>1. Inv => PoolsAccounted
  BY DEF Inv, MemoryGood, Accounted, PoolsAccounted
<1>2. QED
  BY <1>1, InitInv, NextInv, PTL DEF Spec
=============================================================================
