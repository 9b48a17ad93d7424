---------------------- MODULE ExecutionPipelineProofs ----------------------
(***************************************************************************)
(* Proofs about ExecutionPipeline, for every set of goroutines that share  *)
(* the wallet, every staleness limit and every number of crashes.          *)
(***************************************************************************)
EXTENDS ExecutionPipeline, TLAPS

-----------------------------------------------------------------------------
(* Inductive invariants.                                                   *)

\* Every nonce that is held, or was acknowledged, was handed out.
NonceBelowNext ==
    /\ \A t \in Threads : Holding(t) => nonce[t] < next
    /\ \A n \in acked : n < next

NonceInv == NonceBelowNext /\ NonceExclusive

\* The forced trade passed the marker before it could be sent.
ForcedInv ==
    /\ Forced \notin Threads => forcedSends = 0
    /\ Forced \in Threads =>
        /\ forcedSends = 0 \/ (forcedSends = 1 /\ marker
                               /\ pc[Forced] \in {"marker", "wire", "receipt", "done"})
        /\ pc[Forced] \in {"marker", "done"} \/ marker

BeforeNode(t) == pc[t] \in DOMAIN Following \cup {"nonce", "gas", "send"}
InPipeline(t) == BeforeNode(t) \/ pc[t] \in {"wire", "receipt"}
Terminal == {"trade_success", "trade_failed"}

\* A candidate is in one thread only, and its transaction at one nonce only.
OneTransaction ==
    /\ \A t \in Threads : InPipeline(t) => trade[t] \in 1..trades
    /\ \A t, u \in Threads : InPipeline(t) /\ InPipeline(u) /\ t # u => trade[t] # trade[u]
    /\ \A x \in txs : x[2] \in 1..trades
    /\ \A x, y \in txs : x[2] = y[2] => x = y
    /\ \A t \in Threads : BeforeNode(t) => \A x \in txs : x[2] # trade[t]

\* A receipt exists only for what was mined.
ReceiptAfterMining ==
    /\ \A x \in txs : x[1] >= mined => status[x[2]] = "none"
    /\ \A k \in 1..MaxTrades : k > trades => status[k] = "none"
    /\ \A t \in Threads : BeforeNode(t) => status[trade[t]] = "none"

\* A candidate gets its final record when it leaves the pipeline.
FinalRecord ==
    \A k \in 1..MaxTrades : \A e \in Terminal : <<e, k>> \in ledger =>
        k <= trades /\ \A t \in Threads : InPipeline(t) => trade[t] # k

LedgerInv == OneTransaction /\ ReceiptAfterMining /\ FinalRecord /\ SuccessIsExecuted

\* With a single thread the nonce it holds is the newest reservation.
NewestHeld ==
    \A t \in Threads :
        /\ Holding(t) => next = nonce[t] + 1 /\ \A n \in mined..(nonce[t] - 1) : Occupied(n)
        /\ pc[t] = "wire" => nonce[t] < mined \/ Occupied(nonce[t])

AloneInv == NewestHeld /\ NoNonceHole
Alone == ~Droppable /\ \A t, u \in Threads : t = u

-----------------------------------------------------------------------------
(* Lemmas about the helpers.                                               *)

LEMMA FollowingStages ==
    /\ DOMAIN Following = {"gate", "build", "simulate", "premium", "price"}
    /\ \A stage \in DOMAIN Following :
        Following[stage] \in {"build", "simulate", "premium", "price", "nonce"}
  BY DEF Following

\* No pending count is negative, so a reserved nonce is a natural number at
\* or above every nonce handed out before.
LEMMA ReservedNat ==
    ASSUME NEW c \in PendingCounts, next \in Nat \cup {Unset}
    PROVE  Reserved(c) \in Nat /\ Reserved(c) >= next
  BY BoundsAssumption DEF Reserved, Unset, PendingCounts

LEMMA ReleaseNat ==
    ASSUME NEW n \in Nat, next \in Nat \cup {Unset}, Release(n)
    PROVE  /\ next' \in Nat \cup {Unset}
           /\ next' = next \/ (next = n + 1 /\ next' = n)
  BY DEF Release, Unset

LEMMA EndStage ==
    ASSUME NEW t \in Threads
    PROVE  End(t) \in {"done", "idle"} /\ (t = Forced => End(t) = "done")
  BY DEF End

LEMMA StartStages ==
    /\ Start \in [Threads -> {"marker", "idle"}]
    /\ Forced \in Threads => Start[Forced] = "marker"
  BY DEF Start

-----------------------------------------------------------------------------
(* Type correctness.                                                       *)

Events == {"trade_sent", "trade_failed", "trade_success", "post_gas_rejected",
           "simulation_succeeded"}

LEMMA RecordType ==
    ASSUME TypeOK, NEW t \in Threads, NEW e \in Events, Record(t, e)
    PROVE  ledger' \subseteq Events \X (0..MaxTrades)
  BY DEF TypeOK, Record, Events

LEMMA TypeStep == TypeOK /\ [Next]_vars => TypeOK'
<1> SUFFICES ASSUME TypeOK, [Next]_vars PROVE TypeOK' OBVIOUS
<1> USE BoundsAssumption
<1>1. CASE UNCHANGED vars
  BY <1>1 DEF vars, threadVars, chainVars, TypeOK
<1>2. CASE Observe
  BY <1>2 DEF Observe, threadVars, chainVars, TypeOK
<1>3. CASE Drop
  BY <1>3 DEF Drop, threadVars, TypeOK
<1>4. CASE Crash
  <2>1. pc' \in [Threads -> Stages]
    BY <1>4, StartStages DEF Crash, Stages
  <2>2. crashes' \in 0..MaxCrashes
    BY <1>4 DEF Crash, TypeOK
  <2> QED
    BY <1>4, <2>1, <2>2 DEF Crash, chainVars, TypeOK
<1>5. CASE ForcedPrologue
  <2>1. pc' \in [Threads -> Stages]
    BY <1>5 DEF ForcedPrologue, ConsumeForcedTrade, DiscoverFailed, Goto, Stages, TypeOK
  <2>2. marker' \in BOOLEAN
    BY <1>5 DEF ForcedPrologue, ConsumeForcedTrade, DiscoverFailed, TypeOK
  <2> QED
    BY <1>5, <2>1, <2>2 DEF ForcedPrologue, ConsumeForcedTrade, DiscoverFailed, chainVars, TypeOK
<1>6. ASSUME NEW s \in {"ok", "reverted"}, Mine(s) PROVE TypeOK'
  <2>1. PICK x \in txs : status' = [status EXCEPT ![x[2]] = s]
    BY <1>6 DEF Mine
  <2>2. status' \in [1..MaxTrades -> {"none", "ok", "reverted"}]
    BY <2>1 DEF TypeOK
  <2> QED
    BY <1>6, <2>2 DEF Mine, threadVars, TypeOK
<1>7. ASSUME NEW t \in Threads, Process(t) PROVE TypeOK'
  <2>0. End(t) \in Stages
    BY EndStage DEF Stages
  <2>1. ASSUME NEW b \in 1..MaxHead, Enter(t, b) PROVE TypeOK'
    <3>1. "gate" \in Stages
      BY FollowingStages DEF Stages
    <3>2. pc' \in [Threads -> Stages]
      BY <2>0, <2>1, <3>1 DEF Enter, Goto, TypeOK
    <3>3. /\ trades' \in 0..MaxTrades /\ trade' \in [Threads -> 0..MaxTrades]
          /\ source' \in [Threads -> 0..MaxHead]
      BY <2>1 DEF Enter, TypeOK
    <3> QED
      BY <2>1, <3>2, <3>3 DEF Enter, chainVars, TypeOK
  <2>2. CASE Checked(t)
    <3>1. pc' \in [Threads -> Stages]
      BY <2>0, <2>2, FollowingStages DEF Checked, Goto, Stages, TypeOK
    <3>2. ledger' \subseteq Events \X (0..MaxTrades)
      BY <2>2, RecordType DEF Checked, TypeOK, Events
    <3> QED
      BY <2>2, <3>1, <3>2 DEF Checked, chainVars, TypeOK, Events
  <2>3. CASE Rejected(t)
    <3>1. pc' \in [Threads -> Stages]
      BY <2>0, <2>3 DEF Rejected, Goto, TypeOK
    <3>2. \/ Record(t, "trade_failed") \/ Record(t, "post_gas_rejected") \/ UNCHANGED ledger
      BY <2>3 DEF Rejected
    <3>3. ledger' \subseteq Events \X (0..MaxTrades)
      BY <3>2, RecordType DEF TypeOK, Events
    <3> QED
      BY <2>3, <3>1, <3>3 DEF Rejected, chainVars, TypeOK, Events
  <2>4. CASE NextNonce(t)
    BY <2>4, ReservedNat DEF NextNonce, Goto, Stages, chainVars, TypeOK
  <2>5. CASE GasPrice(t)
    <3>1. nonce[t] \in Nat /\ next' \in Nat \cup {Unset}
      BY <2>5, ReleaseNat DEF GasPrice, TypeOK
    <3> QED
      BY <2>0, <2>5, <3>1 DEF GasPrice, Goto, Stages, chainVars, TypeOK
  <2>6. CASE Deliver(t)
    <3>1. nonce[t] \in Nat /\ trade[t] \in 0..MaxTrades
      BY DEF TypeOK
    <3> QED
      BY <2>6, <3>1 DEF Deliver, Goto, Stages, TypeOK
  <2>7. CASE BroadcastFailed(t)
    <3>1. nonce[t] \in Nat /\ next' \in Nat \cup {Unset}
      BY <2>7, ReleaseNat DEF BroadcastFailed, TypeOK
    <3>2. ledger' \subseteq Events \X (0..MaxTrades)
      BY <2>7, RecordType DEF BroadcastFailed, Events
    <3> QED
      BY <2>0, <2>7, <3>1, <3>2 DEF BroadcastFailed, Goto, chainVars, TypeOK, Events
  <2>8. CASE BroadcastAcknowledged(t)
    <3>1. ledger' \subseteq Events \X (0..MaxTrades)
      BY <2>8, RecordType DEF BroadcastAcknowledged, Events
    <3> QED
      BY <2>8, <3>1 DEF BroadcastAcknowledged, Goto, Stages, chainVars, TypeOK, Events
  <2>9. CASE WaitReceipt(t) \/ ReceiptPollFailed(t)
    <3>1. ledger' \subseteq Events \X (0..MaxTrades)
      BY <2>9, RecordType DEF WaitReceipt, ReceiptPollFailed, Events
    <3> QED
      BY <2>0, <2>9, <3>1 DEF WaitReceipt, ReceiptPollFailed, Goto, chainVars, TypeOK, Events
  <2> QED
    BY <1>7, <2>1, <2>2, <2>3, <2>4, <2>5, <2>6, <2>7, <2>8, <2>9 DEF Process
<1> QED
  BY <1>1, <1>2, <1>3, <1>4, <1>5, <1>6, <1>7 DEF Next

\* The pipeline, the nonce manager and the ledger stay well typed: nonces are
\* never negative and every goroutine is at a stage ProcessWithObserver has.
THEOREM TypeCorrect == Spec => []TypeOK
<1>1. Init => TypeOK
  <2> SUFFICES ASSUME Init PROVE TypeOK OBVIOUS
  <2>1. pc \in [Threads -> Stages]
    BY StartStages DEF Init, Stages
  <2>2. head \in 0..MaxHead /\ trades \in 0..MaxTrades /\ crashes \in 0..MaxCrashes
    BY BoundsAssumption DEF Init
  <2>3. source \in [Threads -> 0..MaxHead] /\ trade \in [Threads -> 0..MaxTrades]
    BY BoundsAssumption DEF Init
  <2> QED
    BY <2>1, <2>2, <2>3 DEF Init, TypeOK, Unset
<1> QED
  BY <1>1, TypeStep, PTL DEF Spec

-----------------------------------------------------------------------------
(* The nonce manager.                                                      *)

\* A step that starts no reservation and leaves the manager alone.
LEMMA NonceFrame ==
    ASSUME TypeOK, NonceInv, UNCHANGED <<nonce, next, acked>>,
           \A t \in Threads : Holding(t)' => Holding(t)
    PROVE  NonceInv'
  BY DEF NonceInv, NonceBelowNext, NonceExclusive

\* The owner gives its nonce back; only the newest reservation is undone.
LEMMA NonceRelease ==
    ASSUME TypeOK, NonceInv, NEW t \in Threads, Holding(t), Release(nonce[t]),
           UNCHANGED <<nonce, acked>>, ~Holding(t)',
           \A u \in Threads \ {t} : Holding(u)' => Holding(u)
    PROVE  NonceInv'
<1>1. next' = next \/ (next = nonce[t] + 1 /\ next' = nonce[t])
  BY ReleaseNat DEF TypeOK
<1>2. \A u \in Threads \ {t} : Holding(u) => nonce[u] < next'
  BY <1>1 DEF NonceInv, NonceBelowNext, NonceExclusive, TypeOK
<1>3. \A n \in acked : n < next'
  BY <1>1 DEF NonceInv, NonceBelowNext, NonceExclusive, TypeOK
<1> QED
  BY <1>2, <1>3 DEF NonceInv, NonceBelowNext, NonceExclusive

LEMMA OtherThreads ==
    ASSUME TypeOK, NEW t \in Threads, NEW stage, Goto(t, stage)
    PROVE  /\ pc'[t] = stage /\ \A u \in Threads \ {t} : pc'[u] = pc[u]
  BY DEF TypeOK, Goto

LEMMA NonceStep == TypeOK /\ NonceInv /\ [Next]_vars => NonceInv'
<1> SUFFICES ASSUME TypeOK, NonceInv, [Next]_vars PROVE NonceInv' OBVIOUS
<1>1. CASE UNCHANGED vars \/ Observe \/ Drop
  BY <1>1, NonceFrame DEF vars, threadVars, Observe, Drop, Holding
<1>2. CASE Crash
  <2>1. \A t \in Threads : ~Holding(t)'
    BY <1>2, StartStages DEF Crash, Holding
  <2> QED
    BY <1>2, <2>1 DEF Crash, NonceInv, NonceBelowNext, NonceExclusive
<1>3. CASE ForcedPrologue
  <2>1. Forced \in Threads /\ (Goto(Forced, "discover") \/ Goto(Forced, "done"))
    BY <1>3 DEF ForcedPrologue, ConsumeForcedTrade, DiscoverFailed
  <2>2. \A t \in Threads : Holding(t)' => Holding(t)
    BY <2>1, OtherThreads DEF Holding
  <2> QED
    BY <1>3, <2>2, NonceFrame DEF ForcedPrologue, ConsumeForcedTrade, DiscoverFailed
<1>4. ASSUME NEW s \in {"ok", "reverted"}, Mine(s) PROVE NonceInv'
  BY <1>4, NonceFrame DEF Mine, threadVars, Holding
<1>5. ASSUME NEW t \in Threads, Process(t) PROVE NonceInv'
  <2>0. End(t) \in {"done", "idle"}
    BY EndStage
  <2>1. ASSUME NEW b \in 1..MaxHead, Enter(t, b) PROVE NonceInv'
    <3>1. ~Holding(t)' /\ \A u \in Threads \ {t} : Holding(u)' => Holding(u)
      BY <2>0, <2>1, OtherThreads DEF Enter, Holding
    <3> QED
      BY <2>1, <3>1, NonceFrame DEF Enter
  <2>2. CASE Checked(t)
    <3>1. ~Holding(t)' /\ \A u \in Threads \ {t} : Holding(u)' => Holding(u)
      BY <2>0, <2>2, OtherThreads, FollowingStages DEF Checked, Holding
    <3> QED
      BY <2>2, <3>1, NonceFrame DEF Checked
  <2>3. CASE Rejected(t) \/ WaitReceipt(t) \/ ReceiptPollFailed(t)
    <3>1. ~Holding(t)' /\ \A u \in Threads \ {t} : Holding(u)' => Holding(u)
      BY <2>0, <2>3, OtherThreads DEF Rejected, WaitReceipt, ReceiptPollFailed, Holding
    <3> QED
      BY <2>3, <3>1, NonceFrame DEF Rejected, WaitReceipt, ReceiptPollFailed
  <2>4. CASE NextNonce(t)
    <3>1. PICK c \in PendingCounts :
            nonce' = [nonce EXCEPT ![t] = Reserved(c)] /\ next' = Reserved(c) + 1
      BY <2>4 DEF NextNonce
    <3>2. Reserved(c) \in Nat /\ Reserved(c) >= next
      BY ReservedNat DEF TypeOK
    <3>3. ~Holding(t) /\ \A u \in Threads \ {t} : Holding(u)' => Holding(u) /\ nonce'[u] = nonce[u]
      BY <2>4, <3>1, OtherThreads DEF NextNonce, Holding, TypeOK
    <3>4. nonce'[t] = Reserved(c)
      BY <3>1 DEF TypeOK
    <3>5. next' \in Nat /\ next' > next /\ next' > nonce'[t] /\ acked' = acked
      BY <2>4, <3>1, <3>2, <3>4 DEF NextNonce, TypeOK, Unset
    <3>6. \A n \in acked : n \in Nat /\ n < next'
      BY <3>5 DEF NonceInv, NonceBelowNext, TypeOK, Unset
    <3>7. \A u \in Threads \ {t} : Holding(u)' => nonce'[u] < next'
      BY <3>3, <3>5 DEF NonceInv, NonceBelowNext, TypeOK, Unset
    <3>8. NonceBelowNext'
      BY <3>5, <3>6, <3>7 DEF NonceBelowNext
    <3>9. \A u \in Threads \ {t} : Holding(u)' => nonce'[u] # nonce'[t]
      BY <3>2, <3>3, <3>4 DEF NonceInv, NonceBelowNext, TypeOK, Unset
    <3>10. nonce'[t] \notin acked'
      BY <2>4, <3>2, <3>4 DEF NextNonce, NonceInv, NonceBelowNext, TypeOK, Unset
    <3>11. NonceExclusive'
      BY <2>4, <3>3, <3>9, <3>10 DEF NextNonce, NonceInv, NonceExclusive
    <3> QED
      BY <3>8, <3>11 DEF NonceInv
  <2>5. CASE GasPrice(t)
    <3>1. CASE Goto(t, "send") /\ UNCHANGED next
      <4>1. \A u \in Threads : Holding(u)' => Holding(u)
        BY <2>5, <3>1, OtherThreads DEF GasPrice, Holding
      <4> QED
        BY <2>5, <3>1, <4>1, NonceFrame DEF GasPrice
    <3>2. CASE Goto(t, End(t)) /\ Release(nonce[t])
      <4>1. ~Holding(t)' /\ \A u \in Threads \ {t} : Holding(u)' => Holding(u)
        BY <2>0, <3>2, OtherThreads DEF Holding
      <4> QED
        BY <2>5, <3>2, <4>1, NonceRelease DEF GasPrice, Holding
    <3> QED
      BY <2>5, <3>1, <3>2 DEF GasPrice
  <2>6. CASE Deliver(t)
    <3>1. \A u \in Threads : Holding(u)' => Holding(u)
      BY <2>6, OtherThreads DEF Deliver, Holding
    <3> QED
      BY <2>6, <3>1, NonceFrame DEF Deliver
  <2>7. CASE BroadcastFailed(t)
    <3>1. ~Holding(t)' /\ \A u \in Threads \ {t} : Holding(u)' => Holding(u)
      BY <2>0, <2>7, OtherThreads DEF BroadcastFailed, Holding
    <3> QED
      BY <2>7, <3>1, NonceRelease DEF BroadcastFailed, Holding
  <2>8. CASE BroadcastAcknowledged(t)
    <3>1. ~Holding(t)' /\ \A u \in Threads \ {t} : Holding(u)' => Holding(u)
      BY <2>8, OtherThreads DEF BroadcastAcknowledged, Holding
    <3>2. Holding(t)
      BY <2>8 DEF BroadcastAcknowledged, Holding
    <3> QED
      BY <2>8, <3>1, <3>2 DEF BroadcastAcknowledged, NonceInv, NonceBelowNext, NonceExclusive
  <2> QED
    BY <1>5, <2>1, <2>2, <2>3, <2>4, <2>5, <2>6, <2>7, <2>8 DEF Process
<1> QED
  BY <1>1, <1>2, <1>3, <1>4, <1>5 DEF Next

\* However many goroutines share the wallet and however their reservations,
\* releases and broadcasts interleave, no two of them hold one nonce at the same
\* time, and none whose broadcast was acknowledged is issued again before a
\* restart.  One whose broadcast returned an error may be (NonceManager).
THEOREM NoncesAreExclusive == Spec => []NonceExclusive
<1>1. Init => NonceInv
  BY StartStages DEF Init, NonceInv, NonceBelowNext, NonceExclusive, Holding
<1>2. NonceInv => NonceExclusive
  BY DEF NonceInv
<1> QED
  BY <1>1, <1>2, NonceStep, TypeCorrect, PTL DEF Spec

-----------------------------------------------------------------------------
(* The flags against broadcasting.                                         *)

\* A step that keeps the flags and moves no thread into a signing stage.
LEMMA FlagFrame ==
    ASSUME BroadcastNeedsEveryFlag, UNCHANGED config,
           \/ Broadcasting
           \/ next' = next /\ \A t \in Threads : pc'[t] \in Signing => pc[t] \in Signing
    PROVE  BroadcastNeedsEveryFlag'
  BY DEF BroadcastNeedsEveryFlag, Broadcasting

LEMMA FlagStep == TypeOK /\ BroadcastNeedsEveryFlag /\ [Next]_vars => BroadcastNeedsEveryFlag'
<1> SUFFICES ASSUME TypeOK, BroadcastNeedsEveryFlag, [Next]_vars PROVE BroadcastNeedsEveryFlag'
  OBVIOUS
<1>1. CASE UNCHANGED vars \/ Observe \/ Drop
  BY <1>1, FlagFrame DEF vars, threadVars, Observe, Drop
<1>2. CASE Crash
  <2>1. \A t \in Threads : pc'[t] \notin Signing
    BY <1>2, StartStages DEF Crash, Signing
  <2> QED
    BY <1>2, <2>1 DEF Crash, BroadcastNeedsEveryFlag
<1>3. CASE ForcedPrologue
  <2>1. Forced \in Threads /\ (Goto(Forced, "discover") \/ Goto(Forced, "done"))
    BY <1>3 DEF ForcedPrologue, ConsumeForcedTrade, DiscoverFailed
  <2>2. \A t \in Threads : pc'[t] \in Signing => pc[t] \in Signing
    BY <2>1, OtherThreads DEF Signing
  <2> QED
    BY <1>3, <2>2, FlagFrame DEF ForcedPrologue, ConsumeForcedTrade, DiscoverFailed
<1>4. ASSUME NEW s \in {"ok", "reverted"}, Mine(s) PROVE BroadcastNeedsEveryFlag'
  BY <1>4, FlagFrame DEF Mine, threadVars
<1>5. ASSUME NEW t \in Threads, Process(t) PROVE BroadcastNeedsEveryFlag'
  <2>0. End(t) \in {"done", "idle"}
    BY EndStage
  <2>1. ASSUME NEW b \in 1..MaxHead, Enter(t, b) PROVE BroadcastNeedsEveryFlag'
    <3>1. pc'[t] \in {"gate", "done", "idle"} /\ \A u \in Threads \ {t} : pc'[u] = pc[u]
      BY <2>0, <2>1, OtherThreads DEF Enter
    <3> QED
      BY <2>1, <3>1, FlagFrame DEF Enter, Signing
  <2>2. CASE Checked(t)
    <3>1. \A u \in Threads \ {t} : pc'[u] = pc[u]
      BY <2>2, OtherThreads DEF Checked
    <3>2. Broadcasting \/ pc'[t] \notin Signing
      <4>1. CASE pc[t] = "price" /\ ~Broadcasting
        BY <2>0, <2>2, <4>1, OtherThreads DEF Checked, Signing
      <4>2. CASE pc[t] # "price"
        BY <2>2, <4>2, OtherThreads DEF Checked, Signing, Following
      <4> QED
        BY <4>1, <4>2
    <3> QED
      BY <2>2, <3>1, <3>2, FlagFrame DEF Checked
  <2>3. CASE Rejected(t) \/ WaitReceipt(t) \/ ReceiptPollFailed(t)
    <3>1. pc'[t] \in {"done", "idle"} /\ \A u \in Threads \ {t} : pc'[u] = pc[u]
      BY <2>0, <2>3, OtherThreads DEF Rejected, WaitReceipt, ReceiptPollFailed
    <3> QED
      BY <2>3, <3>1, FlagFrame DEF Rejected, WaitReceipt, ReceiptPollFailed, Signing
  <2>4. CASE NextNonce(t) \/ GasPrice(t) \/ Deliver(t) \/ BroadcastFailed(t)
             \/ BroadcastAcknowledged(t)
    <3>1. pc[t] \in Signing /\ UNCHANGED config
      BY <2>4 DEF NextNonce, GasPrice, Deliver, BroadcastFailed, BroadcastAcknowledged, Signing
    <3>2. Broadcasting
      BY <3>1 DEF BroadcastNeedsEveryFlag, Broadcasting
    <3> QED
      BY <3>1, <3>2, FlagFrame
  <2> QED
    BY <1>5, <2>1, <2>2, <2>3, <2>4 DEF Process
<1> QED
  BY <1>1, <1>2, <1>3, <1>4, <1>5 DEF Next

\* A process whose flags do not all allow it reserves no nonce and signs
\* nothing, whatever a process before it left on the chain.
THEOREM FlagsAreObeyed == Spec => []BroadcastNeedsEveryFlag
<1>1. Init => BroadcastNeedsEveryFlag
  BY StartStages DEF Init, BroadcastNeedsEveryFlag, Signing
<1> QED
  BY <1>1, FlagStep, TypeCorrect, PTL DEF Spec

-----------------------------------------------------------------------------
(* The one-shot forced trade.                                              *)

LEMMA ForcedStep == TypeOK /\ ForcedInv /\ [Next]_vars => ForcedInv'
<1> SUFFICES ASSUME TypeOK, ForcedInv, [Next]_vars PROVE ForcedInv' OBVIOUS
<1>1. CASE UNCHANGED vars \/ Observe \/ Drop
  BY <1>1 DEF vars, threadVars, Observe, Drop, ForcedInv
<1>2. CASE Crash
  BY <1>2, StartStages DEF Crash, ForcedInv
<1>3. CASE ForcedPrologue
  <2>1. Forced \in Threads /\ UNCHANGED forcedSends
    BY <1>3 DEF ForcedPrologue, ConsumeForcedTrade, DiscoverFailed
  <2>2. CASE ConsumeForcedTrade
    <3>1. CASE MarkerFree /\ marker' = TRUE /\ Goto(Forced, "discover")
      BY <2>1, <3>1, OtherThreads DEF MarkerFree, ForcedInv
    <3>2. CASE marker' \in {marker, TRUE} /\ Goto(Forced, "done")
      <4>1. pc'[Forced] = "done"
        BY <2>1, <3>2, OtherThreads
      <4>2. marker => marker'
        BY <3>2, Zenon
      <4> QED
        BY <2>1, <4>1, <4>2 DEF ForcedInv
    <3> QED
      BY <2>2, <3>1, <3>2 DEF ConsumeForcedTrade
  <2>3. CASE DiscoverFailed
    BY <2>1, <2>3, OtherThreads DEF DiscoverFailed, ForcedInv
  <2> QED
    BY <1>3, <2>2, <2>3 DEF ForcedPrologue
<1>4. ASSUME NEW s \in {"ok", "reverted"}, Mine(s) PROVE ForcedInv'
  BY <1>4 DEF Mine, threadVars, ForcedInv
<1>5. ASSUME NEW t \in Threads, Process(t) PROVE ForcedInv'
  <2>0. UNCHANGED marker /\ (Forced # t => Forced \notin Threads \/ pc'[Forced] = pc[Forced])
    BY <1>5, OtherThreads DEF Process, Enter, Checked, Rejected, NextNonce, GasPrice, Deliver,
       BroadcastFailed, BroadcastAcknowledged, WaitReceipt, ReceiptPollFailed
  <2>1. ASSUME t # Forced PROVE ForcedInv'
    <3>1. UNCHANGED forcedSends
      BY <1>5, <2>1 DEF Process, Enter, Checked, Rejected, NextNonce, GasPrice, Deliver,
         BroadcastFailed, BroadcastAcknowledged, WaitReceipt, ReceiptPollFailed
    <3> QED
      BY <2>0, <2>1, <3>1 DEF ForcedInv
  <2>2. ASSUME t = Forced PROVE ForcedInv'
    <3>0. End(t) = "done"
      BY <2>2, EndStage
    <3>1. CASE Deliver(t)
      <4>1. pc[t] = "send" /\ pc'[t] = "wire" /\ forcedSends' = forcedSends + 1
        BY <2>2, <3>1, OtherThreads DEF Deliver
      <4>2. forcedSends = 0 /\ marker
        BY <2>2, <4>1 DEF ForcedInv
      <4> QED
        BY <2>0, <2>2, <4>1, <4>2 DEF ForcedInv
    <3>2. ASSUME NEW b \in 1..MaxHead, Enter(t, b) PROVE ForcedInv'
      <4>1. pc[t] = "discover" /\ pc'[t] \in {"gate", "done"} /\ UNCHANGED forcedSends
        BY <2>2, <3>0, <3>2, OtherThreads DEF Enter
      <4> QED
        BY <2>0, <2>2, <4>1 DEF ForcedInv
    <3>3. CASE Checked(t)
      <4>1. /\ pc[t] \in {"gate", "build", "simulate", "premium", "price"}
            /\ UNCHANGED forcedSends
        BY <3>3, FollowingStages DEF Checked
      <4> QED
        BY <2>0, <2>2, <4>1 DEF ForcedInv
    <3>4. CASE Rejected(t)
      <4>1. /\ pc[t] \in {"gate", "build", "simulate", "premium", "price", "nonce"}
            /\ UNCHANGED forcedSends
        BY <3>4, FollowingStages DEF Rejected
      <4> QED
        BY <2>0, <2>2, <4>1 DEF ForcedInv
    <3>5. CASE NextNonce(t) \/ GasPrice(t)
      <4>1. pc[t] \in {"nonce", "gas"} /\ UNCHANGED forcedSends
        BY <3>5 DEF NextNonce, GasPrice
      <4> QED
        BY <2>0, <2>2, <4>1 DEF ForcedInv
    <3>6. CASE \/ BroadcastFailed(t) \/ BroadcastAcknowledged(t)
               \/ WaitReceipt(t) \/ ReceiptPollFailed(t)
      <4>1. /\ pc[t] \in {"send", "wire", "receipt"} /\ pc'[t] \in {"receipt", "done"}
            /\ UNCHANGED forcedSends
        BY <3>0, <3>6, OtherThreads DEF BroadcastFailed, BroadcastAcknowledged, WaitReceipt,
           ReceiptPollFailed
      <4> QED
        BY <2>0, <2>2, <4>1 DEF ForcedInv
    <3> QED
      BY <1>5, <3>1, <3>2, <3>3, <3>4, <3>5, <3>6 DEF Process
  <2> QED
    BY <2>1, <2>2
<1> QED
  BY <1>1, <1>2, <1>3, <1>4, <1>5 DEF Next

\* Over every number of crashes and restarts, the forced trade reaches the
\* node at most once: consumeForcedTrade creates the marker first.
THEOREM ForcedTradeOnce == Spec => []ForcedAtMostOnce
<1>1. Init => ForcedInv
  BY StartStages DEF Init, ForcedInv
<1>2. TypeOK /\ ForcedInv => ForcedAtMostOnce
  BY DEF ForcedInv, ForcedAtMostOnce, TypeOK
<1> QED
  BY <1>1, <1>2, ForcedStep, TypeCorrect, PTL DEF Spec

-----------------------------------------------------------------------------
(* The profit ledger.                                                      *)

\* A step that delivers, mines and finally records nothing.
LEMMA LedgerFrame ==
    ASSUME LedgerInv, UNCHANGED <<trade, trades, mined, status>>, txs' \subseteq txs,
           \A t \in Threads : /\ InPipeline(t)' => InPipeline(t)
                              /\ BeforeNode(t)' => BeforeNode(t),
           \A k \in 1..MaxTrades, e \in Terminal : <<e, k>> \in ledger' => <<e, k>> \in ledger
    PROVE  LedgerInv'
<1>1. OneTransaction'
  BY DEF LedgerInv, OneTransaction
<1>2. ReceiptAfterMining'
  BY DEF LedgerInv, ReceiptAfterMining
<1>3. FinalRecord'
  BY DEF LedgerInv, FinalRecord
<1>4. SuccessIsExecuted'
  BY DEF LedgerInv, SuccessIsExecuted, Terminal
<1> QED
  BY <1>1, <1>2, <1>3, <1>4 DEF LedgerInv

\* A thread leaves the pipeline with a record.
LEMMA LedgerLeave ==
    ASSUME TypeOK, LedgerInv, UNCHANGED <<trade, trades, txs, mined, status>>,
           NEW t \in Threads, InPipeline(t), Goto(t, End(t)),
           NEW e \in Events, Record(t, e), e = "trade_success" => status[trade[t]] = "ok"
    PROVE  LedgerInv'
<1>1. ~InPipeline(t)'
  BY OtherThreads, EndStage, FollowingStages DEF InPipeline, BeforeNode
<1>2. \A u \in Threads \ {t} : /\ InPipeline(u)' <=> InPipeline(u)
                               /\ BeforeNode(u)' <=> BeforeNode(u)
  BY OtherThreads DEF InPipeline, BeforeNode
<1>3. OneTransaction' /\ ReceiptAfterMining'
  BY <1>1, <1>2 DEF LedgerInv, OneTransaction, ReceiptAfterMining, InPipeline
<1>4. \A d \in Terminal, k \in 1..MaxTrades :
        <<d, k>> \in ledger' => <<d, k>> \in ledger \/ (d = e /\ k = trade[t])
  BY DEF Record
<1>5. FinalRecord'
  <2> SUFFICES ASSUME NEW k \in 1..MaxTrades, NEW d \in Terminal, <<d, k>> \in ledger'
               PROVE  k <= trades' /\ \A u \in Threads : InPipeline(u)' => trade'[u] # k
    BY DEF FinalRecord
  <2>1. CASE <<d, k>> \in ledger
    BY <1>1, <1>2, <2>1 DEF LedgerInv, FinalRecord
  <2>2. CASE k = trade[t]
    <3>1. k \in 1..trades
      BY <2>2 DEF LedgerInv, OneTransaction
    <3>2. \A u \in Threads \ {t} : InPipeline(u) => trade[u] # trade[t]
      BY DEF LedgerInv, OneTransaction
    <3>3. k <= trades
      BY <3>1 DEF TypeOK
    <3>4. \A u \in Threads : InPipeline(u)' => trade[u] # k
      BY <1>1, <1>2, <2>2, <3>2
    <3> QED
      BY <3>3, <3>4
  <2> QED
    BY <1>4, <2>1, <2>2
<1>6. \A d \in Terminal : trade[t] \in 1..MaxTrades => <<d, trade[t]>> \notin ledger
  BY DEF LedgerInv, FinalRecord
<1>7. SuccessIsExecuted'
  BY <1>4, <1>6 DEF LedgerInv, SuccessIsExecuted, Terminal
<1> QED
  BY <1>3, <1>5, <1>7 DEF LedgerInv

LEMMA LedgerMine ==
    ASSUME TypeOK, LedgerInv, NEW s \in {"ok", "reverted"}, Mine(s)
    PROVE  LedgerInv'
<1>1. PICK x \in txs : x[1] = mined /\ status' = [status EXCEPT ![x[2]] = s]
  BY DEF Mine
<1>2. x[2] \in 1..MaxTrades /\ status[x[2]] = "none"
  BY <1>1 DEF LedgerInv, OneTransaction, ReceiptAfterMining, TypeOK
<1>3. \A k \in 1..MaxTrades : k # x[2] => status'[k] = status[k]
  BY <1>1, <1>2 DEF TypeOK
<1>4. OneTransaction'
  BY DEF Mine, threadVars, LedgerInv, OneTransaction, InPipeline, BeforeNode
<1>5. ReceiptAfterMining'
  <2>1. \A y \in txs' : y[1] >= mined' => status'[y[2]] = "none"
    <3> SUFFICES ASSUME NEW y \in txs, y[1] >= mined + 1 PROVE status'[y[2]] = "none"
      BY DEF Mine
    <3>1. y[1] \in Nat /\ mined \in Nat /\ y[2] \in 1..MaxTrades
      BY DEF LedgerInv, OneTransaction, TypeOK
    <3>2. y[1] >= mined /\ y # x
      BY <1>1, <3>1
    <3>3. y[2] # x[2] /\ status[y[2]] = "none"
      BY <3>2 DEF LedgerInv, OneTransaction, ReceiptAfterMining
    <3> QED
      BY <1>3, <3>1, <3>3
  <2>2. \A k \in 1..MaxTrades : k > trades' => status'[k] = "none"
    BY <1>3 DEF Mine, threadVars, LedgerInv, ReceiptAfterMining, OneTransaction, TypeOK
  <2>3. \A t \in Threads : BeforeNode(t)' => status'[trade'[t]] = "none"
    <3> SUFFICES ASSUME NEW t \in Threads, BeforeNode(t) PROVE status'[trade[t]] = "none"
      BY DEF Mine, threadVars, BeforeNode
    <3>1. trade[t] \in 1..MaxTrades /\ trade[t] # x[2] /\ status[trade[t]] = "none"
      BY DEF LedgerInv, OneTransaction, ReceiptAfterMining, InPipeline, TypeOK
    <3> QED
      BY <1>3, <3>1
  <2> QED
    BY <2>1, <2>2, <2>3 DEF ReceiptAfterMining
<1>6. FinalRecord'
  BY DEF Mine, threadVars, LedgerInv, FinalRecord, InPipeline, BeforeNode
<1>7. SuccessIsExecuted'
  BY <1>2, <1>3 DEF Mine, LedgerInv, SuccessIsExecuted
<1> QED
  BY <1>4, <1>5, <1>6, <1>7 DEF LedgerInv

LEMMA LedgerEnter ==
    ASSUME TypeOK, LedgerInv, NEW t \in Threads, NEW b \in 1..MaxHead, Enter(t, b)
    PROVE  LedgerInv'
<1>1. /\ trades' = trades + 1 /\ trade'[t] = trades + 1
      /\ \A u \in Threads \ {t} : trade'[u] = trade[u]
      /\ trades \in Nat /\ trades + 1 \in 1..MaxTrades
  BY BoundsAssumption DEF Enter, TypeOK
<1>2. \A u \in Threads \ {t} : /\ InPipeline(u)' <=> InPipeline(u)
                               /\ BeforeNode(u)' <=> BeforeNode(u)
  BY OtherThreads DEF Enter, InPipeline, BeforeNode
<1>3. UNCHANGED <<txs, mined, status, ledger>>
  BY DEF Enter, chainVars
<1>4. OneTransaction'
  <2>1. \A u \in Threads : InPipeline(u)' => trade'[u] \in 1..trades'
    <3> SUFFICES ASSUME NEW u \in Threads, InPipeline(u)' PROVE trade'[u] \in 1..trades'
      OBVIOUS
    <3>1. CASE u = t
      BY <1>1, <3>1
    <3>2. CASE u # t
      <4>1. trade'[u] = trade[u] /\ trade[u] \in 1..trades
        BY <1>1, <1>2, <3>2 DEF LedgerInv, OneTransaction
      <4> QED
        BY <1>1, <4>1
    <3> QED
      BY <3>1, <3>2
  <2>2. \A u \in Threads \ {t} : InPipeline(u)' => trade'[u] # trade'[t]
    BY <1>1, <1>2 DEF LedgerInv, OneTransaction, TypeOK
  <2>3. \A u, v \in Threads : InPipeline(u)' /\ InPipeline(v)' /\ u # v => trade'[u] # trade'[v]
    BY <1>1, <1>2, <2>2 DEF LedgerInv, OneTransaction
  <2>4. \A x \in txs' : x[2] \in 1..trades' /\ x[2] # trades + 1
    BY <1>1, <1>3 DEF LedgerInv, OneTransaction
  <2>5. \A u \in Threads : BeforeNode(u)' => \A x \in txs' : x[2] # trade'[u]
    BY <1>1, <1>2, <1>3, <2>4 DEF LedgerInv, OneTransaction
  <2> QED
    BY <1>3, <2>1, <2>3, <2>4, <2>5 DEF LedgerInv, OneTransaction
<1>5. ReceiptAfterMining'
  BY <1>1, <1>2, <1>3 DEF LedgerInv, ReceiptAfterMining, TypeOK
<1>6. FinalRecord'
  <2> SUFFICES ASSUME NEW k \in 1..MaxTrades, NEW e \in Terminal, <<e, k>> \in ledger
               PROVE  k <= trades' /\ \A u \in Threads : InPipeline(u)' => trade'[u] # k
    BY <1>3 DEF FinalRecord
  <2>1. k <= trades /\ \A u \in Threads : InPipeline(u) => trade[u] # k
    BY DEF LedgerInv, FinalRecord
  <2> QED
    BY <1>1, <1>2, <2>1
<1>7. SuccessIsExecuted'
  BY <1>3 DEF LedgerInv, SuccessIsExecuted
<1> QED
  BY <1>4, <1>5, <1>6, <1>7 DEF LedgerInv

LEMMA LedgerDeliver ==
    ASSUME TypeOK, LedgerInv, NEW t \in Threads, Deliver(t)
    PROVE  LedgerInv'
<1>1. BeforeNode(t) /\ ~BeforeNode(t)' /\ InPipeline(t)
  BY OtherThreads, FollowingStages DEF Deliver, BeforeNode, InPipeline
<1>2. \A u \in Threads \ {t} : /\ InPipeline(u)' <=> InPipeline(u)
                               /\ BeforeNode(u)' <=> BeforeNode(u)
  BY OtherThreads DEF Deliver, InPipeline, BeforeNode
<1>3. UNCHANGED <<trade, trades, mined, status, ledger>>
  BY DEF Deliver
<1>4. \A x \in txs' : x \in txs \/ x = <<nonce[t], trade[t]>>
  BY DEF Deliver
<1>5. OneTransaction'
  BY <1>1, <1>2, <1>3, <1>4 DEF LedgerInv, OneTransaction, InPipeline
<1>6. ReceiptAfterMining'
  BY <1>1, <1>2, <1>3, <1>4 DEF LedgerInv, ReceiptAfterMining
<1>7. FinalRecord'
  BY <1>1, <1>2, <1>3 DEF LedgerInv, FinalRecord
<1>8. SuccessIsExecuted'
  BY <1>3 DEF LedgerInv, SuccessIsExecuted
<1> QED
  BY <1>5, <1>6, <1>7, <1>8 DEF LedgerInv

LEMMA LedgerStep == TypeOK /\ LedgerInv /\ [Next]_vars => LedgerInv'
<1> SUFFICES ASSUME TypeOK, LedgerInv, [Next]_vars PROVE LedgerInv' OBVIOUS
<1>1. CASE UNCHANGED vars \/ Observe \/ Drop
  BY <1>1, LedgerFrame DEF vars, threadVars, chainVars, Observe, Drop, InPipeline, BeforeNode
<1>2. CASE Crash
  <2>1. \A t \in Threads : ~InPipeline(t)' /\ ~BeforeNode(t)'
    BY <1>2, StartStages, FollowingStages DEF Crash, InPipeline, BeforeNode
  <2> QED
    BY <1>2, <2>1, LedgerFrame DEF Crash, chainVars
<1>3. CASE ForcedPrologue
  <2>1. Forced \in Threads /\ (Goto(Forced, "discover") \/ Goto(Forced, "done"))
    BY <1>3 DEF ForcedPrologue, ConsumeForcedTrade, DiscoverFailed
  <2>2. \A t \in Threads : /\ InPipeline(t)' => InPipeline(t)
                           /\ BeforeNode(t)' => BeforeNode(t)
    BY <2>1, OtherThreads, FollowingStages DEF InPipeline, BeforeNode
  <2> QED
    BY <1>3, <2>2, LedgerFrame DEF ForcedPrologue, ConsumeForcedTrade, DiscoverFailed, chainVars
<1>4. ASSUME NEW s \in {"ok", "reverted"}, Mine(s) PROVE LedgerInv'
  BY <1>4, LedgerMine
<1>5. ASSUME NEW t \in Threads, Process(t) PROVE LedgerInv'
  <2>1. ASSUME NEW b \in 1..MaxHead, Enter(t, b) PROVE LedgerInv'
    BY <2>1, LedgerEnter
  <2>2. CASE Checked(t)
    <3>0. UNCHANGED <<trade, trades, txs, mined, status>> /\ BeforeNode(t) /\ InPipeline(t)
      BY <2>2 DEF Checked, chainVars, BeforeNode, InPipeline
    <3>1. CASE Goto(t, End(t)) /\ Record(t, "simulation_succeeded")
      BY <3>0, <3>1, LedgerLeave DEF Events
    <3>2. CASE Goto(t, Following[pc[t]]) /\ UNCHANGED ledger
      <4>1. \A u \in Threads : /\ InPipeline(u)' => InPipeline(u)
                               /\ BeforeNode(u)' => BeforeNode(u)
        BY <3>0, <3>2, OtherThreads DEF InPipeline, BeforeNode
      <4> QED
        BY <3>0, <3>2, <4>1, LedgerFrame
    <3> QED
      BY <2>2, <3>1, <3>2 DEF Checked
  <2>3. CASE Rejected(t)
    <3>0. UNCHANGED <<trade, trades, txs, mined, status>> /\ InPipeline(t) /\ Goto(t, End(t))
      BY <2>3 DEF Rejected, chainVars, BeforeNode, InPipeline
    <3>1. CASE Record(t, "trade_failed")
      BY <3>0, <3>1, LedgerLeave DEF Events
    <3>2. CASE Record(t, "post_gas_rejected")
      BY <3>0, <3>2, LedgerLeave DEF Events
    <3>3. CASE UNCHANGED ledger
      <4>1. \A u \in Threads : /\ InPipeline(u)' => InPipeline(u)
                               /\ BeforeNode(u)' => BeforeNode(u)
        BY <3>0, OtherThreads, EndStage, FollowingStages DEF InPipeline, BeforeNode
      <4> QED
        BY <3>0, <3>3, <4>1, LedgerFrame
    <3> QED
      BY <2>3, <3>1, <3>2, <3>3 DEF Rejected
  <2>4. CASE NextNonce(t) \/ GasPrice(t)
    <3>1. \A u \in Threads : /\ InPipeline(u)' => InPipeline(u)
                             /\ BeforeNode(u)' => BeforeNode(u)
      BY <2>4, OtherThreads, EndStage, FollowingStages
      DEF NextNonce, GasPrice, InPipeline, BeforeNode
    <3> QED
      BY <2>4, <3>1, LedgerFrame DEF NextNonce, GasPrice, chainVars
  <2>5. CASE Deliver(t)
    BY <2>5, LedgerDeliver
  <2>6. CASE BroadcastFailed(t)
    BY <2>6, LedgerLeave DEF BroadcastFailed, chainVars, InPipeline, BeforeNode, Events
  <2>7. CASE BroadcastAcknowledged(t)
    <3>1. \A u \in Threads : /\ InPipeline(u)' => InPipeline(u)
                             /\ BeforeNode(u)' => BeforeNode(u)
      BY <2>7, OtherThreads, FollowingStages DEF BroadcastAcknowledged, InPipeline, BeforeNode
    <3>2. \A k \in 1..MaxTrades, e \in Terminal : <<e, k>> \in ledger' => <<e, k>> \in ledger
      BY <2>7 DEF BroadcastAcknowledged, Record, Terminal
    <3> QED
      BY <2>7, <3>1, <3>2, LedgerFrame DEF BroadcastAcknowledged, chainVars
  <2>8. CASE WaitReceipt(t)
    BY <2>8, LedgerLeave DEF WaitReceipt, ReceiptSucceeded, chainVars, InPipeline, Events
  <2>9. CASE ReceiptPollFailed(t)
    BY <2>9, LedgerLeave DEF ReceiptPollFailed, chainVars, InPipeline, Events
  <2> QED
    BY <1>5, <2>1, <2>2, <2>3, <2>4, <2>5, <2>6, <2>7, <2>8, <2>9 DEF Process
<1> QED
  BY <1>1, <1>2, <1>3, <1>4, <1>5 DEF Next

\* The ledger books a success only for a candidate whose transaction was
\* executed without revert, and never books the same candidate as failed.
THEOREM SuccessesAreExecuted == Spec => []SuccessIsExecuted
<1>1. Init => LedgerInv
  <2> SUFFICES ASSUME Init PROVE LedgerInv OBVIOUS
  <2>1. \A t \in Threads : ~InPipeline(t)
    BY StartStages, FollowingStages DEF Init, InPipeline, BeforeNode
  <2>2. \A k \in 1..MaxTrades : status[k] = "none"
    BY DEF Init
  <2> QED
    BY <2>1, <2>2 DEF Init, LedgerInv, OneTransaction, ReceiptAfterMining, FinalRecord,
       SuccessIsExecuted, InPipeline
<1>2. LedgerInv => SuccessIsExecuted
  BY DEF LedgerInv
<1> QED
  BY <1>1, <1>2, LedgerStep, TypeCorrect, PTL DEF Spec

-----------------------------------------------------------------------------
(* The scheduler goroutine alone on the wallet.                            *)

\* Every nonce from the account's nonce up to n is in use.
FilledBelow(n) == \A i \in mined..(n - 1) : Occupied(i)

LEMMA AloneMeans ==
    ASSUME Alone, NEW t \in Threads, AloneInv, TypeOK
    PROVE  /\ Holding(t) => next = nonce[t] + 1 /\ FilledBelow(nonce[t])
           /\ ~Holding(t) => next = Unset \/ FilledBelow(next)
           /\ pc[t] = "wire" => nonce[t] < mined \/ Occupied(nonce[t])
  BY DEF Alone, AloneInv, NewestHeld, NoNonceHole, FilledBelow

LEMMA AloneEstablish ==
    ASSUME Alone, NEW t \in Threads,
           Holding(t)' => (next = nonce[t] + 1)' /\ FilledBelow(nonce[t])',
           ~Holding(t)' => next' = Unset \/ FilledBelow(next)',
           (pc[t] = "wire")' => (nonce[t] < mined \/ Occupied(nonce[t]))'
    PROVE  AloneInv'
  BY DEF Alone, AloneInv, NewestHeld, NoNonceHole, FilledBelow

\* A step that leaves the manager and the stage of the nonce alone, and by
\* which the node forgets nothing.
LEMMA AloneFrame ==
    ASSUME TypeOK, TypeOK', Alone, AloneInv, UNCHANGED <<nonce, next>>, mined' >= mined,
           \A i \in Nat : Occupied(i) => Occupied(i)',
           \A t \in Threads : /\ Holding(t)' <=> Holding(t)
                              /\ (pc[t] = "wire")' => pc[t] = "wire"
    PROVE  AloneInv'
<1>1. \A n \in Nat : FilledBelow(n) => FilledBelow(n)'
  BY DEF FilledBelow, TypeOK
<1>2. CASE Threads = {}
  BY <1>1, <1>2 DEF AloneInv, NewestHeld, NoNonceHole, FilledBelow, TypeOK
<1>3. ASSUME NEW t \in Threads PROVE AloneInv'
  <2>1. Holding(t)' => (next = nonce[t] + 1)' /\ FilledBelow(nonce[t])'
    BY <1>1, AloneMeans DEF TypeOK
  <2>2. ~Holding(t)' => next' = Unset \/ FilledBelow(next)'
    BY <1>1, AloneMeans DEF TypeOK
  <2>3. (pc[t] = "wire")' => (nonce[t] < mined \/ Occupied(nonce[t]))'
    <3>1. nonce[t] \in Nat /\ mined \in Nat /\ mined' \in Nat
      BY DEF TypeOK
    <3>2. (pc[t] = "wire")' => nonce[t] < mined \/ Occupied(nonce[t])
      BY AloneMeans
    <3>3. Occupied(nonce[t]) => Occupied(nonce[t])'
      BY <3>1 DEF Occupied
    <3> QED
      BY <3>1, <3>2, <3>3
  <2> QED
    BY <2>1, <2>2, <2>3, AloneEstablish
<1> QED
  BY <1>2, <1>3

LEMMA AloneChainKept ==
    ASSUME TypeOK, TypeOK', Alone, AloneInv, UNCHANGED <<nonce, next, txs, mined>>,
           \A t \in Threads : /\ Holding(t)' <=> Holding(t)
                              /\ (pc[t] = "wire")' => pc[t] = "wire"
    PROVE  AloneInv'
<1>1. \A i \in Nat : Occupied(i) => Occupied(i)'
  BY DEF Occupied
<1>2. mined' >= mined
  BY DEF TypeOK
<1> QED
  BY <1>1, <1>2, AloneFrame

LEMMA AloneStep == Alone /\ TypeOK /\ TypeOK' /\ AloneInv /\ [Next]_vars => AloneInv'
<1> SUFFICES ASSUME Alone, TypeOK, TypeOK', AloneInv, [Next]_vars PROVE AloneInv' OBVIOUS
<1>1. CASE UNCHANGED vars \/ Observe
  BY <1>1, AloneChainKept DEF vars, threadVars, chainVars, Observe, Holding
<1>2. CASE Drop
  BY <1>2 DEF Drop, Alone
<1>3. CASE Crash
  <2>1. \A t \in Threads : ~Holding(t)' /\ pc'[t] # "wire"
    BY <1>3, StartStages DEF Crash, Holding
  <2> QED
    BY <1>3, <2>1 DEF Crash, AloneInv, NewestHeld, NoNonceHole
<1>4. CASE ForcedPrologue
  <2>1. /\ Forced \in Threads /\ pc[Forced] \in {"marker", "discover"}
        /\ Goto(Forced, "discover") \/ Goto(Forced, "done")
    BY <1>4 DEF ForcedPrologue, ConsumeForcedTrade, DiscoverFailed
  <2>2. \A t \in Threads : (Holding(t)' <=> Holding(t)) /\ ((pc[t] = "wire")' => pc[t] = "wire")
    BY <2>1, OtherThreads DEF Holding
  <2> QED
    BY <1>4, <2>2, AloneChainKept
    DEF ForcedPrologue, ConsumeForcedTrade, DiscoverFailed, chainVars
<1>5. ASSUME NEW s \in {"ok", "reverted"}, Mine(s) PROVE AloneInv'
  BY <1>5, AloneFrame DEF Mine, threadVars, Holding, Occupied, TypeOK
<1>6. ASSUME NEW t \in Threads, Process(t) PROVE AloneInv'
  <2>0. End(t) \in {"done", "idle"}
    BY EndStage
  <2>1. ASSUME NEW b \in 1..MaxHead, Enter(t, b) PROVE AloneInv'
    <3>1. \A u \in Threads : (Holding(u)' <=> Holding(u)) /\ ((pc[u] = "wire")' => pc[u] = "wire")
      BY <2>0, <2>1, OtherThreads DEF Enter, Holding
    <3> QED
      BY <2>1, <3>1, AloneChainKept DEF Enter, chainVars
  <2>2. CASE Checked(t)
    <3>1. \A u \in Threads : (Holding(u)' <=> Holding(u)) /\ ((pc[u] = "wire")' => pc[u] = "wire")
      BY <2>0, <2>2, OtherThreads, FollowingStages DEF Checked, Holding
    <3> QED
      BY <2>2, <3>1, AloneChainKept DEF Checked, chainVars
  <2>3. CASE Rejected(t) \/ WaitReceipt(t) \/ ReceiptPollFailed(t)
    <3>1. \A u \in Threads : (Holding(u)' <=> Holding(u)) /\ ((pc[u] = "wire")' => pc[u] = "wire")
      BY <2>0, <2>3, OtherThreads, FollowingStages
      DEF Rejected, WaitReceipt, ReceiptPollFailed, Holding
    <3> QED
      BY <2>3, <3>1, AloneChainKept
      DEF Rejected, WaitReceipt, ReceiptPollFailed, chainVars
  <2>4. CASE NextNonce(t)
    <3>1. PICK c \in PendingCounts :
            nonce' = [nonce EXCEPT ![t] = Reserved(c)] /\ next' = Reserved(c) + 1
      BY <2>4 DEF NextNonce
    <3>2. Reserved(c) \in Nat /\ c \in Int
      BY BoundsAssumption, ReservedNat DEF TypeOK, PendingCounts
    <3>3. FilledBelow(c)
      BY DEF PendingCounts, FilledBelow
    <3>4. ~Holding(t) /\ Holding(t)' /\ pc'[t] = "gas" /\ UNCHANGED <<txs, mined>>
      BY <2>4, OtherThreads DEF NextNonce, Holding, chainVars
    <3>5. FilledBelow(Reserved(c))
      BY <3>3, <3>4, AloneMeans DEF Reserved
    <3>6. nonce'[t] = Reserved(c)
      BY <3>1 DEF TypeOK
    <3>7. FilledBelow(nonce[t])'
      BY <3>4, <3>5, <3>6 DEF FilledBelow, Occupied
    <3> QED
      BY <3>1, <3>4, <3>6, <3>7, AloneEstablish
  <2>5. ASSUME Holding(t), Goto(t, End(t)), Release(nonce[t]), UNCHANGED <<nonce, chainVars>>
        PROVE  AloneInv'
    <3>1. ~Holding(t)' /\ pc'[t] # "wire"
      BY <2>0, <2>5, OtherThreads DEF Holding
    <3>2. next' = nonce[t] /\ FilledBelow(nonce[t])
      BY <2>5, AloneMeans DEF Release
    <3>3. FilledBelow(next)'
      BY <2>5, <3>2 DEF FilledBelow, Occupied, chainVars
    <3> QED
      BY <3>1, <3>3, AloneEstablish
  <2>6. CASE GasPrice(t)
    <3>1. CASE Goto(t, "send") /\ UNCHANGED next
      <4>1. \A u \in Threads : /\ Holding(u)' <=> Holding(u)
                               /\ (pc[u] = "wire")' => pc[u] = "wire"
        BY <2>6, <3>1, OtherThreads DEF GasPrice, Holding
      <4> QED
        BY <2>6, <3>1, <4>1, AloneChainKept DEF GasPrice, chainVars
    <3>2. CASE Goto(t, End(t)) /\ Release(nonce[t])
      BY <2>5, <2>6, <3>2 DEF GasPrice, Holding
    <3> QED
      BY <2>6, <3>1, <3>2 DEF GasPrice
  <2>7. CASE Deliver(t)
    <3>1. /\ Holding(t) /\ Holding(t)' /\ UNCHANGED <<nonce, next, mined>>
      BY <2>7, OtherThreads DEF Deliver, Holding
    <3>2. \A i : Occupied(i) => i = nonce[t] \/ Occupied(i)'
      BY <2>7 DEF Deliver, Occupied
    <3>3. Occupied(nonce[t])'
      <4>1. <<nonce[t], trade[t]>> \in txs'
        BY <2>7 DEF Deliver
      <4> QED
        BY <3>1, <4>1 DEF Occupied
    <3>4. FilledBelow(nonce[t])
      BY <3>1, AloneMeans
    <3>5. \A i \in mined..(nonce[t] - 1) : i # nonce[t]
      BY DEF TypeOK
    <3>6. FilledBelow(nonce[t])'
      BY <3>1, <3>2, <3>4, <3>5 DEF FilledBelow
    <3> QED
      BY <3>1, <3>3, <3>6, AloneMeans, AloneEstablish
  <2>8. CASE BroadcastFailed(t)
    BY <2>5, <2>8 DEF BroadcastFailed, Holding
  <2>9. CASE BroadcastAcknowledged(t)
    <3>1. /\ Holding(t) /\ ~Holding(t)' /\ pc[t] = "wire" /\ pc'[t] # "wire"
          /\ UNCHANGED <<nonce, next, txs, mined>>
      BY <2>9, OtherThreads DEF BroadcastAcknowledged, Holding, chainVars
    <3>2. FilledBelow(next)
      <4>1. next = nonce[t] + 1 /\ FilledBelow(nonce[t])
        BY <3>1, AloneMeans
      <4>2. nonce[t] < mined \/ Occupied(nonce[t])
        BY <3>1, AloneMeans
      <4>3. nonce[t] \in Nat /\ mined \in Nat
        BY DEF TypeOK
      <4>4. ASSUME NEW i \in mined..(next - 1) PROVE Occupied(i)
        <5>1. CASE i = nonce[t]
          BY <4>2, <4>3, <5>1 DEF Occupied
        <5>2. CASE i # nonce[t]
          <6>1. i \in mined..(nonce[t] - 1)
            BY <4>1, <4>3, <4>4, <5>2
          <6> QED
            BY <4>1, <6>1 DEF FilledBelow
        <5> QED
          BY <5>1, <5>2
      <4> QED
        BY <4>4 DEF FilledBelow
    <3>3. FilledBelow(next)'
      BY <3>1, <3>2 DEF FilledBelow, Occupied
    <3> QED
      BY <3>1, <3>3, AloneEstablish
  <2> QED
    BY <1>6, <2>1, <2>2, <2>3, <2>4, <2>6, <2>7, <2>8, <2>9 DEF Process
<1> QED
  BY <1>1, <1>2, <1>3, <1>4, <1>5, <1>6 DEF Next

\* As long as a single goroutine uses the wallet and the node drops nothing,
\* Release gives every failed reservation back: NonceManager never gets ahead
\* of the node, so the account is never blocked by a nonce nobody will send.
THEOREM NoHoleAlone ==
    ASSUME Alone
    PROVE  Spec => []NoNonceHole
<1>1. Init => AloneInv
  BY StartStages DEF Init, AloneInv, NewestHeld, NoNonceHole, Holding
<1>2. AloneInv => NoNonceHole
  BY DEF AloneInv
<1>3. TypeOK /\ TypeOK' /\ AloneInv /\ [Next]_vars => AloneInv'
  BY AloneStep
<1> QED
  BY <1>1, <1>2, <1>3, TypeCorrect, PTL DEF Spec
=============================================================================
