------------------------- MODULE ExecutionPipeline -------------------------
(***************************************************************************)
(* The only signing path: Pipeline.ProcessWithObserver of                  *)
(* go/internal/execution/pipeline.go with the nonce manager of             *)
(* go/internal/wallet, the broadcast and receipt loop of go/internal/tx    *)
(* and the one-shot forced trade of go/cmd/titanarb/main.go.               *)
(*                                                                         *)
(* The scheduler goroutine drains candidates into the pipeline one after   *)
(* the other; the forced trade runs the same pipeline in a goroutine of    *)
(* its own.  They share the nonce manager.  The process may crash; the     *)
(* marker file, the profit ledger and the chain survive.                   *)
(*                                                                         *)
(* X_variant just before X is a plausible defect of X; no action uses it.  *)
(***************************************************************************)
EXTENDS Integers

CONSTANTS
    Threads,       \* goroutines that run the pipeline
    Forced,        \* the one-shot forced trade, if it is one of Threads
    MaxStaleness,  \* MaxCandidateStalenessBlocks
    Configs,       \* settings of the flags a process may be started with
    Droppable,     \* the node may drop a transaction it accepted
    MaxHead,       \* bound: last head observed
    MaxTrades,     \* bound: candidates processed
    MaxCrashes     \* bound: crashes

ASSUME BoundsAssumption ==
    /\ MaxStaleness \in Nat /\ MaxHead \in Nat \ {0} /\ MaxTrades \in Nat /\ MaxCrashes \in Nat
    /\ Droppable \in BOOLEAN
ASSUME ConfigsAssumption ==
    Configs \subseteq [dryRun : BOOLEAN, liveMode : BOOLEAN, broadcast : BOOLEAN]

VARIABLES
    config,      \* DRY_RUN, execution mode "live", GO_LIVE_EXECUTION
    head,        \* newest head the scheduler observed, 0 before the first
    pc,          \* stage of each thread
    source,      \* SourceBlock of the thread's candidate
    trade,       \* identity of the thread's candidate (its transaction hash)
    trades,      \* candidates taken so far
    nonce,       \* nonce the thread reserved
    next,        \* NonceManager.next, Unset for nil
    txs,         \* <<nonce, trade>> the node holds, mined or not
    mined,       \* the account's nonce on the chain
    status,      \* receipt status of each trade
    ledger,      \* <<event, trade>> written by the profit tracker
    marker,      \* force_one_trade_consumed.json exists
    crashes,
    (* history variables: no guard reads them *)
    acked,       \* nonces whose broadcast returned a hash since the last start
    forcedSends  \* transactions handed to the node for the forced trade

threadVars == <<pc, source, trade, trades>>
chainVars == <<txs, mined, status>>
vars == <<config, head, threadVars, nonce, next, chainVars, ledger, marker, crashes, acked,
          forcedSends>>

Unset == -1
Start == [t \in Threads |-> IF t = Forced THEN "marker" ELSE "idle"]
\* Where a thread goes when the pipeline returns.
End(t) == IF t = Forced THEN "done" ELSE "idle"

Init ==
    /\ config \in Configs /\ head = 0 /\ pc = Start /\ source = [t \in Threads |-> 0]
    /\ trade = [t \in Threads |-> 0] /\ trades = 0
    /\ nonce = [t \in Threads |-> 0] /\ next = Unset
    /\ txs = {} /\ mined = 0 /\ status = [k \in 1..MaxTrades |-> "none"]
    /\ ledger = {} /\ marker = FALSE /\ crashes = 0
    /\ acked = {} /\ forcedSends = 0

Goto(t, stage) == pc' = [pc EXCEPT ![t] = stage]
\* An append to the profit ledger; its error is ignored.
Record(t, event) == ledger' \in {ledger, ledger \cup {<<event, trade[t]>>}}

-----------------------------------------------------------------------------
(* Environment: new heads and the account's transactions on the chain.     *)

\* Heads rise, and some are never seen.
Observe ==
    /\ head' \in (head + 1)..MaxHead
    /\ UNCHANGED <<config, threadVars, nonce, next, chainVars, ledger, marker, crashes, acked,
                   forcedSends>>

Occupied(n) == \E x \in txs : x[1] = n

\* Transactions execute in nonce order.
Mine(s) ==
    /\ \E x \in txs : x[1] = mined /\ status' = [status EXCEPT ![x[2]] = s]
    /\ mined' = mined + 1
    /\ UNCHANGED <<config, head, threadVars, nonce, next, txs, ledger, marker, crashes, acked,
                   forcedSends>>

Drop ==
    /\ Droppable
    /\ \E x \in txs : x[1] >= mined /\ txs' = txs \ {x}
    /\ UNCHANGED <<config, head, threadVars, nonce, next, mined, status, ledger, marker, crashes,
                   acked, forcedSends>>

\* What eth_getTransactionCount(pending) may answer: the providers behind the
\* client need not have seen the newest transactions or blocks.
PendingCounts == {c \in 0..MaxTrades : \A i \in mined..(c - 1) : Occupied(i)}

-----------------------------------------------------------------------------
(* The forced trade's prologue.                                            *)

MarkerFree_always == TRUE
MarkerFree == ~marker

\* consumeForcedTrade creates the marker exclusively before anything is read
\* or sent.  The marker exists or cannot be created, or writing its content
\* fails: the attempt ends.
ConsumeForcedTrade ==
    /\ pc[Forced] = "marker"
    /\ \/ MarkerFree /\ marker' = TRUE /\ Goto(Forced, "discover")
       \/ marker' \in {marker, TRUE} /\ Goto(Forced, "done")
    /\ UNCHANGED <<config, head, source, trade, trades, nonce, next, chainVars, ledger, crashes,
                   acked, forcedSends>>

\* The block read or the route discovery failed.
DiscoverFailed ==
    /\ pc[Forced] = "discover" /\ Goto(Forced, "done")
    /\ UNCHANGED <<config, head, source, trade, trades, nonce, next, chainVars, ledger, marker,
                   crashes, acked, forcedSends>>

-----------------------------------------------------------------------------
(* The pipeline.                                                           *)

CandidateBlockLag(b) == IF b = 0 \/ head <= b THEN 0 ELSE head - b
CandidateIsFresh(b) == CandidateBlockLag(b) <= MaxStaleness

\* A candidate whose pools were read at block b enters the pipeline.  The
\* forced route is read at the node's head, which may be ahead of ours.
Enter(t, b) ==
    /\ pc[t] = IF t = Forced THEN "discover" ELSE "idle"
    /\ trades < MaxTrades
    /\ t # Forced => b <= head
    /\ trades' = trades + 1
    /\ trade' = [trade EXCEPT ![t] = trades + 1]
    /\ source' = [source EXCEPT ![t] = b]
    /\ Goto(t, IF CandidateIsFresh(b) THEN "gate" ELSE End(t))
    /\ UNCHANGED <<config, head, nonce, next, chainVars, ledger, marker, crashes, acked,
                   forcedSends>>

\* The checks before a nonce is reserved, in order: oracle and sequencer
\* gate, request building, simulation, flash-loan premium, final economics.
Broadcasting_despiteDryRun == config.liveMode /\ config.broadcast
Broadcasting == ~config.dryRun /\ config.liveMode /\ config.broadcast

Following ==
    [gate |-> "build", build |-> "simulate", simulate |-> "premium", premium |-> "price",
     price |-> "nonce"]

Checked(t) ==
    /\ pc[t] \in DOMAIN Following
    /\ IF pc[t] = "price" /\ ~Broadcasting
       THEN Goto(t, End(t)) /\ Record(t, "simulation_succeeded")
       ELSE Goto(t, Following[pc[t]]) /\ UNCHANGED ledger
    /\ UNCHANGED <<config, head, source, trade, trades, nonce, next, chainVars, marker, crashes,
                   acked, forcedSends>>

Rejected(t) ==
    /\ pc[t] \in DOMAIN Following \cup {"nonce"}
    /\ Goto(t, End(t))
    /\ CASE pc[t] = "simulate" -> Record(t, "trade_failed")
         [] pc[t] = "price" -> Record(t, "post_gas_rejected")
         [] OTHER -> UNCHANGED ledger
    /\ UNCHANGED <<config, head, source, trade, trades, nonce, next, chainVars, marker, crashes,
                   acked, forcedSends>>

\* NonceManager.Next, under its mutex.
Reserved_lastUsed(c) == IF next = Unset \/ c > next THEN c - 1 ELSE next
Reserved(c) == IF next = Unset \/ c > next THEN c ELSE next

NextNonce(t) ==
    /\ pc[t] = "nonce"
    /\ \E c \in PendingCounts :
        /\ nonce' = [nonce EXCEPT ![t] = Reserved(c)]
        /\ next' = Reserved(c) + 1
    /\ Goto(t, "gas")
    /\ UNCHANGED <<config, head, source, trade, trades, chainVars, ledger, marker, crashes, acked,
                   forcedSends>>

\* NonceManager.Release: only the newest reservation is taken back.
Release_rewind(n) == next' = n
Release_never(n) == next' = next
Release(n) == next' = IF next = n + 1 THEN n ELSE next

GasPrice(t) ==
    /\ pc[t] = "gas"
    /\ \/ Goto(t, "send") /\ UNCHANGED next
       \/ Goto(t, End(t)) /\ Release(nonce[t])
    /\ UNCHANGED <<config, head, source, trade, trades, nonce, chainVars, ledger, marker, crashes,
                   acked, forcedSends>>

\* The node takes the transaction, in place of one with the same nonce.
Deliver(t) ==
    /\ pc[t] = "send" /\ nonce[t] >= mined
    /\ txs' = {x \in txs : x[1] # nonce[t]} \cup {<<nonce[t], trade[t]>>}
    /\ Goto(t, "wire")
    /\ forcedSends' = IF t = Forced THEN forcedSends + 1 ELSE forcedSends
    /\ UNCHANGED <<config, head, source, trade, trades, nonce, next, mined, status, ledger,
                   marker, crashes, acked>>

\* The broadcast returned an error: the node refused, or its reply was lost.
BroadcastFailed(t) ==
    /\ pc[t] \in {"send", "wire"}
    /\ Release(nonce[t])
    /\ Record(t, "trade_failed")
    /\ Goto(t, End(t))
    /\ UNCHANGED <<config, head, source, trade, trades, nonce, chainVars, marker, crashes, acked,
                   forcedSends>>

BroadcastAcknowledged(t) ==
    /\ pc[t] = "wire"
    /\ Record(t, "trade_sent")
    /\ acked' = acked \cup {nonce[t]}
    /\ Goto(t, "receipt")
    /\ UNCHANGED <<config, head, source, trade, trades, nonce, next, chainVars, marker, crashes,
                   forcedSends>>

\* WaitReceipt returned: the poll failed, the deadline of the scheduler's
\* context passed, or the node has a receipt.
ReceiptSucceeded_any(t) == status[trade[t]] # "none"
ReceiptSucceeded(t) == status[trade[t]] = "ok"

\* Only the scheduler's executionCtx carries a deadline.
HasDeadline_none(t) == FALSE
HasDeadline(t) == t # Forced

WaitReceipt(t) ==
    /\ pc[t] = "receipt"
    /\ \/ ReceiptSucceeded(t) /\ Record(t, "trade_success")
       \/ status[trade[t]] = "reverted" /\ Record(t, "trade_failed")
       \/ HasDeadline(t) /\ Record(t, "trade_failed")
    /\ Goto(t, End(t))
    /\ UNCHANGED <<config, head, source, trade, trades, nonce, next, chainVars, marker, crashes,
                   acked, forcedSends>>

\* One failed receipt poll also ends the wait.
ReceiptPollFailed(t) ==
    /\ pc[t] = "receipt" /\ Record(t, "trade_failed") /\ Goto(t, End(t))
    /\ UNCHANGED <<config, head, source, trade, trades, nonce, next, chainVars, marker, crashes,
                   acked, forcedSends>>

\* The process dies and is started again, with the flags it then finds; the
\* scheduler has seen no head yet.
Crash ==
    /\ crashes < MaxCrashes /\ crashes' = crashes + 1
    /\ config' \in Configs /\ head' = 0 /\ pc' = Start /\ next' = Unset /\ acked' = {}
    /\ UNCHANGED <<source, trade, trades, nonce, chainVars, ledger, marker, forcedSends>>

-----------------------------------------------------------------------------
Process(t) ==
    \/ \E b \in 1..MaxHead : Enter(t, b)
    \/ Checked(t) \/ Rejected(t) \/ NextNonce(t) \/ GasPrice(t) \/ Deliver(t)
    \/ BroadcastFailed(t) \/ BroadcastAcknowledged(t) \/ WaitReceipt(t) \/ ReceiptPollFailed(t)

ForcedPrologue == Forced \in Threads /\ (ConsumeForcedTrade \/ DiscoverFailed)

Next ==
    \/ Observe \/ Drop \/ Crash \/ ForcedPrologue
    \/ \E s \in {"ok", "reverted"} : Mine(s)
    \/ \E t \in Threads : Process(t)

Spec == Init /\ [][Next]_vars

\* Fairness: a goroutine that is in the pipeline keeps running; every call it
\* makes returns because the HTTP client has a timeout.  A receipt poll that
\* fails is not something to rely on.
Fairness ==
    \A t \in Threads : /\ WF_vars(Process(t) /\ pc[t] \notin {"idle", "receipt"})
                       /\ WF_vars(WaitReceipt(t))
FairSpec == Spec /\ Fairness

-----------------------------------------------------------------------------
(* Properties.                                                             *)

Stages == DOMAIN Following \cup
          {"idle", "done", "marker", "discover", "nonce", "gas", "send", "wire", "receipt"}

\* Every variable holds a value of the Go type it models.
TypeOK ==
    /\ config \in Configs /\ head \in 0..MaxHead
    /\ pc \in [Threads -> Stages] /\ source \in [Threads -> 0..MaxHead]
    /\ trade \in [Threads -> 0..MaxTrades] /\ trades \in 0..MaxTrades
    /\ nonce \in [Threads -> Nat] /\ next \in Nat \cup {Unset}
    /\ txs \subseteq Nat \X (0..MaxTrades) /\ mined \in Nat
    /\ status \in [1..MaxTrades -> {"none", "ok", "reverted"}]
    /\ ledger \subseteq {"trade_sent", "trade_failed", "trade_success", "post_gas_rejected",
                         "simulation_succeeded"} \X (0..MaxTrades)
    /\ marker \in BOOLEAN /\ crashes \in 0..MaxCrashes
    /\ acked \subseteq Nat /\ forcedSends \in Nat

\* The stages from the nonce reservation on.
Signing == {"nonce", "gas", "send", "wire", "receipt"}

\* The thread owns its nonce: reserved, and the broadcast has not returned.
Holding(t) == pc[t] \in {"gas", "send", "wire"}

\* However reservations, releases and lagging pending counts interleave, no
\* two goroutines hold one nonce at the same time, and a nonce whose broadcast
\* was acknowledged is not held again until the process restarts (NonceManager,
\* ProcessWithObserver).  A nonce whose broadcast returned an error is given back
\* even when the node has the transaction and only its reply was lost: the next
\* trade may then sign with it and replace a live transaction, in this model too.
NonceExclusive ==
    /\ \A t, u \in Threads : Holding(t) /\ Holding(u) /\ t # u => nonce[t] # nonce[u]
    /\ \A t \in Threads : Holding(t) => nonce[t] \notin acked

\* The forced trade reaches the node at most once, over all restarts.
ForcedAtMostOnce == forcedSends <= 1

\* A trade booked as a success was executed, did not revert and was not also
\* booked as failed, however receipts, poll errors and crashes interleave.
SuccessIsExecuted ==
    \A k \in 1..MaxTrades : <<"trade_success", k>> \in ledger =>
        status[k] = "ok" /\ <<"trade_failed", k>> \notin ledger

\* "Broadcast requires both the existing DRY_RUN/live flags and
\* GO_LIVE_EXECUTION=true" (pipeline.go): a process started with a flag
\* against it, also after one that was live and crashed with transactions in
\* flight, reserves no nonce and has no trade at or past the reservation.
BroadcastNeedsEveryFlag ==
    config.dryRun \/ ~config.liveMode \/ ~config.broadcast =>
        next = Unset /\ \A t \in Threads : pc[t] \notin Signing

\* The nonce manager stays usable: while no nonce is held, the next one it
\* will hand out follows the transactions the node has.
NoNonceHole ==
    (next # Unset /\ \A t \in Threads : ~Holding(t)) => \A n \in mined..(next - 1) : Occupied(n)

\* pipeline.go: the freshness gate "only prevents a quote produced from an
\* older pool snapshot from reaching simulation or broadcast": a trade that is
\* sent was fresh when it was sent.
StaleNeverBroadcast ==
    [][\A t \in Threads :
         <<"trade_sent", trade[t]>> \in ledger' \ ledger => CandidateIsFresh(source[t])]_vars

\* A candidate taken by the scheduler goroutine leaves the pipeline, whatever
\* the node does with its transaction, so the next head can be processed.
MarketTradeEnds == \A t \in Threads \ {Forced} : pc[t] # "idle" ~> pc[t] = "idle"
=============================================================================
