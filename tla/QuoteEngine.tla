---------------------------- MODULE QuoteEngine ----------------------------
(***************************************************************************)
(* Route evaluation: the quote cache, the shared premium and cost values   *)
(* (go/internal/opportunity/engine.go), the evaluation goroutines of a     *)
(* market cycle (market/engine.go) and the one-shot forced trade           *)
(* (cmd/titanarb/main.go), which evaluates beside the cycles and must not  *)
(* be repeated after a restart.                                            *)
(*                                                                         *)
(* The three caches share one shape: the first to ask leads a request,     *)
(* the others follow it.  A quote asks for the latest state, which at a    *)
(* provider that lags behind may be any earlier one, and stands for the    *)
(* state it found.  A pool's version (LastUpdatedBlock) is the state the   *)
(* asker last read; an amount is the path of quotes before it.             *)
(*                                                                         *)
(* X_variant just before X is a plausible defect of X; no action uses it.  *)
(***************************************************************************)
EXTENDS Integers, FiniteSets, Sequences

CONSTANTS
    Workers,      \* evaluation goroutines of a cycle
    Forced,       \* the goroutine of the forced trade
    None,         \* no goroutine
    Pools,
    Volatile,     \* pools whose state changes
    Routes,       \* routes a cycle may evaluate, each a sequence of pools
    ForcedRoutes, \* pool combinations of the forced route
    Persistent,   \* options.PersistentQuoteCache
    Budget,       \* options.MaxQuotesPerCycle
    MaxState, MaxCycles, MaxCrashes  \* bounds

ASSUME ActorsAssumption == Forced \notin Workers /\ None \notin Workers \union {Forced}
ASSUME RoutesAssumption ==
    /\ Volatile \subseteq Pools
    /\ \A r \in Routes \union ForcedRoutes : r \in Seq(Pools) /\ Len(r) \in 2..4
ASSUME LimitsAssumption ==
    Persistent \in BOOLEAN /\ Budget \in Nat \ {0} /\ {MaxState, MaxCycles, MaxCrashes} \subseteq Nat

VARIABLES
    state,        \* per pool, its changes on the chain
    known,        \* per pool, the state the market cycle last read
    phase, cycle, \* of the cycle goroutine; the cycle stands for its block
    pending, cancelled,  \* routes not handed out yet; the cycle's context has ended
    cache,        \* quoteCache: keys to [by, result, sent]
    used,         \* quoteBudgetUsed
    shared,       \* premium and cost: [by, valid]
    pc, stage,    \* per evaluation
    route, hop, amount, seen,
    awaited, answer,
    sent,         \* history: the pool's state when the quote it has or awaits was sent
    forcedPc, forcedLeft, forcedFound,
    marker, crashes  \* the marker survives a crash

chainVars == <<state, marker, crashes>>
cycleVars == <<known, phase, cycle, pending, cancelled>>
cacheVars == <<cache, used, shared>>
evalVars == <<pc, stage, route, hop, amount, seen, awaited, answer, sent>>
forcedVars == <<forcedPc, forcedLeft, forcedFound>>
vars == <<chainVars, cycleVars, cacheVars, evalVars, forcedVars>>

Actors == Workers \union {Forced}
Failed == 0
Empty == [k \in {} |-> Failed]

NoShared == [v \in {"premium", "cost"} |-> [by |-> None, valid |-> FALSE]]
Each(value) == [a \in Actors |-> value]

\* A new process; the market is read before the first cycle.
Init ==
    /\ phase = "between" /\ pending = {} /\ cancelled = FALSE
    /\ cache = Empty /\ used = 0
    /\ shared = NoShared
    /\ pc = Each("idle") /\ stage = Each("quote")
    /\ route = Each(<<>>) /\ hop = Each(1)
    /\ amount = Each(<<>>) /\ awaited = Each(None)
    /\ answer = Each(Failed) /\ sent = Each(Failed)
    /\ forcedPc = "marker" /\ forcedLeft = {} /\ forcedFound = FALSE
    /\ cycle = 0
    /\ state = [p \in Pools |-> 1] /\ known = state
    /\ seen = Each(state)
    /\ marker = FALSE /\ crashes = 0

-----------------------------------------------------------------------------
(* The chain, and the cycle goroutine.                                     *)

Swap(p) ==
    /\ state[p] < MaxState
    /\ state' = [state EXCEPT ![p] = @ + 1]
    /\ UNCHANGED <<marker, crashes, cycleVars, cacheVars, evalVars, forcedVars>>

PoolOf(key) == key[2]

\* The entries that outlive PrepareQuoteCache, requests in flight included.
Retained(dirty) ==
    IF Persistent THEN [k \in {k \in DOMAIN cache : PoolOf(k) \notin dirty} |-> cache[k]] ELSE Empty

\* The cycle has re-read the changed pools it knows of; the quote cache is
\* prepared.  Every worker of the previous cycle has returned.
Prepare ==
    /\ phase = "between" /\ cycle < MaxCycles
    /\ \E dirty \in SUBSET {p \in Pools : known[p] < state[p]} :
        /\ known' = [p \in Pools |-> IF p \in dirty THEN state[p] ELSE known[p]]
        /\ cache' = Retained(dirty)
    /\ cycle' = cycle + 1 /\ used' = 0 /\ phase' = "prepared"
    /\ UNCHANGED <<pending, cancelled, shared, chainVars, evalVars, forcedVars>>

\* The mutex is released between PrepareQuoteCache and SetQuoteBudget.
SetQuoteBudget ==
    /\ phase = "prepared"
    /\ used' = 0 /\ phase' = "evaluating" /\ cancelled' = FALSE
    /\ pending' \in SUBSET Routes
    /\ UNCHANGED <<known, cycle, cache, shared, chainVars, evalVars, forcedVars>>

\* A newer head ends the cycle's context.
Cancel ==
    /\ phase = "evaluating" /\ ~cancelled
    /\ cancelled' = TRUE
    /\ UNCHANGED <<known, phase, cycle, pending, chainVars, cacheVars, evalVars, forcedVars>>

StopFeeding ==
    /\ phase = "evaluating" /\ cancelled /\ pending # {}
    /\ pending' = {}
    /\ UNCHANGED <<known, phase, cycle, cancelled, chainVars, cacheVars, evalVars, forcedVars>>

EndCycle ==
    /\ phase = "evaluating" /\ pending = {} /\ \A w \in Workers : pc[w] = "idle"
    /\ phase' = "between"
    /\ UNCHANGED <<known, cycle, pending, cancelled, chainVars, cacheVars, evalVars, forcedVars>>

-----------------------------------------------------------------------------
(* One evaluation: the hops' quotes in order, the premium, the cost.       *)

Begin(a, r, versions) ==
    /\ pc' = [pc EXCEPT ![a] = "ask"] /\ stage' = [stage EXCEPT ![a] = "quote"]
    /\ route' = [route EXCEPT ![a] = r] /\ hop' = [hop EXCEPT ![a] = 1]
    /\ amount' = [amount EXCEPT ![a] = <<>>] /\ seen' = [seen EXCEPT ![a] = versions]
    /\ UNCHANGED <<awaited, answer, sent>>

Take(w, r) ==
    /\ phase = "evaluating" /\ pc[w] = "idle" /\ r \in pending
    /\ pending' = pending \ {r}
    /\ Begin(w, r, known)
    /\ UNCHANGED <<known, phase, cycle, cancelled, chainVars, cacheVars, forcedVars>>

Pool(a) == route[a][hop[a]]
StateVersion(a) == IF Persistent THEN seen[a][Pool(a)] ELSE cycle
QuoteKey_noVersion(a) == <<0, Pool(a), amount[a]>>
QuoteKey(a) == <<StateVersion(a), Pool(a), amount[a]>>

Answer(a, value) ==
    /\ pc' = [pc EXCEPT ![a] = "answered"] /\ answer' = [answer EXCEPT ![a] = value]
    /\ UNCHANGED awaited
Follow(a, leader) ==
    /\ pc' = [pc EXCEPT ![a] = "follow"] /\ awaited' = [awaited EXCEPT ![a] = leader]
    /\ UNCHANGED answer
Lead(a) ==
    /\ pc' = [pc EXCEPT ![a] = "lead"]
    /\ UNCHANGED <<awaited, answer>>

OverBudget == used >= Budget

\* quote: hit, follow, budget exhausted, or a request of its own.
AskQuote(a) ==
    LET key == QuoteKey(a)
    IN /\ stage[a] = "quote"
       /\ \/ /\ key \in DOMAIN cache /\ cache[key].by = None
             /\ Answer(a, cache[key].result)
             /\ sent' = [sent EXCEPT ![a] = cache[key].sent]
             /\ UNCHANGED <<cache, used>>
          \/ /\ key \in DOMAIN cache /\ cache[key].by # None
             /\ Follow(a, cache[key].by)
             /\ sent' = [sent EXCEPT ![a] = cache[key].sent]
             /\ UNCHANGED <<cache, used>>
          \/ /\ key \notin DOMAIN cache /\ OverBudget
             /\ Answer(a, Failed)
             /\ UNCHANGED <<cache, used, sent>>
          \/ /\ key \notin DOMAIN cache /\ ~OverBudget
             /\ cache' = [k \in DOMAIN cache \union {key} |->
                            IF k = key THEN [by |-> a, result |-> Failed, sent |-> state[Pool(a)]]
                            ELSE cache[k]]
             /\ used' = used + 1
             /\ sent' = [sent EXCEPT ![a] = state[Pool(a)]]
             /\ Lead(a)
       /\ UNCHANGED shared

\* aavePremiumBPS and CachedCostModel.Estimate.
AskShared(a) ==
    LET v == stage[a]
    IN /\ v \in {"premium", "cost"}
       /\ \/ /\ shared[v].valid /\ Answer(a, 1) /\ UNCHANGED shared
          \/ /\ ~shared[v].valid /\ shared[v].by # None
             /\ Follow(a, shared[v].by) /\ UNCHANGED shared
          \/ /\ ~shared[v].valid /\ shared[v].by = None
             /\ shared' = [shared EXCEPT ![v].by = a] /\ Lead(a)
       /\ UNCHANGED <<cache, used, sent>>

Ask(a) ==
    /\ pc[a] = "ask"
    /\ AskQuote(a) \/ AskShared(a)
    /\ UNCHANGED <<stage, route, hop, amount, seen, chainVars, cycleVars, forcedVars>>

\* Everyone who waits for a's request, a included; the entry's ready channel
\* is closed whatever the result, and whether or not it is still cached.
Woken_onSuccess(a, result) ==
    {a} \union IF result = Failed THEN {} ELSE {f \in Actors : pc[f] = "follow" /\ awaited[f] = a}
Woken(a, result) == {a} \union {f \in Actors : pc[f] = "follow" /\ awaited[f] = a}

\* The request of a returns; an error (the end of a's context is one) is
\* cached like a result.
LandQuote(a, result) ==
    LET key == QuoteKey(a)
        mine == key \in DOMAIN cache /\ cache[key].by = a
    IN /\ cache' = IF mine THEN [cache EXCEPT ![key] = [by |-> None, result |-> result, sent |-> @.sent]]
                ELSE cache
       /\ UNCHANGED shared

LandShared(a, result) ==
    /\ shared' = [shared EXCEPT ![stage[a]] = [by |-> None, valid |-> result # Failed]]
    /\ UNCHANGED cache

Land(a) ==
    /\ pc[a] = "lead"
    /\ \E result \in {Failed} \union
            (IF stage[a] = "quote" THEN 1..state[Pool(a)] ELSE {1}) :
        /\ IF stage[a] = "quote" THEN LandQuote(a, result) ELSE LandShared(a, result)
        /\ answer' = [f \in Actors |-> IF f \in Woken(a, result) THEN result ELSE answer[f]]
        /\ pc' = [f \in Actors |-> IF f \in Woken(a, result) THEN "answered" ELSE pc[f]]
    /\ UNCHANGED <<used, stage, route, hop, amount, seen, awaited, sent, chainVars, cycleVars,
                   forcedVars>>

\* premiumExpiry or the cost's until has passed.
Expire(v) ==
    /\ shared[v].valid
    /\ shared' = [shared EXCEPT ![v].valid = FALSE]
    /\ UNCHANGED <<cache, used, chainVars, cycleVars, evalVars, forcedVars>>

\* A follower leaves when its own context ends.
GiveUp(w) ==
    /\ pc[w] = "follow" /\ cancelled
    /\ Answer(w, Failed)
    /\ UNCHANGED <<stage, route, hop, amount, seen, sent, chainVars, cycleVars, cacheVars,
                   forcedVars>>

Complete(a) == answer[a] # Failed /\ stage[a] = "cost"

Receive(a) ==
    /\ pc[a] = "answered"
    /\ IF answer[a] = Failed \/ Complete(a)
       THEN /\ pc' = [pc EXCEPT ![a] = "idle"]
            /\ forcedFound' = (forcedFound \/ (a = Forced /\ Complete(a)))
            /\ stage' = [stage EXCEPT ![a] = "quote"]
            /\ route' = [route EXCEPT ![a] = <<>>] /\ hop' = [hop EXCEPT ![a] = 1]
            /\ amount' = [amount EXCEPT ![a] = <<>>]
       ELSE /\ pc' = [pc EXCEPT ![a] = "ask"]
            /\ stage' = [stage EXCEPT ![a] =
                            IF @ = "premium" THEN "cost"
                            ELSE IF hop[a] = Len(route[a]) THEN "premium" ELSE "quote"]
            /\ IF stage[a] = "quote" /\ hop[a] < Len(route[a])
               THEN /\ hop' = [hop EXCEPT ![a] = @ + 1]
                    /\ amount' = [amount EXCEPT ![a] = Append(@, <<Pool(a), answer[a]>>)]
               ELSE UNCHANGED <<hop, amount>>
            /\ UNCHANGED <<route, forcedFound>>
    /\ answer' = [answer EXCEPT ![a] = Failed] /\ awaited' = [awaited EXCEPT ![a] = None]
    /\ sent' = [sent EXCEPT ![a] = Failed]
    /\ UNCHANGED <<seen, chainVars, cycleVars, cacheVars, forcedPc, forcedLeft>>

-----------------------------------------------------------------------------
(* The forced trade.                                                       *)

ForcedGoto(stop) == forcedPc' = stop /\ UNCHANGED <<forcedLeft, forcedFound>>

\* The marker file is created exclusively before anything else is done.
Consumable == ~marker
ConsumeMarker ==
    /\ forcedPc = "marker"
    /\ \/ Consumable /\ marker' = TRUE /\ ForcedGoto("block")
       \/ Consumable /\ marker' = TRUE /\ ForcedGoto("done")      \* writing it failed
       \/ UNCHANGED marker /\ ForcedGoto("done")   \* it exists, or cannot be created
    /\ UNCHANGED <<state, crashes, cycleVars, cacheVars, evalVars>>

\* The block is read and the pools of every hop are discovered at it.
ReadForcedPools ==
    /\ forcedPc = "block"
    /\ \/ /\ forcedPc' = "evaluate" /\ forcedLeft' = ForcedRoutes
          /\ seen' = [seen EXCEPT ![Forced] = state] /\ UNCHANGED forcedFound
       \/ ForcedGoto("done") /\ UNCHANGED seen
    /\ UNCHANGED <<pc, stage, route, hop, amount, awaited, answer, sent, chainVars, cycleVars,
                   cacheVars>>

ForcedTake(r) ==
    /\ forcedPc = "evaluate" /\ pc[Forced] = "idle" /\ r \in forcedLeft
    /\ forcedLeft' = forcedLeft \ {r}
    /\ Begin(Forced, r, seen[Forced])
    /\ UNCHANGED <<forcedPc, forcedFound, chainVars, cycleVars, cacheVars>>

ForcedDecide ==
    /\ forcedPc = "evaluate" /\ pc[Forced] = "idle" /\ forcedLeft = {}
    /\ ForcedGoto(IF forcedFound THEN "process" ELSE "done")
    /\ UNCHANGED <<chainVars, cycleVars, cacheVars, evalVars>>

\* ProcessWithObserver, which ExecutionPipeline models, submits or refuses.
ForcedProcess ==
    /\ forcedPc = "process"
    /\ ForcedGoto("done")
    /\ UNCHANGED <<chainVars, cycleVars, cacheVars, evalVars>>

\* The process ends and starts again; the service reads the market first.
Crash ==
    /\ crashes < MaxCrashes
    /\ crashes' = crashes + 1
    /\ phase' = "between" /\ pending' = {} /\ cancelled' = FALSE
    /\ cache' = Empty /\ used' = 0
    /\ shared' = NoShared
    /\ pc' = Each("idle") /\ stage' = Each("quote")
    /\ route' = Each(<<>>) /\ hop' = Each(1)
    /\ amount' = Each(<<>>) /\ awaited' = Each(None)
    /\ answer' = Each(Failed) /\ sent' = Each(Failed)
    /\ forcedPc' = "marker" /\ forcedLeft' = {} /\ forcedFound' = FALSE
    /\ known' = state /\ seen' = Each(state)
    /\ UNCHANGED <<state, marker, cycle>>

-----------------------------------------------------------------------------
CycleStep == Prepare \/ SetQuoteBudget \/ StopFeeding \/ EndCycle
EvaluationStep(a) == Ask(a) \/ Land(a) \/ Receive(a)
ForcedStep == ConsumeMarker \/ ReadForcedPools \/ (\E r \in ForcedRoutes : ForcedTake(r))
              \/ ForcedDecide \/ ForcedProcess

Next ==
    \/ \E p \in Volatile : Swap(p)
    \/ CycleStep \/ Cancel \/ ForcedStep \/ Crash
    \/ \E v \in {"premium", "cost"} : Expire(v)
    \/ \E a \in Actors : EvaluationStep(a)
    \/ \E w \in Workers : GiveUp(w) \/ (\E r \in Routes : Take(w, r))

Spec == Init /\ [][Next]_vars

\* Goroutines run, requests return (the HTTP client has a timeout) and the
\* cycle hands out its routes.
FairSpec ==
    /\ Spec /\ WF_vars(SetQuoteBudget) /\ WF_vars(EndCycle) /\ WF_vars(ForcedStep)
    /\ \A a \in Actors : WF_vars(EvaluationStep(a))
    /\ WF_vars(\E w \in Workers, r \in Routes : Take(w, r))

-----------------------------------------------------------------------------
(* Properties.                                                             *)

\* A follower waits for a request that is still under way and asks what it
\* asks: no failure, end of a context or PrepareQuoteCache beside a quote of
\* the forced trade leaves a goroutine on a channel nobody will close.
NoStrandedFollower ==
    \A f \in Actors : pc[f] = "follow" =>
        LET a == awaited[f]
        IN /\ a \in Actors /\ a # f /\ pc[a] = "lead" /\ stage[a] = stage[f]
           /\ stage[f] = "quote" => Pool(a) = Pool(f) /\ amount[a] = amount[f]

\* A quote that answers an evaluation was sent when the pool already had the
\* state the asker read: however long the cache has kept it, and whoever asked
\* first, the forced trade or a cycle, only a provider that lags behind can
\* make it older than that state, never the cache.
QuoteSentAfterRead ==
    \A a \in Actors :
        pc[a] = "answered" /\ stage[a] = "quote" /\ answer[a] # Failed
            => sent[a] >= seen[a][Pool(a)]

\* Every cycle ends, though its workers may wait for a request the forced
\* trade leads and its context may have ended.
CycleEnds == phase = "evaluating" ~> phase = "between"
=============================================================================
