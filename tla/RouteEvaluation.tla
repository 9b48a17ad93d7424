-------------------------- MODULE RouteEvaluation --------------------------
(***************************************************************************)
(* Which routes a market cycle quotes and how it sizes the promising ones  *)
(* (go/internal/market/engine.go: evaluate and what it calls), with the    *)
(* route memory (nearmiss/nearmiss.go) and the loan-size optimizer         *)
(* (optimizer/optimizer.go).                                               *)
(*                                                                         *)
(* Routes are numbered in the order of their keys, assets in the order of  *)
(* their names.  What the memory's averages, pair quality and volatility   *)
(* add to the score of an observed route is any member of Learned.  An     *)
(* evaluation fails or has a net profit and a score; quotes of one sizing  *)
(* follow one profit curve, and any of them may fail.                      *)
(*                                                                         *)
(* X_variant just before X is a plausible defect of X; no action uses it.  *)
(***************************************************************************)
EXTENDS Integers, FiniteSets

CONSTANTS
    NumRoutes, AssetOf, HopsOf,
    Dirty,        \* the sets of routes that changed pools may affect
    Prior,        \* a route's score before anything is known of it
    Learned,      \* scores of observed routes
    Funded,       \* assets with a configured amount
    Outcomes,     \* [net, score] of an evaluation
    MinProfit, Current,   \* the profit threshold, and the loan size of the first pass
    Available,    \* what the liquidity reader may answer, 0 if it fails
    Curves,       \* net profit by loan size
    RawOptions,   \* SearchOptions as configured
    MaxRoutes,    \* of the route memory
    RecentLimit, MaxCycles

Routes == 1..NumRoutes
Failed == [net |-> 0, score |-> 0]

ASSUME RoutesAssumption ==
    /\ NumRoutes \in Nat \ {0}
    /\ Dirty \subseteq SUBSET Routes
    /\ AssetOf \in [Routes -> Nat] /\ HopsOf \in [Routes -> 2..4] /\ Prior \in [Routes -> Int]
ASSUME EconomicsAssumption ==
    /\ MinProfit \in Nat \ {0} /\ Current \in Nat \ {0}
    /\ Outcomes \subseteq [net : Int, score : Int] /\ Failed \notin Outcomes
    /\ Learned \subseteq Int /\ Available \subseteq Nat
    /\ Curves \subseteq [1..(10 * Current) -> Int]
ASSUME OptionsAssumption ==
    RawOptions \subseteq
        [routes : Int, deepRoutes : Int, samples : Int, perCycle : Int, quotes : Int,
         optimized : Int, normal : Int, explore : Int,
         ranking : BOOLEAN, adaptive : BOOLEAN, earlyStop : BOOLEAN]
ASSUME BoundsAssumption == {MaxRoutes, RecentLimit, MaxCycles} \subseteq Nat \ {0}

VARIABLES
    opt,                       \* the normalised search options
    cycle, phase, cancelled,   \* the cycle stands for its block
    memory,                    \* RouteMemory: routes to [obs, seen]
    failing,                   \* routeFailures: the routes with a count
    recent,                    \* recentNearMisses
    assetsLeft, affected,
    asset,                     \* the asset of the loop
    quotesLeft,                \* remainingQuotes
    chosen,                    \* the asset's selection: [route, kind]
    waiting, results,          \* its routes to evaluate, and their outcomes
    remembered,                \* results the memory has observed
    report,                    \* the cycle's quotes, optimizer runs and samples
    near, pending,             \* near misses; routes to size, with their outcomes
    samplesLeft,               \* remainingBudget
    queue, remaining, cap,     \* the asset being optimised: routes left, samples, largest loan
    sizing,                    \* the route being sized
    sized                      \* the size last found and evaluated
cycleVars == <<opt, cycle, phase, cancelled>>
memoryVars == <<memory, failing, recent>>
assetVars == <<asset, chosen, waiting, results, remembered>>
selectVars == <<assetsLeft, affected, quotesLeft, near, pending, assetVars>>
optimizeVars == <<samplesLeft, queue, remaining, cap, sizing, sized>>
vars == <<cycleVars, memoryVars, selectVars, optimizeVars, report>>

Least(a, b) == IF a < b THEN a ELSE b
Greatest(a, b) == IF a > b THEN a ELSE b
MinOf(S) == CHOOSE x \in S : \A y \in S : x <= y
Restricted(f, S) == [x \in S |-> f[x]]

\* The n first of S in an order, a set of pairs: one choice if the order is
\* total, any of them if it leaves ties open.  A sort and a cut in the code.
First(S, n, order) ==
    {T \in SUBSET S : /\ Cardinality(T) = Least(n, Cardinality(S))
                       /\ \A t \in T, u \in S \ T : <<t, u>> \in order}

OrElse(value, least, default) == IF value < least THEN default ELSE value

\* SearchOptions.Normalized, for the options used here.
Normalized(o) ==
    LET samples == OrElse(o.samples, 2, 5)
        explore == IF o.explore <= 0 THEN 2000 ELSE Least(o.explore, 5000)
    IN [routes    |-> OrElse(o.routes, 1, 64),
        deepRoutes|-> OrElse(o.deepRoutes, 1, 8),
        samples   |-> samples,
        perCycle  |-> Least(OrElse(o.perCycle, 2, 32), 512),
        quotes    |-> OrElse(o.quotes, 1, 40),
        optimized |-> OrElse(o.optimized, 1, 8),
        normal    |-> Least(OrElse(o.normal, 2, 3), samples),
        explore   |-> explore,
        ranking   |-> o.ranking, adaptive |-> o.adaptive, earlyStop |-> o.earlyStop]

Nothing == [k \in {} |-> 0]
Idle == [step |-> "none"]
NewReport == [quotes |-> 0, runs |-> 0, samples |-> 0]

Init ==
    /\ opt \in {Normalized(o) : o \in RawOptions}
    /\ cycle = 0 /\ phase = "idle" /\ cancelled = FALSE
    /\ memory = Nothing /\ failing = {} /\ recent = {}
    /\ assetsLeft = {} /\ affected = {} /\ quotesLeft = 0
    /\ asset = 0 /\ chosen = {} /\ waiting = {} /\ results = Nothing /\ remembered = {}
    /\ near = {} /\ pending = Nothing /\ report = NewReport
    /\ samplesLeft = 0 /\ queue = Nothing /\ remaining = 0 /\ cap = 0
    /\ sizing = Idle /\ sized = Idle

-----------------------------------------------------------------------------
(* Route memory.                                                           *)

Known(r) == r \in DOMAIN memory
Observations(r) == IF Known(r) THEN memory[r].obs ELSE 0

\* MarkDirty adds a route it does not know, unseen and unobserved, and does
\* not prune.
MarkDirty(dirty) ==
    [r \in DOMAIN memory \union dirty |-> IF Known(r) THEN memory[r] ELSE [obs |-> 0, seen |-> 0]]

\* The routes pruneLocked may leave: as many as fit, none of them seen
\* earlier than one it dropped.
BySeen(m) == {p \in (DOMAIN m) \X (DOMAIN m) : m[p[2]].seen <= m[p[1]].seen}
Kept_oneMore(m) == First(DOMAIN m, MaxRoutes + 1, BySeen(m))
Kept(m) == First(DOMAIN m, MaxRoutes, BySeen(m))

\* Observe; a failed evaluation leaves no trace.
Observe(r) ==
    [q \in DOMAIN memory \union {r} |->
        IF q = r THEN [obs |-> Observations(r) + 1, seen |-> cycle] ELSE memory[q]]

-----------------------------------------------------------------------------
(* Selection.                                                              *)

\* Most of the quote ceiling is reserved for the optimizer.
InitialQuotes == Least(opt.quotes, Greatest(8, (opt.quotes * 3) \div 10))

BeginCycle(dirty) ==
    /\ phase = "idle" /\ cycle < MaxCycles
    /\ cycle' = cycle + 1 /\ phase' = "select"
    /\ memory' = MarkDirty(dirty)
    /\ affected' = dirty /\ assetsLeft' = {AssetOf[r] : r \in dirty}
    /\ quotesLeft' = InitialQuotes
    /\ UNCHANGED <<opt, cancelled, failing, recent, assetVars, near, pending, optimizeVars, report>>

ExploreSlots(limit) ==
    LET slots == (limit * opt.explore) \div 10000
    IN IF slots = 0 /\ limit > 1 THEN 1 ELSE slots
NewSlots(limit) ==
    LET slots == IF limit < 10 /\ limit >= 3 THEN 1 ELSE limit \div 10
    IN IF slots + ExploreSlots(limit) > limit THEN 0 ELSE slots
ExploitSlots_all(limit) == limit
ExploitSlots(limit) == limit - ExploreSlots(limit) - NewSlots(limit)

\* The orders of the routes: by score, or by observations first.
ByScore(score) ==
    {p \in (DOMAIN score) \X (DOMAIN score) :
        score[p[1]] > score[p[2]] \/ (score[p[1]] = score[p[2]] /\ p[1] < p[2])}
ByObservations(score) ==
    {p \in (DOMAIN score) \X (DOMAIN score) :
        \/ Observations(p[1]) < Observations(p[2])
        \/ Observations(p[1]) = Observations(p[2]) /\ p \in ByScore(score)}

Kinds == {"exploit", "new", "explore", "rest"}
As(routes, kind) == {[route |-> r, kind |-> kind] : r \in routes}

\* selectEvaluationCandidates: the best scored, then unobserved routes, then
\* the least observed, and the best of the rest for slots left over.  Without
\* ranking all scores are equal.
Select(candidates, score) ==
    LET limit == Least(opt.routes, Cardinality(candidates))
    IN IF opt.ranking
       THEN \E exploit \in First(candidates, ExploitSlots(limit), ByScore(score)) :
            \E new \in First({r \in candidates \ exploit : Observations(r) = 0}, NewSlots(limit),
                             ByScore(score)) :
            \E explore \in First(candidates \ (exploit \union new), ExploreSlots(limit),
                                 ByObservations(score)) :
            \E rest \in First(candidates \ (exploit \union new \union explore),
                              limit - Cardinality(exploit) - Cardinality(new) - Cardinality(explore),
                              ByScore(score)) :
                chosen' = As(exploit, "exploit") \union As(new, "new") \union As(explore, "explore")
                          \union As(rest, "rest")
       ELSE \E first \in First(candidates, opt.routes, ByScore(score)) :
                chosen' = As(first, "exploit")

\* The order in which a selection was made.
Turn(kind) == CASE kind = "exploit" -> 1 [] kind = "new" -> 2 [] kind = "explore" -> 3 [] kind = "rest" -> 4
BySelection(selection, score) ==
    {p \in selection \X selection :
        \/ Turn(p[1].kind) < Turn(p[2].kind)
        \/ /\ p[1].kind = p[2].kind
           /\ <<p[1].route, p[2].route>> \in
                IF p[1].kind = "explore" THEN ByObservations(score) ELSE ByScore(score)}

\* A first evaluation takes a quote for each hop.
Cost(selection) == Cardinality({q \in selection \X (1..4) : q[2] <= HopsOf[q[1].route]})

\* boundRoutesByQuoteCost skips what does not fit after what was taken before
\* it, and goes on.  There is one such set.
Bound(selection, budget, order) ==
    {taken \in SUBSET selection : \A s \in selection :
        s \in taken <=> Cost({t \in taken : <<t, s>> \in order}) + HopsOf[s.route] <= budget}

\* The share of an asset, rounded up; assets without an amount count too.
AssetQuotes == (quotesLeft + Cardinality(assetsLeft) - 1) \div Cardinality(assetsLeft)

Spent_nothing(selection) == 0
Spent(selection) == Least(Cost(selection), quotesLeft)

\* PreQuoteScore, and 0 without ranking.
Scores(candidates) ==
    IF ~opt.ranking THEN {[r \in candidates |-> 0]}
    ELSE {[r \in candidates |-> Prior[r] + (IF r \in DOMAIN learned THEN learned[r] ELSE 250)] :
            learned \in [{r \in candidates : Observations(r) > 0} -> Learned]}

SelectAsset ==
    /\ phase = "select" /\ assetsLeft # {}
    /\ asset' = MinOf(assetsLeft) /\ assetsLeft' = assetsLeft \ {asset'}
    /\ LET candidates == {r \in affected : AssetOf[r] = asset'}
       IN IF asset' \notin Funded THEN UNCHANGED <<phase, chosen, waiting, quotesLeft, report>>
          ELSE \E score \in Scores(candidates) :
                /\ Select(candidates, score)
                /\ \E bounded \in Bound(chosen', AssetQuotes, BySelection(chosen', score)) :
                    /\ waiting' = {s.route : s \in bounded}
                    /\ quotesLeft' = quotesLeft - Spent(bounded)
                    /\ report' = [report EXCEPT !.quotes = @ + Cost(bounded)]
                /\ phase' = "evaluate"
    /\ UNCHANGED <<opt, cycle, cancelled, affected, near, pending, results, remembered, memoryVars,
                   optimizeVars>>

EvaluateRoute(r, outcome) ==
    /\ phase = "evaluate" /\ r \in waiting
    /\ waiting' = waiting \ {r}
    /\ results' = [q \in DOMAIN results \union {r} |-> IF q = r THEN outcome ELSE results[q]]
    /\ UNCHANGED <<cycleVars, memoryVars, assetsLeft, affected, quotesLeft, asset, chosen, remembered,
                   near, pending, optimizeVars, report>>

\* A newer head ends the context: routes not handed out are dropped.
Cancel ==
    /\ phase # "idle" /\ ~cancelled
    /\ cancelled' = TRUE /\ waiting' = {}
    /\ UNCHANGED <<opt, cycle, phase, memoryVars, assetsLeft, affected, quotesLeft, asset, chosen,
                   results, remembered, near, pending, optimizeVars, report>>

Gap(net) == Greatest(MinProfit - net, 0)
OptimizerEligible(o) == o.net > 0 \/ Gap(o.net) <= 3 * MinProfit

OptimizerLimit ==
    Greatest(Least(opt.deepRoutes, opt.optimized - Cardinality(DOMAIN pending)), 0)

\* The order of selectOptimizerCandidates.
ByPromise(outcome) ==
    {p \in (DOMAIN outcome) \X (DOMAIN outcome) :
        LET a == outcome[p[1]]
            b == outcome[p[2]]
        IN \/ a.score > b.score
           \/ a.score = b.score /\ a.net > b.net
           \/ a = b /\ p[1] < p[2]}

Succeeded == {r \in DOMAIN results : results[r] # Failed}

\* updateRouteMemory, in the order the results arrived.
RememberRoute(r) ==
    /\ phase = "evaluate" /\ waiting = {} /\ r \in Succeeded \ remembered
    /\ remembered' = remembered \union {r}
    /\ \E keep \in Kept(Observe(r)) : memory' = [q \in keep |-> Observe(r)[q]]
    /\ UNCHANGED <<cycleVars, failing, recent, assetsLeft, affected, quotesLeft, asset, chosen,
                   waiting, results, near, pending, optimizeVars, report>>

\* The rest of the asset's results: failures, near misses, optimizer work.
Collect ==
    /\ phase = "evaluate" /\ waiting = {} /\ remembered = Succeeded
    /\ LET missed == {r \in Succeeded : Gap(results[r].net) > 0}
           eligible == {r \in Succeeded : OptimizerEligible(results[r])}
       IN /\ failing' = (failing \ Succeeded) \union missed
          /\ near' = near \union {[route |-> r, at |-> cycle] : r \in missed}
          /\ \E work \in First(eligible, OptimizerLimit, ByPromise(results)) :
                pending' = [r \in DOMAIN pending \union work |->
                              IF r \in work THEN results[r] ELSE pending[r]]
    /\ phase' = "select" /\ chosen' = {} /\ results' = Nothing /\ remembered' = {}
    /\ UNCHANGED <<opt, cycle, cancelled, memory, recent, assetsLeft, affected, quotesLeft,
                   asset, waiting, optimizeVars, report>>

-----------------------------------------------------------------------------
(* Sizing.                                                                 *)

BeginOptimizer ==
    /\ phase = "select" /\ assetsLeft = {}
    /\ phase' = "optimize" /\ samplesLeft' = opt.perCycle
    /\ UNCHANGED <<opt, cycle, cancelled, memoryVars, selectVars, queue, remaining, cap, sizing,
                   sized, report>>

\* An unreadable or empty reserve does not cap the loan.
CapLoanMax(available) ==
    IF available > 0 THEN Least(10 * Current, available) ELSE 10 * Current

\* The next asset's share of the samples; without two there is no sizing.
NextAsset ==
    /\ phase = "optimize" /\ queue = Nothing /\ sizing = Idle /\ pending # Nothing
    /\ LET assets == {AssetOf[r] : r \in DOMAIN pending}
           next == {r \in DOMAIN pending : AssetOf[r] = MinOf(assets)}
       IN /\ pending' = Restricted(pending, DOMAIN pending \ next)
          /\ IF opt.adaptive /\ samplesLeft < 2
             THEN UNCHANGED <<queue, remaining, cap>>
             ELSE /\ queue' = Restricted(pending, next)
                  /\ remaining' = IF opt.adaptive
                                  THEN Greatest(samplesLeft \div Cardinality(assets), 2) ELSE 0
                  /\ cap' \in {CapLoanMax(a) : a \in Available}
    /\ sized' = Idle
    /\ UNCHANGED <<cycleVars, memoryVars, assetsLeft, affected, quotesLeft, assetVars, near,
                   samplesLeft, sizing, report>>

SamplesForScore(score, high, normal) ==
    CASE score >= 4000 -> high
      [] score < 2000 -> 2
      [] OTHER -> Least(Greatest(normal, 2), high)

Minimum == IF Current \div 10 > 0 THEN Current \div 10 ELSE Current

\* candidates of the optimizer: linear samples, without duplicates.
Samples(low, high, n) ==
    {low + ((high - low) * i) \div (Greatest(n, 2) - 1) : i \in 0..(Greatest(n, 2) - 1)}

\* The best of the amounts whose quotes succeeded; results arrive in any
\* order, the first of equals stays.
BestAmounts(curve, amounts) == {a \in amounts : \A b \in amounts : curve[b] <= curve[a]}

Allocated(score) ==
    IF opt.adaptive THEN Least(SamplesForScore(score, opt.samples, opt.normal), remaining)
    ELSE SamplesForScore(score, opt.samples, Greatest(2, opt.samples \div 2))

Spend(n, runs) ==
    /\ report' = [report EXCEPT !.samples = @ + n, !.runs = @ + runs]
    /\ IF opt.adaptive
       THEN samplesLeft' = Greatest(samplesLeft - n, 0) /\ remaining' = Greatest(remaining - n, 0)
       ELSE UNCHANGED <<samplesLeft, remaining>>

\* The most promising route left.
Turns == {r \in DOMAIN queue : \A q \in DOMAIN queue \ {r} : <<r, q>> \in ByPromise(queue)}
Passed(r) == queue' = Restricted(queue, DOMAIN queue \ {r})

SkipRoute ==
    /\ phase = "optimize" /\ sizing = Idle /\ opt.adaptive /\ remaining < 2
    /\ \E r \in Turns : Passed(r)
    /\ sized' = Idle
    /\ UNCHANGED <<cycleVars, memoryVars, selectVars, samplesLeft, remaining, cap, sizing, report>>

\* Optimize hands out its amounts one by one: after a cancellation some of
\* them are not quoted and not counted.
HandedOut(amounts) == IF cancelled THEN SUBSET amounts ELSE {amounts}

\* The first samples over the whole range.  A range below the minimum, or no
\* successful quote, ends the route's sizing.
Probe(curve) ==
    /\ phase = "optimize" /\ sizing = Idle /\ (opt.adaptive => remaining >= 2)
    /\ \E r \in Turns :
        LET score == queue[r].score
            allocated == Allocated(score)
            amounts == IF cap < Minimum THEN {} ELSE Samples(Minimum, cap, Least(allocated, 3))
        IN /\ Passed(r)
           /\ \E sampled \in HandedOut(amounts) : \E priced \in SUBSET sampled :
                /\ Spend(Cardinality(sampled), 1)
                /\ IF priced = {} THEN UNCHANGED sizing
                   ELSE \E best \in BestAmounts(curve, priced) :
                        sizing' = [step |-> "probed", curve |-> curve, score |-> score, best |-> best,
                                   priced |-> priced, sampled |-> sampled, allocated |-> allocated]
    /\ sized' = Idle
    /\ UNCHANGED <<cycleVars, memoryVars, selectVars, cap>>

StopAfterProbe ==
    LET net == sizing.curve[sizing.best]
    IN net <= 0 /\ (sizing.score < 2000 \/ -net > Greatest(25 * MinProfit, Current \div 100))

DeepSamples == sizing.allocated - Cardinality(sizing.sampled)

GoesDeep ==
    IF opt.adaptive THEN DeepSamples >= 2 /\ ~(opt.earlyStop /\ StopAfterProbe)
    ELSE sizing.allocated > 3

\* refineOptimizerRange: a quarter of the range on either side of the best.
Refined ==
    LET quarter == (cap - Minimum) \div 4
        left == Greatest(sizing.best - quarter, Minimum)
        right == Least(sizing.best + quarter, cap)
    IN IF quarter <= 0 \/ right <= left THEN <<Minimum, cap>> ELSE <<left, right>>

Better_last(deep, best) == deep
Better(deep, best) == IF sizing.curve[deep] > sizing.curve[best] THEN deep ELSE best

\* Samples around the best; the adapter remembers amounts already priced, or
\* already failed.
Deepen ==
    /\ phase = "optimize" /\ sizing.step = "probed" /\ GoesDeep
    /\ LET range == IF opt.adaptive THEN Refined ELSE <<Minimum, cap>>
           amounts == Samples(range[1], range[2], IF opt.adaptive THEN DeepSamples ELSE sizing.allocated)
       IN \E sampled \in HandedOut(amounts) :
          LET fresh == IF opt.adaptive THEN sampled \ sizing.sampled ELSE sampled
              old == IF opt.adaptive THEN sampled \intersect sizing.priced ELSE {}
          IN \E priced \in SUBSET fresh :
            /\ Spend(Cardinality(sampled), 0)
            /\ IF priced \union old = {}
               THEN sizing' = [sizing EXCEPT !.step = "done"]
               ELSE \E deep \in BestAmounts(sizing.curve, priced \union old) :
                        sizing' = [sizing EXCEPT !.step = "done", !.best = Better(deep, @),
                                                 !.priced = @ \union priced]
    /\ UNCHANGED <<cycleVars, memoryVars, selectVars, queue, cap, sized>>

\* A profitable size is evaluated in earnest, which may emit an opportunity.
Settle ==
    /\ phase = "optimize" /\ \/ sizing.step = "done"
                             \/ sizing.step = "probed" /\ ~GoesDeep
    /\ sized' = IF sizing.curve[sizing.best] > 0 THEN sizing ELSE Idle
    /\ sizing' = Idle
    /\ UNCHANGED <<cycleVars, memoryVars, selectVars, samplesLeft, queue, remaining, cap, report>>

\* mergeNearMisses: the newest record of a route, the newest records of all.
\* A cancelled cycle returns before it.
ByTime(records) ==
    {p \in records \X records : p[1].at > p[2].at \/ (p[1].at = p[2].at /\ p[1].route < p[2].route)}
Newest(records) ==
    LET latest == {n \in records : \A m \in records : m.route = n.route => m.at <= n.at}
    IN First(latest, RecentLimit, ByTime(records))

EndCycle ==
    /\ phase = "optimize" /\ queue = Nothing /\ sizing = Idle /\ pending = Nothing
    /\ phase' = "idle" /\ affected' = {} /\ asset' = 0
    /\ recent' \in IF cancelled THEN {recent} ELSE Newest(recent \union near)
    /\ quotesLeft' = 0 /\ near' = {} /\ report' = NewReport
    /\ samplesLeft' = 0 /\ remaining' = 0 /\ cap' = 0 /\ sized' = Idle /\ cancelled' = FALSE
    /\ UNCHANGED <<opt, cycle, memory, failing, assetsLeft, chosen, waiting, results, remembered,
                   pending, queue, sizing>>

-----------------------------------------------------------------------------
Next ==
    \/ \E dirty \in Dirty : BeginCycle(dirty)
    \/ SelectAsset \/ Cancel \/ Collect
    \/ \E r \in Routes : RememberRoute(r)
    \/ \E r \in Routes, outcome \in Outcomes \union {Failed} : EvaluateRoute(r, outcome)
    \/ BeginOptimizer \/ NextAsset \/ SkipRoute
    \/ \E curve \in Curves : Probe(curve)
    \/ Deepen \/ Settle \/ EndCycle

Spec == Init /\ [][Next]_vars

-----------------------------------------------------------------------------
(* Properties.                                                             *)

\* The options, the memory and the work of the cycle have their types.  The
\* memory holds no more observed routes than its limit (Observe prunes,
\* MarkDirty does not), and the near misses reported hold a route once and no
\* more than their limit, over cycles that fail and cycles that are cancelled.
TypeOK ==
    /\ opt.normal \in 2..opt.samples /\ opt.perCycle \in 2..512 /\ opt.explore \in 1..5000
    /\ phase \in {"idle", "select", "evaluate", "optimize"} /\ cancelled \in BOOLEAN
    /\ cycle \in 0..MaxCycles /\ quotesLeft \in 0..opt.quotes
    /\ DOMAIN memory \subseteq Routes
    /\ \A r \in DOMAIN memory : memory[r].obs \in 0..MaxCycles /\ memory[r].seen \in 0..MaxCycles
    /\ waiting \subseteq Routes /\ DOMAIN results \subseteq Routes
    /\ samplesLeft \in 0..opt.perCycle /\ remaining \in 0..opt.perCycle
    /\ sizing.step \in {"none", "probed", "done"} /\ sized.step \in {"none", "probed", "done"}
    /\ Cardinality({r \in DOMAIN memory : memory[r].obs > 0}) <= MaxRoutes
    /\ Cardinality(recent) <= RecentLimit
    /\ \A m, n \in recent : m.route = n.route => m = n

\* Over all assets and however their shares round, the first quotes of a
\* cycle leave the optimizer the part of the ceiling reserved for it
\* (remainingQuotes in evaluate), and an adaptive cycle takes no more samples
\* than configured and sizes no more routes, however many samples coincide
\* and however often a sizing goes deep.
CycleBudgets ==
    /\ report.quotes <= InitialQuotes
    /\ opt.adaptive => report.samples <= opt.perCycle
    /\ report.runs <= opt.optimized

\* The size evaluated in earnest is profitable and the best of everything
\* that was priced, in the probe and around its best.
SizedBest ==
    sized # Idle => /\ sized.curve[sized.best] > 0
                    /\ \A a \in sized.priced : sized.curve[a] <= sized.curve[sized.best]

\* A ranked selection fills its limit without repeating a route, keeps its
\* exploration slots whatever the scores are, and explores no route while a
\* less observed one is left out.
SelectionMix ==
    (phase = "evaluate" /\ opt.ranking) =>
        LET candidates == {r \in affected : AssetOf[r] = asset}
            limit == Least(opt.routes, Cardinality(candidates))
            picked == {s.route : s \in chosen}
            explored == {s.route : s \in {t \in chosen : t.kind = "explore"}}
        IN /\ Cardinality(chosen) = limit /\ Cardinality(picked) = limit
           /\ Cardinality(explored) = ExploreSlots(limit)
           /\ remembered = {} => \A e \in explored, r \in candidates \ picked :
                Observations(e) <= Observations(r)
=============================================================================
