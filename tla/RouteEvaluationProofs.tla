----------------------- MODULE RouteEvaluationProofs -----------------------
(***************************************************************************)
(* Proofs about RouteEvaluation, for every set of routes and assets, every *)
(* configuration of the search, every profit curve and every size of the   *)
(* route memory: the budgets of a cycle, the mix of a selection, the size  *)
(* an optimizer run ends with, and the types.                              *)
(***************************************************************************)
EXTENDS RouteEvaluation, FiniteSetTheorems, WellFoundedInduction, TLAPS

Amounts == 1..(10 * Current)

OptionsTyped ==
    /\ opt.routes \in Nat \ {0} /\ opt.deepRoutes \in Nat \ {0}
    /\ opt.quotes \in Nat \ {0} /\ opt.optimized \in Nat \ {0}
    /\ opt.samples \in Nat /\ opt.normal \in 2..opt.samples
    /\ opt.perCycle \in 2..512 /\ opt.explore \in 1..5000

ReportType == [quotes : Nat, runs : Nat, samples : Nat]

\* What each phase has left to do, and what it leaves empty.
PhaseShape ==
    /\ phase \in {"idle", "select", "evaluate", "optimize"} /\ cancelled \in BOOLEAN
    /\ cycle \in 0..MaxCycles
    /\ report \in ReportType
    /\ affected \subseteq Routes
    /\ assetsLeft \subseteq {AssetOf[r] : r \in affected}
    /\ phase \in {"idle", "optimize"} => assetsLeft = {}
    /\ phase # "evaluate" => waiting = {} /\ DOMAIN results = {} /\ remembered = {}
    /\ waiting \subseteq Routes /\ DOMAIN results \subseteq Routes
    /\ \A r \in waiting \union DOMAIN results : AssetOf[r] = asset
    /\ phase = "evaluate" => asset \notin assetsLeft

\* The initial quotes of a cycle are spent or left.
QuotesInv ==
    /\ quotesLeft \in Nat
    /\ phase = "idle" => report.quotes = 0 /\ quotesLeft = 0
    /\ phase # "idle" => report.quotes + quotesLeft = InitialQuotes

\* A route that may still be observed in this cycle has not been: it was
\* observed at most once in each cycle before.
Fresh(r) == Observations(r) < cycle
ToObserve ==
    {r \in Routes : AssetOf[r] \in assetsLeft} \union ((waiting \union DOMAIN results) \ remembered)
Observed == {r \in DOMAIN memory : memory[r].obs > 0}
MemoryInv ==
    /\ DOMAIN memory \subseteq Routes
    /\ \A r \in DOMAIN memory : memory[r].obs \in 0..cycle /\ memory[r].seen \in 0..cycle
    /\ \A r \in ToObserve : Fresh(r)
    /\ Cardinality(Observed) <= MaxRoutes

NearMiss == [route : Routes, at : 0..MaxCycles]
NearInv ==
    /\ near \subseteq NearMiss /\ recent \subseteq NearMiss
    /\ Cardinality(recent) <= RecentLimit
    /\ \A m, n \in recent : m.route = n.route => m = n

\* Evaluations keep their scores on the way to the optimizer.
Scored(f) == \A r \in DOMAIN f : f[r].score \in Int
ScoresInv ==
    /\ Scored(results) /\ Scored(pending) /\ Scored(queue)
    /\ pending = Restricted(pending, DOMAIN pending)

\* An optimizer run is one of a route that waited for it.
RunsInv ==
    /\ DOMAIN pending \subseteq Routes /\ DOMAIN queue \subseteq Routes
    /\ report.runs + Cardinality(DOMAIN queue) + Cardinality(DOMAIN pending) <= opt.optimized
    /\ phase # "optimize" => report.runs = 0 /\ DOMAIN queue = {}

\* A sizing knows the best of what it priced.
Sizing(s) ==
    /\ s \in [step : {"probed", "done"}, curve : Curves, score : Int, best : Amounts,
              priced : SUBSET Amounts, sampled : SUBSET Amounts, allocated : Int]
    /\ s.best \in s.priced
    /\ \A a \in s.priced : s.curve[a] <= s.curve[s.best]
SizingInv ==
    /\ cap \in 0..(10 * Current)
    /\ sizing # Idle => Sizing(sizing) /\ Minimum <= cap
    /\ sized # Idle => Sizing(sized) /\ sized.curve[sized.best] > 0

\* The samples of an adaptive cycle are spent or left; a sizing that may go
\* deep has its samples still.
SamplesInv ==
    /\ samplesLeft \in 0..opt.perCycle /\ remaining \in 0..samplesLeft
    /\ phase # "optimize" => report.samples = 0 /\ sizing = Idle
    /\ phase = "optimize" /\ opt.adaptive => report.samples + samplesLeft = opt.perCycle
    /\ sizing.step = "probed" /\ opt.adaptive => DeepSamples <= remaining

Inv == /\ OptionsTyped /\ PhaseShape /\ QuotesInv /\ MemoryInv /\ NearInv /\ ScoresInv /\ RunsInv
       /\ SizingInv /\ SamplesInv /\ SelectionMix

-----------------------------------------------------------------------------
(* Numbers and finite sets.                                                *)

LEMMA ShareBound ==
    ASSUME NEW q \in Nat, NEW n \in Nat \ {0}
    PROVE  (q + n - 1) \div n \in 0..q
OBVIOUS

LEMMA PartBound ==
    ASSUME NEW x \in Nat, NEW d \in Nat \ {0}, NEW i \in 0..d
    PROVE  (x * i) \div d \in 0..x
OBVIOUS

LEMMA QuotientBound ==
    ASSUME NEW x \in Nat, NEW d \in Nat \ {0}
    PROVE  x \div d \in 0..x
OBVIOUS

LEMMA SomeRoutes ==
    ASSUME NEW S, S \subseteq Routes
    PROVE  IsFiniteSet(S) /\ Cardinality(S) \in Nat
<1>1. IsFiniteSet(Routes)
  BY RoutesAssumption, FS_Interval DEF Routes
<1>2. IsFiniteSet(S)
  BY <1>1, FS_Subset
<1> QED
  BY <1>2, FS_CardinalityType

\* What a sort and a cut leave.
LEMMA FirstFacts ==
    ASSUME NEW S, IsFiniteSet(S), NEW n \in Nat, NEW order, NEW T \in First(S, n, order)
    PROVE  /\ T \subseteq S /\ IsFiniteSet(T) /\ Cardinality(T) \in Nat /\ Cardinality(S) \in Nat
           /\ Cardinality(T) = Least(n, Cardinality(S)) /\ Cardinality(T) <= n
           /\ \A t \in T, u \in S \ T : <<t, u>> \in order
<1>1. T \subseteq S /\ Cardinality(T) = Least(n, Cardinality(S))
      /\ \A t \in T, u \in S \ T : <<t, u>> \in order
  BY DEF First
<1>2. IsFiniteSet(T) /\ Cardinality(T) \in Nat /\ Cardinality(S) \in Nat
  BY <1>1, FS_Subset, FS_CardinalityType
<1> QED
  BY <1>1, <1>2 DEF Least

LEMMA ImageFacts ==
    ASSUME NEW S, IsFiniteSet(S), NEW f, DOMAIN f = S, f = [x \in S |-> f[x]]
    PROVE  LET T == {f[x] : x \in S}
           IN  IsFiniteSet(T) /\ Cardinality(T) <= Cardinality(S)
<1> DEFINE T == {f[x] : x \in S}
<1>1. f \in Surjection(S, T)
  BY DEF Surjection
<1> HIDE DEF T
<1>2. IsFiniteSet(T) /\ Cardinality(T) <= Cardinality(S)
  BY <1>1, FS_Surjection
<1> QED
  BY <1>2 DEF T

LEMMA MinOfFacts ==
    ASSUME NEW S, S \subseteq Nat, S # {}
    PROVE  MinOf(S) \in S
<1>1. \E x \in S : \A y \in S : x <= y
  <2>1. PICK x \in S : \A y \in S : <<y, x>> \notin OpToRel(<, Nat)
    BY NatLessThanWellFounded, WFMin
  <2>2. OpToRel(<, Nat) = {ss \in Nat \X Nat : ss[1] < ss[2]}
    BY DEF OpToRel
  <2>3. \A y \in S : ~(y < x)
    BY <2>1, <2>2
  <2>4. \A y \in S : x <= y
    BY <2>3
  <2> QED
    BY <2>4
<1> QED
  BY <1>1 DEF MinOf

-----------------------------------------------------------------------------
(* The options and the phases.                                             *)

LEMMA OptionsInit == ASSUME Init PROVE OptionsTyped
<1>1. PICK o \in RawOptions : opt = Normalized(o)
  BY DEF Init
<1>2. /\ o.routes \in Int /\ o.deepRoutes \in Int /\ o.quotes \in Int /\ o.optimized \in Int
      /\ o.samples \in Int /\ o.normal \in Int /\ o.perCycle \in Int /\ o.explore \in Int
  BY OptionsAssumption
<1>3. /\ opt.routes = OrElse(o.routes, 1, 64) /\ opt.deepRoutes = OrElse(o.deepRoutes, 1, 8)
      /\ opt.quotes = OrElse(o.quotes, 1, 40) /\ opt.optimized = OrElse(o.optimized, 1, 8)
      /\ opt.samples = OrElse(o.samples, 2, 5)
      /\ opt.normal = Least(OrElse(o.normal, 2, 3), OrElse(o.samples, 2, 5))
      /\ opt.perCycle = Least(OrElse(o.perCycle, 2, 32), 512)
      /\ opt.explore = IF o.explore <= 0 THEN 2000 ELSE Least(o.explore, 5000)
  BY <1>1 DEF Normalized
<1>4. /\ opt.routes \in Nat \ {0} /\ opt.deepRoutes \in Nat \ {0}
      /\ opt.quotes \in Nat \ {0} /\ opt.optimized \in Nat \ {0}
  BY <1>2, <1>3 DEF OrElse
<1>5. opt.samples \in Nat /\ opt.normal \in 2..opt.samples
  <2>1. OrElse(o.samples, 2, 5) \in Nat /\ OrElse(o.samples, 2, 5) >= 2
        /\ OrElse(o.normal, 2, 3) \in Nat /\ OrElse(o.normal, 2, 3) >= 2
    BY <1>2 DEF OrElse
  <2> QED
    BY <1>3, <2>1 DEF Least
<1>6. opt.perCycle \in 2..512
  BY <1>2, <1>3 DEF OrElse, Least
<1>7. opt.explore \in 1..5000
  <2>1. CASE o.explore <= 0
    BY <2>1, <1>3
  <2>2. CASE ~(o.explore <= 0)
    <3>1. opt.explore = IF o.explore < 5000 THEN o.explore ELSE 5000
      BY <2>2, <1>3 DEF Least
    <3>2. o.explore \in Nat \ {0}
      BY <1>2, <2>2
    <3> DEFINE x == opt.explore
    <3>3. x \in Int /\ x >= 1 /\ x <= 5000
      BY <3>1, <3>2
    <3> SUFFICES x \in 1..5000
      OBVIOUS
    <3> HIDE DEF x
    <3> QED
      BY <3>3
  <2> QED
    BY <2>1, <2>2
<1> QED
  BY <1>4, <1>5, <1>6, <1>7 DEF OptionsTyped

LEMMA OptionsStep == ASSUME OptionsTyped, [Next]_vars PROVE OptionsTyped' /\ opt' = opt
<1>1. opt' = opt
  BY DEF Next, vars, cycleVars, BeginCycle, SelectAsset, Cancel, Collect, RememberRoute, EvaluateRoute,
         BeginOptimizer, NextAsset, SkipRoute, Probe, Deepen, Settle, EndCycle
<1> QED
  BY <1>1 DEF OptionsTyped

-----------------------------------------------------------------------------
(* Selection.                                                              *)

LEMMA SlotsFacts ==
    ASSUME OptionsTyped, NEW limit \in Nat
    PROVE  /\ ExploreSlots(limit) \in Nat /\ NewSlots(limit) \in Nat /\ ExploitSlots(limit) \in Nat
           /\ ExploitSlots(limit) + NewSlots(limit) + ExploreSlots(limit) = limit
<1> DEFINE share == (limit * opt.explore) \div 10000
           tenth == limit \div 10
<1>1. share \in 0..limit /\ tenth \in 0..limit
  <2> DEFINE e == opt.explore
             d == 10000
  <2>1. d \in Nat \ {0} /\ e \in 0..d
    BY DEF OptionsTyped
  <2>3. share = (limit * e) \div d
    OBVIOUS
  <2> HIDE DEF e, d
  <2>2. (limit * e) \div d \in 0..limit
    BY <2>1, PartBound
  <2> HIDE DEF share
  <2>4. tenth \in 0..limit
    BY QuotientBound
  <2> QED
    BY <2>2, <2>3, <2>4
<1>2. /\ ExploreSlots(limit) = IF share = 0 /\ limit > 1 THEN 1 ELSE share
      /\ NewSlots(limit) = LET slots == IF limit < 10 /\ limit >= 3 THEN 1 ELSE tenth
                           IN IF slots + ExploreSlots(limit) > limit THEN 0 ELSE slots
  BY DEF ExploreSlots, NewSlots
<1> HIDE DEF share, tenth
<1>3. ExploreSlots(limit) \in 0..limit
  BY <1>1, <1>2
<1>4. NewSlots(limit) \in Nat /\ NewSlots(limit) + ExploreSlots(limit) <= limit
  BY <1>1, <1>2, <1>3
<1> QED
  BY <1>3, <1>4 DEF ExploitSlots

LEMMA AsFacts ==
    ASSUME NEW S, IsFiniteSet(S), NEW kind
    PROVE  /\ IsFiniteSet(As(S, kind)) /\ Cardinality(As(S, kind)) = Cardinality(S)
           /\ {s.route : s \in As(S, kind)} = S
           /\ \A s \in As(S, kind) : s.kind = kind /\ s.route \in S
<1> DEFINE f == [r \in S |-> [route |-> r, kind |-> kind]]
<1>1. f \in Surjection(S, As(S, kind))
  BY DEF Surjection, As
<1>2. f \in Injection(S, As(S, kind))
  <2>1. \A r \in S : f[r].route = r
    OBVIOUS
  <2>2. f \in [S -> As(S, kind)]
    BY DEF As
  <2> HIDE DEF f
  <2>3. \A a, b \in S : f[a] = f[b] => a = b
    BY <2>1
  <2> QED
    BY <2>2, <2>3 DEF Injection, IsInjective
<1> HIDE DEF f
<1>3. IsFiniteSet(As(S, kind)) /\ Cardinality(As(S, kind)) = Cardinality(S)
  <2> HIDE DEF As
  <2> QED
    BY <1>1, <1>2, FS_Surjection
<1>4. \A s \in As(S, kind) : s.kind = kind /\ s.route \in S
  BY DEF As
<1>5. {s.route : s \in As(S, kind)} = S
  <2>1. \A r \in S : [route |-> r, kind |-> kind] \in As(S, kind)
                   /\ [route |-> r, kind |-> kind].route = r
    BY DEF As
  <2> QED
    BY <1>4, <2>1
<1> QED
  BY <1>3, <1>4, <1>5

\* The cardinality of a union of parts that have nothing in common.
LEMMA PartsFacts ==
    ASSUME NEW A, NEW B, IsFiniteSet(A), IsFiniteSet(B), A \intersect B = {}
    PROVE  /\ IsFiniteSet(A \union B) /\ Cardinality(A \union B) \in Nat
           /\ Cardinality(A) \in Nat /\ Cardinality(B) \in Nat
           /\ Cardinality(A \union B) = Cardinality(A) + Cardinality(B)
<1>1. Cardinality(A \intersect B) = 0
  BY FS_EmptySet
<1>2. IsFiniteSet(A \union B)
      /\ Cardinality(A \union B) = Cardinality(A) + Cardinality(B) - Cardinality(A \intersect B)
  BY FS_Union
<1>3. Cardinality(A) \in Nat /\ Cardinality(B) \in Nat
  BY FS_CardinalityType
<1> QED
  BY <1>1, <1>2, <1>3

Choices(candidates) == [route : candidates, kind : Kinds]

LEMMA AsChoices ==
    ASSUME NEW candidates, NEW S, S \subseteq candidates, NEW kind \in Kinds
    PROVE  As(S, kind) \subseteq Choices(candidates)
BY DEF As, Choices

\* What a ranked selection consists of.
LEMMA RankedFacts ==
    ASSUME OptionsTyped, opt.ranking, NEW candidates, candidates \subseteq Routes, NEW score,
           \A r \in candidates : Observations(r) \in Nat,
           Select(candidates, score)
    PROVE  LET limit == Least(opt.routes, Cardinality(candidates))
               picked == {s.route : s \in chosen'}
               explored == {s.route : s \in {t \in chosen' : t.kind = "explore"}}
           IN /\ chosen' \subseteq Choices(candidates)
              /\ Cardinality(chosen') = limit /\ Cardinality(picked) = limit
              /\ Cardinality(explored) = ExploreSlots(limit)
              /\ \A e \in explored, r \in candidates \ picked : Observations(e) <= Observations(r)
<1> DEFINE limit == Least(opt.routes, Cardinality(candidates))
           picked == {s.route : s \in chosen'}
           explored == {s.route : s \in {t \in chosen' : t.kind = "explore"}}
           N == Cardinality(candidates)
<1>1. IsFiniteSet(candidates) /\ N \in Nat
  BY SomeRoutes
<1>2. limit \in Nat /\ limit <= N
  BY <1>1 DEF Least, OptionsTyped
<1> DEFINE a == ExploitSlots(limit)
           b == NewSlots(limit)
           c == ExploreSlots(limit)
<1>3. a \in Nat /\ b \in Nat /\ c \in Nat /\ a + b + c = limit
  BY <1>2, SlotsFacts
<1>4. PICK exploit \in First(candidates, a, ByScore(score)) :
      \E new \in First({r \in candidates \ exploit : Observations(r) = 0}, b, ByScore(score)) :
      \E explore \in First(candidates \ (exploit \union new), c, ByObservations(score)) :
      \E rest \in First(candidates \ (exploit \union new \union explore),
                        limit - Cardinality(exploit) - Cardinality(new) - Cardinality(explore),
                        ByScore(score)) :
          chosen' = As(exploit, "exploit") \union As(new, "new") \union As(explore, "explore")
                    \union As(rest, "rest")
  BY DEF Select
<1>5. PICK new \in First({r \in candidates \ exploit : Observations(r) = 0}, b, ByScore(score)) :
      \E explore \in First(candidates \ (exploit \union new), c, ByObservations(score)) :
      \E rest \in First(candidates \ (exploit \union new \union explore),
                        limit - Cardinality(exploit) - Cardinality(new) - Cardinality(explore),
                        ByScore(score)) :
          chosen' = As(exploit, "exploit") \union As(new, "new") \union As(explore, "explore")
                    \union As(rest, "rest")
  BY <1>4
<1>6. PICK explore \in First(candidates \ (exploit \union new), c, ByObservations(score)) :
      \E rest \in First(candidates \ (exploit \union new \union explore),
                        limit - Cardinality(exploit) - Cardinality(new) - Cardinality(explore),
                        ByScore(score)) :
          chosen' = As(exploit, "exploit") \union As(new, "new") \union As(explore, "explore")
                    \union As(rest, "rest")
  BY <1>5
<1>7. PICK rest \in First(candidates \ (exploit \union new \union explore),
                        limit - Cardinality(exploit) - Cardinality(new) - Cardinality(explore),
                        ByScore(score)) :
          chosen' = As(exploit, "exploit") \union As(new, "new") \union As(explore, "explore")
                    \union As(rest, "rest")
  BY <1>6
<1> HIDE DEF a, b, c, limit, N
\* How many of each kind.
<1>8. /\ exploit \subseteq candidates /\ IsFiniteSet(exploit) /\ Cardinality(exploit) = a
  <2>1. exploit \subseteq candidates /\ IsFiniteSet(exploit) /\ Cardinality(exploit) = Least(a, N)
    BY <1>1, <1>3, <1>4, FirstFacts DEF N
  <2> QED
    BY <1>1, <1>2, <1>3, <2>1 DEF Least
<1>9. /\ new \subseteq candidates \ exploit /\ IsFiniteSet(new)
      /\ Cardinality(new) \in Nat /\ Cardinality(new) <= b
  <2> DEFINE S == {r \in candidates \ exploit : Observations(r) = 0}
  <2>1. IsFiniteSet(S) /\ S \subseteq candidates \ exploit
    BY <1>1, FS_Subset
  <2>2. new \in First(S, b, ByScore(score))
    BY <1>5
  <2> HIDE DEF S
  <2> QED
    BY <2>1, <2>2, <1>3, FirstFacts
<1> DEFINE two == exploit \union new
<1>10. IsFiniteSet(two) /\ two \subseteq candidates /\ Cardinality(two) = a + Cardinality(new)
  BY <1>8, <1>9, PartsFacts
<1>11. IsFiniteSet(candidates \ two) /\ Cardinality(candidates \ two) = N - Cardinality(two)
  <2>1. candidates \intersect two = two
    BY <1>10
  <2> HIDE DEF two
  <2>2. /\ IsFiniteSet(candidates \ two)
        /\ Cardinality(candidates \ two) = Cardinality(candidates) - Cardinality(candidates \intersect two)
    BY <1>1, FS_Difference
  <2> QED
    BY <2>1, <2>2 DEF N
<1>12. explore \in First(candidates \ two, c, ByObservations(score))
  BY <1>6
<1>13. /\ explore \subseteq candidates \ two /\ IsFiniteSet(explore) /\ Cardinality(explore) = c
       /\ \A t \in explore, u \in (candidates \ two) \ explore : <<t, u>> \in ByObservations(score)
  <2> HIDE DEF two
  <2>1. /\ explore \subseteq candidates \ two /\ IsFiniteSet(explore)
        /\ Cardinality(explore) = Least(c, Cardinality(candidates \ two))
        /\ \A t \in explore, u \in (candidates \ two) \ explore : <<t, u>> \in ByObservations(score)
    BY <1>3, <1>11, <1>12, FirstFacts
  <2>2. c <= N - Cardinality(two)
    BY <1>1, <1>2, <1>3, <1>9, <1>10
  <2> QED
    BY <1>1, <1>3, <1>9, <1>10, <1>11, <2>1, <2>2 DEF Least
<1> DEFINE three == two \union explore
           left == limit - Cardinality(exploit) - Cardinality(new) - Cardinality(explore)
<1>14. IsFiniteSet(three) /\ three \subseteq candidates /\ Cardinality(three) = a + Cardinality(new) + c
  BY <1>10, <1>13, PartsFacts
<1>15. IsFiniteSet(candidates \ three) /\ Cardinality(candidates \ three) = N - Cardinality(three)
  <2>1. candidates \intersect three = three
    BY <1>14
  <2> HIDE DEF three
  <2>2. /\ IsFiniteSet(candidates \ three)
        /\ Cardinality(candidates \ three)
            = Cardinality(candidates) - Cardinality(candidates \intersect three)
    BY <1>1, FS_Difference
  <2> QED
    BY <2>1, <2>2 DEF N
<1>16. rest \in First(candidates \ three, left, ByScore(score))
  BY <1>7
<1>17. left \in Nat /\ left = limit - a - Cardinality(new) - c
  BY <1>2, <1>3, <1>8, <1>9, <1>13
<1>18. rest \subseteq candidates \ three /\ IsFiniteSet(rest) /\ Cardinality(rest) = left
  <2> HIDE DEF three, left
  <2>1. /\ rest \subseteq candidates \ three /\ IsFiniteSet(rest)
        /\ Cardinality(rest) = Least(left, Cardinality(candidates \ three))
    BY <1>15, <1>16, <1>17, FirstFacts
  <2>2. left <= N - Cardinality(three)
    BY <1>1, <1>2, <1>3, <1>9, <1>14, <1>17
  <2> QED
    BY <1>1, <1>3, <1>9, <1>14, <1>15, <1>17, <2>1, <2>2 DEF Least
\* The routes picked.
<1>19. Cardinality(three \union rest) = limit
  <2>1. three \intersect rest = {}
    BY <1>18
  <2> HIDE DEF three, left
  <2>2. Cardinality(three \union rest) = Cardinality(three) + Cardinality(rest)
    BY <2>1, <1>14, <1>18, PartsFacts
  <2> QED
    BY <2>2, <1>2, <1>3, <1>9, <1>14, <1>17, <1>18
<1> DEFINE A1 == As(exploit, "exploit")
           A2 == As(new, "new")
           A3 == As(explore, "explore")
           A4 == As(rest, "rest")
<1>20. /\ IsFiniteSet(A1) /\ Cardinality(A1) = Cardinality(exploit) /\ {s.route : s \in A1} = exploit
       /\ \A s \in A1 : s.kind = "exploit" /\ s.route \in exploit
  BY <1>8, AsFacts
<1>21. /\ IsFiniteSet(A2) /\ Cardinality(A2) = Cardinality(new) /\ {s.route : s \in A2} = new
       /\ \A s \in A2 : s.kind = "new" /\ s.route \in new
  BY <1>9, AsFacts
<1>22. /\ IsFiniteSet(A3) /\ Cardinality(A3) = Cardinality(explore) /\ {s.route : s \in A3} = explore
       /\ \A s \in A3 : s.kind = "explore" /\ s.route \in explore
  BY <1>13, AsFacts
<1>23. /\ IsFiniteSet(A4) /\ Cardinality(A4) = Cardinality(rest) /\ {s.route : s \in A4} = rest
       /\ \A s \in A4 : s.kind = "rest" /\ s.route \in rest
  BY <1>18, AsFacts
<1>24. chosen' \subseteq Choices(candidates)
  <2>1. exploit \subseteq candidates /\ new \subseteq candidates /\ explore \subseteq candidates
        /\ rest \subseteq candidates
    BY <1>8, <1>9, <1>13, <1>18
  <2>2. A1 \subseteq Choices(candidates) /\ A2 \subseteq Choices(candidates)
        /\ A3 \subseteq Choices(candidates) /\ A4 \subseteq Choices(candidates)
    BY <2>1, AsChoices DEF Kinds
  <2> QED
    BY <1>7, <2>2
<1>25. chosen' = ((A1 \union A2) \union A3) \union A4
  BY <1>7
<1> HIDE DEF A1, A2, A3, A4, two, three, left
<1>26. Cardinality(chosen') = limit
  <2>1. A1 \intersect A2 = {} /\ (A1 \union A2) \intersect A3 = {}
        /\ ((A1 \union A2) \union A3) \intersect A4 = {}
    BY <1>20, <1>21, <1>22, <1>23
  <2>2. IsFiniteSet(A1 \union A2) /\ Cardinality(A1 \union A2) = a + Cardinality(new)
    BY <2>1, <1>20, <1>21, <1>8, PartsFacts
  <2>3. /\ IsFiniteSet((A1 \union A2) \union A3)
        /\ Cardinality((A1 \union A2) \union A3) = a + Cardinality(new) + c
    <3> DEFINE B == A1 \union A2
    <3> HIDE DEF B
    <3>1. IsFiniteSet(B \union A3) /\ Cardinality(B \union A3) = Cardinality(B) + Cardinality(A3)
      BY <2>1, <2>2, <1>22, PartsFacts DEF B
    <3> QED
      BY <3>1, <2>2, <1>22, <1>13 DEF B
  <2>4. Cardinality(((A1 \union A2) \union A3) \union A4) = a + Cardinality(new) + c + left
    BY <2>1, <2>3, <1>23, <1>18, PartsFacts
  <2> QED
    BY <1>25, <2>4, <1>2, <1>3, <1>9, <1>17
<1>27. picked = three \union rest
  BY <1>25, <1>20, <1>21, <1>22, <1>23 DEF three, two
<1>28. explored = explore
  <2>1. {t \in chosen' : t.kind = "explore"} = A3
    BY <1>25, <1>20, <1>21, <1>22, <1>23
  <2> QED
    BY <2>1, <1>22
<1> HIDE DEF picked, explored
<1>29. \A e \in explored, r \in candidates \ picked : Observations(e) <= Observations(r)
  <2>1. SUFFICES ASSUME NEW e \in explored, NEW r \in candidates \ picked
                 PROVE  Observations(e) <= Observations(r)
    OBVIOUS
  <2>2. e \in candidates /\ <<e, r>> \in ByObservations(score)
    BY <1>13, <1>27, <1>28 DEF three
  <2> QED
    BY <2>2 DEF ByObservations
<1> QED
  BY <1>13, <1>19, <1>24, <1>26, <1>27, <1>28, <1>29 DEF limit, picked, explored, c

\* Without ranking as well the selection is one of the candidates.
LEMMA SelectFacts ==
    ASSUME OptionsTyped, NEW candidates, candidates \subseteq Routes, NEW score,
           \A r \in candidates : Observations(r) \in Nat,
           Select(candidates, score)
    PROVE  chosen' \subseteq Choices(candidates)
<1>1. CASE opt.ranking
  BY <1>1, RankedFacts
<1>2. CASE ~opt.ranking
  <2>1. PICK first \in First(candidates, opt.routes, ByScore(score)) : chosen' = As(first, "exploit")
    BY <1>2 DEF Select
  <2>2. first \subseteq candidates
    BY <2>1 DEF First
  <2> QED
    BY <2>1, <2>2, AsChoices DEF Kinds
<1> QED
  BY <1>1, <1>2

Strict(order, S) ==
    /\ \A a \in S : <<a, a>> \notin order
    /\ \A a, b, c \in S : <<a, b>> \in order /\ <<b, c>> \in order => <<a, c>> \in order
    /\ \A a, b \in S : a = b \/ <<a, b>> \in order \/ <<b, a>> \in order

LEMMA SmallestSet ==
    ASSUME NEW S, IsFiniteSet(S), NEW F, F \subseteq SUBSET S, F # {}
    PROVE  \E x \in F : \A y \in F : ~(y \subseteq x /\ y # x)
<1>1. IsWellFoundedOn(StrictSubsetOrdering(S), SUBSET S)
  BY FS_FiniteSubsetsOfFinite, FS_StrictSubsetOrderingWellFounded
<1>2. \E x \in F : \A y \in F : ~(<<y, x>> \in StrictSubsetOrdering(S))
  BY <1>1, WFMin
<1> QED
  BY <1>2 DEF StrictSubsetOrdering

\* Finitely many have a last one.
LEMMA LastOf ==
    ASSUME NEW T, IsFiniteSet(T), T # {}, NEW order, Strict(order, T)
    PROVE  \E p \in T : \A q \in T \ {p} : <<q, p>> \in order
<1> DEFINE after(p) == {q \in T : <<p, q>> \in order}
           F == {after(p) : p \in T}
<1>1. F \subseteq SUBSET T /\ F # {}
  OBVIOUS
<1>2. PICK x \in F : \A y \in F : ~(y \subseteq x /\ y # x)
  <2> HIDE DEF F
  <2> QED
    BY <1>1, SmallestSet
<1>3. PICK p \in T : x = after(p)
  BY <1>2
<1>4. ASSUME NEW q \in T, <<p, q>> \in order PROVE FALSE
  <2>1. after(q) \subseteq after(p)
    BY <1>3, <1>4 DEF Strict
  <2>2. q \in after(p) /\ q \notin after(q)
    BY <1>4 DEF Strict
  <2> QED
    BY <1>2, <1>3, <2>1, <2>2
<1> QED
  BY <1>3, <1>4 DEF Strict

\* A sort and a cut has one result, and First says which: for every finite
\* set, every length and every strict order exactly one set qualifies, so a
\* selection, a list of optimizer work or of near misses exists and is
\* determined by the order the code sorts by.
THEOREM FirstIsOne ==
    ASSUME NEW S, IsFiniteSet(S), NEW n \in Nat, NEW order, Strict(order, S)
    PROVE  \E T : First(S, n, order) = {T}
<1> DEFINE one(R) == \E T : First(R, n, order) = {T}
           F == {R \in SUBSET S : ~one(R)}
<1>1. SUFFICES ASSUME F # {} PROVE FALSE
  OBVIOUS
<1>2. PICK R \in F : \A Q \in F : ~(Q \subseteq R /\ Q # R)
  <2>1. F \subseteq SUBSET S
    OBVIOUS
  <2> HIDE DEF F
  <2> QED
    BY <1>1, <2>1, SmallestSet
<1>3. R \subseteq S /\ IsFiniteSet(R) /\ Strict(order, R) /\ Cardinality(R) \in Nat
  BY <1>2, FS_Subset, FS_CardinalityType DEF Strict
<1>4. \A Q, T : T \in First(Q, n, order) <=>
        /\ T \subseteq Q /\ Cardinality(T) = Least(n, Cardinality(Q))
        /\ \A t \in T, u \in Q \ T : <<t, u>> \in order
  BY DEF First
<1>5. CASE Cardinality(R) <= n
  <2>1. Least(n, Cardinality(R)) = Cardinality(R)
    BY <1>3, <1>5 DEF Least
  <2>2. R \in First(R, n, order)
    BY <1>4, <2>1
  <2>3. ASSUME NEW T \in First(R, n, order) PROVE T = R
    <3>1. T \in SUBSET R /\ Cardinality(T) = Cardinality(R)
      BY <1>4, <2>1
    <3> QED
      BY <1>3, <3>1, FS_Subset
  <2>4. First(R, n, order) = {R}
    BY <2>2, <2>3
  <2> QED
    BY <1>2, <2>4
<1>6. CASE Cardinality(R) > n
  <2>1. R # {}
    BY <1>6, FS_EmptySet
  <2>2. PICK z \in R : \A s \in R \ {z} : <<s, z>> \in order
    BY <1>3, <2>1, LastOf
  <2> DEFINE Q == R \ {z}
  <2>3. IsFiniteSet(Q) /\ Cardinality(Q) = Cardinality(R) - 1
    BY <1>3, <2>2, FS_RemoveElement
  <2>4. Least(n, Cardinality(R)) = n /\ Least(n, Cardinality(Q)) = n
    <3> HIDE DEF Q
    <3> QED
      BY <1>3, <1>6, <2>3 DEF Least
  <2>5. \A u \in Q : <<z, u>> \notin order
    BY <1>3, <2>2 DEF Strict
  <2>6. ASSUME NEW T \in First(R, n, order) PROVE T \in First(Q, n, order)
    <3>1. T \subseteq R /\ Cardinality(T) = n /\ \A t \in T, u \in R \ T : <<t, u>> \in order
      BY <1>4, <2>4
    <3>2. PICK u \in R : u \notin T
      BY <1>3, <1>6, <3>1
    <3>3. z \notin T
      BY <2>5, <3>1, <3>2
    <3> QED
      BY <1>4, <2>4, <3>1, <3>3
  <2>7. ASSUME NEW T \in First(Q, n, order) PROVE T \in First(R, n, order)
    <3>1. T \subseteq Q /\ Cardinality(T) = n /\ \A t \in T, u \in Q \ T : <<t, u>> \in order
      BY <1>4, <2>4
    <3>2. \A t \in T, u \in R \ T : <<t, u>> \in order
      BY <2>2, <3>1
    <3> QED
      BY <1>4, <2>4, <3>1, <3>2
  <2>8. First(R, n, order) = First(Q, n, order)
    BY <2>6, <2>7
  <2>9. Q \in SUBSET S /\ Q \subseteq R /\ Q # R
    BY <1>3, <2>2
  <2>10. one(Q)
    BY <1>2, <2>9
  <2> QED
    BY <1>2, <2>8, <2>10
<1> QED
  BY <1>3, <1>5, <1>6

LEMMA ScoreOrder ==
    ASSUME NEW S, S \subseteq Nat, NEW score \in [S -> Int]
    PROVE  Strict(ByScore(score), S)
BY DEF Strict, ByScore

LEMMA ObservationsOrder ==
    ASSUME NEW S, S \subseteq Nat, NEW score \in [S -> Int], \A r \in S : Observations(r) \in Nat
    PROVE  Strict(ByObservations(score), S)
<1> DEFINE n == [r \in S |-> Observations(r)]
<1>1. n \in [S -> Nat]
  OBVIOUS
<1>2. \A a, b \in S : <<a, b>> \in ByObservations(score) <=>
            n[a] < n[b] \/ (n[a] = n[b] /\ <<a, b>> \in ByScore(score))
  BY DEF ByObservations
<1> HIDE DEF n
<1>3. Strict(ByScore(score), S)
  BY ScoreOrder
<1>4. ASSUME NEW a \in S PROVE <<a, a>> \notin ByObservations(score)
  <2>1. n[a] \in Nat /\ <<a, a>> \notin ByScore(score)
    BY <1>1, <1>3 DEF Strict
  <2> QED
    BY <1>2, <2>1
<1>5. ASSUME NEW a \in S, NEW b \in S, NEW c \in S,
             <<a, b>> \in ByObservations(score), <<b, c>> \in ByObservations(score)
      PROVE  <<a, c>> \in ByObservations(score)
  <2>1. n[a] \in Nat /\ n[b] \in Nat /\ n[c] \in Nat
    BY <1>1
  <2> QED
    BY <1>2, <1>3, <1>5, <2>1 DEF Strict
<1>6. ASSUME NEW a \in S, NEW b \in S
      PROVE  a = b \/ <<a, b>> \in ByObservations(score) \/ <<b, a>> \in ByObservations(score)
  <2>1. n[a] \in Nat /\ n[b] \in Nat
    BY <1>1
  <2> QED
    BY <1>2, <1>3, <2>1 DEF Strict
<1> QED
  BY <1>4, <1>5, <1>6 DEF Strict

\* The order in which boundRoutesByQuoteCost meets the selected routes.
LEMMA SelectionOrder ==
    ASSUME NEW S, S \subseteq Nat, NEW score \in [S -> Int], \A r \in S : Observations(r) \in Nat,
           NEW selection, selection \subseteq Choices(S)
    PROVE  Strict(BySelection(selection, score), selection)
<1> DEFINE order == BySelection(selection, score)
           within(k, a, b) == <<a, b>> \in IF k = "explore" THEN ByObservations(score) ELSE ByScore(score)
<1>1. /\ Strict(ByScore(score), S) /\ Strict(ByObservations(score), S)
  BY ScoreOrder, ObservationsOrder
<1>2. \A k \in Kinds :
        /\ \A a \in S : ~within(k, a, a)
        /\ \A a, b, c \in S : within(k, a, b) /\ within(k, b, c) => within(k, a, c)
        /\ \A a, b \in S : a = b \/ within(k, a, b) \/ within(k, b, a)
  BY <1>1 DEF Strict
<1>3. \A s \in selection : s.route \in S /\ s.kind \in Kinds /\ s = [route |-> s.route, kind |-> s.kind]
  BY DEF Choices
<1>4. /\ \A k \in Kinds : Turn(k) \in 1..4
      /\ \A k, l \in Kinds : Turn(k) = Turn(l) => k = l
  <2>1. Turn("exploit") = 1 /\ Turn("new") = 2 /\ Turn("explore") = 3 /\ Turn("rest") = 4
    BY DEF Turn
  <2> QED
    BY <2>1 DEF Kinds
<1>5. \A s, t \in selection : <<s, t>> \in order <=>
        \/ Turn(s.kind) < Turn(t.kind)
        \/ s.kind = t.kind /\ within(s.kind, s.route, t.route)
  BY DEF BySelection
<1> HIDE DEF order, within
<1>6. \A s \in selection : <<s, s>> \notin order
  BY <1>2, <1>3, <1>4, <1>5
<1>7. ASSUME NEW s \in selection, NEW t \in selection, NEW u \in selection,
             <<s, t>> \in order, <<t, u>> \in order
      PROVE  <<s, u>> \in order
  BY <1>2, <1>3, <1>4, <1>5, <1>7
<1>8. ASSUME NEW s \in selection, NEW t \in selection
      PROVE  s = t \/ <<s, t>> \in order \/ <<t, s>> \in order
  <2>1. CASE s.kind = t.kind
    BY <1>2, <1>3, <1>5, <2>1
  <2>2. CASE s.kind # t.kind
    BY <1>3, <1>4, <1>5, <2>2
  <2> QED
    BY <2>1, <2>2
<1> QED
  BY <1>6, <1>7, <1>8 DEF Strict, order

LEMMA HopsFinite == IsFiniteSet(1..4)
<1> DEFINE first == 1
           last == 4
<1>1. first \in Int /\ last \in Int
  OBVIOUS
<1> HIDE DEF first, last
<1>2. IsFiniteSet(first..last)
  BY <1>1, FS_Interval
<1> QED
  BY <1>2 DEF first, last

\* The quotes of one more route.
LEMMA CostAdds ==
    ASSUME NEW S, S \subseteq Choices(Routes), IsFiniteSet(S), NEW s \in Choices(Routes), s \notin S
    PROVE  /\ Cost(S) \in Nat /\ HopsOf[s.route] \in 2..4
           /\ Cost(S \union {s}) = Cost(S) + HopsOf[s.route]
<1> DEFINE h == HopsOf[s.route]
           Q(T) == {q \in T \X (1..4) : q[2] <= HopsOf[q[1].route]}
<1>1. h \in 2..4
  BY RoutesAssumption DEF Choices
<1>2. IsFiniteSet(Q(S))
  <2>1. IsFiniteSet(S \X (1..4))
    BY HopsFinite, FS_Product
  <2> QED
    BY <2>1, FS_Subset
<1>3. IsFiniteSet({s} \X (1..h)) /\ Cardinality({s} \X (1..h)) = h
  <2> HIDE DEF h
  <2>1. IsFiniteSet(1..h) /\ Cardinality(1..h) = h
    <3>1. h \in Int /\ 1 \in Int /\ ~(1 > h) /\ h - 1 + 1 = h
      BY <1>1
    <3>2. IsFiniteSet(1..h) /\ Cardinality(1..h) = IF 1 > h THEN 0 ELSE h - 1 + 1
      BY <3>1, FS_Interval
    <3> QED
      BY <3>1, <3>2
  <2>2. IsFiniteSet({s}) /\ Cardinality({s}) = 1
    BY FS_Singleton
  <2>3. IsFiniteSet({s} \X (1..h)) /\ Cardinality({s} \X (1..h)) = Cardinality({s}) * Cardinality(1..h)
    BY <2>1, <2>2, FS_Product
  <2> QED
    BY <1>1, <2>1, <2>2, <2>3
<1>4. Q(S \union {s}) = Q(S) \union ({s} \X (1..h))
  BY <1>1
<1>5. Q(S) \intersect ({s} \X (1..h)) = {}
  OBVIOUS
<1>6. Cost(S) = Cardinality(Q(S)) /\ Cost(S \union {s}) = Cardinality(Q(S \union {s}))
  BY DEF Cost
<1> HIDE DEF Q, h
<1>7. /\ Cardinality(Q(S)) \in Nat
      /\ Cardinality(Q(S) \union ({s} \X (1..h))) = Cardinality(Q(S)) + Cardinality({s} \X (1..h))
  BY <1>2, <1>3, <1>5, PartsFacts
<1> QED
  BY <1>1, <1>3, <1>4, <1>6, <1>7 DEF h

LEMMA CostType ==
    ASSUME NEW S, S \subseteq Choices(Routes), IsFiniteSet(S)
    PROVE  Cost(S) \in Nat
<1>1. IsFiniteSet(S \X (1..4))
  BY HopsFinite, FS_Product
<1>2. IsFiniteSet({q \in S \X (1..4) : q[2] <= HopsOf[q[1].route]})
  BY <1>1, FS_Subset
<1> QED
  BY <1>2, FS_CardinalityType DEF Cost

LEMMA ChoicesFinite ==
    ASSUME NEW S, S \subseteq Choices(Routes)
    PROVE  IsFiniteSet(S)
<1>1. IsFiniteSet(Routes) /\ IsFiniteSet(Kinds)
  <2>1. IsFiniteSet({"exploit"}) /\ IsFiniteSet({"new"}) /\ IsFiniteSet({"explore"})
        /\ IsFiniteSet({"rest"})
    BY FS_Singleton
  <2>2. IsFiniteSet({"exploit"} \union {"new"}) /\ IsFiniteSet({"explore"} \union {"rest"})
    BY <2>1, FS_Union
  <2>3. IsFiniteSet(({"exploit"} \union {"new"}) \union ({"explore"} \union {"rest"}))
    BY <2>2, FS_Union
  <2>4. Kinds = ({"exploit"} \union {"new"}) \union ({"explore"} \union {"rest"})
    BY DEF Kinds
  <2> QED
    BY <2>3, <2>4, SomeRoutes
<1>2. IsFiniteSet(Routes \X Kinds)
  BY <1>1, FS_Product
<1> DEFINE f == [p \in Routes \X Kinds |-> [route |-> p[1], kind |-> p[2]]]
<1>3. f \in Surjection(Routes \X Kinds, Choices(Routes))
  <2>1. f \in [Routes \X Kinds -> Choices(Routes)]
    BY DEF Choices
  <2>2. ASSUME NEW s \in Choices(Routes) PROVE \E p \in Routes \X Kinds : f[p] = s
    <3>1. s.route \in Routes /\ s.kind \in Kinds /\ s = [route |-> s.route, kind |-> s.kind]
      BY DEF Choices
    <3>2. <<s.route, s.kind>> \in Routes \X Kinds /\ f[<<s.route, s.kind>>] = s
      BY <3>1
    <3> QED
      BY <3>2
  <2> HIDE DEF f
  <2> QED
    BY <2>1, <2>2 DEF Surjection
<1> HIDE DEF f
<1> QED
  BY <1>2, <1>3, FS_Surjection, FS_Subset

\* The routes of an asset that boundRoutesByQuoteCost lets through cost no
\* more than its share.
LEMMA BoundCost ==
    ASSUME NEW selection, selection \subseteq Choices(Routes), NEW budget \in Nat,
           NEW order, Strict(order, selection), NEW taken \in Bound(selection, budget, order)
    PROVE  taken \subseteq selection /\ Cost(taken) \in Nat /\ Cost(taken) <= budget
<1>1. /\ taken \subseteq selection
      /\ \A s \in taken : Cost({t \in taken : <<t, s>> \in order}) + HopsOf[s.route] <= budget
  BY DEF Bound
<1>2. IsFiniteSet(taken) /\ taken \subseteq Choices(Routes) /\ Cost(taken) \in Nat
  BY <1>1, ChoicesFinite, CostType
<1>3. CASE taken = {}
  <2>1. {q \in taken \X (1..4) : q[2] <= HopsOf[q[1].route]} = {}
    BY <1>3
  <2>2. Cost(taken) = 0
    BY <2>1, FS_EmptySet DEF Cost
  <2> QED
    BY <1>1, <1>2, <2>2
<1>4. CASE taken # {}
  <2>1. Strict(order, taken)
    BY <1>1 DEF Strict
  <2>2. PICK s \in taken : \A q \in taken \ {s} : <<q, s>> \in order
    BY <1>2, <1>4, <2>1, LastOf
  <2>3. {t \in taken : <<t, s>> \in order} = taken \ {s}
    BY <2>1, <2>2 DEF Strict
  <2> DEFINE S == taken \ {s}
  <2>4. S \subseteq Choices(Routes) /\ IsFiniteSet(S) /\ s \in Choices(Routes) /\ s \notin S
        /\ taken = S \union {s}
    BY <1>2, FS_RemoveElement
  <2>5. Cost(S) + HopsOf[s.route] <= budget
    BY <1>1, <2>3
  <2> HIDE DEF S
  <2>6. Cost(S \union {s}) = Cost(S) + HopsOf[s.route]
    BY <2>4, CostAdds
  <2> QED
    BY <1>1, <1>2, <2>4, <2>5, <2>6
<1> QED
  BY <1>3, <1>4

\* The last route in the order changes nothing for those before it.
LEMMA BoundLast ==
    ASSUME NEW S, NEW budget, NEW order, Strict(order, S),
           NEW z \in S, \A s \in S \ {z} : <<s, z>> \in order
    PROVE  /\ \A s \in S \ {z} : <<z, s>> \notin order
           /\ \A T \in SUBSET S :
                /\ {t \in T : <<t, z>> \in order} = T \ {z}
                /\ \A s \in S \ {z} : {t \in T : <<t, s>> \in order} = {t \in T \ {z} : <<t, s>> \in order}
<1>1. \A s \in S \ {z} : <<z, s>> \notin order
  BY DEF Strict
<1>2. <<z, z>> \notin order
  BY DEF Strict
<1>3. ASSUME NEW T \in SUBSET S
      PROVE  /\ {t \in T : <<t, z>> \in order} = T \ {z}
             /\ \A s \in S \ {z} : {t \in T : <<t, s>> \in order} = {t \in T \ {z} : <<t, s>> \in order}
  BY <1>1, <1>2
<1> QED
  BY <1>1, <1>3

\* boundRoutesByQuoteCost is a loop, Bound says only which routes fit: for
\* every selection, budget and order of it there is one such set, the one the
\* loop ends with.
THEOREM BoundIsOne ==
    ASSUME NEW selection, selection \subseteq Choices(Routes), NEW budget,
           NEW order, Strict(order, selection)
    PROVE  \E taken : Bound(selection, budget, order) = {taken}
<1> DEFINE B(S) == Bound(S, budget, order)
           fits(T, s) == Cost({t \in T : <<t, s>> \in order}) + HopsOf[s.route] <= budget
           F == {S \in SUBSET selection : ~\E taken : B(S) = {taken}}
<1>1. SUFFICES ASSUME F # {} PROVE FALSE
  OBVIOUS
<1>2. IsFiniteSet(selection)
  BY ChoicesFinite
<1>3. PICK S \in F : \A R \in F : ~(R \subseteq S /\ R # S)
  <2>1. F \subseteq SUBSET selection
    OBVIOUS
  <2> HIDE DEF F
  <2> QED
    BY <1>1, <1>2, <2>1, SmallestSet
<1>4. \A R : B(R) = {T \in SUBSET R : \A s \in R : s \in T <=> fits(T, s)}
  BY DEF Bound
<1>5. S \subseteq selection /\ Strict(order, S) /\ IsFiniteSet(S)
  BY <1>2, <1>3, FS_Subset DEF Strict
<1>6. S # {}
  <2>1. B({}) = {{}}
    BY <1>4
  <2> QED
    BY <1>3, <2>1
<1>7. PICK z \in S : \A s \in S \ {z} : <<s, z>> \in order
  BY <1>5, <1>6, LastOf
<1> DEFINE R == S \ {z}
<1>8. PICK W : B(R) = {W}
  <2>1. R \in SUBSET selection /\ R \subseteq S /\ R # S
    BY <1>5, <1>7
  <2> QED
    BY <1>3, <2>1
<1>9. W \subseteq R /\ \A s \in R : s \in W <=> fits(W, s)
  <2>1. W \in B(R)
    BY <1>8
  <2> HIDE DEF B, fits
  <2> QED
    BY <1>4, <2>1
<1>10. ASSUME NEW T \in SUBSET S
       PROVE  /\ \A s \in R : fits(T, s) <=> fits(T \ {z}, s)
              /\ fits(T, z) <=> fits(T \ {z}, z)
  <2>1. {t \in T : <<t, z>> \in order} = T \ {z} /\ {t \in T \ {z} : <<t, z>> \in order} = T \ {z}
    BY <1>5, <1>7, BoundLast
  <2>2. \A s \in R : {t \in T : <<t, s>> \in order} = {t \in T \ {z} : <<t, s>> \in order}
    BY <1>5, <1>7, BoundLast
  <2> QED
    BY <2>1, <2>2
<1> HIDE DEF B, fits
<1> DEFINE taken == IF fits(W, z) THEN W \union {z} ELSE W
<1>11. taken \in B(S)
  <2>1. taken \in SUBSET S /\ taken \ {z} = W
    BY <1>7, <1>9
  <2>2. z \in taken <=> fits(W, z)
    BY <1>9
  <2> HIDE DEF taken
  <2>3. z \in taken <=> fits(taken, z)
    BY <1>10, <2>1, <2>2
  <2>4. \A s \in R : s \in taken <=> fits(taken, s)
    BY <1>9, <1>10, <2>1
  <2> QED
    BY <1>4, <2>1, <2>3, <2>4
<1>12. ASSUME NEW T \in B(S) PROVE T = taken
  <2>1. T \in SUBSET S /\ \A s \in S : s \in T <=> fits(T, s)
    BY <1>4
  <2>2. T \ {z} \in B(R)
    BY <1>4, <1>10, <2>1
  <2>3. T \ {z} = W
    BY <1>8, <2>2
  <2>4. z \in T <=> fits(W, z)
    BY <1>7, <1>10, <2>1, <2>3
  <2> QED
    BY <2>3, <2>4
<1>13. B(S) = {taken}
  BY <1>11, <1>12
<1> QED
  BY <1>3, <1>13

LEMMA ObservationsType ==
    ASSUME PhaseShape, MemoryInv
    PROVE  \A r : Observations(r) \in Nat
BY DEF PhaseShape, MemoryInv, Observations, Known

LEMMA ScoresType ==
    ASSUME NEW candidates, candidates \subseteq Routes, NEW score \in Scores(candidates)
    PROVE  score \in [candidates -> Int]
<1>1. CASE ~opt.ranking
  BY <1>1 DEF Scores
<1>2. CASE opt.ranking
  <2> DEFINE seen == {r \in candidates : Observations(r) > 0}
  <2>1. PICK learned \in [seen -> Learned] :
          score = [r \in candidates |-> Prior[r] + (IF r \in DOMAIN learned THEN learned[r] ELSE 250)]
    BY <1>2 DEF Scores
  <2>2. \A r \in candidates : Prior[r] \in Int /\ (r \in DOMAIN learned => learned[r] \in Int)
    BY <2>1, RoutesAssumption, EconomicsAssumption
  <2> QED
    BY <2>1, <2>2
<1> QED
  BY <1>1, <1>2

\* The share of the next asset is within what is left.
LEMMA ShareFacts ==
    ASSUME PhaseShape, QuotesInv, assetsLeft # {}
    PROVE  AssetQuotes \in 0..quotesLeft
<1>1. IsFiniteSet(assetsLeft)
  <2> DEFINE f == [r \in affected |-> AssetOf[r]]
             img == {f[r] : r \in affected}
  <2>1. IsFiniteSet(affected) /\ DOMAIN f = affected
    BY SomeRoutes DEF PhaseShape
  <2>2. assetsLeft \subseteq img
    BY DEF PhaseShape
  <2>3. f = [r \in affected |-> f[r]]
    OBVIOUS
  <2> HIDE DEF f
  <2>4. IsFiniteSet(img)
    BY <2>1, <2>3, ImageFacts
  <2> QED
    BY <2>2, <2>4, FS_Subset
<1>2. Cardinality(assetsLeft) \in Nat \ {0}
  BY <1>1, FS_CardinalityType, FS_EmptySet
<1> QED
  BY <1>2, ShareBound DEF AssetQuotes, QuotesInv

\* What the selection of an asset does: it takes no more quotes than are
\* left, and only routes of the asset.
Candidates(a) == {r \in affected : AssetOf[r] = a}

LEMMA SelectAssetFacts ==
    ASSUME OptionsTyped, PhaseShape, QuotesInv, MemoryInv, SelectAsset
    PROVE  /\ phase = "select" /\ asset' \in assetsLeft /\ assetsLeft' = assetsLeft \ {asset'}
           /\ UNCHANGED <<opt, cycle, cancelled, affected, near, pending, results, remembered, memoryVars,
                          optimizeVars>>
           /\ \/ UNCHANGED <<phase, chosen, waiting, quotesLeft, report>>
              \/ /\ phase' = "evaluate" /\ waiting' \subseteq Candidates(asset')
                 /\ \E score : Select(Candidates(asset'), score)
                 /\ \E n \in 0..quotesLeft : /\ quotesLeft' = quotesLeft - n
                                             /\ report' = [report EXCEPT !.quotes = @ + n]
<1> DEFINE C == Candidates(asset')
<1>1. asset' \in assetsLeft /\ assetsLeft' = assetsLeft \ {asset'}
  <2>1. assetsLeft \subseteq Nat /\ assetsLeft # {}
    BY RoutesAssumption DEF PhaseShape, SelectAsset
  <2>2. asset' = MinOf(assetsLeft) /\ assetsLeft' = assetsLeft \ {asset'}
    BY DEF SelectAsset
  <2> QED
    BY <2>1, <2>2, MinOfFacts
<1>2. CASE asset' \notin Funded
  BY <1>1, <1>2 DEF SelectAsset
<1>3. CASE asset' \in Funded
  <2>1. PICK score \in Scores(C) :
            /\ Select(C, score)
            /\ \E bounded \in Bound(chosen', AssetQuotes, BySelection(chosen', score)) :
                    /\ waiting' = {s.route : s \in bounded}
                    /\ quotesLeft' = quotesLeft - Spent(bounded)
                    /\ report' = [report EXCEPT !.quotes = @ + Cost(bounded)]
            /\ phase' = "evaluate"
    BY <1>3 DEF SelectAsset, Candidates
  <2>2. PICK bounded \in Bound(chosen', AssetQuotes, BySelection(chosen', score)) :
            /\ waiting' = {s.route : s \in bounded}
            /\ quotesLeft' = quotesLeft - Spent(bounded)
            /\ report' = [report EXCEPT !.quotes = @ + Cost(bounded)]
    BY <2>1
  <2>3. C \subseteq Routes /\ C \subseteq Nat /\ \A r \in C : Observations(r) \in Nat
    <3>1. C \subseteq Routes
      BY DEF PhaseShape, Candidates
    <3>2. Routes \subseteq Nat
      BY RoutesAssumption DEF Routes
    <3> QED
      BY <3>1, <3>2, ObservationsType
  <2>4. chosen' \subseteq Choices(C) /\ chosen' \subseteq Choices(Routes)
    <3>1. chosen' \subseteq Choices(C)
      BY <2>1, <2>3, SelectFacts
    <3> QED
      BY <2>3, <3>1 DEF Choices
  <2>5. Strict(BySelection(chosen', score), chosen')
    BY <2>3, <2>4, ScoresType, SelectionOrder
  <2>6. AssetQuotes \in 0..quotesLeft /\ quotesLeft \in Nat
    BY ShareFacts DEF SelectAsset, QuotesInv
  <2>7. bounded \subseteq chosen' /\ Cost(bounded) \in Nat /\ Cost(bounded) <= AssetQuotes
    <3>1. AssetQuotes \in Nat
      BY <2>6
    <3> QED
      BY <2>2, <2>4, <2>5, <3>1, BoundCost
  <2>8. Cost(bounded) \in 0..quotesLeft
    BY <2>6, <2>7
  <2>9. Spent(bounded) = Cost(bounded)
    BY <2>6, <2>8 DEF Spent, Least
  <2>10. waiting' \subseteq C
    BY <2>2, <2>4, <2>7 DEF Choices
  <2>11. \E n \in 0..quotesLeft : /\ quotesLeft' = quotesLeft - n
                                  /\ report' = [report EXCEPT !.quotes = @ + n]
    BY <2>2, <2>8, <2>9
  <2> QED
    BY <1>1, <2>1, <2>10, <2>11 DEF SelectAsset
<1> QED
  BY <1>2, <1>3

-----------------------------------------------------------------------------
(* Sizing.                                                                 *)

LEMMA MinimumFacts == Minimum \in 1..Current
<1>1. Current \in Nat \ {0} /\ Current \div 10 \in 0..Current
  BY EconomicsAssumption, QuotientBound
<1> QED
  BY <1>1 DEF Minimum

LEMMA SamplesFacts ==
    ASSUME NEW low \in Nat, NEW high \in Nat, low <= high, NEW n \in Int
    PROVE  /\ Samples(low, high, n) \subseteq low..high
           /\ IsFiniteSet(Samples(low, high, n)) /\ Cardinality(Samples(low, high, n)) \in Nat
           /\ Cardinality(Samples(low, high, n)) <= Greatest(n, 2)
<1> DEFINE d == Greatest(n, 2) - 1
           x == high - low
           f == [i \in 0..d |-> low + (x * i) \div d]
           img == {f[i] : i \in 0..d}
<1>1. d \in Nat \ {0} /\ d + 1 = Greatest(n, 2) /\ x \in Nat /\ high = low + x
  BY DEF Greatest
<1>2. Samples(low, high, n) = img
  BY DEF Samples
<1>3. DOMAIN f = 0..d /\ f = [i \in 0..d |-> f[i]]
  OBVIOUS
<1> HIDE DEF d, x
<1>4. \A i \in 0..d : f[i] \in low..high
  <2>1. SUFFICES ASSUME NEW i \in 0..d PROVE low + (x * i) \div d \in low..high
    OBVIOUS
  <2> DEFINE part == (x * i) \div d
  <2>2. part \in 0..x
    BY <1>1, PartBound
  <2> HIDE DEF part
  <2>3. low + part \in low..high
    BY <1>1, <2>2
  <2> QED
    BY <2>3 DEF part
<1>5. IsFiniteSet(0..d) /\ Cardinality(0..d) = d + 1
  BY <1>1, FS_Interval
<1> HIDE DEF f
<1>6. IsFiniteSet(img) /\ Cardinality(img) <= Cardinality(0..d)
  BY <1>3, <1>5, ImageFacts
<1>7. img \subseteq low..high
  BY <1>4
<1> HIDE DEF img
<1>8. Cardinality(img) \in Nat
  BY <1>6, FS_CardinalityType
<1> QED
  BY <1>1, <1>2, <1>5, <1>6, <1>7, <1>8

LEMMA AllocatedFacts ==
    ASSUME OptionsTyped, remaining \in Nat, opt.adaptive => remaining >= 2, NEW score \in Int
    PROVE  /\ Allocated(score) \in Nat /\ Allocated(score) >= 2
           /\ opt.adaptive => Allocated(score) <= remaining
<1> DEFINE s == opt.samples
           n == opt.normal
           half == s \div 2
<1>1. s \in Nat /\ n \in 2..s /\ half \in 0..s
  BY QuotientBound DEF OptionsTyped
<1>2. /\ SamplesForScore(score, s, n) \in 2..s
      /\ SamplesForScore(score, s, Greatest(2, half)) \in 2..s
  <2> HIDE DEF s, n, half
  <2>1. CASE score >= 4000
    BY <1>1, <2>1 DEF SamplesForScore
  <2>2. CASE score < 2000
    BY <1>1, <2>2 DEF SamplesForScore
  <2>3. CASE ~(score >= 4000) /\ ~(score < 2000)
    BY <1>1, <2>3 DEF SamplesForScore, Least, Greatest
  <2> QED
    BY <2>1, <2>2, <2>3
<1>3. Allocated(score) = IF opt.adaptive THEN Least(SamplesForScore(score, s, n), remaining)
                         ELSE SamplesForScore(score, s, Greatest(2, half))
  BY DEF Allocated
<1> HIDE DEF s, n, half
<1> QED
  BY <1>1, <1>2, <1>3 DEF Least

LEMMA PerCycle ==
    ASSUME OptionsTyped
    PROVE  opt.perCycle \in Nat
<1> DEFINE p == opt.perCycle
<1>1. p \in 2..512
  BY DEF OptionsTyped
<1> HIDE DEF p
<1>2. p \in Nat
  BY <1>1
<1> QED
  BY <1>2 DEF p

\* The samples are counted once in each place.
LEMMA SpendFacts ==
    ASSUME report \in ReportType, SamplesInv, phase = "optimize", OptionsTyped, NEW n \in Nat, NEW runs \in Nat,
           Spend(n, runs), opt.adaptive => n <= remaining
    PROVE  /\ report' \in ReportType /\ report'.quotes = report.quotes
           /\ report'.runs = report.runs + runs /\ report'.samples = report.samples + n
           /\ samplesLeft' \in 0..opt.perCycle /\ remaining' \in 0..samplesLeft'
           /\ opt.adaptive => /\ report'.samples + samplesLeft' = opt.perCycle
                              /\ remaining' = remaining - n
           /\ ~opt.adaptive => UNCHANGED <<samplesLeft, remaining>>
<1> DEFINE p == opt.perCycle
<1>1. report' = [report EXCEPT !.samples = @ + n, !.runs = @ + runs]
  BY DEF Spend
<1>2. /\ report' \in ReportType /\ report'.quotes = report.quotes
      /\ report'.runs = report.runs + runs /\ report'.samples = report.samples + n
  <2>1. report.quotes \in Nat /\ report.samples + n \in Nat /\ report.runs + runs \in Nat
    BY DEF ReportType
  <2>2. report' = [report EXCEPT !.samples = report.samples + n, !.runs = report.runs + runs]
    BY <1>1
  <2> QED
    BY <2>1, <2>2 DEF ReportType
<1>3. p \in Nat /\ samplesLeft \in 0..p /\ remaining \in 0..samplesLeft /\ report.samples \in Nat
      /\ (opt.adaptive => report.samples + samplesLeft = p)
  <2>1. p \in Nat
    BY PerCycle
  <2>2. report.samples \in Nat
    BY DEF ReportType
  <2> QED
    BY <2>1, <2>2 DEF SamplesInv
<1> HIDE DEF p
<1>4. CASE opt.adaptive
  <2>1. samplesLeft' = samplesLeft - n /\ remaining' = remaining - n
    BY <1>3, <1>4 DEF Spend, Greatest
  <2>2. samplesLeft' \in 0..p /\ remaining' \in 0..samplesLeft' /\ report'.samples + samplesLeft' = p
    BY <1>2, <1>3, <1>4, <2>1
  <2> QED
    BY <1>2, <1>4, <2>1, <2>2 DEF p
<1>5. CASE ~opt.adaptive
  <2>1. UNCHANGED <<samplesLeft, remaining>>
    BY <1>5 DEF Spend
  <2> QED
    BY <1>2, <1>3, <1>5, <2>1 DEF p
<1> QED
  BY <1>4, <1>5

LEMMA SomeAmounts ==
    ASSUME NEW S, S \subseteq Amounts
    PROVE  IsFiniteSet(S) /\ Cardinality(S) \in Nat
<1>1. 10 * Current \in Int /\ 1 \in Int
  BY EconomicsAssumption
<1>2. IsFiniteSet(Amounts)
  BY <1>1, FS_Interval DEF Amounts
<1>3. IsFiniteSet(S)
  BY <1>2, FS_Subset
<1> QED
  BY <1>3, FS_CardinalityType

\* Sampling within the range of a loan.
LEMMA RangeFacts ==
    ASSUME SizingInv, NEW low \in Int, NEW high \in Int, Minimum <= low, low <= high, high <= cap,
           NEW n \in Int, NEW sampled \in HandedOut(Samples(low, high, n))
    PROVE  /\ sampled \subseteq Amounts /\ Cardinality(sampled) \in Nat
           /\ Cardinality(sampled) <= Greatest(n, 2)
<1> DEFINE most == 10 * Current
           amounts == Samples(low, high, n)
<1>1. Minimum \in Nat \ {0} /\ cap \in Nat /\ most \in Nat /\ cap <= most
  BY MinimumFacts, EconomicsAssumption DEF SizingInv
<1> HIDE DEF most
<1>2. low \in Nat \ {0} /\ high \in Nat /\ low..high \subseteq 1..most
  BY <1>1
<1>3. /\ amounts \subseteq low..high /\ IsFiniteSet(amounts) /\ Cardinality(amounts) \in Nat
      /\ Cardinality(amounts) <= Greatest(n, 2)
  BY <1>2, SamplesFacts
<1> HIDE DEF amounts
<1>4. sampled \subseteq amounts
  BY DEF HandedOut, amounts
<1>5. Cardinality(sampled) <= Cardinality(amounts)
  BY <1>3, <1>4, FS_Subset
<1>6. sampled \subseteq Amounts
  BY <1>2, <1>3, <1>4 DEF Amounts, most
<1>7. Cardinality(sampled) \in Nat
  BY <1>6, SomeAmounts
<1>8. Greatest(n, 2) \in Int
  BY DEF Greatest
<1> QED
  BY <1>3, <1>5, <1>6, <1>7, <1>8

\* The first samples of a route.
LEMMA ProbeFacts ==
    ASSUME OptionsTyped, SamplesInv, SizingInv, ScoresInv, NEW curve \in Curves, Probe(curve)
    PROVE  /\ phase = "optimize" /\ sizing = Idle /\ sized' = Idle
           /\ UNCHANGED <<cycleVars, memoryVars, selectVars, cap>>
           /\ \E r \in DOMAIN queue : Passed(r)
           /\ \E n \in Nat :
                /\ Spend(n, 1) /\ (opt.adaptive => n <= remaining)
                /\ \/ sizing' = Idle
                   \/ /\ Sizing(sizing') /\ Minimum <= cap
                      /\ opt.adaptive =>
                            sizing'.allocated - Cardinality(sizing'.sampled) <= remaining - n
<1> DEFINE alloc(r) == Allocated(queue[r].score)
           amounts(r) == IF cap < Minimum THEN {} ELSE Samples(Minimum, cap, Least(alloc(r), 3))
<1>1. PICK r \in Turns :
        /\ Passed(r)
        /\ \E sampled \in HandedOut(amounts(r)) : \E priced \in SUBSET sampled :
            /\ Spend(Cardinality(sampled), 1)
            /\ IF priced = {} THEN UNCHANGED sizing
               ELSE \E best \in BestAmounts(curve, priced) :
                    sizing' = [step |-> "probed", curve |-> curve, score |-> queue[r].score,
                               best |-> best, priced |-> priced, sampled |-> sampled,
                               allocated |-> alloc(r)]
  BY DEF Probe
<1>2. PICK sampled \in HandedOut(amounts(r)) : \E priced \in SUBSET sampled :
            /\ Spend(Cardinality(sampled), 1)
            /\ IF priced = {} THEN UNCHANGED sizing
               ELSE \E best \in BestAmounts(curve, priced) :
                    sizing' = [step |-> "probed", curve |-> curve, score |-> queue[r].score,
                               best |-> best, priced |-> priced, sampled |-> sampled,
                               allocated |-> alloc(r)]
  BY <1>1
<1>3. PICK priced \in SUBSET sampled :
            /\ Spend(Cardinality(sampled), 1)
            /\ IF priced = {} THEN UNCHANGED sizing
               ELSE \E best \in BestAmounts(curve, priced) :
                    sizing' = [step |-> "probed", curve |-> curve, score |-> queue[r].score,
                               best |-> best, priced |-> priced, sampled |-> sampled,
                               allocated |-> alloc(r)]
  BY <1>2
<1>4. r \in DOMAIN queue /\ queue[r].score \in Int
  BY <1>1 DEF Turns, ScoresInv, Scored
<1>5. /\ phase = "optimize" /\ sizing = Idle /\ sized' = Idle /\ (opt.adaptive => remaining >= 2)
      /\ UNCHANGED <<cycleVars, memoryVars, selectVars, cap>>
  BY DEF Probe
<1>6. remaining \in Nat
  BY DEF SamplesInv
<1>7. alloc(r) \in Nat /\ alloc(r) >= 2 /\ (opt.adaptive => alloc(r) <= remaining)
  BY <1>4, <1>5, <1>6, AllocatedFacts
<1> DEFINE n == Cardinality(sampled)
<1>8. /\ sampled \subseteq Amounts /\ n \in Nat /\ n <= alloc(r)
      /\ sampled # {} => Minimum <= cap
  <2> HIDE DEF alloc
  <2>0. Minimum \in Int /\ cap \in Int
    BY MinimumFacts DEF SizingInv
  <2>1. CASE cap < Minimum
    <3>1. sampled = {}
      BY <1>2, <2>1 DEF HandedOut
    <3> QED
      BY <3>1, <1>7, FS_EmptySet
  <2>2. CASE ~(cap < Minimum)
    <3>1. sampled \in HandedOut(Samples(Minimum, cap, Least(alloc(r), 3)))
      BY <1>2, <2>2
    <3>2. Minimum <= cap /\ Minimum <= Minimum /\ cap <= cap /\ Least(alloc(r), 3) \in Int
      BY <1>7, <2>0, <2>2 DEF Least
    <3>3. sampled \subseteq Amounts /\ n \in Nat /\ n <= Greatest(Least(alloc(r), 3), 2)
      BY <2>0, <3>1, <3>2, RangeFacts
    <3>4. Greatest(Least(alloc(r), 3), 2) \in Int /\ Greatest(Least(alloc(r), 3), 2) <= alloc(r)
      BY <1>7 DEF Greatest, Least
    <3> HIDE DEF n
    <3> QED
      BY <1>7, <3>2, <3>3, <3>4
  <2> QED
    BY <2>1, <2>2
<1>9. Spend(n, 1) /\ (opt.adaptive => n <= remaining)
  <2>1. Spend(n, 1)
    BY <1>3
  <2> HIDE DEF n, alloc
  <2> QED
    BY <2>1, <1>6, <1>7, <1>8
<1>10. \/ sizing' = Idle
       \/ /\ Sizing(sizing') /\ Minimum <= cap
          /\ opt.adaptive => sizing'.allocated - Cardinality(sizing'.sampled) <= remaining - n
  <2>1. CASE priced = {}
    BY <1>3, <1>5, <2>1
  <2>2. CASE priced # {}
    <3>1. PICK best \in BestAmounts(curve, priced) :
            sizing' = [step |-> "probed", curve |-> curve, score |-> queue[r].score,
                       best |-> best, priced |-> priced, sampled |-> sampled, allocated |-> alloc(r)]
      BY <1>3, <2>2
    <3>2. best \in priced /\ \A a \in priced : curve[a] <= curve[best]
      BY <3>1 DEF BestAmounts
    <3>3. priced \subseteq Amounts /\ Minimum <= cap
      BY <1>3, <1>8, <2>2
    <3> HIDE DEF alloc
    <3>4. Sizing(sizing')
      <4>1. alloc(r) \in Int
        BY <1>7
      <4> QED
        BY <1>4, <1>8, <3>1, <3>2, <3>3, <4>1 DEF Sizing
    <3>5. sizing'.allocated = alloc(r) /\ Cardinality(sizing'.sampled) = n
      BY <3>1
    <3> HIDE DEF n
    <3>6. opt.adaptive => alloc(r) - n <= remaining - n
      BY <1>6, <1>7, <1>8
    <3> QED
      BY <3>3, <3>4, <3>5, <3>6
  <2> QED
    BY <2>1, <2>2
<1> HIDE DEF n
<1> QED
  BY <1>1, <1>4, <1>5, <1>8, <1>9, <1>10

\* The range refined around the best lies within the loan's range.
LEMMA RefinedFacts ==
    ASSUME SizingInv, sizing # Idle
    PROVE  /\ Refined[1] \in Int /\ Refined[2] \in Int
           /\ Minimum <= Refined[1] /\ Refined[1] <= Refined[2] /\ Refined[2] <= cap
<1> DEFINE quarter == (cap - Minimum) \div 4
           left == Greatest(sizing.best - quarter, Minimum)
           right == Least(sizing.best + quarter, cap)
           best == sizing.best
<1>1. Minimum \in Nat /\ cap \in Nat /\ Minimum <= cap
  BY MinimumFacts DEF SizingInv
<1>2. best \in Int
  BY EconomicsAssumption DEF SizingInv, Sizing, Amounts
<1>3. quarter \in Int
  <2>1. cap - Minimum \in Nat
    BY <1>1
  <2> QED
    BY <2>1, QuotientBound
<1> HIDE DEF quarter, best
<1>4. /\ left = (IF best - quarter > Minimum THEN best - quarter ELSE Minimum)
      /\ right = (IF best + quarter < cap THEN best + quarter ELSE cap)
  BY DEF Greatest, Least, best
<1>5. left \in Int /\ right \in Int /\ Minimum <= left /\ right <= cap
  BY <1>1, <1>2, <1>3, <1>4
<1> HIDE DEF left, right
<1>6. Refined = IF quarter <= 0 \/ right <= left THEN <<Minimum, cap>> ELSE <<left, right>>
  BY DEF Refined, quarter, left, right
<1>7. CASE quarter <= 0 \/ right <= left
  BY <1>1, <1>6, <1>7
<1>8. CASE ~(quarter <= 0 \/ right <= left)
  <2>1. Refined[1] = left /\ Refined[2] = right /\ ~(right <= left)
    BY <1>6, <1>8
  <2> QED
    BY <1>1, <1>5, <2>1
<1> QED
  BY <1>7, <1>8

\* The samples around the best.
LEMMA DeepenFacts ==
    ASSUME OptionsTyped, SamplesInv, SizingInv, Deepen
    PROVE  /\ phase = "optimize" /\ sizing # Idle
           /\ UNCHANGED <<cycleVars, memoryVars, selectVars, queue, cap, sized>>
           /\ \E n \in Nat : Spend(n, 0) /\ (opt.adaptive => n <= remaining)
           /\ Sizing(sizing') /\ sizing'.step = "done" /\ Minimum <= cap
<1> DEFINE range == IF opt.adaptive THEN Refined ELSE <<Minimum, cap>>
           count == IF opt.adaptive THEN DeepSamples ELSE sizing.allocated
           amounts == Samples(range[1], range[2], count)
           fresh(S) == IF opt.adaptive THEN S \ sizing.sampled ELSE S
           old(S) == IF opt.adaptive THEN S \intersect sizing.priced ELSE {}
<1>1. /\ phase = "optimize" /\ sizing # Idle /\ sizing.step = "probed" /\ GoesDeep
      /\ UNCHANGED <<cycleVars, memoryVars, selectVars, queue, cap, sized>>
  <2>1. /\ phase = "optimize" /\ sizing.step = "probed" /\ GoesDeep
        /\ UNCHANGED <<cycleVars, memoryVars, selectVars, queue, cap, sized>>
    BY DEF Deepen
  <2>2. Idle.step = "none"
    BY DEF Idle
  <2> QED
    BY <2>1, <2>2
<1>2. PICK sampled \in HandedOut(amounts) : \E priced \in SUBSET fresh(sampled) :
        /\ Spend(Cardinality(sampled), 0)
        /\ IF priced \union old(sampled) = {}
           THEN sizing' = [sizing EXCEPT !.step = "done"]
           ELSE \E deep \in BestAmounts(sizing.curve, priced \union old(sampled)) :
                    sizing' = [sizing EXCEPT !.step = "done", !.best = Better(deep, @),
                                             !.priced = @ \union priced]
  BY DEF Deepen
<1>3. PICK priced \in SUBSET fresh(sampled) :
        /\ Spend(Cardinality(sampled), 0)
        /\ IF priced \union old(sampled) = {}
           THEN sizing' = [sizing EXCEPT !.step = "done"]
           ELSE \E deep \in BestAmounts(sizing.curve, priced \union old(sampled)) :
                    sizing' = [sizing EXCEPT !.step = "done", !.best = Better(deep, @),
                                             !.priced = @ \union priced]
  BY <1>2
<1>4. Sizing(sizing) /\ Minimum <= cap /\ Minimum \in Int /\ cap \in Int
  BY <1>1, MinimumFacts DEF SizingInv
<1>5. sizing.allocated \in Int /\ sizing.sampled \subseteq Amounts /\ sizing.priced \subseteq Amounts
      /\ sizing.best \in sizing.priced /\ sizing.curve \in Curves
      /\ \A a \in sizing.priced : sizing.curve[a] <= sizing.curve[sizing.best]
  BY <1>4 DEF Sizing
<1>6. DeepSamples \in Int
  <2>1. Cardinality(sizing.sampled) \in Nat
    BY <1>5, SomeAmounts
  <2> QED
    BY <1>5, <2>1 DEF DeepSamples
<1>7. /\ range[1] \in Int /\ range[2] \in Int /\ count \in Int
      /\ Minimum <= range[1] /\ range[1] <= range[2] /\ range[2] <= cap
  BY <1>1, <1>4, <1>5, <1>6, RefinedFacts
<1> DEFINE n == Cardinality(sampled)
<1>8. sampled \subseteq Amounts /\ n \in Nat /\ n <= Greatest(count, 2)
  <2> HIDE DEF range, count
  <2> QED
    BY <1>2, <1>7, RangeFacts
<1>9. opt.adaptive => n <= remaining
  <2>1. SUFFICES ASSUME opt.adaptive PROVE n <= remaining
    OBVIOUS
  <2>2. count = DeepSamples /\ DeepSamples >= 2
    BY <1>1, <2>1 DEF GoesDeep
  <2>3. Greatest(count, 2) = DeepSamples
    BY <1>6, <2>2 DEF Greatest
  <2>4. DeepSamples <= remaining /\ remaining \in Int
    BY <1>1, <2>1 DEF SamplesInv
  <2> HIDE DEF n, count
  <2> QED
    BY <1>6, <1>8, <2>3, <2>4
<1>10. priced \subseteq Amounts /\ old(sampled) \subseteq sizing.priced
  BY <1>3, <1>8
<1>11. Sizing(sizing') /\ sizing'.step = "done"
  <2> HIDE DEF fresh, old
  <2>1. CASE priced \union old(sampled) = {}
    <3>1. sizing' = [sizing EXCEPT !.step = "done"]
      BY <1>3, <2>1
    <3> QED
      BY <1>4, <3>1 DEF Sizing
  <2>2. CASE priced \union old(sampled) # {}
    <3>1. PICK deep \in BestAmounts(sizing.curve, priced \union old(sampled)) :
            sizing' = [sizing EXCEPT !.step = "done", !.best = Better(deep, sizing.best),
                                     !.priced = sizing.priced \union priced]
      BY <1>3, <2>2
    <3> DEFINE best == Better(deep, sizing.best)
               all == sizing.priced \union priced
               c == sizing.curve
    <3>2. deep \in priced \union old(sampled) /\ \A a \in priced : c[a] <= c[deep]
      BY <3>1 DEF BestAmounts
    <3>3. \A a \in Amounts : c[a] \in Int
      BY <1>5, EconomicsAssumption DEF Amounts
    <3>4. deep \in all /\ sizing.best \in all /\ all \subseteq Amounts
      BY <1>5, <1>10, <3>2
    <3>5. best = IF c[deep] > c[sizing.best] THEN deep ELSE sizing.best
      BY DEF Better
    <3>6. best \in all /\ \A a \in all : c[a] <= c[best]
      <4> HIDE DEF c, best
      <4>1. best \in all
        BY <3>4, <3>5
      <4>2. c[deep] \in Int /\ c[sizing.best] \in Int
        BY <3>3, <3>4
      <4>3. c[deep] <= c[best] /\ c[sizing.best] <= c[best] /\ c[best] \in Int
        BY <3>5, <4>2
      <4>4. ASSUME NEW a \in sizing.priced PROVE c[a] <= c[best]
        <5>1. c[a] \in Int /\ c[a] <= c[sizing.best]
          BY <1>5, <3>3, <3>4 DEF c
        <5> QED
          BY <4>2, <4>3, <5>1
      <4>5. ASSUME NEW a \in priced PROVE c[a] <= c[best]
        <5>1. c[a] \in Int /\ c[a] <= c[deep]
          BY <1>10, <3>2, <3>3
        <5> QED
          BY <4>2, <4>3, <5>1
      <4> QED
        BY <4>1, <4>4, <4>5
    <3>7. sizing' = [sizing EXCEPT !.step = "done", !.best = best, !.priced = all]
      BY <3>1
    <3> HIDE DEF best, all
    <3>8. sizing'.curve = c /\ sizing'.best = best /\ sizing'.priced = all /\ sizing'.step = "done"
      BY <1>4, <3>7 DEF Sizing
    <3>9. sizing' \in [step : {"probed", "done"}, curve : Curves, score : Int, best : Amounts,
                       priced : SUBSET Amounts, sampled : SUBSET Amounts, allocated : Int]
      BY <1>4, <3>4, <3>6, <3>7 DEF Sizing
    <3> QED
      BY <3>6, <3>8, <3>9 DEF Sizing
  <2> QED
    BY <2>1, <2>2
<1>12. Spend(n, 0)
  BY <1>3
<1> HIDE DEF n
<1> QED
  BY <1>1, <1>4, <1>8, <1>9, <1>11, <1>12

-----------------------------------------------------------------------------
(* Every step keeps the invariant, part by part.                           *)

LEMMA CapFacts ==
    ASSUME NEW a \in Available
    PROVE  CapLoanMax(a) \in 0..(10 * Current)
<1>1. a \in Nat /\ 10 * Current \in Nat
  BY EconomicsAssumption
<1> QED
  BY <1>1 DEF CapLoanMax, Least

\* The steps of the optimizer leave the selection alone.
LEMMA OptimizerFrame ==
    ASSUME Inv, BeginOptimizer \/ NextAsset \/ SkipRoute \/ (\E curve \in Curves : Probe(curve))
                \/ Deepen \/ Settle
    PROVE  /\ UNCHANGED <<opt, cycle, cancelled, memoryVars, assetsLeft, affected, quotesLeft, assetVars,
                          near>>
           /\ report' \in ReportType /\ report'.quotes = report.quotes
           /\ phase' = "optimize" /\ phase \in {"select", "optimize"} /\ assetsLeft = {}
<1>0. report \in ReportType /\ OptionsTyped /\ SamplesInv /\ SizingInv /\ ScoresInv
      /\ (phase = "optimize" => assetsLeft = {})
  BY DEF Inv, PhaseShape
<1>1. CASE BeginOptimizer
  BY <1>0, <1>1 DEF BeginOptimizer, selectVars
<1>2. CASE NextAsset
  BY <1>0, <1>2 DEF NextAsset, cycleVars
<1>3. CASE SkipRoute \/ Settle
  BY <1>0, <1>3 DEF SkipRoute, Settle, cycleVars, selectVars
<1>4. ASSUME NEW curve \in Curves, Probe(curve)
      PROVE  /\ UNCHANGED <<opt, cycle, cancelled, memoryVars, assetsLeft, affected, quotesLeft,
                            assetVars, near>>
             /\ report' \in ReportType /\ report'.quotes = report.quotes
             /\ phase' = "optimize" /\ phase \in {"select", "optimize"} /\ assetsLeft = {}
  <2>1. /\ phase = "optimize" /\ UNCHANGED <<cycleVars, memoryVars, selectVars>>
        /\ \E n \in Nat : Spend(n, 1) /\ (opt.adaptive => n <= remaining)
    BY <1>0, <1>4, ProbeFacts
  <2>2. report' \in ReportType /\ report'.quotes = report.quotes
    BY <1>0, <2>1, SpendFacts
  <2> QED
    BY <1>0, <2>1, <2>2 DEF cycleVars, selectVars
<1>5. CASE Deepen
  <2>1. /\ phase = "optimize" /\ UNCHANGED <<cycleVars, memoryVars, selectVars>>
        /\ \E n \in Nat : Spend(n, 0) /\ (opt.adaptive => n <= remaining)
    BY <1>0, <1>5, DeepenFacts
  <2>2. report' \in ReportType /\ report'.quotes = report.quotes
    BY <1>0, <2>1, SpendFacts
  <2> QED
    BY <1>0, <2>1, <2>2 DEF cycleVars, selectVars
<1> QED
  BY <1>1, <1>2, <1>3, <1>4, <1>5

LEMMA PhaseStep ==
    ASSUME Inv, [Next]_vars
    PROVE  PhaseShape'
<1>0. PhaseShape /\ OptionsTyped /\ QuotesInv /\ MemoryInv
  BY DEF Inv
<1>1. ASSUME NEW dirty \in Dirty, BeginCycle(dirty) PROVE PhaseShape'
  <2>1. dirty \subseteq Routes /\ MaxCycles \in Nat
    BY RoutesAssumption, BoundsAssumption
  <2> QED
    BY <1>0, <1>1, <2>1 DEF BeginCycle, PhaseShape, assetVars
<1>2. CASE SelectAsset
  <2>1. /\ phase = "select" /\ assetsLeft' = assetsLeft \ {asset'}
        /\ UNCHANGED <<cycle, cancelled, affected, results, remembered>>
        /\ \/ UNCHANGED <<phase, waiting, report>>
           \/ /\ phase' = "evaluate" /\ waiting' \subseteq Candidates(asset')
              /\ \E n \in 0..quotesLeft : report' = [report EXCEPT !.quotes = @ + n]
    BY <1>0, <1>2, SelectAssetFacts
  <2>2. report' \in ReportType
    BY <1>0, <2>1 DEF PhaseShape, QuotesInv, ReportType
  <2>3. waiting = {} /\ DOMAIN results = {} /\ remembered = {}
    BY <1>0, <2>1 DEF PhaseShape
  <2> QED
    BY <1>0, <2>1, <2>2, <2>3 DEF PhaseShape, Candidates
<1>3. CASE Cancel
  BY <1>0, <1>3 DEF Cancel, PhaseShape
<1>4. CASE Collect
  BY <1>0, <1>4 DEF Collect, PhaseShape, Nothing
<1>5. ASSUME NEW r \in Routes, RememberRoute(r) PROVE PhaseShape'
  BY <1>0, <1>5 DEF RememberRoute, PhaseShape, cycleVars
<1>6. ASSUME NEW r \in Routes, NEW outcome \in Outcomes \union {Failed}, EvaluateRoute(r, outcome)
      PROVE  PhaseShape'
  BY <1>0, <1>6 DEF EvaluateRoute, PhaseShape, cycleVars
<1>7. CASE BeginOptimizer \/ NextAsset \/ SkipRoute \/ (\E curve \in Curves : Probe(curve))
           \/ Deepen \/ Settle
  <2>1. /\ UNCHANGED <<cycle, cancelled, assetsLeft, affected, assetVars>> /\ report' \in ReportType
        /\ phase' = "optimize" /\ phase \in {"select", "optimize"} /\ assetsLeft = {}
    BY <1>7, OptimizerFrame
  <2> QED
    BY <1>0, <2>1 DEF PhaseShape, assetVars
<1>8. CASE EndCycle
  BY <1>0, <1>8 DEF EndCycle, PhaseShape, NewReport, ReportType
<1>9. CASE UNCHANGED vars
  BY <1>0, <1>9 DEF PhaseShape, vars, cycleVars, selectVars, assetVars
<1> QED
  BY <1>1, <1>2, <1>3, <1>4, <1>5, <1>6, <1>7, <1>8, <1>9 DEF Next

LEMMA QuotesStep ==
    ASSUME Inv, [Next]_vars
    PROVE  QuotesInv'
<1>0. PhaseShape /\ OptionsTyped /\ QuotesInv /\ MemoryInv /\ report \in ReportType
  BY DEF Inv, PhaseShape
<1>00. opt' = opt /\ InitialQuotes' = InitialQuotes /\ InitialQuotes \in Nat
  <2>1. opt' = opt
    BY <1>0, OptionsStep
  <2> DEFINE q == opt.quotes
             share == (q * 3) \div 10
  <2>2. q \in Nat /\ share \in Nat
    <3>1. q \in Nat
      BY <1>0 DEF OptionsTyped
    <3> HIDE DEF q
    <3>2. q * 3 \in Nat
      BY <3>1
    <3> QED
      BY <3>1, <3>2, QuotientBound
  <2>3. InitialQuotes = Least(q, Greatest(8, share))
    BY DEF InitialQuotes
  <2> HIDE DEF q, share
  <2>4. InitialQuotes \in Nat
    BY <2>2, <2>3 DEF Least, Greatest
  <2> QED
    BY <2>1, <2>4 DEF InitialQuotes
<1>1. ASSUME NEW dirty \in Dirty, BeginCycle(dirty) PROVE QuotesInv'
  BY <1>0, <1>00, <1>1 DEF BeginCycle, QuotesInv
<1>2. CASE SelectAsset
  <2>1. /\ phase = "select"
        /\ \/ UNCHANGED <<phase, quotesLeft, report>>
           \/ /\ phase' = "evaluate"
              /\ \E n \in 0..quotesLeft : /\ quotesLeft' = quotesLeft - n
                                          /\ report' = [report EXCEPT !.quotes = @ + n]
    BY <1>0, <1>2, SelectAssetFacts
  <2>2. CASE UNCHANGED <<phase, quotesLeft, report>>
    BY <1>0, <1>00, <2>2 DEF QuotesInv
  <2>3. ASSUME NEW n \in 0..quotesLeft, quotesLeft' = quotesLeft - n, phase' = "evaluate",
               report' = [report EXCEPT !.quotes = @ + n]
        PROVE  QuotesInv'
    <3>1. report'.quotes = report.quotes + n /\ report.quotes \in Nat
      BY <1>0, <2>3 DEF ReportType
    <3>2. quotesLeft \in Nat /\ report.quotes + quotesLeft = InitialQuotes
      BY <1>0, <2>1 DEF QuotesInv
    <3> QED
      BY <1>00, <2>3, <3>1, <3>2 DEF QuotesInv
  <2> QED
    BY <2>1, <2>2, <2>3
<1>3. CASE Cancel \/ Collect \/ (\E r \in Routes : RememberRoute(r))
           \/ \E r \in Routes, outcome \in Outcomes \union {Failed} : EvaluateRoute(r, outcome)
  BY <1>0, <1>00, <1>3 DEF Cancel, Collect, RememberRoute, EvaluateRoute, QuotesInv, cycleVars
<1>7. CASE BeginOptimizer \/ NextAsset \/ SkipRoute \/ (\E curve \in Curves : Probe(curve))
           \/ Deepen \/ Settle
  <2>1. /\ UNCHANGED quotesLeft /\ report'.quotes = report.quotes
        /\ phase' = "optimize" /\ phase \in {"select", "optimize"}
    BY <1>7, OptimizerFrame
  <2> QED
    BY <1>0, <1>00, <2>1 DEF QuotesInv
<1>8. CASE EndCycle
  BY <1>0, <1>00, <1>8 DEF EndCycle, QuotesInv, NewReport
<1>9. CASE UNCHANGED vars
  BY <1>0, <1>00, <1>9 DEF QuotesInv, vars, cycleVars, selectVars
<1> QED
  BY <1>1, <1>2, <1>3, <1>7, <1>8, <1>9 DEF Next

\* Steps that observe nothing and give no route another chance to be.
LEMMA MemoryFrame ==
    ASSUME MemoryInv, UNCHANGED <<memory, cycle>>, ToObserve' \subseteq ToObserve
    PROVE  MemoryInv'
BY DEF MemoryInv, Fresh, Observations, Known, Observed

LEMMA RememberKeeps ==
    ASSUME Inv, NEW r \in Routes, RememberRoute(r)
    PROVE  MemoryInv'
<1>0. PhaseShape /\ MemoryInv
  BY DEF Inv
<1>1. PICK keep \in Kept(Observe(r)) : memory' = [q \in keep |-> Observe(r)[q]]
  BY DEF RememberRoute
<1> DEFINE m == Observe(r)
<1>2. /\ r \in DOMAIN results /\ r \notin remembered /\ remembered' = remembered \union {r}
      /\ UNCHANGED <<cycle, assetsLeft, waiting, results>> /\ phase = "evaluate"
  BY DEF RememberRoute, Succeeded, cycleVars
<1>3. /\ DOMAIN m = DOMAIN memory \union {r} /\ m[r] = [obs |-> Observations(r) + 1, seen |-> cycle]
      /\ \A q \in DOMAIN m \ {r} : m[q] = memory[q]
  BY DEF Observe
<1>4. DOMAIN m \subseteq Routes
  BY <1>0, <1>3 DEF MemoryInv
<1>5. IsFiniteSet(DOMAIN m)
  BY <1>4, SomeRoutes
<1> HIDE DEF m
<1>6. keep \subseteq DOMAIN m /\ Cardinality(keep) <= MaxRoutes /\ IsFiniteSet(keep)
  <2>1. keep \in First(DOMAIN m, MaxRoutes, BySeen(m)) /\ MaxRoutes \in Nat
    BY <1>1, BoundsAssumption DEF Kept, m
  <2> QED
    BY <1>5, <2>1, FirstFacts
<1>7. DOMAIN memory' = keep /\ \A q \in keep : memory'[q] = m[q]
  BY <1>1 DEF m
<1>8. Observations(r) \in Nat /\ Observations(r) < cycle /\ cycle \in Nat
  <2>1. r \in ToObserve
    BY <1>2 DEF ToObserve
  <2> QED
    BY <1>0, <2>1, ObservationsType DEF MemoryInv, Fresh, PhaseShape
<1>9. \A q \in DOMAIN memory' : memory'[q].obs \in 0..cycle' /\ memory'[q].seen \in 0..cycle'
  <2>1. SUFFICES ASSUME NEW q \in keep PROVE m[q].obs \in 0..cycle /\ m[q].seen \in 0..cycle
    BY <1>2, <1>7
  <2>2. CASE q = r
    <3>1. m[q].obs = Observations(r) + 1 /\ m[q].seen = cycle
      BY <1>3, <2>2
    <3> QED
      BY <1>8, <3>1
  <2>3. CASE q # r
    <3>1. q \in DOMAIN memory /\ m[q] = memory[q]
      BY <1>3, <1>6, <2>3
    <3> QED
      BY <1>0, <3>1 DEF MemoryInv
  <2> QED
    BY <2>2, <2>3
<1>10. ASSUME NEW q \in ToObserve' PROVE Fresh(q)'
  <2>1. q \in ToObserve /\ q # r
    <3>1. AssetOf[r] \notin assetsLeft
      BY <1>0, <1>2 DEF PhaseShape
    <3> QED
      BY <1>2, <1>10, <3>1 DEF ToObserve
  <2>2. Observations(q) < cycle
    BY <1>0, <2>1 DEF MemoryInv, Fresh
  <2>3. CASE q \in keep
    <3>1. q \in DOMAIN memory /\ memory'[q] = memory[q]
      BY <1>3, <1>6, <1>7, <2>1, <2>3
    <3>2. memory'[q].obs < cycle'
      BY <1>2, <2>2, <3>1 DEF Observations, Known
    <3> QED
      BY <1>7, <2>3, <3>2 DEF Fresh, Observations, Known
  <2>4. CASE q \notin keep
    <3>1. 0 < cycle'
      BY <1>2, <1>8
    <3> QED
      BY <1>7, <2>4, <3>1 DEF Fresh, Observations, Known
  <2> QED
    BY <2>3, <2>4
<1>11. Cardinality(Observed') <= MaxRoutes
  <2>1. Observed' \subseteq keep
    BY <1>7 DEF Observed
  <2>2. Cardinality(Observed') <= Cardinality(keep) /\ IsFiniteSet(Observed')
    BY <1>6, <2>1, FS_Subset
  <2>3. Cardinality(Observed') \in Nat /\ Cardinality(keep) \in Nat /\ MaxRoutes \in Nat
    BY <1>6, <2>2, FS_CardinalityType, BoundsAssumption
  <2> QED
    BY <1>6, <2>2, <2>3
<1> QED
  BY <1>4, <1>6, <1>7, <1>9, <1>10, <1>11 DEF MemoryInv

LEMMA BeginKeeps ==
    ASSUME Inv, NEW dirty \in Dirty, BeginCycle(dirty)
    PROVE  MemoryInv'
<1>0. PhaseShape /\ MemoryInv /\ dirty \subseteq Routes
  BY RoutesAssumption DEF Inv
<1>1. cycle' = cycle + 1 /\ cycle \in Nat /\ memory' = MarkDirty(dirty)
  BY <1>0 DEF BeginCycle, PhaseShape
<1>2. /\ DOMAIN memory' = DOMAIN memory \union dirty
      /\ \A r \in DOMAIN memory : memory'[r] = memory[r]
      /\ \A r \in dirty \ DOMAIN memory : memory'[r] = [obs |-> 0, seen |-> 0]
  BY <1>1 DEF MarkDirty, Known
<1>3. \A r \in DOMAIN memory' : memory'[r].obs \in 0..cycle /\ memory'[r].seen \in 0..cycle
  <2>1. SUFFICES ASSUME NEW r \in DOMAIN memory'
                 PROVE  memory'[r].obs \in 0..cycle /\ memory'[r].seen \in 0..cycle
    OBVIOUS
  <2>2. CASE r \in DOMAIN memory
    BY <1>0, <1>2, <2>2 DEF MemoryInv
  <2>3. CASE r \notin DOMAIN memory
    <3>1. memory'[r] = [obs |-> 0, seen |-> 0]
      BY <1>2, <2>3
    <3> QED
      BY <1>1, <3>1
  <2> QED
    BY <2>2, <2>3
<1>4. ASSUME NEW r PROVE Fresh(r)'
  <2>1. CASE r \in DOMAIN memory'
    <3>1. memory'[r].obs < cycle'
      BY <1>1, <1>3, <2>1
    <3> QED
      BY <2>1, <3>1 DEF Fresh, Observations, Known
  <2>2. CASE r \notin DOMAIN memory'
    <3>1. 0 < cycle'
      BY <1>1
    <3> QED
      BY <2>2, <3>1 DEF Fresh, Observations, Known
  <2> QED
    BY <2>1, <2>2
<1>5. Observed' = Observed
  <2>1. \A r \in dirty \ DOMAIN memory : ~(memory'[r].obs > 0)
    BY <1>2
  <2> QED
    BY <1>2, <2>1 DEF Observed
<1>6. \A r \in DOMAIN memory' : memory'[r].obs \in 0..cycle' /\ memory'[r].seen \in 0..cycle'
  BY <1>1, <1>3
<1> QED
  BY <1>0, <1>2, <1>4, <1>5, <1>6 DEF MemoryInv

LEMMA MemoryStep ==
    ASSUME Inv, [Next]_vars
    PROVE  MemoryInv'
<1>0. PhaseShape /\ OptionsTyped /\ QuotesInv /\ MemoryInv
  BY DEF Inv
<1>1. CASE \E dirty \in Dirty : BeginCycle(dirty)
  BY <1>1, BeginKeeps
<1>2. CASE SelectAsset
  <2>1. /\ phase = "select" /\ asset' \in assetsLeft /\ assetsLeft' = assetsLeft \ {asset'}
        /\ UNCHANGED <<cycle, memory, results, remembered>>
        /\ waiting' = waiting \/ waiting' \subseteq Candidates(asset')
    BY <1>0, <1>2, SelectAssetFacts DEF memoryVars
  <2>2. ToObserve' \subseteq ToObserve
    BY <1>0, <2>1 DEF ToObserve, Candidates, PhaseShape
  <2> QED
    BY <1>0, <2>1, <2>2, MemoryFrame
<1>3. CASE Cancel
  <2>1. UNCHANGED <<memory, cycle>> /\ ToObserve' \subseteq ToObserve
    BY <1>3 DEF Cancel, ToObserve, memoryVars
  <2> QED
    BY <1>0, <2>1, MemoryFrame
<1>4. CASE Collect
  <2>1. UNCHANGED <<memory, cycle>> /\ ToObserve' \subseteq ToObserve
    BY <1>4 DEF Collect, ToObserve, Nothing
  <2> QED
    BY <1>0, <2>1, MemoryFrame
<1>5. CASE \E r \in Routes : RememberRoute(r)
  BY <1>5, RememberKeeps
<1>6. ASSUME NEW r \in Routes, NEW outcome \in Outcomes \union {Failed}, EvaluateRoute(r, outcome)
      PROVE  MemoryInv'
  <2>1. UNCHANGED <<memory, cycle>> /\ ToObserve' \subseteq ToObserve
    BY <1>6 DEF EvaluateRoute, ToObserve, memoryVars, cycleVars
  <2> QED
    BY <1>0, <2>1, MemoryFrame
<1>7. CASE BeginOptimizer \/ NextAsset \/ SkipRoute \/ (\E curve \in Curves : Probe(curve))
           \/ Deepen \/ Settle
  <2>1. UNCHANGED <<memoryVars, cycle, assetsLeft, assetVars>>
    BY <1>7, OptimizerFrame
  <2>2. UNCHANGED <<memory, cycle>> /\ ToObserve' \subseteq ToObserve
    BY <2>1 DEF memoryVars, assetVars, ToObserve
  <2> QED
    BY <1>0, <2>2, MemoryFrame
<1>8. CASE EndCycle \/ UNCHANGED vars
  <2>1. UNCHANGED <<memory, cycle>> /\ ToObserve' \subseteq ToObserve
    BY <1>8 DEF EndCycle, ToObserve, vars, cycleVars, memoryVars, selectVars, assetVars
  <2> QED
    BY <1>0, <2>1, MemoryFrame
<1> QED
  BY <1>1, <1>2, <1>3, <1>4, <1>5, <1>6, <1>7, <1>8 DEF Next

\* mergeNearMisses keeps a route once.
LEMMA NewestFacts ==
    ASSUME NEW records, records \subseteq NearMiss, NEW kept \in Newest(records)
    PROVE  /\ kept \subseteq records /\ Cardinality(kept) <= RecentLimit
           /\ \A m, n \in kept : m.route = n.route => m = n
<1> DEFINE latest == {n \in records : \A m \in records : m.route = n.route => m.at <= n.at}
<1>1. IsFiniteSet(records)
  <2>1. IsFiniteSet(0..MaxCycles) /\ IsFiniteSet(Routes)
    <3>1. 0 \in Int /\ MaxCycles \in Int
      BY BoundsAssumption
    <3> QED
      BY <3>1, FS_Interval, SomeRoutes
  <2>2. IsFiniteSet(Routes \X (0..MaxCycles))
    BY <2>1, FS_Product
  <2> DEFINE f == [p \in Routes \X (0..MaxCycles) |-> [route |-> p[1], at |-> p[2]]]
  <2>3. f \in Surjection(Routes \X (0..MaxCycles), NearMiss)
    <3>1. f \in [Routes \X (0..MaxCycles) -> NearMiss]
      BY DEF NearMiss
    <3>2. ASSUME NEW s \in NearMiss PROVE \E p \in Routes \X (0..MaxCycles) : f[p] = s
      <4>1. s.route \in Routes /\ s.at \in 0..MaxCycles /\ s = [route |-> s.route, at |-> s.at]
        BY DEF NearMiss
      <4>2. <<s.route, s.at>> \in Routes \X (0..MaxCycles) /\ f[<<s.route, s.at>>] = s
        BY <4>1
      <4> QED
        BY <4>2
    <3> HIDE DEF f
    <3> QED
      BY <3>1, <3>2 DEF Surjection
  <2> HIDE DEF f
  <2>4. IsFiniteSet(NearMiss)
    BY <2>2, <2>3, FS_Surjection
  <2> QED
    BY <2>4, FS_Subset
<1>2. IsFiniteSet(latest) /\ latest \subseteq records
  BY <1>1, FS_Subset
<1>3. kept \in First(latest, RecentLimit, ByTime(records)) /\ RecentLimit \in Nat
  BY BoundsAssumption DEF Newest
<1>4. \A m, n \in latest : m.route = n.route => m = n
  <2>1. SUFFICES ASSUME NEW m \in latest, NEW n \in latest, m.route = n.route PROVE m = n
    OBVIOUS
  <2>2. m.at <= n.at /\ n.at <= m.at
    BY <2>1
  <2>3. m \in NearMiss /\ n \in NearMiss
    BY <2>1
  <2>4. m.at = n.at
    BY <2>2, <2>3, BoundsAssumption DEF NearMiss
  <2> QED
    BY <2>1, <2>3, <2>4 DEF NearMiss
<1> HIDE DEF latest
<1>5. kept \subseteq latest /\ Cardinality(kept) <= RecentLimit
  BY <1>2, <1>3, FirstFacts
<1> QED
  BY <1>2, <1>4, <1>5

LEMMA NearStep ==
    ASSUME Inv, [Next]_vars
    PROVE  NearInv'
<1>0. PhaseShape /\ NearInv
  BY DEF Inv
<1>1. CASE Collect
  <2>1. UNCHANGED recent
    BY <1>1 DEF Collect
  <2>2. near' \subseteq NearMiss
    <3>1. Succeeded \subseteq Routes /\ cycle \in 0..MaxCycles
      BY <1>0 DEF PhaseShape, Succeeded
    <3>2. near' = near \union {[route |-> r, at |-> cycle] :
                               r \in {q \in Succeeded : Gap(results[q].net) > 0}}
      BY <1>1 DEF Collect
    <3>3. \A r \in Routes : [route |-> r, at |-> cycle] \in NearMiss
      BY <3>1 DEF NearMiss
    <3> QED
      BY <1>0, <3>1, <3>2, <3>3 DEF NearInv
  <2> QED
    BY <1>0, <2>1, <2>2 DEF NearInv
<1>2. CASE EndCycle
  <2>1. near' = {} /\ (recent' = recent \/ recent' \in Newest(recent \union near))
    BY <1>2 DEF EndCycle
  <2>2. CASE recent' = recent
    BY <1>0, <2>1, <2>2 DEF NearInv
  <2>3. CASE recent' \in Newest(recent \union near)
    <3>1. recent \union near \subseteq NearMiss
      BY <1>0 DEF NearInv
    <3>2. /\ recent' \subseteq recent \union near /\ Cardinality(recent') <= RecentLimit
          /\ \A m, n \in recent' : m.route = n.route => m = n
      BY <2>3, <3>1, NewestFacts
    <3> QED
      BY <2>1, <3>1, <3>2 DEF NearInv
  <2> QED
    BY <2>1, <2>2, <2>3
<1>3. CASE BeginOptimizer \/ NextAsset \/ SkipRoute \/ (\E curve \in Curves : Probe(curve))
           \/ Deepen \/ Settle
  <2>1. UNCHANGED <<memoryVars, near>>
    BY <1>3, OptimizerFrame
  <2> QED
    BY <1>0, <2>1 DEF memoryVars, NearInv
<1>4. CASE \/ \E dirty \in Dirty : BeginCycle(dirty)
           \/ SelectAsset \/ Cancel \/ UNCHANGED vars
           \/ \E r \in Routes : RememberRoute(r)
           \/ \E r \in Routes, outcome \in Outcomes \union {Failed} : EvaluateRoute(r, outcome)
  <2>1. UNCHANGED <<near, recent>>
    BY <1>4 DEF BeginCycle, SelectAsset, Cancel, RememberRoute, EvaluateRoute, vars, memoryVars, selectVars
  <2> QED
    BY <1>0, <2>1 DEF NearInv
<1> QED
  BY <1>1, <1>2, <1>3, <1>4 DEF Next

LEMMA ScoresStep ==
    ASSUME Inv, [Next]_vars
    PROVE  ScoresInv'
<1>0. ScoresInv
  BY DEF Inv
<1>1. ASSUME NEW r \in Routes, NEW outcome \in Outcomes \union {Failed}, EvaluateRoute(r, outcome)
      PROVE  ScoresInv'
  <2>1. outcome.score \in Int
    BY EconomicsAssumption DEF Failed
  <2>2. /\ results' = [q \in DOMAIN results \union {r} |-> IF q = r THEN outcome ELSE results[q]]
        /\ UNCHANGED <<pending, queue>>
    BY <1>1 DEF EvaluateRoute, optimizeVars
  <2> QED
    BY <1>0, <2>1, <2>2 DEF ScoresInv, Scored, Restricted
<1>2. CASE Collect
  <2>1. PICK work \in SUBSET Succeeded :
            pending' = [r \in DOMAIN pending \union work |->
                              IF r \in work THEN results[r] ELSE pending[r]]
    BY <1>2 DEF Collect, First
  <2>2. DOMAIN results' = {} /\ UNCHANGED queue /\ Succeeded \subseteq DOMAIN results
    BY <1>2 DEF Collect, Nothing, Succeeded, optimizeVars
  <2> QED
    BY <1>0, <2>1, <2>2 DEF ScoresInv, Scored, Restricted
<1>3. CASE NextAsset
  <2> DEFINE next == {r \in DOMAIN pending : AssetOf[r] = MinOf({AssetOf[q] : q \in DOMAIN pending})}
  <2>1. /\ pending' = Restricted(pending, DOMAIN pending \ next) /\ UNCHANGED results
        /\ UNCHANGED queue \/ queue' = Restricted(pending, next)
    BY <1>3 DEF NextAsset, assetVars
  <2>2. next \subseteq DOMAIN pending
    OBVIOUS
  <2> HIDE DEF next
  <2> QED
    BY <1>0, <2>1, <2>2 DEF ScoresInv, Scored, Restricted
<1>4. CASE SkipRoute
  <2>1. UNCHANGED <<results, pending>> /\ \E r \in DOMAIN queue : Passed(r)
    BY <1>4 DEF SkipRoute, Turns, selectVars, assetVars
  <2> QED
    BY <1>0, <2>1 DEF ScoresInv, Scored, Passed, Restricted
<1>5. ASSUME NEW curve \in Curves, Probe(curve) PROVE ScoresInv'
  <2>1. UNCHANGED <<results, pending>> /\ \E r \in DOMAIN queue : Passed(r)
    BY <1>5 DEF Probe, Turns, selectVars, assetVars
  <2> QED
    BY <1>0, <2>1 DEF ScoresInv, Scored, Passed, Restricted
<1>6. CASE \/ \E dirty \in Dirty : BeginCycle(dirty)
           \/ SelectAsset \/ Cancel \/ UNCHANGED vars \/ BeginOptimizer \/ Deepen \/ Settle \/ EndCycle
           \/ \E r \in Routes : RememberRoute(r)
  <2>1. UNCHANGED <<results, pending, queue>>
    BY <1>6 DEF BeginCycle, SelectAsset, Cancel, RememberRoute, BeginOptimizer, Deepen, Settle, EndCycle,
                vars, selectVars, assetVars, optimizeVars
  <2> QED
    BY <1>0, <2>1 DEF ScoresInv, Scored, Restricted
<1> QED
  BY <1>1, <1>2, <1>3, <1>4, <1>5, <1>6 DEF Next

\* The optimizer takes as many routes of an asset as its runs allow.
LEMMA CollectKeeps ==
    ASSUME Inv, Collect
    PROVE  RunsInv'
<1> DEFINE P == DOMAIN pending
           n == opt.optimized
<1>0. PhaseShape /\ RunsInv /\ OptionsTyped
  BY DEF Inv
<1>1. n \in Nat /\ opt.deepRoutes \in Nat /\ P \subseteq Routes /\ DOMAIN queue = {} /\ report.runs = 0
  BY <1>0 DEF OptionsTyped, RunsInv, Collect
<1>2. IsFiniteSet(P) /\ Cardinality(P) \in Nat
  BY <1>1, SomeRoutes
<1>3. Cardinality(P) <= n
  <2>1. report.runs + Cardinality(DOMAIN queue) + Cardinality(P) <= n
    BY <1>0 DEF RunsInv
  <2>2. Cardinality(DOMAIN queue) = 0
    BY <1>1, FS_EmptySet
  <2> HIDE DEF P, n
  <2> QED
    BY <1>1, <1>2, <2>1, <2>2
<1> DEFINE eligible == {r \in Succeeded : OptimizerEligible(results[r])}
<1>4. PICK work \in First(eligible, OptimizerLimit, ByPromise(results)) :
        pending' = [r \in DOMAIN pending \union work |-> IF r \in work THEN results[r] ELSE pending[r]]
  BY DEF Collect
<1>5. OptimizerLimit \in Nat /\ OptimizerLimit <= n - Cardinality(P)
  <2>1. OptimizerLimit = Greatest(Least(opt.deepRoutes, n - Cardinality(P)), 0)
    BY DEF OptimizerLimit
  <2> HIDE DEF P, n
  <2> QED
    BY <1>1, <1>2, <1>3, <2>1 DEF Greatest, Least
<1>6. eligible \subseteq Routes
  BY <1>0 DEF Succeeded, PhaseShape
<1> HIDE DEF eligible
<1>7. work \subseteq Routes /\ IsFiniteSet(work) /\ Cardinality(work) \in Nat
      /\ Cardinality(work) <= OptimizerLimit
  <2>1. IsFiniteSet(eligible)
    BY <1>6, SomeRoutes
  <2> QED
    BY <1>4, <1>5, <1>6, <2>1, FirstFacts
<1>8. DOMAIN pending' = P \union work /\ P \union work \subseteq Routes
  BY <1>1, <1>4, <1>7
<1> HIDE DEF P, n
<1>9. Cardinality(P \union work) \in Nat /\ Cardinality(P \union work) <= n
  <2>1. Cardinality(P \union work) = Cardinality(P) + Cardinality(work) - Cardinality(P \intersect work)
    BY <1>2, <1>7, FS_Union
  <2>2. Cardinality(P \intersect work) \in Nat
    BY <1>2, FS_Intersection, FS_CardinalityType
  <2>3. Cardinality(P \union work) \in Nat
    BY <1>8, SomeRoutes
  <2> QED
    BY <1>1, <1>2, <1>5, <1>7, <2>1, <2>2, <2>3
<1>10. UNCHANGED <<queue, report, opt>> /\ phase' = "select"
  BY DEF Collect, optimizeVars
<1>11. Cardinality(DOMAIN queue') = 0
  BY <1>1, <1>10, FS_EmptySet
<1>12. report.runs + Cardinality(DOMAIN queue') + Cardinality(P \union work) <= n
  BY <1>1, <1>9, <1>11
<1> QED
  BY <1>1, <1>8, <1>10, <1>12 DEF RunsInv, n

\* A route leaves the queue.
LEMMA PassedFacts ==
    ASSUME RunsInv, NEW r \in DOMAIN queue, Passed(r)
    PROVE  /\ DOMAIN queue' \subseteq Routes /\ Cardinality(DOMAIN queue') \in Nat
           /\ Cardinality(DOMAIN queue) = Cardinality(DOMAIN queue') + 1
<1>1. DOMAIN queue' = DOMAIN queue \ {r}
  BY DEF Passed, Restricted
<1>2. DOMAIN queue \subseteq Routes
  BY DEF RunsInv
<1>3. IsFiniteSet(DOMAIN queue) /\ Cardinality(DOMAIN queue) \in Nat
  BY <1>2, SomeRoutes
<1>4. Cardinality(DOMAIN queue \ {r}) = Cardinality(DOMAIN queue) - 1
  BY <1>3, FS_RemoveElement
<1>5. DOMAIN queue' \subseteq Routes
  BY <1>1, <1>2
<1>6. Cardinality(DOMAIN queue') \in Nat
  BY <1>5, SomeRoutes
<1> QED
  BY <1>1, <1>3, <1>4, <1>5, <1>6

LEMMA NextAssetKeeps ==
    ASSUME Inv, NextAsset
    PROVE  RunsInv'
<1> DEFINE P == DOMAIN pending
           next == {r \in P : AssetOf[r] = MinOf({AssetOf[q] : q \in P})}
<1>0. RunsInv /\ P \subseteq Routes /\ report.runs \in Nat /\ opt.optimized \in Nat
  BY DEF Inv, RunsInv, PhaseShape, ReportType, OptionsTyped
<1>1. /\ pending' = Restricted(pending, P \ next)
      /\ UNCHANGED queue \/ queue' = Restricted(pending, next)
      /\ UNCHANGED <<report, opt, phase>> /\ phase = "optimize" /\ queue = Nothing
  BY DEF NextAsset, cycleVars
<1>2. next \subseteq P
  OBVIOUS
<1> HIDE DEF next
<1>3. DOMAIN queue = {} /\ DOMAIN pending' = P \ next /\ (DOMAIN queue' = {} \/ DOMAIN queue' = next)
  BY <1>1 DEF Restricted, Nothing
<1>4. IsFiniteSet(P) /\ Cardinality(P) \in Nat /\ Cardinality(next) \in Nat
      /\ Cardinality(P \ next) \in Nat
  BY <1>0, <1>2, SomeRoutes
<1>5. Cardinality(P \ next) = Cardinality(P) - Cardinality(next)
  <2>1. P \intersect next = next
    BY <1>2
  <2>2. Cardinality(P \ next) = Cardinality(P) - Cardinality(P \intersect next)
    BY <1>4, FS_Difference
  <2> QED
    BY <2>1, <2>2
<1>6. Cardinality({}) = 0
  BY FS_EmptySet
<1>7. report.runs + Cardinality(P) <= opt.optimized
  <2>1. report.runs + 0 + Cardinality(P) <= opt.optimized
    BY <1>0, <1>3, <1>6 DEF RunsInv
  <2> QED
    BY <1>0, <1>4, <2>1
<1>8. report.runs + Cardinality(DOMAIN queue') + Cardinality(DOMAIN pending') <= opt.optimized
  BY <1>0, <1>3, <1>4, <1>5, <1>6, <1>7
<1> QED
  BY <1>0, <1>1, <1>2, <1>3, <1>8 DEF RunsInv

LEMMA RunsStep ==
    ASSUME Inv, [Next]_vars
    PROVE  RunsInv'
<1>0. /\ RunsInv /\ PhaseShape /\ OptionsTyped /\ report \in ReportType /\ opt' = opt
      /\ QuotesInv /\ MemoryInv /\ SamplesInv /\ SizingInv /\ ScoresInv
  BY OptionsStep DEF Inv, PhaseShape
<1> DEFINE q == Cardinality(DOMAIN queue)
           p == Cardinality(DOMAIN pending)
<1>a. q \in Nat /\ p \in Nat /\ report.runs \in Nat /\ opt.optimized \in Nat
      /\ report.runs + q + p <= opt.optimized
  BY <1>0, SomeRoutes DEF RunsInv, ReportType, OptionsTyped
<1>1. CASE Collect
  BY <1>1, CollectKeeps
<1>2. CASE NextAsset
  BY <1>2, NextAssetKeeps
<1>3. CASE SkipRoute
  <2>1. /\ UNCHANGED <<pending, report, phase>> /\ phase = "optimize"
        /\ \E r \in DOMAIN queue : Passed(r)
    BY <1>3 DEF SkipRoute, Turns, selectVars, cycleVars
  <2>2. /\ DOMAIN queue' \subseteq Routes /\ Cardinality(DOMAIN queue') \in Nat
        /\ q = Cardinality(DOMAIN queue') + 1
    BY <1>0, <2>1, PassedFacts
  <2> HIDE DEF q, p
  <2>3. report.runs + Cardinality(DOMAIN queue') + p <= opt.optimized
    BY <1>a, <2>2
  <2> QED
    BY <1>0, <2>1, <2>2, <2>3 DEF RunsInv, p
<1>4. ASSUME NEW curve \in Curves, Probe(curve) PROVE RunsInv'
  <2>1. /\ UNCHANGED <<cycleVars, selectVars>> /\ phase = "optimize"
        /\ \E r \in DOMAIN queue : Passed(r)
        /\ \E n \in Nat : Spend(n, 1) /\ (opt.adaptive => n <= remaining)
    BY <1>0, <1>4, ProbeFacts
  <2>2. /\ DOMAIN queue' \subseteq Routes /\ Cardinality(DOMAIN queue') \in Nat
        /\ q = Cardinality(DOMAIN queue') + 1
    BY <1>0, <2>1, PassedFacts
  <2>3. report'.runs = report.runs + 1
    BY <1>0, <2>1, SpendFacts
  <2> HIDE DEF q, p
  <2>4. report'.runs + Cardinality(DOMAIN queue') + p <= opt.optimized
    BY <1>a, <2>2, <2>3
  <2>5. UNCHANGED <<pending, phase>>
    BY <2>1 DEF cycleVars, selectVars
  <2> QED
    BY <1>0, <2>1, <2>2, <2>4, <2>5 DEF RunsInv, p
<1>5. CASE Deepen
  <2>1. /\ UNCHANGED <<cycleVars, selectVars, queue>> /\ phase = "optimize"
        /\ \E n \in Nat : Spend(n, 0) /\ (opt.adaptive => n <= remaining)
    BY <1>0, <1>5, DeepenFacts
  <2>2. report'.runs = report.runs
    <3>1. report'.runs = report.runs + 0
      BY <1>0, <2>1, SpendFacts
    <3> QED
      BY <1>a, <3>1
  <2> QED
    BY <1>0, <2>1, <2>2 DEF RunsInv, cycleVars, selectVars
<1>6. CASE SelectAsset
  <2>1. /\ phase = "select" /\ UNCHANGED <<pending, optimizeVars>> /\ phase' # "optimize"
        /\ report' = report \/ \E n \in 0..quotesLeft : report' = [report EXCEPT !.quotes = @ + n]
    BY <1>0, <1>6, SelectAssetFacts
  <2>2. report'.runs = report.runs
    BY <1>0, <2>1 DEF ReportType
  <2> QED
    BY <1>0, <2>1, <2>2 DEF RunsInv, optimizeVars
<1>7. CASE EndCycle
  <2>1. report' = NewReport /\ UNCHANGED <<pending, queue>> /\ phase' = "idle" /\ queue = Nothing
    BY <1>7 DEF EndCycle
  <2>2. report'.runs = 0 /\ DOMAIN queue = {}
    BY <2>1 DEF NewReport, Nothing
  <2>3. 0 + q + p <= opt.optimized
    BY <1>a
  <2> QED
    BY <1>0, <2>1, <2>2, <2>3 DEF RunsInv
<1>8. CASE \/ \E dirty \in Dirty : BeginCycle(dirty)
           \/ Cancel \/ UNCHANGED vars \/ BeginOptimizer \/ Settle
           \/ \E r \in Routes : RememberRoute(r)
           \/ \E r \in Routes, outcome \in Outcomes \union {Failed} : EvaluateRoute(r, outcome)
  <2>1. UNCHANGED <<pending, queue, report>> /\ (phase # "optimize" \/ phase' = phase)
    BY <1>8 DEF BeginCycle, Cancel, RememberRoute, EvaluateRoute, BeginOptimizer, Settle,
                vars, cycleVars, selectVars, optimizeVars
  <2> QED
    BY <1>0, <2>1 DEF RunsInv
<1> QED
  BY <1>1, <1>2, <1>3, <1>4, <1>5, <1>6, <1>7, <1>8 DEF Next

LEMMA SizingStep ==
    ASSUME Inv, [Next]_vars
    PROVE  SizingInv'
<1>0. OptionsTyped /\ SamplesInv /\ SizingInv /\ ScoresInv
  BY DEF Inv
<1>i. Idle.step = "none"
  BY DEF Idle
<1>1. CASE NextAsset
  <2>1. sizing = Idle /\ sizing' = Idle /\ sized' = Idle
        /\ (cap' = cap \/ \E a \in Available : cap' = CapLoanMax(a))
    BY <1>1 DEF NextAsset
  <2>2. cap' \in 0..(10 * Current)
    BY <1>0, <2>1, CapFacts DEF SizingInv
  <2> QED
    BY <2>1, <2>2 DEF SizingInv
<1>2. CASE SkipRoute
  <2>1. sizing' = Idle /\ sized' = Idle /\ cap' = cap
    BY <1>2 DEF SkipRoute
  <2> QED
    BY <1>0, <2>1 DEF SizingInv
<1>3. ASSUME NEW curve \in Curves, Probe(curve) PROVE SizingInv'
  <2>1. sized' = Idle /\ cap' = cap /\ (sizing' = Idle \/ (Sizing(sizing') /\ Minimum <= cap))
    BY <1>0, <1>3, ProbeFacts
  <2> QED
    BY <1>0, <2>1 DEF SizingInv, Sizing, Minimum
<1>4. CASE Deepen
  <2>1. cap' = cap /\ sized' = sized /\ Sizing(sizing') /\ Minimum <= cap
    BY <1>0, <1>4, DeepenFacts
  <2> QED
    BY <1>0, <2>1 DEF SizingInv, Sizing, Minimum
<1>5. CASE Settle
  <2>1. cap' = cap /\ sizing' = Idle /\ sizing.step \in {"probed", "done"}
        /\ sized' = IF sizing.curve[sizing.best] > 0 THEN sizing ELSE Idle
    BY <1>5 DEF Settle
  <2>2. Sizing(sizing)
    BY <1>0, <1>i, <2>1 DEF SizingInv
  <2> QED
    BY <1>0, <2>1, <2>2 DEF SizingInv, Sizing
<1>6. CASE EndCycle
  <2>1. cap' = 0 /\ sizing' = Idle /\ sized' = Idle
    BY <1>6 DEF EndCycle
  <2>2. 0 \in 0..(10 * Current)
    BY EconomicsAssumption
  <2> QED
    BY <2>1, <2>2 DEF SizingInv
<1>7. CASE \/ \E dirty \in Dirty : BeginCycle(dirty)
           \/ SelectAsset \/ Cancel \/ Collect \/ BeginOptimizer \/ UNCHANGED vars
           \/ \E r \in Routes : RememberRoute(r)
           \/ \E r \in Routes, outcome \in Outcomes \union {Failed} : EvaluateRoute(r, outcome)
  <2>1. UNCHANGED <<cap, sizing, sized>>
    BY <1>7 DEF BeginCycle, SelectAsset, Cancel, Collect, RememberRoute, EvaluateRoute, BeginOptimizer,
                vars, optimizeVars
  <2> QED
    BY <1>0, <2>1 DEF SizingInv, Sizing, Minimum
<1> QED
  BY <1>1, <1>2, <1>3, <1>4, <1>5, <1>6, <1>7 DEF Next

\* An asset's share of the samples is within what is left.
LEMMA NextAssetSamples ==
    ASSUME Inv, NextAsset
    PROVE  UNCHANGED samplesLeft /\ remaining' \in 0..samplesLeft
<1> DEFINE assets == {AssetOf[r] : r \in DOMAIN pending}
           k == Cardinality(assets)
           f == [r \in DOMAIN pending |-> AssetOf[r]]
<1>0. OptionsTyped /\ SamplesInv /\ ScoresInv /\ RunsInv
  BY DEF Inv
<1>1. /\ samplesLeft' = samplesLeft /\ pending # Nothing
      /\ \/ remaining' = remaining
         \/ /\ ~(opt.adaptive /\ samplesLeft < 2)
            /\ remaining' = IF opt.adaptive THEN Greatest(samplesLeft \div k, 2) ELSE 0
  BY DEF NextAsset
<1>2. samplesLeft \in Nat /\ remaining \in 0..samplesLeft
  <2>1. opt.perCycle \in Nat
    BY <1>0, PerCycle
  <2> QED
    BY <1>0, <2>1 DEF SamplesInv
<1>3. DOMAIN pending # {}
  BY <1>0, <1>1 DEF ScoresInv, Restricted, Nothing
<1>4. k \in Nat \ {0}
  <2>1. IsFiniteSet(DOMAIN pending)
    BY <1>0, SomeRoutes DEF RunsInv
  <2>2. DOMAIN f = DOMAIN pending /\ f = [r \in DOMAIN pending |-> f[r]]
        /\ assets = {f[r] : r \in DOMAIN pending}
    OBVIOUS
  <2>3. assets # {}
    BY <1>3
  <2> HIDE DEF f, assets
  <2>4. IsFiniteSet(assets)
    BY <2>1, <2>2, ImageFacts
  <2> QED
    BY <2>3, <2>4, FS_CardinalityType, FS_EmptySet
<1> HIDE DEF k
<1>5. samplesLeft \div k \in 0..samplesLeft
  BY <1>2, <1>4, QuotientBound
<1> DEFINE share == samplesLeft \div k
<1>6. CASE remaining' = remaining
  BY <1>1, <1>2, <1>6
<1>7. CASE /\ ~(opt.adaptive /\ samplesLeft < 2)
           /\ remaining' = IF opt.adaptive THEN Greatest(share, 2) ELSE 0
  <2> HIDE DEF share
  <2>1. share \in 0..samplesLeft
    BY <1>5 DEF share
  <2>2. CASE opt.adaptive
    BY <1>1, <1>2, <1>7, <2>1, <2>2 DEF Greatest
  <2>3. CASE ~opt.adaptive
    BY <1>1, <1>2, <1>7, <2>3
  <2> QED
    BY <2>2, <2>3
<1> QED
  BY <1>1, <1>6, <1>7

LEMMA SamplesStep ==
    ASSUME Inv, [Next]_vars
    PROVE  SamplesInv'
<1>0. /\ OptionsTyped /\ PhaseShape /\ QuotesInv /\ MemoryInv /\ SamplesInv /\ SizingInv /\ ScoresInv
      /\ report \in ReportType /\ opt' = opt
  BY OptionsStep DEF Inv, PhaseShape
<1> DEFINE p == opt.perCycle
<1>p. p \in Nat /\ samplesLeft \in 0..p /\ remaining \in 0..samplesLeft
  <2>1. opt.perCycle \in Nat
    BY <1>0, PerCycle
  <2> QED
    BY <1>0, <2>1 DEF SamplesInv
<1>i. Idle.step = "none"
  BY DEF Idle
<1>1. CASE BeginOptimizer
  <2>1. /\ phase = "select" /\ phase' = "optimize" /\ samplesLeft' = p
        /\ UNCHANGED <<remaining, sizing, report>>
    BY <1>1 DEF BeginOptimizer
  <2>2. report.samples = 0 /\ sizing = Idle
    BY <1>0, <2>1 DEF SamplesInv
  <2>3. p \in 0..p /\ remaining \in 0..p /\ 0 + p = p
    BY <1>p
  <2> HIDE DEF p
  <2>4. p' = p
    BY <1>0 DEF p
  <2> QED
    BY <1>i, <2>1, <2>2, <2>3, <2>4 DEF SamplesInv, p
<1>2. CASE NextAsset
  <2>1. /\ phase' = "optimize" /\ phase = "optimize" /\ sizing' = Idle /\ report' = report
    BY <1>2 DEF NextAsset, cycleVars
  <2>2. samplesLeft' = samplesLeft /\ remaining' \in 0..samplesLeft
    BY <1>2, NextAssetSamples
  <2> QED
    BY <1>0, <1>i, <2>1, <2>2 DEF SamplesInv
<1>3. ASSUME NEW curve \in Curves, Probe(curve) PROVE SamplesInv'
  <2>1. phase = "optimize" /\ phase' = "optimize"
    BY <1>3 DEF Probe, cycleVars
  <2>2. PICK n \in Nat :
                /\ Spend(n, 1) /\ (opt.adaptive => n <= remaining)
                /\ \/ sizing' = Idle
                   \/ opt.adaptive =>
                            sizing'.allocated - Cardinality(sizing'.sampled) <= remaining - n
    BY <1>0, <1>3, ProbeFacts
  <2>3. /\ samplesLeft' \in 0..opt.perCycle /\ remaining' \in 0..samplesLeft'
        /\ opt.adaptive => /\ report'.samples + samplesLeft' = opt.perCycle
                           /\ remaining' = remaining - n
    BY <1>0, <2>1, <2>2, SpendFacts
  <2>4. opt.adaptive => (sizing' = Idle \/ DeepSamples' <= remaining')
    BY <2>2, <2>3 DEF DeepSamples
  <2> QED
    BY <1>0, <1>i, <2>1, <2>3, <2>4 DEF SamplesInv
<1>4. CASE Deepen
  <2>1. phase = "optimize" /\ phase' = "optimize" /\ sizing'.step = "done"
    BY <1>0, <1>4, DeepenFacts DEF cycleVars
  <2>2. PICK n \in Nat : Spend(n, 0) /\ (opt.adaptive => n <= remaining)
    BY <1>0, <1>4, DeepenFacts
  <2>3. /\ samplesLeft' \in 0..opt.perCycle /\ remaining' \in 0..samplesLeft'
        /\ opt.adaptive => report'.samples + samplesLeft' = opt.perCycle
    BY <1>0, <2>1, <2>2, SpendFacts
  <2> QED
    BY <1>0, <2>1, <2>3 DEF SamplesInv
<1>5. CASE SkipRoute \/ Settle
  <2>1. /\ phase = "optimize" /\ phase' = "optimize" /\ sizing' = Idle
        /\ UNCHANGED <<samplesLeft, remaining, report>>
    BY <1>5 DEF SkipRoute, Settle, cycleVars
  <2> QED
    BY <1>0, <1>i, <2>1 DEF SamplesInv
<1>6. CASE SelectAsset
  <2>1. /\ phase = "select" /\ phase' # "optimize" /\ UNCHANGED optimizeVars
        /\ report' = report \/ \E n \in 0..quotesLeft : report' = [report EXCEPT !.quotes = @ + n]
    BY <1>0, <1>6, SelectAssetFacts
  <2>2. report'.samples = report.samples
    BY <1>0, <2>1 DEF ReportType
  <2>3. report.samples = 0 /\ sizing = Idle
    BY <1>0, <2>1 DEF SamplesInv
  <2> QED
    BY <1>0, <1>i, <2>1, <2>2, <2>3 DEF SamplesInv, optimizeVars
<1>7. CASE EndCycle
  <2>1. /\ phase' = "idle" /\ report' = NewReport /\ samplesLeft' = 0 /\ remaining' = 0
        /\ sizing' = Idle
    BY <1>7 DEF EndCycle
  <2>2. report'.samples = 0
    BY <2>1 DEF NewReport
  <2>3. 0 \in 0..p /\ 0 \in 0..0
    BY <1>p
  <2> QED
    BY <1>0, <1>i, <2>1, <2>2, <2>3 DEF SamplesInv
<1>8. CASE \/ \E dirty \in Dirty : BeginCycle(dirty)
           \/ Cancel \/ Collect \/ UNCHANGED vars
           \/ \E r \in Routes : RememberRoute(r)
           \/ \E r \in Routes, outcome \in Outcomes \union {Failed} : EvaluateRoute(r, outcome)
  <2>1. UNCHANGED <<samplesLeft, remaining, sizing, report>>
        /\ (phase' = phase \/ (phase # "optimize" /\ phase' # "optimize"))
    BY <1>8 DEF BeginCycle, Cancel, Collect, RememberRoute, EvaluateRoute, vars, cycleVars, optimizeVars
  <2> QED
    BY <1>0, <2>1 DEF SamplesInv, DeepSamples
<1> QED
  BY <1>1, <1>2, <1>3, <1>4, <1>5, <1>6, <1>7, <1>8 DEF Next

\* A selection that was just made has its mix, and until the memory observes
\* its results nothing the mix depends on changes.
LEMMA MixStep ==
    ASSUME Inv, [Next]_vars
    PROVE  SelectionMix'
<1>0. /\ OptionsTyped /\ PhaseShape /\ QuotesInv /\ MemoryInv /\ SelectionMix /\ opt' = opt
  BY OptionsStep DEF Inv
<1>1. CASE SelectAsset
  <2>1. /\ phase = "select" /\ UNCHANGED <<opt, affected, memory>>
        /\ \/ phase' = "select"
           \/ \E score : Select(Candidates(asset'), score)
    BY <1>0, <1>1, SelectAssetFacts DEF memoryVars
  <2>2. CASE phase' = "select"
    BY <2>2 DEF SelectionMix
  <2>3. CASE ~opt.ranking
    BY <2>1, <2>3 DEF SelectionMix
  <2>4. ASSUME opt.ranking, NEW score, Select(Candidates(asset'), score)
        PROVE  SelectionMix'
    <3> DEFINE C == Candidates(asset')
               limit == Least(opt.routes, Cardinality(C))
               picked == {s.route : s \in chosen'}
               explored == {s.route : s \in {t \in chosen' : t.kind = "explore"}}
    <3>1. C \subseteq Routes /\ \A r \in C : Observations(r) \in Nat
      BY <1>0, ObservationsType DEF Candidates, PhaseShape
    <3>2. /\ Cardinality(chosen') = limit /\ Cardinality(picked) = limit
          /\ Cardinality(explored) = ExploreSlots(limit)
          /\ \A e \in explored, r \in C \ picked : Observations(e) <= Observations(r)
      BY <1>0, <2>4, <3>1, RankedFacts
    <3>3. {r \in affected' : AssetOf[r] = asset'} = C
      BY <2>1 DEF Candidates
    <3>4. \A r : Observations(r)' = Observations(r)
      BY <2>1 DEF Observations, Known
    <3> DEFINE D == {r \in affected' : AssetOf[r] = asset'}
    <3>5. SelectionMix' <=>
            ((phase' = "evaluate" /\ opt'.ranking) =>
                /\ Cardinality(chosen') = Least(opt'.routes, Cardinality(D))
                /\ Cardinality(picked) = Least(opt'.routes, Cardinality(D))
                /\ Cardinality(explored) = ExploreSlots(Least(opt.routes, Cardinality(D)))
                /\ remembered' = {} => \A e \in explored, r \in D \ picked :
                        Observations(e)' <= Observations(r)')
      BY <2>1 DEF SelectionMix, ExploreSlots, Observations, Known
    <3> HIDE DEF D, picked, explored
    <3>6. D = C
      BY <3>3 DEF D
    <3> QED
      BY <2>1, <3>2, <3>4, <3>5, <3>6
  <2> QED
    BY <2>1, <2>2, <2>3, <2>4
<1>2. ASSUME NEW r \in Routes, RememberRoute(r) PROVE SelectionMix'
  <2>1. UNCHANGED <<phase, opt, affected, asset, chosen>> /\ remembered' # {}
    BY <1>2 DEF RememberRoute, cycleVars
  <2> QED
    BY <1>0, <2>1 DEF SelectionMix, ExploreSlots
<1>3. CASE \/ Cancel \/ UNCHANGED vars
           \/ \E r \in Routes, outcome \in Outcomes \union {Failed} : EvaluateRoute(r, outcome)
  <2>1. UNCHANGED <<phase, opt, affected, asset, chosen, remembered, memory>>
    BY <1>3 DEF Cancel, EvaluateRoute, vars, cycleVars, memoryVars, selectVars, assetVars
  <2> QED
    BY <1>0, <2>1 DEF SelectionMix, ExploreSlots, Observations, Known
<1>4. CASE \/ \E dirty \in Dirty : BeginCycle(dirty)
           \/ Collect \/ BeginOptimizer \/ EndCycle
  <2>1. phase' # "evaluate"
    BY <1>4 DEF BeginCycle, Collect, BeginOptimizer, EndCycle
  <2> QED
    BY <2>1 DEF SelectionMix
<1>5. CASE NextAsset \/ SkipRoute \/ (\E curve \in Curves : Probe(curve)) \/ Deepen \/ Settle
  <2>1. phase' # "evaluate"
    BY <1>5 DEF NextAsset, SkipRoute, Probe, Deepen, Settle, cycleVars
  <2> QED
    BY <2>1 DEF SelectionMix
<1> QED
  BY <1>1, <1>2, <1>3, <1>4, <1>5 DEF Next

-----------------------------------------------------------------------------
(* The theorems.                                                           *)

LEMMA InvInit == ASSUME Init PROVE Inv
<1>1. OptionsTyped
  BY OptionsInit
<1>2. opt.optimized \in Nat /\ opt.perCycle \in Nat /\ {MaxRoutes, RecentLimit, MaxCycles} \subseteq Nat
  BY <1>1, PerCycle, BoundsAssumption DEF OptionsTyped
<1>3. DOMAIN Nothing = {} /\ Nothing = Restricted(Nothing, {}) /\ Idle.step = "none"
      /\ NewReport \in ReportType /\ NewReport.quotes = 0 /\ NewReport.runs = 0 /\ NewReport.samples = 0
  BY DEF Nothing, Restricted, Idle, NewReport, ReportType
<1>4. Cardinality({}) = 0
  BY FS_EmptySet
<1>5. PhaseShape
  <2>1. cycle \in 0..MaxCycles
    BY <1>2 DEF Init
  <2> QED
    BY <1>3, <2>1 DEF Init, PhaseShape
<1>6. QuotesInv
  BY <1>3 DEF Init, QuotesInv
<1>7. MemoryInv
  <2>1. Observed = {} /\ ToObserve = {} /\ DOMAIN memory = {}
    BY <1>3 DEF Init, Observed, ToObserve
  <2> QED
    BY <1>2, <1>4, <2>1 DEF MemoryInv
<1>8. NearInv
  BY <1>2, <1>4 DEF Init, NearInv
<1>9. ScoresInv
  BY <1>3 DEF Init, ScoresInv, Scored
<1>10. RunsInv
  BY <1>2, <1>3, <1>4 DEF Init, RunsInv
<1>11. SizingInv
  BY EconomicsAssumption DEF Init, SizingInv
<1>12. SamplesInv
  <2> DEFINE p == opt.perCycle
  <2>1. 0 \in 0..p /\ 0 \in 0..0
    BY <1>2
  <2>2. /\ samplesLeft = 0 /\ remaining = 0 /\ phase = "idle" /\ report.samples = 0
        /\ sizing = Idle /\ sizing.step = "none"
    BY <1>3 DEF Init
  <2> QED
    BY <2>1, <2>2 DEF SamplesInv
<1>13. SelectionMix
  BY DEF Init, SelectionMix
<1> QED
  BY <1>1, <1>5, <1>6, <1>7, <1>8, <1>9, <1>10, <1>11, <1>12, <1>13 DEF Inv

LEMMA InvStep == ASSUME Inv, [Next]_vars PROVE Inv'
<1>1. OptionsTyped'
  BY OptionsStep DEF Inv
<1>2. PhaseShape' /\ QuotesInv' /\ MemoryInv' /\ NearInv'
  BY PhaseStep, QuotesStep, MemoryStep, NearStep
<1>3. ScoresInv' /\ RunsInv' /\ SizingInv' /\ SamplesInv' /\ SelectionMix'
  BY ScoresStep, RunsStep, SizingStep, SamplesStep, MixStep
<1> QED
  BY <1>1, <1>2, <1>3 DEF Inv

LEMMA Invariance == Spec => []Inv
<1>1. Init => Inv
  BY InvInit
<1>2. Inv /\ [Next]_vars => Inv'
  BY InvStep
<1> QED
  BY <1>1, <1>2, PTL DEF Spec

LEMMA InitialQuotesFacts ==
    ASSUME OptionsTyped
    PROVE  InitialQuotes \in 0..opt.quotes
<1> DEFINE q == opt.quotes
           part == (q * 3) \div 10
<1>1. q \in Nat
  BY DEF OptionsTyped
<1>2. part \in Nat
  <2> DEFINE d == 10
             x == q * 3
  <2>1. d \in Nat \ {0} /\ x \in Nat
    BY <1>1
  <2> HIDE DEF d, x
  <2>2. x \div d \in 0..x
    BY <2>1, QuotientBound
  <2>3. x \div d \in Nat
    BY <2>1, <2>2
  <2> QED
    BY <2>3 DEF d, x
<1>3. InitialQuotes = Least(q, Greatest(8, part))
  BY DEF InitialQuotes
<1> HIDE DEF q, part
<1>4. Least(q, Greatest(8, part)) \in 0..q
  BY <1>1, <1>2 DEF Least, Greatest
<1> QED
  BY <1>3, <1>4 DEF q

\* Whatever is configured, however many cycles run, fail or are cancelled,
\* the options, the route memory and the work of a cycle have their types,
\* and the memory and the reported near misses keep their limits.
THEOREM EvaluationTypes == Spec => []TypeOK
<1>1. Inv => TypeOK
  <2> SUFFICES ASSUME Inv PROVE TypeOK
    OBVIOUS
  <2>1. /\ OptionsTyped /\ PhaseShape /\ QuotesInv /\ MemoryInv /\ NearInv /\ SizingInv /\ SamplesInv
    BY DEF Inv
  <2>2. quotesLeft \in 0..opt.quotes
    <3>1. InitialQuotes \in 0..opt.quotes /\ opt.quotes \in Nat
      BY <2>1, InitialQuotesFacts DEF OptionsTyped
    <3>2. quotesLeft \in Nat /\ report.quotes \in Nat
          /\ (quotesLeft = 0 \/ report.quotes + quotesLeft = InitialQuotes)
      BY <2>1 DEF QuotesInv, PhaseShape, ReportType
    <3> QED
      BY <3>1, <3>2
  <2>3. \A r \in DOMAIN memory : memory[r].obs \in 0..MaxCycles /\ memory[r].seen \in 0..MaxCycles
    <3>1. cycle \in 0..MaxCycles /\ MaxCycles \in Nat
      BY <2>1, BoundsAssumption DEF PhaseShape
    <3>2. 0..cycle \subseteq 0..MaxCycles
      BY <3>1
    <3> QED
      BY <2>1, <3>2 DEF MemoryInv
  <2>4. samplesLeft \in 0..opt.perCycle /\ remaining \in 0..opt.perCycle
    <3>1. opt.perCycle \in Nat
      BY <2>1, PerCycle
    <3> QED
      BY <2>1, <3>1 DEF SamplesInv
  <2>5. sizing.step \in {"none", "probed", "done"} /\ sized.step \in {"none", "probed", "done"}
    <3>1. Idle.step = "none"
      BY DEF Idle
    <3> QED
      BY <2>1, <3>1 DEF SizingInv, Sizing
  <2>6. DOMAIN memory \subseteq Routes /\ Cardinality({r \in DOMAIN memory : memory[r].obs > 0}) <= MaxRoutes
    BY <2>1 DEF MemoryInv, Observed
  <2>7. /\ phase \in {"idle", "select", "evaluate", "optimize"} /\ cancelled \in BOOLEAN
        /\ cycle \in 0..MaxCycles
        /\ waiting \subseteq Routes /\ DOMAIN results \subseteq Routes
    BY <2>1 DEF PhaseShape
  <2>8. opt.normal \in 2..opt.samples /\ opt.perCycle \in 2..512 /\ opt.explore \in 1..5000
    BY <2>1 DEF OptionsTyped
  <2>9. Cardinality(recent) <= RecentLimit /\ \A m, n \in recent : m.route = n.route => m = n
    BY <2>1 DEF NearInv
  <2> QED
    BY <2>2, <2>3, <2>4, <2>5, <2>6, <2>7, <2>8, <2>9 DEF TypeOK
<1> QED
  BY <1>1, Invariance, PTL

\* However the shares of the assets round and whatever is skipped, the first
\* quotes of a cycle stay within the part of the ceiling that is theirs, an
\* adaptive cycle within its samples and every cycle within its optimizer
\* runs, for every configuration of the search.
THEOREM BudgetsKept == Spec => []CycleBudgets
<1>1. Inv => CycleBudgets
  <2> SUFFICES ASSUME Inv PROVE CycleBudgets
    OBVIOUS
  <2>1. OptionsTyped /\ PhaseShape /\ QuotesInv /\ RunsInv /\ SamplesInv /\ report \in ReportType
    BY DEF Inv, PhaseShape
  <2>2. report.quotes \in Nat /\ report.runs \in Nat /\ report.samples \in Nat
    BY <2>1 DEF ReportType
  <2>3. report.quotes <= InitialQuotes
    <3>1. InitialQuotes \in Nat
      <4>1. InitialQuotes \in 0..opt.quotes /\ opt.quotes \in Nat
        BY <2>1, InitialQuotesFacts DEF OptionsTyped
      <4> QED
        BY <4>1
    <3>2. quotesLeft \in Nat /\ (report.quotes = 0 \/ report.quotes + quotesLeft = InitialQuotes)
      BY <2>1 DEF QuotesInv
    <3> QED
      BY <2>2, <3>1, <3>2
  <2>4. opt.adaptive => report.samples <= opt.perCycle
    <3> DEFINE p == opt.perCycle
    <3>1. p \in Nat /\ samplesLeft \in 0..p
      BY <2>1, PerCycle DEF SamplesInv
    <3>2. report.samples = 0 \/ (opt.adaptive => report.samples + samplesLeft = p)
      BY <2>1 DEF SamplesInv
    <3> HIDE DEF p
    <3>3. opt.adaptive => report.samples <= p
      BY <2>2, <3>1, <3>2
    <3> QED
      BY <3>3 DEF p
  <2>5. report.runs <= opt.optimized
    <3>1. Cardinality(DOMAIN queue) \in Nat /\ Cardinality(DOMAIN pending) \in Nat /\ opt.optimized \in Nat
      BY <2>1, SomeRoutes DEF RunsInv, OptionsTyped
    <3>2. report.runs + Cardinality(DOMAIN queue) + Cardinality(DOMAIN pending) <= opt.optimized
      BY <2>1 DEF RunsInv
    <3> QED
      BY <2>2, <3>1, <3>2
  <2> QED
    BY <2>3, <2>4, <2>5 DEF CycleBudgets
<1> QED
  BY <1>1, Invariance, PTL

\* Whatever the profit curve, the samples, the failed quotes and the moment of
\* a cancellation, the size evaluated in earnest is profitable and the best of
\* all that were priced.
THEOREM SizedIsBest == Spec => []SizedBest
<1>1. Inv => SizedBest
  BY DEF Inv, SizingInv, Sizing, SizedBest
<1> QED
  BY <1>1, Invariance, PTL

\* Whatever the scores, the memory and the number of routes, a ranked
\* selection fills its limit, keeps its exploration slots and explores the
\* least observed of what was left.
THEOREM SelectionKeepsMix == Spec => []SelectionMix
<1>1. Inv => SelectionMix
  BY DEF Inv
<1> QED
  BY <1>1, Invariance, PTL
=============================================================================
