------------------------ MODULE ShadowDecisionProofs ------------------------
(***************************************************************************)
(* Proofs about ShadowDecision, for any routes, assets, amounts and        *)
(* limits: the newest snapshot is never lost, and neither a route nor a    *)
(* funding asset starves.                                                  *)
(***************************************************************************)
EXTENDS ShadowDecision, FiniteSetTheorems, TLAPS

-----------------------------------------------------------------------------
(* The invariant.                                                          *)

Input == [number : Nat, unresolved : SUBSET Routes]
Offering == [pc : {"send", "drain", "resend"}, input : Input]

\* The snapshot of an Offer under way is the newest, and after the drain only
\* it can fill the channel.
SnapshotInv ==
    /\ offered \in Nat /\ latest \in Input
    /\ offer = Idle \/ offer \in Offering
    /\ mailbox = <<>> \/ \E x \in Input : mailbox = <<x>>
    /\ offer # Idle => offer.input.number = offered
    /\ offer.pc = "resend" => mailbox = <<>>
    /\ NewestSnapshot

Histories == UNION {[D -> [evals : Nat, seen : Nat]] : D \in SUBSET Routes}

MemoryTyped ==
    /\ history \in Histories /\ saved \in Histories
    /\ DOMAIN shadowSeen \subseteq Routes
    /\ \A r \in DOMAIN shadowSeen : shadowSeen[r] \in Nat \ {0}
    /\ observations \in Seq(LiveRoutes) /\ observed \in Nat

\* The sampling history forgets no route: an analysis has at most 512
\* candidates, and the history 4096 places.
RoutesFit == Cardinality(Routes) <= MaxHistory

\* Every probed exploration that passed over r sampled another route for the
\* first time, and none of them was forgotten.
PassedInv ==
    /\ passed \in [Routes -> Nat]
    /\ RoutesFit => \A r \in Routes : passed[r] <= Cardinality(DOMAIN shadowSeen \ {r})

\* An asset was skipped at most as often as turns have passed since its own.
SkippedInv ==
    /\ round \in Nat /\ skipped \in [Assets -> Nat]
    /\ \A a \in Assets : skipped[a] + Turn(Assets, a) <= Cardinality(Assets) - 1

Inv == SnapshotInv /\ MemoryTyped /\ PassedInv /\ SkippedInv

-----------------------------------------------------------------------------
(* Finite sets and turns.                                                  *)

LEMMA Numbers ==
    /\ Limit \in Nat /\ Limit > 0 /\ MaxHistory \in Nat /\ MaxHistory > 0
    /\ IsFiniteSet(Routes) /\ Cardinality(Routes) \in Nat
    /\ LiveRoutes \subseteq Routes /\ Assets \subseteq Nat
BY LimitsAssumption, RoutesAssumption, FS_CardinalityType DEF Assets

LEMMA RoutesFinite ==
    ASSUME NEW S, S \subseteq Routes
    PROVE  IsFiniteSet(S) /\ Cardinality(S) \in Nat /\ Cardinality(S) <= Cardinality(Routes)
BY Numbers, FS_Subset, FS_CardinalityType

LEMMA AssetsFinite == IsFiniteSet(Assets) /\ Cardinality(Assets) \in Nat
<1> DEFINE f == [r \in Routes |-> AssetOf[r]]
<1>1. f \in Surjection(Routes, Assets)
  BY DEF Surjection, Assets
<1>2. QED
  BY <1>1, Numbers, FS_Surjection, FS_CardinalityType

LEMMA AssetsCounted ==
    ASSUME NEW a \in Assets
    PROVE  Cardinality(Assets) \in Nat \ {0} /\ Place(Assets, a) \in Nat
<1>1. Cardinality(Assets) # 0
  BY AssetsFinite, FS_EmptySet
<1>2. {b \in Assets : b < a} \subseteq Assets
  OBVIOUS
<1>3. Place(Assets, a) \in Nat
  BY <1>2, AssetsFinite, FS_Subset, FS_CardinalityType DEF Place
<1>4. QED
  BY <1>1, <1>3, AssetsFinite

LEMMA Remainder ==
    ASSUME NEW x \in Int, NEW n \in Nat \ {0}
    PROVE  /\ x % n \in 0..(n - 1)
           /\ x % n # 0 => (x - 1) % n = (x % n) - 1
<1>1. x % n \in 0..(n - 1)
  OBVIOUS
<1>2. x % n # 0 => (x - 1) % n = (x % n) - 1
  OBVIOUS
<1>3. QED
  BY <1>1, <1>2

LEMMA TurnRange ==
    ASSUME NEW a \in Assets, round \in Nat
    PROVE  Turn(Assets, a) \in 0..(Cardinality(Assets) - 1)
BY AssetsCounted, Remainder DEF Turn

LEMMA QuotaPositive ==
    ASSUME NEW n \in Nat \ {0}
    PROVE  Quota(n) >= 1
BY Numbers DEF Quota

-----------------------------------------------------------------------------
(* The selection.                                                          *)

LEMMA ObservationsType ==
    ASSUME MemoryTyped, NEW r \in Routes
    PROVE  /\ Observations(r) \in Nat
           /\ Observations(r) = 0 => r \notin DOMAIN shadowSeen
<1>1. Evaluations(r) \in Nat
  BY DEF MemoryTyped, Histories, Evaluations
<1>2. Probed(r) \in Nat /\ (Probed(r) = 0 => r \notin DOMAIN shadowSeen)
  BY DEF MemoryTyped, Probed
<1>3. QED
  BY <1>1, <1>2 DEF Observations

LEMMA OneExplored ==
    ASSUME MemoryTyped, NEW C, C \subseteq Routes, NEW rank \in Rankings(C),
           NEW p \in Explored(C, rank), NEW q \in Explored(C, rank)
    PROVE  p = q
<1>1. p \in C /\ q \in C /\ Observations(p) \in Nat /\ Observations(q) \in Nat
  BY ObservationsType DEF Explored
<1>2. Cardinality(C) \in Nat
  BY RoutesFinite
<1>3. rank[p] \in Int /\ rank[q] \in Int /\ (rank[p] = rank[q] => p = q)
  BY <1>1, <1>2 DEF Rankings
<1>4. /\ \/ Observations(p) < Observations(q)
         \/ Observations(p) = Observations(q) /\ rank[p] <= rank[q]
      /\ \/ Observations(q) < Observations(p)
         \/ Observations(q) = Observations(p) /\ rank[q] <= rank[p]
  BY <1>1 DEF Explored
<1>5. QED
  BY <1>1, <1>3, <1>4

\* What SelectFacts says of the proposals chosen among C: they are the routes
\* added, each once, and the explored one is among the least observed.
Proposes(C, rank, chosen, S) ==
    /\ S \in Added(C, Earlier(C, rank, Explored(C, rank)))
    /\ S \subseteq C /\ Cardinality(S) \in Nat
    /\ chosen = [i \in 1..Cardinality(S) |-> chosen[i]]
    /\ Chosen(chosen) = S
    /\ \A i \in 1..Cardinality(S) :
         chosen[i].bucket = "explore" => chosen[i].route \in Explored(C, rank)

LEMMA SelectFacts ==
    ASSUME NEW C, C \subseteq Routes, NEW rank, NEW chosen \in Select(C, rank)
    PROVE  \E S : Proposes(C, rank, chosen, S)
<1> DEFINE explored == Explored(C, rank)
           earlier == Earlier(C, rank, explored)
<1>0. PICK S \in Added(C, earlier) : \E s \in InOrder(S, earlier) :
        chosen = [i \in DOMAIN s |->
           [route |-> s[i], bucket |-> IF s[i] \in explored THEN "explore" ELSE "exploit"]]
  BY DEF Select
<1>1. PICK s \in InOrder(S, earlier) :
        chosen = [i \in DOMAIN s |->
           [route |-> s[i], bucket |-> IF s[i] \in explored THEN "explore" ELSE "exploit"]]
  BY <1>0
<1>2. S \subseteq C
  BY <1>0 DEF Added
<1>3. IsFiniteSet(S) /\ Cardinality(S) \in Nat
  BY <1>2, RoutesFinite
<1>4. /\ s \in [1..Cardinality(S) -> S]
      /\ \A i \in 1..Cardinality(S) : Cardinality(S \intersect earlier[s[i]]) = i - 1
  <2> HIDE DEF earlier
  <2>1. QED
    BY <1>1 DEF InOrder
<1>5. s \in Injection(1..Cardinality(S), S)
  <2>1. ASSUME NEW i \in 1..Cardinality(S), NEW j \in 1..Cardinality(S), s[i] = s[j]
        PROVE  i = j
    <3> HIDE DEF earlier
    <3>1. i - 1 = j - 1
      BY <1>4, <2>1
    <3>2. QED
      BY <1>3, <3>1
  <2>2. QED
    BY <1>4, <2>1 DEF Injection, IsInjective
<1>6. s \in Surjection(1..Cardinality(S), S)
  <2>1. Cardinality(1..Cardinality(S)) = Cardinality(S)
    BY <1>3, FS_Interval
  <2>2. QED
    BY <1>3, <1>5, <2>1, FS_Injection
<1> HIDE DEF explored, earlier
<1>7. \A p \in S : \E i \in 1..Cardinality(S) : s[i] = p
  BY <1>6 DEF Surjection
<1>8. /\ DOMAIN chosen = 1..Cardinality(S)
      /\ \A i \in 1..Cardinality(S) : /\ chosen[i].route = s[i] /\ s[i] \in S
                                      /\ chosen[i].bucket = "explore" => s[i] \in explored
      /\ chosen = [i \in 1..Cardinality(S) |-> chosen[i]]
  BY <1>1, <1>4
<1>9. Chosen(chosen) = S
  BY <1>7, <1>8 DEF Chosen
<1>10. Proposes(C, rank, chosen, S)
  BY <1>0, <1>2, <1>3, <1>8, <1>9 DEF Proposes, explored, earlier
<1>11. QED
  BY <1>10

\* The asset whose turn comes first has a proposal.
LEMMA FirstTurnProposed ==
    ASSUME MemoryTyped, round \in Nat, NEW C, C \subseteq Routes, AssetsOf(C) = Assets,
           NEW rank \in Rankings(C), NEW S \in Added(C, Earlier(C, rank, Explored(C, rank))),
           NEW a \in Assets, Turn(Assets, a) = 0
    PROVE  \E r \in S : AssetOf[r] = a
<1> DEFINE explored == Explored(C, rank)
           earlier == Earlier(C, rank, explored)
<1>1. SUFFICES ASSUME \A r \in S : AssetOf[r] # a PROVE FALSE
  OBVIOUS
<1>2. PICK r \in C : AssetOf[r] = a
  BY DEF AssetsOf
<1> DEFINE before == S \intersect earlier[r]
<1>3. \A q \in before : q \in explored
  <2>1. SUFFICES ASSUME NEW q \in before, q \notin explored PROVE FALSE
    OBVIOUS
  <2>2. q \in S /\ q \in C /\ AssetOf[q] \in Assets /\ AssetOf[q] # a
    BY <1>1, <2>1 DEF Added, AssetsOf
  <2>3. Turn(Assets, AssetOf[q]) < Turn(Assets, a)
    BY <1>2, <2>1, <2>2 DEF Earlier
  <2>4. QED
    BY <2>2, <2>3, TurnRange
<1>4. Cardinality(before) < Limit
  <2>1. CASE before = {}
    BY <2>1, FS_EmptySet, Numbers
  <2>2. CASE before # {}
    <3>1. PICK q \in before : TRUE
      BY <2>2
    <3>2. before = {q}
      <4> HIDE DEF before, explored
      <4>1. \A p \in before : p = q
        BY <1>3, <3>1, OneExplored DEF explored
      <4>2. QED
        BY <3>1, <4>1
    <3>3. Limit > 1
      BY <1>3, <3>1 DEF Explored
    <3>4. QED
      BY <3>2, <3>3, FS_Singleton
  <2>3. QED
    BY <2>1, <2>2
<1>5. Cardinality({q \in before : AssetOf[q] = AssetOf[r]}) < Quota(Cardinality(AssetsOf(C)))
  <2>1. {q \in before : AssetOf[q] = AssetOf[r]} = {}
    BY <1>1, <1>2
  <2>2. Quota(Cardinality(Assets)) >= 1 /\ Quota(Cardinality(Assets)) \in Int
    BY AssetsCounted, QuotaPositive, Numbers DEF Quota
  <2>3. Cardinality({q \in before : AssetOf[q] = AssetOf[r]}) = 0
    BY <2>1, FS_EmptySet
  <2>4. QED
    BY <2>2, <2>3
<1>6. r \in S
  <2> HIDE DEF earlier
  <2>1. QED
    BY <1>2, <1>4, <1>5 DEF Added, earlier
<1>7. QED
  BY <1>1, <1>2, <1>6

-----------------------------------------------------------------------------
(* The steps.                                                              *)

LEMMA InitInv == Init => Inv
<1> SUFFICES ASSUME Init PROVE Inv
  OBVIOUS
<1>1. SnapshotInv
  BY DEF Init, SnapshotInv, NewestSnapshot, NoSnapshot, Idle, Input
<1>2. MemoryTyped
  <2>1. Empty \in [{} -> [evals : Nat, seen : Nat]]
    BY DEF Empty
  <2>2. Empty \in Histories
    BY <2>1 DEF Histories
  <2>3. QED
    BY <2>1, <2>2 DEF Init, MemoryTyped
<1>3. PassedInv
  <2>1. \A r \in Routes : Cardinality(DOMAIN shadowSeen \ {r}) \in Nat
    BY RoutesFinite DEF Init, Empty
  <2>2. QED
    BY <2>1 DEF Init, PassedInv
<1>4. SkippedInv
  <2>1. SUFFICES ASSUME NEW a \in Assets PROVE 0 + Turn(Assets, a) <= Cardinality(Assets) - 1
    BY DEF Init, SkippedInv
  <2>2. QED
    BY TurnRange, AssetsFinite DEF Init
<1>5. QED
  BY <1>1, <1>2, <1>3, <1>4 DEF Inv

\* Steps that neither offer nor take a snapshot.
SnapshotFrame == UNCHANGED <<offered, offer, mailbox, latest>>

LEMMA SnapshotStep == SnapshotInv /\ [Next]_vars => SnapshotInv'
<1> SUFFICES ASSUME SnapshotInv, [Next]_vars PROVE SnapshotInv'
  OBVIOUS
<1>1. ASSUME SnapshotFrame PROVE SnapshotInv'
  BY <1>1 DEF SnapshotFrame, SnapshotInv, NewestSnapshot
<1>2. ASSUME NEW u \in Snapshots, Offer(u) PROVE SnapshotInv'
  <2>1. u \in SUBSET Routes
    BY RoutesAssumption
  <2>2. [number |-> offered + 1, unresolved |-> u] \in Input
    BY <2>1 DEF SnapshotInv, Input
  <2>3. /\ offer' \in Offering /\ offer'.pc = "send" /\ offer'.input.number = offered'
        /\ offer' # Idle /\ offered' \in Nat
    BY <1>2, <2>2 DEF Offer, Offering, Idle, SnapshotInv
  <2>4. QED
    BY <1>2, <2>3 DEF Offer, SnapshotInv, NewestSnapshot
<1>3. CASE FirstSend
  <2>1. offer \in Offering /\ offer.input \in Input /\ offer.input.number = offered
    BY <1>3 DEF FirstSend, SnapshotInv, Idle, Offering
  <2>2. CASE mailbox = <<>>
    <3>1. mailbox' = <<offer.input>> /\ offer' = Idle /\ UNCHANGED <<offered, latest>>
      BY <1>3, <2>2 DEF FirstSend, AfterFirstSend
    <3>2. QED
      BY <2>1, <3>1 DEF SnapshotInv, NewestSnapshot, Idle
  <2>3. CASE mailbox # <<>>
    <3>1. /\ mailbox' = mailbox /\ UNCHANGED <<offered, latest>>
          /\ offer' = [offer EXCEPT !.pc = "drain"]
      BY <1>3, <2>3 DEF FirstSend, AfterFirstSend
    <3>2. offer' \in Offering /\ offer'.pc = "drain" /\ offer'.input = offer.input
      BY <2>1, <3>1 DEF Offering
    <3>3. QED
      BY <2>1, <3>1, <3>2 DEF SnapshotInv, NewestSnapshot, Idle
  <2>4. QED
    BY <2>2, <2>3
<1>4. CASE Drain
  <2>1. offer \in Offering /\ offer.input.number = offered
    BY <1>4 DEF Drain, SnapshotInv, Idle, Offering
  <2>2. /\ offer' \in Offering /\ offer'.pc = "resend" /\ offer'.input = offer.input
    BY <1>4, <2>1 DEF Drain, Offering
  <2>3. QED
    BY <1>4, <2>1, <2>2 DEF Drain, SnapshotInv, NewestSnapshot, Idle
<1>5. CASE Resend
  <2>1. offer \in Offering /\ offer.input \in Input /\ offer.input.number = offered /\ mailbox = <<>>
    BY <1>5 DEF Resend, SnapshotInv, Idle, Offering
  <2>2. mailbox' = <<offer.input>> /\ offer' = Idle /\ UNCHANGED <<offered, latest>>
    BY <1>5, <2>1 DEF Resend
  <2>3. QED
    BY <2>1, <2>2 DEF SnapshotInv, NewestSnapshot, Idle
<1>6. CASE TakeSnapshot
  <2>1. PICK x \in Input : mailbox = <<x>>
    BY <1>6 DEF TakeSnapshot, SnapshotInv
  <2>2. latest' = x /\ mailbox' = <<>> /\ UNCHANGED <<offered, offer>>
    BY <1>6, <2>1 DEF TakeSnapshot, marketVars
  <2>3. QED
    BY <2>1, <2>2 DEF SnapshotInv, NewestSnapshot
<1>7. CASE Restart
  <2>1. offered' = 0 /\ offer' = Idle /\ mailbox' = <<>> /\ latest' = NoSnapshot
    BY <1>7 DEF Restart
  <2>2. NoSnapshot \in Input /\ NoSnapshot.number = 0 /\ Idle.pc # "resend"
    BY DEF NoSnapshot, Input, Idle
  <2>3. QED
    BY <2>1, <2>2 DEF SnapshotInv, NewestSnapshot
<1>8. CASE UNCHANGED vars
  BY <1>1, <1>8 DEF vars, marketVars, SnapshotFrame
<1>9. CASE (\E r \in Routes : Observe(r)) \/ TakeObservation \/ AnalyzeTick
  <2>1. CASE AnalyzeTick
    <3>1. SnapshotFrame
      BY <2>1, Zenon DEF AnalyzeTick, Analyze, marketVars, SnapshotFrame
    <3>2. QED
      BY <1>1, <3>1
  <2>2. QED
    BY <1>1, <1>9, <2>1 DEF Observe, TakeObservation, marketVars, SnapshotFrame
<1>10. CASE (\E ok \in BOOLEAN : Read(ok)) \/ SaveHistory \/ MinutePasses \/ MarketBusy
  BY <1>1, <1>10 DEF Read, SaveHistory, MinutePasses, MarketBusy, marketVars, SnapshotFrame
<1>11. QED
  BY <1>2, <1>3, <1>4, <1>5, <1>6, <1>7, <1>8, <1>9, <1>10 DEF Next

LEMMA PrunedTyped ==
    ASSUME NEW h \in Histories, NEW g \in Pruned(h)
    PROVE  g \in Histories
<1>1. PICK D \in SUBSET Routes : h \in [D -> [evals : Nat, seen : Nat]]
  BY DEF Histories
<1>2. PICK keep \in SUBSET DOMAIN h : g = [r \in keep |-> h[r]]
  BY DEF Pruned
<1>3. g \in [keep -> [evals : Nat, seen : Nat]] /\ keep \in SUBSET Routes
  BY <1>1, <1>2
<1>4. QED
  BY <1>3 DEF Histories

LEMMA RememberedFacts ==
    ASSUME MemoryTyped, NEW r \in Routes
    PROVE  /\ DOMAIN Remembered(r) \subseteq DOMAIN shadowSeen \union {r}
           /\ RoutesFit => DOMAIN Remembered(r) = DOMAIN shadowSeen \union {r}
           /\ \A q \in DOMAIN Remembered(r) : Remembered(r)[q] \in Nat \ {0}
<1> DEFINE full == r \notin DOMAIN shadowSeen /\ Cardinality(DOMAIN shadowSeen) >= MaxHistory
           least == CHOOSE k \in DOMAIN shadowSeen : \A q \in DOMAIN shadowSeen : k <= q
           kept == IF full THEN DOMAIN shadowSeen \ {least} ELSE DOMAIN shadowSeen
<1>1. RoutesFit => ~full
  <2>1. SUFFICES ASSUME RoutesFit, r \notin DOMAIN shadowSeen
                 PROVE  Cardinality(DOMAIN shadowSeen) < MaxHistory
    BY RoutesFinite, Numbers DEF MemoryTyped
  <2>2. DOMAIN shadowSeen \subseteq Routes \ {r}
    BY <2>1 DEF MemoryTyped
  <2>3. IsFiniteSet(Routes \ {r}) /\ Cardinality(Routes \ {r}) = Cardinality(Routes) - 1
    BY Numbers, FS_RemoveElement
  <2>4. Cardinality(DOMAIN shadowSeen) <= Cardinality(Routes) - 1 /\ Cardinality(DOMAIN shadowSeen) \in Nat
    BY <2>2, <2>3, FS_Subset, FS_CardinalityType
  <2>5. QED
    BY <2>1, <2>4, Numbers DEF RoutesFit
<1>2. Remembered(r) = [q \in kept \union {r} |-> IF q = r THEN Probed(r) + 1 ELSE shadowSeen[q]]
  BY DEF Remembered
<1>3. Probed(r) \in Nat
  BY DEF MemoryTyped, Probed
<1>4. kept \subseteq DOMAIN shadowSeen /\ (RoutesFit => kept = DOMAIN shadowSeen)
  BY <1>1
<1> HIDE DEF kept
<1>5. QED
  BY <1>2, <1>3, <1>4 DEF MemoryTyped

LEMMA MemoryStep == MemoryTyped /\ [Next]_vars => MemoryTyped' \/ AnalyzeTick
<1> SUFFICES ASSUME MemoryTyped, [Next]_vars, ~AnalyzeTick PROVE MemoryTyped'
  OBVIOUS
<1>1. ASSUME UNCHANGED <<history, saved, shadowSeen, observations, observed>> PROVE MemoryTyped'
  BY <1>1 DEF MemoryTyped
<1>2. ASSUME NEW r \in Routes, Observe(r) PROVE MemoryTyped'
  <2>1. observations' \in Seq(LiveRoutes) /\ observed' \in Nat
    BY <1>2 DEF Observe, MemoryTyped
  <2>2. QED
    BY <1>2, <2>1 DEF Observe, MemoryTyped, memoryVars
<1>3. CASE TakeObservation
  <2> DEFINE r == Head(observations)
             h == [q \in DOMAIN history \union {r} |->
                     IF q = r THEN [evals |-> Evaluations(r) + 1, seen |-> observed] ELSE history[q]]
  <2>1. r \in Routes /\ Tail(observations) \in Seq(LiveRoutes)
    BY <1>3, Numbers DEF TakeObservation, MemoryTyped
  <2>2. PICK D \in SUBSET Routes : history \in [D -> [evals : Nat, seen : Nat]]
    BY DEF MemoryTyped, Histories
  <2>3. Evaluations(r) + 1 \in Nat /\ observed \in Nat
    BY <2>2 DEF Evaluations, MemoryTyped
  <2>4. h \in [D \union {r} -> [evals : Nat, seen : Nat]] /\ D \union {r} \in SUBSET Routes
    BY <2>1, <2>2, <2>3
  <2>5. h \in Histories
    BY <2>4 DEF Histories
  <2>6. history' \in Pruned(h)
    BY <1>3 DEF TakeObservation
  <2>7. history' \in Histories
    BY <2>5, <2>6, PrunedTyped
  <2>8. QED
    BY <1>3, <2>1, <2>7 DEF TakeObservation, MemoryTyped, marketVars
<1>4. CASE SaveHistory
  BY <1>4 DEF SaveHistory, MemoryTyped, marketVars
<1>5. CASE Restart
  <2>1. saved' \in Histories
    BY <1>5 DEF Restart, MemoryTyped
  <2>2. history' \in Histories
    BY <1>5, <2>1, PrunedTyped DEF Restart
  <2>3. QED
    BY <1>5, <2>1, <2>2 DEF Restart, MemoryTyped, Empty
<1>6. CASE UNCHANGED vars
  BY <1>1, <1>6 DEF vars, marketVars, memoryVars
<1>7. CASE (\E u \in Snapshots : Offer(u)) \/ FirstSend \/ Drain \/ Resend \/ TakeSnapshot
  BY <1>1, <1>7 DEF Offer, FirstSend, Drain, Resend, TakeSnapshot, marketVars, memoryVars
<1>8. CASE (\E ok \in BOOLEAN : Read(ok)) \/ MinutePasses \/ MarketBusy
  BY <1>1, <1>8 DEF Read, MinutePasses, MarketBusy, marketVars, memoryVars
<1>9. QED
  BY <1>2, <1>3, <1>4, <1>5, <1>6, <1>7, <1>8 DEF Next

\* The proposal that is quoted.
LEMMA QuotedFacts ==
    ASSUME round \in Nat, NEW C, NEW rank, NEW chosen, NEW S, Proposes(C, rank, chosen, S),
           chosen # <<>>
    PROVE  /\ chosen[(round % Len(chosen)) + 1].route \in C
           /\ chosen[1].bucket = "explore" => chosen[1].route \in Explored(C, rank)
<1>1. S \subseteq C /\ Cardinality(S) \in Nat /\ Chosen(chosen) = S
  BY DEF Proposes
<1>2. DOMAIN chosen = 1..Cardinality(S) /\ Len(chosen) = Cardinality(S)
  BY <1>1 DEF Proposes
<1>3. Cardinality(S) # 0
  BY <1>1, <1>2 DEF Proposes
<1>4. (round % Len(chosen)) + 1 \in DOMAIN chosen /\ 1 \in DOMAIN chosen
  <2> DEFINE n == Len(chosen)
  <2>1. n \in Nat \ {0} /\ round \in Int /\ DOMAIN chosen = 1..n
    BY <1>1, <1>2, <1>3
  <2> HIDE DEF n
  <2>2. round % n \in 0..(n - 1)
    BY <2>1, Remainder
  <2>3. (round % n) + 1 \in 1..n /\ 1 \in 1..n
    BY <2>1, <2>2
  <2>4. QED
    BY <2>1, <2>3 DEF n
<1>5. QED
  BY <1>1, <1>2, <1>4 DEF Chosen, Proposes

LEMMA AnalysisStep ==
    Inv /\ AnalyzeTick => MemoryTyped' /\ PassedInv' /\ SkippedInv'
<1> SUFFICES ASSUME Inv, AnalyzeTick
             PROVE  MemoryTyped' /\ PassedInv' /\ SkippedInv'
  OBVIOUS
<1>1. PICK qualified \in SUBSET (Routes \ LiveRoutes), cap \in DepthCaps :
        \E rank \in Rankings(Candidates(qualified)) :
            \E chosen \in Select(Candidates(qualified), rank) :
                Analyze(Candidates(qualified), chosen, cap)
  BY DEF AnalyzeTick
<1> DEFINE C == Candidates(qualified)
<1>2. PICK rank \in Rankings(C) : \E chosen \in Select(C, rank) : Analyze(C, chosen, cap)
  BY <1>1
<1>3. PICK chosen \in Select(C, rank) : Analyze(C, chosen, cap)
  BY <1>2
<1>4. C \subseteq Routes /\ C \intersect latest.unresolved = {}
  BY Numbers DEF Candidates
<1> HIDE DEF C
<1>5. PICK S : Proposes(C, rank, chosen, S)
  BY <1>3, <1>4, SelectFacts
<1> DEFINE r == chosen[(round % Len(chosen)) + 1].route
           probes == chosen # <<>> /\ Ladder(Amounts[AssetOf[r]], cap) # {}
           explores == probes /\ r = chosen[1].route /\ chosen[1].bucket = "explore"
<1>6. /\ round' = round + 1
      /\ shadowSeen' = IF probes THEN Remembered(r) ELSE shadowSeen
      /\ passed' = [q \in Routes |->
             IF q \notin C \/ Observations(q) > 0 \/ (explores /\ q = r) THEN 0
             ELSE IF explores THEN passed[q] + 1 ELSE passed[q]]
      /\ skipped' = [a \in Assets |->
             IF \/ AssetsOf(C) # Assets \/ \E q \in Chosen(chosen) : AssetOf[q] = a
             THEN 0 ELSE skipped[a] + 1]
      /\ UNCHANGED <<observations, observed, history, saved>>
  BY <1>3, Zenon DEF Analyze, marketVars
<1>8. probes => r \in C
  BY <1>5, QuotedFacts DEF Inv, SkippedInv
<1>9. explores => r \in Explored(C, rank)
  BY <1>5, QuotedFacts DEF Inv, SkippedInv
<1> HIDE DEF r, probes, explores
<1>10. /\ DOMAIN shadowSeen' \subseteq DOMAIN shadowSeen \union (IF probes THEN {r} ELSE {})
       /\ RoutesFit => DOMAIN shadowSeen' = DOMAIN shadowSeen \union (IF probes THEN {r} ELSE {})
  BY <1>4, <1>6, <1>8, RememberedFacts DEF Inv
<1>11. MemoryTyped'
  <2>1. \A q \in DOMAIN shadowSeen' : shadowSeen'[q] \in Nat \ {0}
    BY <1>4, <1>6, <1>8, RememberedFacts DEF Inv, MemoryTyped
  <2>2. DOMAIN shadowSeen' \subseteq Routes
    BY <1>4, <1>8, <1>10 DEF Inv, MemoryTyped
  <2>3. QED
    BY <1>6, <2>1, <2>2 DEF Inv, MemoryTyped
<1>12. PassedInv'
  <2>1. SUFFICES ASSUME NEW q \in Routes
                 PROVE  /\ passed'[q] \in Nat
                        /\ RoutesFit => passed'[q] <= Cardinality(DOMAIN shadowSeen' \ {q})
    BY <1>6 DEF PassedInv, RoutesFit
  <2> DEFINE was == DOMAIN shadowSeen \ {q}
             now == DOMAIN shadowSeen' \ {q}
  <2>2. was \subseteq Routes /\ now \subseteq Routes /\ (RoutesFit => was \subseteq now)
    BY <1>10, <1>11 DEF Inv, MemoryTyped
  <2>3. /\ IsFiniteSet(was) /\ Cardinality(was) \in Nat /\ Cardinality(now) \in Nat
        /\ RoutesFit => Cardinality(was) <= Cardinality(now)
    BY <2>2, RoutesFinite, FS_Subset
  <2>4. passed[q] \in Nat /\ (RoutesFit => passed[q] <= Cardinality(was))
    BY DEF Inv, PassedInv
  <2>5. passed'[q] = IF q \notin C \/ Observations(q) > 0 \/ (explores /\ q = r) THEN 0
                     ELSE IF explores THEN passed[q] + 1 ELSE passed[q]
    BY <1>6
  <2>6. CASE q \notin C \/ Observations(q) > 0 \/ (explores /\ q = r)
    <3> HIDE DEF was, now
    <3>1. passed'[q] = 0
      BY <2>5, <2>6
    <3>2. QED
      BY <2>3, <3>1 DEF now
  <2>7. CASE q \in C /\ ~(Observations(q) > 0) /\ ~explores
    <3>1. passed'[q] = passed[q]
      BY <2>5, <2>7
    <3> HIDE DEF was
    <3>2. QED
      BY <2>3, <2>4, <3>1
  <2>8. CASE q \in C /\ ~(Observations(q) > 0) /\ explores /\ q # r
    <3>1. r \in C /\ r \in Routes /\ probes
      BY <1>4, <1>8, <2>8 DEF explores
    <3>2. Observations(r) \in Nat /\ Observations(q) \in Nat
      BY <3>1, ObservationsType DEF Inv
    <3>3. Observations(r) <= Observations(q)
      BY <1>9, <2>8, <3>2 DEF Explored
    <3>4. Observations(r) = 0
      BY <2>8, <3>2, <3>3
    <3>5. r \notin DOMAIN shadowSeen
      BY <3>1, <3>4, ObservationsType DEF Inv
    <3>6. RoutesFit => now = was \union {r} /\ r \notin was
      BY <1>10, <2>8, <3>1, <3>5
    <3> HIDE DEF was
    <3>7. RoutesFit => Cardinality(now) = Cardinality(was) + 1
      BY <2>3, <3>6, FS_AddElement
    <3>8. passed'[q] = passed[q] + 1
      BY <2>5, <2>8
    <3>9. QED
      BY <2>3, <2>4, <3>7, <3>8
  <2>9. QED
    BY <2>6, <2>7, <2>8
<1>13. SkippedInv'
  <2>1. round \in Nat /\ skipped \in [Assets -> Nat]
    BY DEF Inv, SkippedInv
  <2>2. SUFFICES ASSUME NEW a \in Assets
                 PROVE  /\ skipped'[a] \in Nat
                        /\ skipped'[a] + (Turn(Assets, a))' <= Cardinality(Assets) - 1
    BY <1>6, <2>1 DEF SkippedInv
  <2> DEFINE n == Cardinality(Assets)
             x == Place(Assets, a) - round
  <2>3. n \in Nat \ {0} /\ x \in Int
    BY <2>1, AssetsCounted
  <2>4. Turn(Assets, a) = x % n /\ (Turn(Assets, a))' = (x - 1) % n
    <3>1. (Turn(Assets, a))' = (Place(Assets, a) - round') % n
      BY DEF Turn, Place
    <3>2. Place(Assets, a) - round' = x - 1
      BY <1>6, <2>1, AssetsCounted
    <3>3. QED
      BY <3>1, <3>2 DEF Turn
  <2>5. skipped[a] \in Nat /\ skipped[a] + (x % n) <= n - 1
    BY <2>1, <2>4 DEF Inv, SkippedInv
  <2>6. CASE AssetsOf(C) # Assets \/ \E q \in Chosen(chosen) : AssetOf[q] = a
    <3>1. skipped'[a] = 0
      BY <1>6, <2>6
    <3> HIDE DEF n, x
    <3>2. (x - 1) % n \in 0..(n - 1)
      BY <2>3, Remainder
    <3>3. QED
      BY <2>3, <2>4, <3>1, <3>2 DEF n
  <2>7. CASE AssetsOf(C) = Assets /\ ~(\E q \in Chosen(chosen) : AssetOf[q] = a)
    <3>1. skipped'[a] = skipped[a] + 1
      BY <1>6, <2>7
    <3>2. Turn(Assets, a) # 0
      <4>1. SUFFICES ASSUME Turn(Assets, a) = 0 PROVE FALSE
        OBVIOUS
      <4>2. MemoryTyped /\ S \in Added(C, Earlier(C, rank, Explored(C, rank))) /\ Chosen(chosen) = S
        BY <1>5 DEF Proposes, Inv
      <4>3. \E q \in S : AssetOf[q] = a
        BY <1>2, <1>4, <2>1, <2>7, <4>1, <4>2, FirstTurnProposed
      <4>4. QED
        BY <2>7, <4>2, <4>3
    <3> HIDE DEF n, x
    <3>3. (x - 1) % n = (x % n) - 1 /\ x % n \in 0..(n - 1)
      BY <2>3, <2>4, <3>2, Remainder
    <3>4. QED
      BY <2>3, <2>4, <2>5, <3>1, <3>3 DEF n
  <2>8. QED
    BY <2>6, <2>7
<1>14. QED
  BY <1>11, <1>12, <1>13

\* An analysis apart, only a restart touches the counters, and resets them.
LEMMA CountersStep ==
    PassedInv /\ SkippedInv /\ [Next]_vars => AnalyzeTick \/ (PassedInv' /\ SkippedInv')
<1> SUFFICES ASSUME PassedInv, SkippedInv, [Next]_vars, ~AnalyzeTick PROVE PassedInv' /\ SkippedInv'
  OBVIOUS
<1>1. ASSUME UNCHANGED <<shadowSeen, round, passed, skipped>> PROVE PassedInv' /\ SkippedInv'
  <2>1. \A a \in Assets : (Turn(Assets, a))' = Turn(Assets, a)
    BY <1>1 DEF Turn, Place
  <2>2. QED
    BY <1>1, <2>1 DEF PassedInv, RoutesFit, SkippedInv
<1>2. CASE Restart
  <2>1. /\ shadowSeen' = Empty /\ round' = 0
        /\ passed' = [r \in Routes |-> 0] /\ skipped' = [a \in Assets |-> 0]
    BY <1>2 DEF Restart
  <2>2. \A r \in Routes : Cardinality(DOMAIN shadowSeen' \ {r}) \in Nat
    BY <2>1, RoutesFinite DEF Empty
  <2>3. PassedInv'
    BY <2>1, <2>2 DEF PassedInv
  <2>4. ASSUME NEW a \in Assets
        PROVE  0 + (Turn(Assets, a))' <= Cardinality(Assets) - 1
    <3>1. (Turn(Assets, a))' = (Place(Assets, a) - round') % Cardinality(Assets)
      BY DEF Turn, Place
    <3> DEFINE n == Cardinality(Assets)
               x == Place(Assets, a) - 0
    <3>2. n \in Nat \ {0} /\ x \in Int
      BY AssetsCounted
    <3>3. (Turn(Assets, a))' = x % n
      BY <2>1, <3>1
    <3> HIDE DEF n, x
    <3>4. x % n \in 0..(n - 1)
      BY <3>2, Remainder
    <3>5. QED
      BY <3>2, <3>3, <3>4 DEF n
  <2>5. SkippedInv'
    BY <2>1, <2>4 DEF SkippedInv
  <2>6. QED
    BY <2>3, <2>5
<1>3. CASE UNCHANGED vars
  BY <1>1, <1>3 DEF vars, memoryVars, analysisVars
<1>4. CASE (\E u \in Snapshots : Offer(u)) \/ FirstSend \/ Drain \/ Resend \/ TakeSnapshot
  BY <1>1, <1>4 DEF Offer, FirstSend, Drain, Resend, TakeSnapshot, memoryVars, analysisVars
<1>5. CASE (\E r \in Routes : Observe(r)) \/ TakeObservation \/ SaveHistory
  BY <1>1, <1>5 DEF Observe, TakeObservation, SaveHistory, memoryVars, analysisVars
<1>6. CASE (\E ok \in BOOLEAN : Read(ok)) \/ MinutePasses \/ MarketBusy
  BY <1>1, <1>6 DEF Read, MinutePasses, MarketBusy, memoryVars, analysisVars
<1>7. QED
  BY <1>2, <1>3, <1>4, <1>5, <1>6 DEF Next

LEMMA InvHolds == Spec => []Inv
<1>1. Inv /\ [Next]_vars => Inv'
  <2> SUFFICES ASSUME Inv, [Next]_vars PROVE Inv'
    OBVIOUS
  <2>1. SnapshotInv'
    BY SnapshotStep DEF Inv
  <2>2. MemoryTyped' /\ PassedInv' /\ SkippedInv'
    BY AnalysisStep, MemoryStep, CountersStep DEF Inv
  <2>3. QED
    BY <2>1, <2>2 DEF Inv
<1>2. QED
  BY <1>1, InitInv, PTL DEF Spec

-----------------------------------------------------------------------------
(* The theorems.                                                           *)

\* However Offer's send, drain and second send interleave with Run, for any
\* number of snapshots and restarts the newest one is waiting or the one to
\* analyse as soon as its Offer is over (service.go: Offer, Run).
THEOREM NewestIsKept == Spec => []NewestSnapshot
<1>1. Inv => NewestSnapshot
  BY DEF Inv, SnapshotInv
<1>2. QED
  BY <1>1, InvHolds, PTL

\* For any rankings, a candidate that was never sampled is passed over by fewer
\* probed explorations than there are routes, because each of them samples one
\* more of the others, as long as the sampling history has place for all.  It
\* bounds the explorations that end in a probe, not those with an empty ladder
\* (quality.go: Select; service.go: rememberShadow).
THEOREM NoRouteStarves == RoutesFit => (Spec => []ExplorationReaches)
<1>1. RoutesFit /\ Inv => ExplorationReaches
  <2> SUFFICES ASSUME RoutesFit, Inv, NEW r \in Routes PROVE passed[r] < Cardinality(Routes)
    BY DEF ExplorationReaches
  <2>1. passed[r] \in Nat /\ passed[r] <= Cardinality(DOMAIN shadowSeen \ {r})
    BY DEF Inv, PassedInv
  <2>2. DOMAIN shadowSeen \ {r} \subseteq Routes \ {r}
    BY DEF Inv, MemoryTyped
  <2>3. IsFiniteSet(Routes \ {r}) /\ Cardinality(Routes \ {r}) = Cardinality(Routes) - 1
    BY Numbers, FS_RemoveElement
  <2>4. /\ Cardinality(DOMAIN shadowSeen \ {r}) <= Cardinality(Routes) - 1
        /\ Cardinality(DOMAIN shadowSeen \ {r}) \in Nat
    BY <2>2, <2>3, FS_Subset, FS_CardinalityType
  <2>5. QED
    BY <2>1, <2>4, Numbers
<1>2. SUFFICES ASSUME RoutesFit PROVE Spec => []ExplorationReaches
  OBVIOUS
<1>3. RoutesFit
  BY <1>2
<1>4. Inv => ExplorationReaches
  BY <1>1, <1>3
<1>5. QED
  BY <1>4, InvHolds, PTL

\* For any limit of proposals and any rankings, in any |Assets| analyses in a row
\* with candidates for every asset each asset has a proposal, because the
\* rotating start gives it the first turn in one of them (quality.go: Select).
THEOREM NoAssetStarves == Spec => []AssetsRotate
<1>1. Inv => AssetsRotate
  <2> SUFFICES ASSUME Inv, NEW a \in Assets PROVE skipped[a] < Cardinality(Assets)
    BY DEF AssetsRotate
  <2>1. skipped[a] \in Nat /\ skipped[a] + Turn(Assets, a) <= Cardinality(Assets) - 1
    BY DEF Inv, SkippedInv
  <2>2. Turn(Assets, a) \in 0..(Cardinality(Assets) - 1)
    BY TurnRange DEF Inv, SkippedInv
  <2>3. QED
    BY <2>1, <2>2, AssetsFinite
<1>2. QED
  BY <1>1, InvHolds, PTL
=============================================================================
