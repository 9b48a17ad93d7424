-------------------------- MODULE PairMemoryProofs --------------------------
(***************************************************************************)
(* Proofs about PairMemory, for any pairs, limits and windows: the limits  *)
(* of the memory and of the market graph hold, a cooldown is served, and   *)
(* an admitted pair has exactly the grace it was promised, whatever a      *)
(* crash, a save that failed or an unreadable file makes the memory forget.*)
(***************************************************************************)
EXTENDS PairMemory, FiniteSetTheorems, TLAPS

-----------------------------------------------------------------------------
(* Finite sets.                                                            *)

LEMMA SmallestSet ==
    ASSUME NEW S, IsFiniteSet(S), NEW F, F \subseteq SUBSET S, F # {}
    PROVE  \E x \in F : \A y \in F : ~(y \subseteq x /\ y # x)
<1>1. IsWellFoundedOn(StrictSubsetOrdering(S), SUBSET S)
  <2>1. FiniteSubsetsOf(S) = SUBSET S
    BY FS_FiniteSubsetsOfFinite
  <2>2. QED
    BY <2>1, FS_StrictSubsetOrderingWellFounded
<1>2. \E x \in F : \A y \in F : ~(<<y, x>> \in StrictSubsetOrdering(S))
  BY <1>1, WFMin
<1>3. QED
  BY <1>2 DEF StrictSubsetOrdering

LEMMA PairsFacts ==
    ASSUME NEW S, S \subseteq Pairs
    PROVE  /\ IsFiniteSet(S) /\ Cardinality(S) \in Nat
           /\ IsFiniteSet(Dynamic(S)) /\ Cardinality(Dynamic(S)) \in Nat
<1>1. IsFiniteSet(S)
  BY PairsAssumption, FS_Subset
<1>2. IsFiniteSet({TokensOf[p] : p \in S})
  <2> DEFINE f == [p \in S |-> TokensOf[p]]
             img == {TokensOf[p] : p \in S}
  <2>1. f \in Surjection(S, img)
    BY DEF Surjection
  <2>2. QED
    BY <2>1, <1>1, FS_Surjection
<1>3. IsFiniteSet(UNION {TokensOf[p] : p \in S})
  BY <1>2, PairsAssumption, FS_UNION
<1>4. IsFiniteSet(Dynamic(S))
  BY <1>3, FS_Subset DEF Dynamic
<1>5. QED
  BY <1>1, <1>4, FS_CardinalityType

LEMMA FewerPairs ==
    ASSUME NEW S, S \subseteq Pairs, NEW R, R \subseteq S
    PROVE  /\ Cardinality(R) <= Cardinality(S)
           /\ Cardinality(Dynamic(R)) <= Cardinality(Dynamic(S))
<1>1. Dynamic(R) \subseteq Dynamic(S)
  BY DEF Dynamic
<1>2. QED
  BY <1>1, PairsFacts, FS_Subset

-----------------------------------------------------------------------------
(* The greedy choice.                                                      *)

\* Of finitely many candidates taken, one was taken last.
LEMMA LastTaken ==
    ASSUME NEW T, T \subseteq Pairs, T # {}, NEW score, \A p \in T : score[p] \in Nat
    PROVE  \E p \in T : \A q \in T \ {p} : Better(score, q, p)
<1> DEFINE after(p) == {q \in T : Better(score, p, q)}
           F == {after(p) : p \in T}
<1>1. IsFiniteSet(T)
  BY PairsFacts
<1>a. F \subseteq SUBSET T /\ F # {}
  OBVIOUS
<1>2. PICK x \in F : \A y \in F : ~(y \subseteq x /\ y # x)
  <2> HIDE DEF F
  <2>1. QED
    BY <1>1, <1>a, SmallestSet
<1>3. PICK p \in T : x = after(p)
  BY <1>2
<1>4. after(p) = {}
  <2>1. SUFFICES ASSUME NEW q \in after(p) PROVE FALSE
    OBVIOUS
  <2>2. q \in T /\ Better(score, p, q)
    BY <2>1
  <2>3. after(q) \subseteq after(p)
    <3>1. SUFFICES ASSUME NEW r \in T, Better(score, q, r) PROVE Better(score, p, r)
      OBVIOUS
    <3>2. {p, q, r} \subseteq Nat /\ {score[p], score[q], score[r]} \subseteq Nat
      BY <1>3, <2>2, <3>1, PairsAssumption
    <3>3. QED
      BY <2>2, <3>1, <3>2 DEF Better
  <2>4. q \notin after(q)
    BY <2>2, PairsAssumption DEF Better
  <2>5. QED
    BY <1>2, <1>3, <2>1, <2>2, <2>3, <2>4
<1>5. SUFFICES ASSUME NEW q \in T \ {p} PROVE Better(score, q, p)
  BY <1>3
<1>6. ~Better(score, p, q)
  BY <1>4, <1>5
<1>7. p \in Nat /\ q \in Nat /\ score[p] \in Nat /\ score[q] \in Nat /\ p # q
  BY <1>3, <1>5, PairsAssumption
<1>8. QED
  BY <1>6, <1>7 DEF Better

\* What SelectShadow and SelectLive choose is within the limits, if the pairs
\* kept beforehand are.
LEMMA ChoiceBounded ==
    ASSUME NEW base, base \subseteq Pairs, NEW candidates, candidates \subseteq Pairs,
           NEW score, \A p \in candidates : score[p] \in Nat,
           NEW maxPairs \in Nat, NEW maxAssets \in Nat,
           Cardinality(base) <= maxPairs, Cardinality(Dynamic(base)) <= maxAssets,
           NEW chosen \in Choices(base, candidates, score, maxPairs, maxAssets)
    PROVE  /\ base \subseteq chosen /\ chosen \subseteq base \union candidates
           /\ Cardinality(chosen) <= maxPairs
           /\ Cardinality(Dynamic(chosen)) <= maxAssets
<1>1. PICK T \in SUBSET candidates :
        /\ chosen = base \union T
        /\ \A p \in candidates :
              p \in T <=> Room(base \union {q \in T : Better(score, q, p)}, p, maxPairs, maxAssets)
  BY DEF Choices
<1>2. CASE T = {}
  <2>1. chosen = base
    BY <1>1, <1>2
  <2>2. QED
    BY <2>1
<1>3. CASE T # {}
  <2>1. PICK p \in T : \A q \in T \ {p} : Better(score, q, p)
    BY <1>1, <1>3, LastTaken
  <2> DEFINE acc == base \union {q \in T : Better(score, q, p)}
  <2>2. Room(acc, p, maxPairs, maxAssets)
    BY <1>1, <2>1
  <2>3. chosen = acc \union {p}
    BY <1>1, <2>1
  <2>4. acc \subseteq Pairs /\ p \in Pairs
    BY <1>1, <2>1
  <2>5. IsFiniteSet(acc) /\ Cardinality(acc) \in Nat
    BY <2>4, PairsFacts
  <2> HIDE DEF acc
  <2>6. Cardinality(acc \union {p}) \in {Cardinality(acc), Cardinality(acc) + 1}
    BY <2>5, FS_AddElement
  <2>7. Cardinality(acc \union {p}) \in Nat
    BY <2>4, PairsFacts
  <2>8. Cardinality(acc) < maxPairs /\ Cardinality(Dynamic(chosen)) <= maxAssets
    BY <2>2, <2>3 DEF Room
  <2>9. Cardinality(chosen) <= maxPairs
    BY <2>3, <2>5, <2>6, <2>8
  <2>10. QED
    BY <1>1, <2>8, <2>9
<1>4. QED
  BY <1>2, <1>3

-----------------------------------------------------------------------------
(* The invariant: one statement about a memory, which holds of the memory  *)
(* of the process and of the one in the file.                              *)

PairRecord ==
    [venues : SUBSET Pools, state : States, age : 0..MinObservation, cooling : 0..Cooldown,
     below : Nat]

In(m, s) == {p \in DOMAIN m : m[p].state = s}

TypesOf(m, rest, grace) ==
    /\ DOMAIN m \subseteq Pairs /\ m \in [DOMAIN m -> PairRecord]
    /\ rest \in [Pairs -> 0..Cooldown] /\ grace \in [Pairs -> Nat]

Within(S, maxPairs, maxAssets) ==
    Cardinality(S) <= maxPairs /\ Cardinality(Dynamic(S)) <= maxAssets

BoundedOf(m) ==
    /\ Cardinality(DOMAIN m) <= MaxTrackedPairs
    /\ Within(In(m, "admitted"), MaxLivePairs, MaxLiveDynamicAssets)
    /\ Within(In(m, "shadow"), MaxShadowPairs, MaxDynamicAssets)

\* A rest still owed is in the pair's record, or is no longer than what the
\* pair still has to be observed: a pair that was forgotten and tracked again
\* starts its observation anew.
RestKnown(m, rest) ==
    /\ \A p \in DOMAIN m : \/ m[p].state = "cooled" /\ rest[p] <= m[p].cooling
                           \/ rest[p] + m[p].age <= MinObservation
    /\ \A p \in Pairs \ DOMAIN m : rest[p] <= MinObservation

Served(m, rest) == \A p \in In(m, "admitted") \union In(m, "shadow") : rest[p] = 0

\* The record of an admitted pair counts its grace windows.
GraceKnown(m, grace) ==
    /\ \A p \in In(m, "admitted") : grace[p] = m[p].below
    /\ \A p \in Pairs : grace[p] < EjectWindows

Sound(m, rest, grace) ==
    /\ TypesOf(m, rest, grace)
    /\ BoundedOf(m)
    /\ RestKnown(m, rest) /\ Served(m, rest)
    /\ GraceKnown(m, grace)

IsFile(file) ==
    file = [tokens |-> file.tokens, pairs |-> file.pairs, resting |-> file.resting, unfit |-> file.unfit]

Inv ==
    /\ live \subseteq Pairs /\ Within(live, MaxLivePairs, MaxLiveDynamicAssets)
    /\ Sound(pairs, resting, unfit)
    /\ IsFile(saved)
    /\ Sound(saved.pairs, saved.resting, saved.unfit)

-----------------------------------------------------------------------------
(* What the steps do to a memory.                                          *)

LEMMA Numbers ==
    /\ MaxTrackedPairs \in Nat /\ MaxTrackedPairs > 0
    /\ MaxShadowPairs \in Nat /\ MaxDynamicAssets \in Nat
    /\ MaxLivePairs \in Nat /\ MaxLiveDynamicAssets \in Nat
    /\ MinObservation \in Nat /\ MinObservation > 0 /\ Cooldown \in Nat /\ Cooldown > 0
    /\ EjectWindows \in Nat /\ EjectWindows > 0
BY LimitsAssumption

LEMMA EmptyWithin ==
    ASSUME NEW S, S = {}, NEW maxPairs \in Nat, NEW maxAssets \in Nat
    PROVE  Within(S, maxPairs, maxAssets)
<1>1. Dynamic(S) = {}
  BY DEF Dynamic
<1>2. QED
  BY <1>1, FS_EmptySet DEF Within

LEMMA FewerWithin ==
    ASSUME NEW S, S \subseteq Pairs, NEW R, R \subseteq S,
           NEW maxPairs \in Nat, NEW maxAssets \in Nat, Within(S, maxPairs, maxAssets)
    PROVE  Within(R, maxPairs, maxAssets)
<1>1. /\ Cardinality(R) <= Cardinality(S) /\ Cardinality(Dynamic(R)) <= Cardinality(Dynamic(S))
  BY FewerPairs
<1>2. \A X \in {R, S} : Cardinality(X) \in Nat /\ Cardinality(Dynamic(X)) \in Nat
  BY PairsFacts
<1>3. QED
  BY <1>1, <1>2 DEF Within

LEMMA NoFileSound == Sound(NoPairs, NoFile.resting, NoFile.unfit)
<1>1. DOMAIN NoPairs = {} /\ In(NoPairs, "admitted") = {} /\ In(NoPairs, "shadow") = {}
  BY DEF NoPairs, In
<1>2. TypesOf(NoPairs, NoFile.resting, NoFile.unfit)
  BY <1>1, Numbers DEF TypesOf, NoPairs, NoFile
<1>3. BoundedOf(NoPairs)
  BY <1>1, EmptyWithin, FS_EmptySet, Numbers DEF BoundedOf
<1>4. RestKnown(NoPairs, NoFile.resting) /\ Served(NoPairs, NoFile.resting)
  BY <1>1, Numbers DEF RestKnown, Served, NoFile
<1>5. GraceKnown(NoPairs, NoFile.unfit)
  BY <1>1, Numbers DEF GraceKnown, NoFile
<1>6. QED
  BY <1>2, <1>3, <1>4, <1>5 DEF Sound

LEMMA PrunedFacts ==
    ASSUME NEW m, DOMAIN m \subseteq Pairs, NEW n \in Pruned(m)
    PROVE  /\ DOMAIN n \subseteq DOMAIN m /\ n = [p \in DOMAIN n |-> n[p]]
           /\ \A p \in DOMAIN n : n[p] = m[p]
           /\ Cardinality(DOMAIN n) <= MaxTrackedPairs
<1>1. PICK keep \in SUBSET DOMAIN m :
        /\ n = [p \in keep |-> m[p]]
        /\ Cardinality(keep) = Least(Cardinality(DOMAIN m), MaxTrackedPairs)
  BY DEF Pruned
<1>2. Cardinality(DOMAIN m) \in Nat
  BY PairsFacts
<1>3. QED
  BY <1>1, <1>2, Numbers DEF Least

\* What the observation of pools and a load leave of a record: all that
\* admission looks at.
Kept(m, n) ==
    \A p \in DOMAIN n :
        /\ p \in DOMAIN m => /\ n[p].state = m[p].state /\ n[p].age = m[p].age
                             /\ n[p].cooling = m[p].cooling /\ n[p].below = m[p].below
        /\ p \notin DOMAIN m => n[p].state = "observed" /\ n[p].age = 0

LEMMA KeptSound ==
    ASSUME NEW m, NEW rest, NEW grace, Sound(m, rest, grace),
           NEW n, NEW r, TypesOf(n, r, grace), Kept(m, n),
           Cardinality(DOMAIN n) <= MaxTrackedPairs,
           \A p \in DOMAIN n : r[p] = rest[p],
           \A p \in Pairs \ DOMAIN n : r[p] <= MinObservation
    PROVE  Sound(n, r, grace)
<1>1. /\ In(n, "admitted") \subseteq In(m, "admitted") /\ In(n, "shadow") \subseteq In(m, "shadow")
      /\ In(m, "admitted") \subseteq Pairs /\ In(m, "shadow") \subseteq Pairs
  BY DEF Kept, In, Sound, TypesOf
<1>2. BoundedOf(n)
  BY <1>1, FewerWithin, Numbers DEF Sound, BoundedOf
<1>3. RestKnown(n, r)
  <2>1. SUFFICES ASSUME NEW p \in DOMAIN n
                 PROVE \/ n[p].state = "cooled" /\ r[p] <= n[p].cooling
                       \/ r[p] + n[p].age <= MinObservation
    BY DEF RestKnown
  <2>2. CASE p \in DOMAIN m
    BY <2>1, <2>2 DEF Sound, RestKnown, Kept
  <2>3. CASE p \notin DOMAIN m
    <3>1. p \in Pairs /\ r[p] = rest[p] /\ rest[p] <= MinObservation /\ n[p].age = 0 /\ r[p] \in Nat
      BY <2>1, <2>3, Numbers DEF Sound, RestKnown, Kept, TypesOf
    <3>2. QED
      BY <3>1
  <2>4. QED
    BY <2>2, <2>3
<1>4. Served(n, r)
  BY <1>1 DEF Sound, Served, In
<1>5. GraceKnown(n, grace)
  BY <1>1 DEF Sound, GraceKnown, Kept, In
<1>6. QED
  BY <1>2, <1>3, <1>4, <1>5 DEF Sound

LEMMA RestOwedFacts ==
    ASSUME resting \in [Pairs -> 0..Cooldown], NEW rest \in [Pairs -> 0..Cooldown], NEW kept
    PROVE  /\ RestOwed(rest, kept) \in [Pairs -> 0..Cooldown]
           /\ \A p \in Pairs : p \in kept => RestOwed(rest, kept)[p] = rest[p]
           /\ \A p \in Pairs \ kept : RestOwed(rest, kept)[p] <= MinObservation
<1>1. \A p \in Pairs : /\ Least(resting[p], MinObservation) \in 0..Cooldown
                       /\ Least(resting[p], MinObservation) <= MinObservation
  BY Numbers DEF Least
<1>2. QED
  BY <1>1 DEF RestOwed

LEMMA ObservePoolSound ==
    ASSUME Sound(pairs, resting, unfit), NEW p \in Pairs, NEW pool \in Pools, ObservePool(p, pool)
    PROVE  Sound(pairs', resting', unfit')
<1> DEFINE m == [Ensured(p) EXCEPT ![p].venues = @ \union {pool}]
<1>1. pairs' \in Pruned(m) /\ resting' = RestOwed(resting, DOMAIN pairs') /\ unfit' = unfit
  BY DEF ObservePool
<1>2. Ensured(p) \in [Tracked \union {p} -> PairRecord]
  BY Numbers DEF Sound, TypesOf, Ensured, NewPair, PairRecord, States, Tracked
<1>3. /\ m \in [Tracked \union {p} -> PairRecord]
      /\ \A q \in Tracked \union {p} : /\ m[q].state = Ensured(p)[q].state
                                       /\ m[q].age = Ensured(p)[q].age
                                       /\ m[q].cooling = Ensured(p)[q].cooling
                                       /\ m[q].below = Ensured(p)[q].below
  BY <1>2 DEF PairRecord
<1>4. DOMAIN m = Tracked \union {p} /\ DOMAIN m \subseteq Pairs
  BY <1>3 DEF Sound, TypesOf, Tracked
<1> HIDE DEF m
<1>5. /\ DOMAIN pairs' \subseteq Tracked \union {p} /\ pairs' = [q \in DOMAIN pairs' |-> pairs'[q]]
      /\ \A q \in DOMAIN pairs' : pairs'[q] = m[q]
      /\ Cardinality(DOMAIN pairs') <= MaxTrackedPairs
  BY <1>1, <1>4, PrunedFacts
<1>6. /\ resting' \in [Pairs -> 0..Cooldown]
      /\ \A q \in DOMAIN pairs' : resting'[q] = resting[q]
      /\ \A q \in Pairs \ DOMAIN pairs' : resting'[q] <= MinObservation
  BY <1>1, <1>4, <1>5, RestOwedFacts DEF Sound, TypesOf
<1>7. TypesOf(pairs', resting', unfit)
  <2>1. pairs' \in [DOMAIN pairs' -> PairRecord]
    BY <1>3, <1>5
  <2>2. QED
    BY <1>4, <1>5, <1>6, <2>1 DEF Sound, TypesOf
<1>8. Kept(pairs, pairs')
  BY <1>3, <1>5 DEF Kept, Ensured, NewPair, Tracked
<1>9. Sound(pairs', resting', unfit)
  BY <1>5, <1>6, <1>7, <1>8, KeptSound
<1>10. QED
  BY <1>1, <1>9

LEMMA LoadSound ==
    ASSUME NEW file, Sound(file.pairs, file.resting, file.unfit),
           Sound(pairs, resting, unfit),
           pairs' \in Pruned(file.pairs), resting' = RestOwed(file.resting, DOMAIN pairs'),
           unfit' = file.unfit
    PROVE  Sound(pairs', resting', unfit')
<1>1. /\ DOMAIN file.pairs \subseteq Pairs /\ file.pairs \in [DOMAIN file.pairs -> PairRecord]
      /\ file.resting \in [Pairs -> 0..Cooldown] /\ resting \in [Pairs -> 0..Cooldown]
  BY DEF Sound, TypesOf
<1>2. /\ DOMAIN pairs' \subseteq DOMAIN file.pairs /\ pairs' = [p \in DOMAIN pairs' |-> pairs'[p]]
      /\ \A p \in DOMAIN pairs' : pairs'[p] = file.pairs[p]
      /\ Cardinality(DOMAIN pairs') <= MaxTrackedPairs
  BY <1>1, PrunedFacts
<1>3. /\ resting' \in [Pairs -> 0..Cooldown]
      /\ \A q \in DOMAIN pairs' : resting'[q] = file.resting[q]
      /\ \A q \in Pairs \ DOMAIN pairs' : resting'[q] <= MinObservation
  BY <1>1, <1>2, RestOwedFacts
<1>4. pairs' \in [DOMAIN pairs' -> PairRecord]
  BY <1>1, <1>2
<1>5. TypesOf(pairs', resting', file.unfit)
  BY <1>1, <1>2, <1>3, <1>4 DEF Sound, TypesOf
<1>6. Kept(file.pairs, pairs')
  BY <1>2 DEF Kept
<1>7. Sound(pairs', resting', file.unfit)
  BY <1>2, <1>3, <1>5, <1>6, KeptSound
<1>8. QED
  BY <1>7

LEMMA CooledSound ==
    ASSUME Sound(pairs, resting, unfit), NEW p \in Tracked,
           pairs' = [pairs EXCEPT ![p].state = "cooled", ![p].cooling = Cooldown],
           resting' = [resting EXCEPT ![p] = Cooldown], unfit' = [unfit EXCEPT ![p] = 0]
    PROVE  Sound(pairs', resting', unfit')
<1>1. p \in Pairs
  BY DEF Sound, TypesOf, Tracked
<1>2. /\ pairs' \in [Tracked -> PairRecord] /\ DOMAIN pairs' = Tracked
      /\ pairs'[p].state = "cooled" /\ pairs'[p].cooling = Cooldown
      /\ \A q \in Tracked \ {p} : pairs'[q] = pairs[q]
  <2>1. pairs \in [Tracked -> PairRecord] /\ Cooldown \in 0..Cooldown /\ "cooled" \in States
    BY Numbers DEF Sound, TypesOf, States, Tracked
  <2>2. [pairs[p] EXCEPT !.state = "cooled", !.cooling = Cooldown] \in PairRecord
    BY <1>1, <2>1 DEF PairRecord
  <2>3. pairs' = [pairs EXCEPT ![p] = [pairs[p] EXCEPT !.state = "cooled", !.cooling = Cooldown]]
    BY <2>1 DEF PairRecord
  <2>4. QED
    BY <2>1, <2>2, <2>3 DEF PairRecord
<1>3. /\ resting' \in [Pairs -> 0..Cooldown] /\ resting'[p] = Cooldown
      /\ unfit' \in [Pairs -> Nat] /\ unfit'[p] = 0
      /\ \A q \in Pairs \ {p} : resting'[q] = resting[q] /\ unfit'[q] = unfit[q]
  BY <1>1, Numbers DEF Sound, TypesOf
<1>4. TypesOf(pairs', resting', unfit')
  BY <1>2, <1>3 DEF Sound, TypesOf, Tracked
<1>5. /\ In(pairs', "admitted") \subseteq In(pairs, "admitted") \ {p}
      /\ In(pairs', "shadow") \subseteq In(pairs, "shadow") \ {p}
      /\ In(pairs, "admitted") \subseteq Pairs /\ In(pairs, "shadow") \subseteq Pairs
  BY <1>2 DEF In, Tracked, Sound, TypesOf
<1>6. BoundedOf(pairs')
  BY <1>2, <1>5, FewerWithin, Numbers DEF Sound, BoundedOf, Tracked
<1>7. RestKnown(pairs', resting')
  <2>1. \A q \in Tracked : \/ pairs'[q].state = "cooled" /\ resting'[q] <= pairs'[q].cooling
                           \/ resting'[q] + pairs'[q].age <= MinObservation
    <3>1. SUFFICES ASSUME NEW q \in Tracked
                   PROVE \/ pairs'[q].state = "cooled" /\ resting'[q] <= pairs'[q].cooling
                         \/ resting'[q] + pairs'[q].age <= MinObservation
      OBVIOUS
    <3>2. CASE q = p
      BY <3>2, <1>2, <1>3, Numbers
    <3>3. CASE q # p
      BY <3>3, <1>2, <1>3 DEF Sound, RestKnown, TypesOf, Tracked
    <3>4. QED
      BY <3>2, <3>3
  <2>2. QED
    BY <1>2, <1>3, <2>1 DEF Sound, RestKnown, Tracked
<1>8. Served(pairs', resting')
  BY <1>3, <1>5 DEF Sound, Served
<1>9. GraceKnown(pairs', unfit')
  <2>1. \A q \in In(pairs', "admitted") : unfit'[q] = pairs'[q].below
    BY <1>2, <1>3, <1>5 DEF Sound, GraceKnown, In, Tracked, TypesOf
  <2>2. QED
    BY <2>1, <1>3, Numbers DEF Sound, GraceKnown
<1>10. QED
  BY <1>4, <1>6, <1>7, <1>8, <1>9 DEF Sound

LEMMA LaterSound ==
    ASSUME NEW m, NEW rest, NEW grace, Sound(m, rest, grace)
    PROVE  Sound(Later(m), [p \in Pairs |-> Less(rest[p])], grace)
<1> DEFINE n == Later(m)
           r == [p \in Pairs |-> Less(rest[p])]
<1>1. /\ DOMAIN n = DOMAIN m /\ n = [p \in DOMAIN m |-> n[p]]
      /\ \A p \in DOMAIN m : /\ n[p].state = m[p].state /\ n[p].below = m[p].below
                             /\ n[p].age = Least(m[p].age + 1, MinObservation)
                             /\ n[p].cooling = Less(m[p].cooling)
                             /\ n[p] \in PairRecord
  <2>1. ASSUME NEW p \in DOMAIN m
        PROVE  /\ m[p] \in PairRecord
               /\ [m[p] EXCEPT !.age = Least(@ + 1, MinObservation), !.cooling = Less(@)] \in PairRecord
    <3>1. m[p] \in PairRecord
      BY DEF Sound, TypesOf
    <3>2. /\ Least(m[p].age + 1, MinObservation) \in 0..MinObservation
          /\ Less(m[p].cooling) \in 0..Cooldown
      BY <3>1, Numbers DEF PairRecord, Least, Less
    <3>3. QED
      BY <3>1, <3>2 DEF PairRecord
  <2>2. QED
    BY <2>1 DEF Later, PairRecord
<1>2. /\ r \in [Pairs -> 0..Cooldown]
      /\ \A p \in Pairs : r[p] = Less(rest[p]) /\ rest[p] \in Nat
  <2>1. \A p \in Pairs : Less(rest[p]) \in 0..Cooldown /\ rest[p] \in Nat
    BY Numbers DEF Sound, TypesOf, Less
  <2>2. QED
    BY <2>1
<1> HIDE DEF n, r
<1>3. TypesOf(n, r, grace)
  <2>1. n \in [DOMAIN n -> PairRecord]
    BY <1>1
  <2>2. QED
    BY <1>1, <1>2, <2>1 DEF Sound, TypesOf
<1>4. In(n, "admitted") = In(m, "admitted") /\ In(n, "shadow") = In(m, "shadow")
  BY <1>1 DEF In
<1>5. BoundedOf(n)
  BY <1>1, <1>4 DEF Sound, BoundedOf
<1>6. RestKnown(n, r)
  <2>1. ASSUME NEW p \in DOMAIN m
        PROVE \/ n[p].state = "cooled" /\ r[p] <= n[p].cooling
              \/ r[p] + n[p].age <= MinObservation
    <3>1. /\ p \in Pairs /\ rest[p] \in Nat /\ m[p].age \in 0..MinObservation /\ m[p].cooling \in Nat
      BY <1>2, Numbers DEF Sound, TypesOf, PairRecord
    <3>2. \/ m[p].state = "cooled" /\ rest[p] <= m[p].cooling
          \/ rest[p] + m[p].age <= MinObservation
      BY DEF Sound, RestKnown
    <3>3. QED
      BY <1>1, <1>2, <3>1, <3>2, Numbers DEF Least, Less
  <2>2. \A p \in Pairs \ DOMAIN m : r[p] <= MinObservation
    BY <1>2, Numbers DEF Sound, RestKnown, Less
  <2>3. QED
    BY <1>1, <2>1, <2>2 DEF RestKnown
<1>7. Served(n, r)
  BY <1>2, <1>4 DEF Sound, TypesOf, Served, In, Less
<1>8. GraceKnown(n, grace)
  BY <1>1, <1>4 DEF Sound, GraceKnown, In
<1>9. Sound(n, r, grace)
  BY <1>3, <1>5, <1>6, <1>7, <1>8 DEF Sound
<1>10. QED
  BY <1>9 DEF n, r

\* A pair that may be chosen owes no rest.
LEMMA RestedServed ==
    ASSUME Sound(pairs, resting, unfit), NEW p \in Tracked, Rested(p), pairs[p].age = MinObservation
    PROVE  resting[p] = 0
<1>1. /\ p \in Pairs /\ resting[p] \in Nat /\ pairs[p].cooling \in Nat
  BY Numbers DEF Sound, TypesOf, PairRecord, Tracked
<1>2. \/ pairs[p].state = "cooled" /\ resting[p] <= pairs[p].cooling
      \/ resting[p] + pairs[p].age <= MinObservation
  BY DEF Sound, RestKnown, Tracked
<1>3. QED
  BY <1>1, <1>2, Numbers DEF Rested

LEMMA SelectShadowSound ==
    ASSUME Sound(pairs, resting, unfit), NEW score \in [Tracked -> Scores], NEW fit,
           SelectShadow(score, fit)
    PROVE  Sound(pairs', resting', unfit')
<1> DEFINE candidates == {p \in Tracked : /\ Rested(p)
                                          /\ pairs[p].age = MinObservation
                                          /\ score[p] >= MinScore /\ p \in fit}
           newState(p, chosen) == CASE p \in chosen -> "shadow"
                                    [] p \notin chosen /\ (pairs[p].state = "shadow" \/ (pairs[p].state = "cooled" /\ Rested(p)))
                                         -> "observed"
                                    [] OTHER -> pairs[p].state
<1>1. PICK chosen \in Choices({}, candidates, score, MaxShadowPairs, MaxDynamicAssets) :
        pairs' = [p \in Tracked |-> [pairs[p] EXCEPT !.state = newState(p, chosen)]]
  BY Zenon DEF SelectShadow
<1>u. resting' = resting /\ unfit' = unfit
  BY DEF SelectShadow
<1>2. /\ Tracked \subseteq Pairs /\ pairs \in [Tracked -> PairRecord]
      /\ \A p \in Tracked : score[p] \in Nat
  BY ScoresAssumption DEF Sound, TypesOf, Tracked
<1>3. /\ chosen \subseteq candidates /\ Within(chosen, MaxShadowPairs, MaxDynamicAssets)
  <2>1. Within({}, MaxShadowPairs, MaxDynamicAssets)
    BY EmptyWithin, Numbers
  <2>2. candidates \subseteq Pairs /\ \A p \in candidates : score[p] \in Nat
    BY <1>2
  <2>3. {} \subseteq Pairs /\ Cardinality({}) <= MaxShadowPairs /\ Cardinality(Dynamic({})) <= MaxDynamicAssets
    BY <2>1 DEF Within
  <2> HIDE DEF candidates
  <2>4. /\ chosen \subseteq {} \union candidates
        /\ Cardinality(chosen) <= MaxShadowPairs /\ Cardinality(Dynamic(chosen)) <= MaxDynamicAssets
    BY <1>1, <2>2, <2>3, ChoiceBounded, Numbers
  <2>5. QED
    BY <2>4 DEF Within
<1>4. /\ DOMAIN pairs' = Tracked
      /\ \A p \in Tracked : /\ pairs'[p] \in PairRecord
                            /\ pairs'[p].state = newState(p, chosen)
                            /\ pairs'[p].age = pairs[p].age /\ pairs'[p].cooling = pairs[p].cooling
                            /\ pairs'[p].below = pairs[p].below
  <2>1. \A p \in Tracked : newState(p, chosen) \in States
    BY <1>2 DEF PairRecord, States
  <2> HIDE DEF newState
  <2>2. QED
    BY <1>1, <1>2, <2>1 DEF PairRecord
<1>5. TypesOf(pairs', resting', unfit')
  <2>1. pairs' \in [Tracked -> PairRecord]
    BY <1>1, <1>4
  <2>2. QED
    BY <1>u, <1>4, <2>1 DEF Sound, TypesOf, Tracked
<1>6. /\ In(pairs', "shadow") \subseteq chosen /\ In(pairs', "admitted") \subseteq In(pairs, "admitted")
      /\ chosen \subseteq Tracked /\ In(pairs, "admitted") \subseteq Pairs
  BY <1>2, <1>3, <1>4 DEF In, Tracked
<1>7. \A p \in chosen : resting[p] = 0
  BY <1>3, RestedServed
<1>8. BoundedOf(pairs')
  <2>1. Within(In(pairs', "shadow"), MaxShadowPairs, MaxDynamicAssets)
    BY <1>2, <1>3, <1>6, FewerWithin, Numbers
  <2>2. Within(In(pairs', "admitted"), MaxLivePairs, MaxLiveDynamicAssets)
    BY <1>6, FewerWithin, Numbers DEF Sound, BoundedOf
  <2>3. QED
    BY <1>4, <2>1, <2>2 DEF Sound, BoundedOf, Tracked
<1>9. RestKnown(pairs', resting')
  <2>1. SUFFICES ASSUME NEW p \in Tracked
                 PROVE \/ pairs'[p].state = "cooled" /\ resting[p] <= pairs'[p].cooling
                       \/ resting[p] + pairs'[p].age <= MinObservation
    BY <1>u, <1>4 DEF Sound, RestKnown, Tracked
  <2>2. /\ p \in Pairs /\ resting[p] \in Nat /\ pairs[p].cooling \in Nat
        /\ pairs[p].age \in Nat /\ pairs[p].age <= MinObservation
    BY <1>2, Numbers DEF Sound, TypesOf, PairRecord
  <2>3. \/ pairs[p].state = "cooled" /\ resting[p] <= pairs[p].cooling
        \/ resting[p] + pairs[p].age <= MinObservation
    BY DEF Sound, RestKnown, Tracked
  <2>4. CASE p \in chosen
    BY <1>4, <1>7, <2>2, <2>4, Numbers
  <2>5. CASE p \notin chosen
    <3>1. CASE pairs[p].state = "cooled" /\ Rested(p)
      BY <1>4, <2>2, <2>3, <3>1, Numbers DEF Rested
    <3>2. CASE pairs[p].state = "cooled" /\ ~Rested(p)
      BY <1>4, <2>2, <2>3, <2>5, <3>2
    <3>3. CASE pairs[p].state # "cooled"
      BY <1>4, <2>2, <2>3, <3>3
    <3>4. QED
      BY <3>1, <3>2, <3>3
  <2>6. QED
    BY <2>4, <2>5
<1>10. Served(pairs', resting')
  BY <1>u, <1>6, <1>7 DEF Sound, Served
<1>11. GraceKnown(pairs', unfit')
  BY <1>u, <1>4, <1>6 DEF Sound, GraceKnown, In, Tracked
<1>12. QED
  BY <1>5, <1>8, <1>9, <1>10, <1>11 DEF Sound

\* What a selection for the market graph does, given the pairs that qualify and
\* the admitted ones that it ejects.
Selects(qualified, ejected) ==
    LET preserved == (Admitted \ qualified) \ ejected IN
    /\ ejected \intersect qualified = {}
    /\ \A p \in qualified : resting[p] = 0 /\ pairs[p].age = MinObservation
    /\ \A p \in Admitted \ qualified : p \in ejected <=> pairs[p].below + 1 >= EjectWindows
    /\ preserved \subseteq live' /\ live' \subseteq preserved \union qualified
    /\ Cardinality(live') <= MaxLivePairs
    /\ Cardinality(Dynamic(live')) <= MaxLiveDynamicAssets
    /\ DOMAIN pairs' = Tracked
    /\ \A p \in Tracked :
         /\ pairs'[p] \in PairRecord
         /\ pairs'[p].age = pairs[p].age
         /\ pairs'[p].cooling = IF p \in ejected THEN Cooldown ELSE pairs[p].cooling
         /\ p \in qualified => pairs'[p].below = 0
         /\ p \in Admitted \ qualified => pairs'[p].below = pairs[p].below + 1
         /\ p \in live' => pairs'[p].state = "admitted"
         /\ p \in ejected => pairs'[p].state = "cooled"
         /\ p \in (Admitted \ live') \ ejected => pairs'[p].state = "observed"
         /\ p \notin live' \union Admitted => pairs'[p].state = pairs[p].state
    /\ pairs' = [p \in Tracked |-> pairs'[p]]
    /\ resting' = [p \in Pairs |-> IF p \in ejected THEN Cooldown ELSE resting[p]]
    /\ unfit' = [p \in Pairs |-> IF p \in preserved THEN unfit[p] + 1 ELSE 0]

LEMMA SelectLiveFacts ==
    ASSUME Sound(pairs, resting, unfit), NEW score \in [Tracked -> Scores], NEW fit, SelectLive(score, fit)
    PROVE  \E qualified \in SUBSET Tracked, ejected \in SUBSET Admitted : Selects(qualified, ejected)
<1> DEFINE qualified == {p \in Tracked : liveQualified(p, score, fit)}
           ejected == {p \in Admitted \ qualified : Ejected(p)}
           preserved == (Admitted \ qualified) \ ejected
           newState(p, selected) == CASE p \in selected -> "admitted"
                                      [] p \in ejected -> "cooled"
                                      [] p \in (Admitted \ selected) \ ejected -> "observed"
                                      [] OTHER -> pairs[p].state
           newCooling(p) == IF p \in ejected THEN Cooldown ELSE pairs[p].cooling
<1>1. PICK selected \in LiveSets(preserved, qualified, score) :
        /\ live' = selected
        /\ pairs' = [p \in Tracked |-> [pairs[p] EXCEPT
                       !.below = Below(p, qualified),
                       !.cooling = newCooling(p), !.state = newState(p, selected)]]
  BY Zenon DEF SelectLive, Admitted
<1>2. /\ resting' = [p \in Pairs |-> IF p \in ejected THEN Cooldown ELSE resting[p]]
      /\ unfit' = [p \in Pairs |-> IF p \in preserved THEN unfit[p] + 1 ELSE 0]
    BY Zenon DEF SelectLive, Admitted
<1>3. /\ Tracked \subseteq Pairs /\ pairs \in [Tracked -> PairRecord]
      /\ \A p \in Tracked : score[p] \in Nat
  BY ScoresAssumption DEF Sound, TypesOf, Tracked
<1>4. qualified \subseteq Tracked /\ ejected \subseteq Admitted \ qualified /\ Admitted \subseteq Tracked
  BY DEF Admitted
<1>5. \A p \in qualified : resting[p] = 0 /\ pairs[p].age = MinObservation
  BY RestedServed DEF liveQualified
<1>6. \A p \in Admitted \ qualified : p \in ejected <=> pairs[p].below + 1 >= EjectWindows
  BY DEF Ejected
<1>7. \A p \in Tracked : /\ p \in qualified => Below(p, qualified) = 0
                         /\ p \in Admitted \ qualified => Below(p, qualified) = pairs[p].below + 1
                         /\ Below(p, qualified) \in Nat
  <2>1. \A p \in Tracked : pairs[p].below \in Nat
    BY <1>3 DEF PairRecord
  <2> HIDE DEF qualified
  <2>2. QED
    BY <2>1 DEF Below, Admitted
<1> HIDE DEF qualified, ejected
<1>8. /\ preserved \subseteq selected /\ selected \subseteq preserved \union qualified
      /\ Cardinality(selected) <= MaxLivePairs
      /\ Cardinality(Dynamic(selected)) <= MaxLiveDynamicAssets
  <2>1. preserved \subseteq Admitted /\ Admitted \subseteq Pairs /\ qualified \subseteq Pairs
    BY <1>3, <1>4
  <2>2. /\ Cardinality(preserved) <= Cardinality(Admitted)
        /\ Cardinality(Dynamic(preserved)) <= Cardinality(Dynamic(Admitted))
    BY <2>1, FewerPairs
  <2>3. \A S \in {preserved, Admitted} : Cardinality(S) \in Nat /\ Cardinality(Dynamic(S)) \in Nat
    BY <2>1, PairsFacts
  <2>4. /\ Cardinality(preserved) <= MaxLivePairs
        /\ Cardinality(Dynamic(preserved)) <= MaxLiveDynamicAssets
    BY <2>2, <2>3, Numbers DEF Sound, BoundedOf, Within, In, Admitted, Tracked
  <2>5. \A p \in qualified : score[p] \in Nat
    BY <1>3, <1>4
  <2> HIDE DEF preserved
  <2>6. selected \in Choices(preserved, qualified, score, MaxLivePairs, MaxLiveDynamicAssets)
    BY <1>1 DEF LiveSets
  <2>7. QED
    BY <2>1, <2>4, <2>5, <2>6, ChoiceBounded, Numbers
<1>9. \A p \in Tracked :
        /\ newState(p, selected) \in States /\ newCooling(p) \in 0..Cooldown
        /\ p \in selected => newState(p, selected) = "admitted"
        /\ p \in ejected => newState(p, selected) = "cooled"
        /\ p \in (Admitted \ selected) \ ejected => newState(p, selected) = "observed"
        /\ p \notin selected \union Admitted => newState(p, selected) = pairs[p].state
  <2>1. selected \intersect ejected = {}
    BY <1>4, <1>8
  <2>2. \A p \in Tracked : newCooling(p) \in 0..Cooldown
    BY <1>3, Numbers DEF PairRecord
  <2>3. \A p \in Tracked : pairs[p].state \in States
    BY <1>3 DEF PairRecord
  <2>4. QED
    BY <1>4, <2>1, <2>2, <2>3 DEF States
<1> HIDE DEF newState, newCooling
<1>10. /\ DOMAIN pairs' = Tracked
       /\ \A p \in Tracked : /\ pairs'[p] \in PairRecord
                             /\ pairs'[p].age = pairs[p].age
                             /\ pairs'[p].cooling = newCooling(p)
                             /\ pairs'[p].below = Below(p, qualified)
                             /\ pairs'[p].state = newState(p, selected)
       /\ pairs' = [p \in Tracked |-> pairs'[p]]
  BY <1>1, <1>3, <1>7, <1>9 DEF PairRecord
<1>11. \A p \in Tracked :
                  /\ pairs'[p] \in PairRecord
                  /\ pairs'[p].age = pairs[p].age
                  /\ pairs'[p].cooling = IF p \in ejected THEN Cooldown ELSE pairs[p].cooling
                  /\ p \in qualified => pairs'[p].below = 0
                  /\ p \in Admitted \ qualified => pairs'[p].below = pairs[p].below + 1
                  /\ p \in live' => pairs'[p].state = "admitted"
                  /\ p \in ejected => pairs'[p].state = "cooled"
                  /\ p \in (Admitted \ live') \ ejected => pairs'[p].state = "observed"
                  /\ p \notin live' \union Admitted => pairs'[p].state = pairs[p].state
  BY <1>1, <1>7, <1>9, <1>10 DEF newCooling
<1>12. /\ preserved \subseteq live' /\ live' \subseteq preserved \union qualified
       /\ Cardinality(live') <= MaxLivePairs
       /\ Cardinality(Dynamic(live')) <= MaxLiveDynamicAssets
  BY <1>1, <1>8
<1>13. Selects(qualified, ejected)
  BY <1>2, <1>4, <1>5, <1>6, <1>10, <1>11, <1>12 DEF Selects
<1>14. QED
  BY <1>4, <1>13

LEMMA SelectLiveSound ==
    ASSUME Sound(pairs, resting, unfit), NEW score \in [Tracked -> Scores], NEW fit,
           SelectLive(score, fit)
    PROVE  /\ Sound(pairs', resting', unfit')
           /\ live' \subseteq Pairs /\ Within(live', MaxLivePairs, MaxLiveDynamicAssets)
<1>1. PICK qualified \in SUBSET Tracked, ejected \in SUBSET Admitted : Selects(qualified, ejected)
  BY SelectLiveFacts
<1>2. /\ Tracked \subseteq Pairs /\ Admitted \subseteq Tracked /\ live' \subseteq Tracked
      /\ live' \intersect ejected = {} /\ Admitted = In(pairs, "admitted")
  BY <1>1 DEF Sound, TypesOf, Admitted, Selects, Tracked, In
<1>3. /\ resting' \in [Pairs -> 0..Cooldown] /\ unfit' \in [Pairs -> Nat]
      /\ \A p \in Pairs : resting'[p] = IF p \in ejected THEN Cooldown ELSE resting[p]
      /\ \A p \in Pairs : unfit'[p] = IF p \in (Admitted \ qualified) \ ejected THEN unfit[p] + 1 ELSE 0
  BY <1>1, Numbers DEF Sound, TypesOf, Selects
<1>4. TypesOf(pairs', resting', unfit')
  <2>1. pairs' \in [Tracked -> PairRecord]
    BY <1>1 DEF Selects
  <2>2. QED
    BY <1>1, <1>2, <1>3, <2>1 DEF TypesOf, Selects
<1>5. /\ In(pairs', "admitted") = live' /\ In(pairs', "shadow") \subseteq In(pairs, "shadow")
      /\ In(pairs, "shadow") \subseteq Pairs
  BY <1>1, <1>2 DEF Admitted, Tracked, Selects, In
<1>6. Within(live', MaxLivePairs, MaxLiveDynamicAssets)
  BY <1>1 DEF Selects, Within
<1>7. BoundedOf(pairs')
  <2>1. Within(In(pairs', "shadow"), MaxShadowPairs, MaxDynamicAssets)
    BY <1>5, FewerWithin, Numbers DEF Sound, BoundedOf
  <2>2. QED
    BY <1>1, <1>5, <1>6, <2>1 DEF Sound, BoundedOf, Selects, Tracked
<1>8. Served(pairs', resting')
  <2>1. \A p \in live' \union In(pairs', "shadow") : p \in Pairs /\ p \notin ejected /\ resting[p] = 0
    BY <1>1, <1>2, <1>5 DEF Sound, Served, In, Selects
  <2>2. QED
    BY <1>3, <1>5, <2>1 DEF Served
<1>9. RestKnown(pairs', resting')
  <2>1. ASSUME NEW p \in Tracked
        PROVE \/ pairs'[p].state = "cooled" /\ resting'[p] <= pairs'[p].cooling
              \/ resting'[p] + pairs'[p].age <= MinObservation
    <3>2. /\ p \in Pairs /\ resting[p] \in Nat /\ pairs[p].cooling \in Nat
          /\ pairs[p].age \in Nat /\ pairs[p].age <= MinObservation /\ pairs'[p].age = pairs[p].age
      BY <1>1, <1>2, Numbers DEF Sound, TypesOf, PairRecord, Selects, Tracked
    <3>3. CASE p \in ejected
      BY <1>1, <1>3, <3>2, <3>3, Numbers DEF Selects
    <3>4. CASE p \notin ejected /\ p \in live' \union Admitted
      <4>1. resting[p] = 0
        BY <1>1, <1>2, <3>4 DEF Sound, Served, Selects
      <4>2. QED
        BY <1>3, <3>2, <3>4, <4>1, Numbers
    <3>5. CASE p \notin live' \union Admitted
      BY <1>1, <1>3, <3>2, <3>5 DEF Sound, RestKnown, Selects, Tracked
    <3>6. QED
      BY <3>3, <3>4, <3>5
  <2>2. \A p \in Pairs \ Tracked : resting'[p] <= MinObservation
    BY <1>2, <1>3 DEF Sound, RestKnown, Tracked
  <2>3. QED
    BY <1>1, <2>1, <2>2 DEF RestKnown, Selects
<1>10. \A p \in live' : unfit'[p] = pairs'[p].below
  <2>1. SUFFICES ASSUME NEW p \in live' PROVE unfit'[p] = pairs'[p].below
    OBVIOUS
  <2>2. CASE p \in qualified
    BY <1>1, <1>2, <1>3, <2>2 DEF Selects
  <2>3. CASE p \in (Admitted \ qualified) \ ejected
    BY <1>1, <1>2, <1>3, <2>3 DEF Sound, GraceKnown, Selects
  <2>4. QED
    BY <1>1, <2>2, <2>3 DEF Selects
<1>11. ASSUME NEW p \in Pairs PROVE unfit'[p] < EjectWindows
  <2>2. CASE p \in (Admitted \ qualified) \ ejected
    <3>1. pairs[p].below \in Nat /\ unfit[p] = pairs[p].below
      BY <1>2, <2>2 DEF Sound, TypesOf, PairRecord, GraceKnown, Tracked
    <3>2. ~(pairs[p].below + 1 >= EjectWindows)
      BY <1>1, <2>2 DEF Selects
    <3>3. QED
      BY <1>3, <2>2, <3>1, <3>2, Numbers
  <2>3. CASE p \notin (Admitted \ qualified) \ ejected
    BY <1>3, <2>3, Numbers
  <2>4. QED
    BY <2>2, <2>3
<1>12. GraceKnown(pairs', unfit')
  BY <1>5, <1>10, <1>11 DEF GraceKnown
<1>13. Sound(pairs', resting', unfit')
  BY <1>4, <1>7, <1>8, <1>9, <1>12 DEF Sound
<1>14. QED
  BY <1>2, <1>6, <1>13

-----------------------------------------------------------------------------
(* The theorems.                                                           *)

\* The invariant of the next state, without the prime.
LEMMA InvPrime ==
    ASSUME live' \subseteq Pairs, Within(live', MaxLivePairs, MaxLiveDynamicAssets),
           Sound(pairs', resting', unfit'), IsFile(saved'),
           Sound(saved'.pairs, saved'.resting, saved'.unfit)
    PROVE  Inv'
BY DEF Inv, IsFile, Within, Dynamic, Sound, TypesOf, BoundedOf, RestKnown, Served, GraceKnown, In

\* A step that leaves the file, or saves what it leaves in memory.
LEMMA SavedInv ==
    ASSUME Inv, live' \subseteq Pairs, Within(live', MaxLivePairs, MaxLiveDynamicAssets),
           Sound(pairs', resting', unfit'), NEW tk,
           saved' \in {saved, [tokens |-> tk, pairs |-> pairs', resting |-> resting', unfit |-> unfit']}
    PROVE  Inv'
<1>1. CASE saved' = saved
  BY <1>1, InvPrime DEF Inv, IsFile
<1>2. CASE saved' = [tokens |-> tk, pairs |-> pairs', resting |-> resting', unfit |-> unfit']
  BY <1>2, InvPrime DEF IsFile
<1>3. QED
  BY <1>1, <1>2

LEMMA InitInv == Init => Inv
<1> SUFFICES ASSUME Init PROVE Inv
  OBVIOUS
<1>1. Sound(NoPairs, NoFile.resting, NoFile.unfit)
  BY NoFileSound
<1>2. /\ pairs = NoPairs /\ resting = NoFile.resting /\ unfit = NoFile.unfit
      /\ saved = NoFile /\ saved.pairs = NoPairs
  BY DEF Init, NoFile
<1>3. IsFile(saved)
  BY <1>2 DEF NoFile, IsFile
<1>4. live = {} /\ Within(live, MaxLivePairs, MaxLiveDynamicAssets)
  BY EmptyWithin, Numbers DEF Init
<1>5. QED
  BY <1>1, <1>2, <1>3, <1>4 DEF Inv

LEMMA NextInv == Inv /\ [Next]_vars => Inv'
<1> SUFFICES ASSUME Inv, [Next]_vars PROVE Inv'
  OBVIOUS
<1>a. /\ Sound(pairs, resting, unfit) /\ Sound(saved.pairs, saved.resting, saved.unfit)
      /\ live \subseteq Pairs /\ Within(live, MaxLivePairs, MaxLiveDynamicAssets)
  BY DEF Inv
<1>1. CASE UNCHANGED vars
  BY <1>1, <1>a, SavedInv DEF vars
<1>2. ASSUME NEW t \in Tokens, RegisterToken(t) PROVE Inv'
  BY <1>2, <1>a, SavedInv DEF RegisterToken
<1>3. ASSUME NEW p \in Pairs, NEW pool \in Pools, ObservePool(p, pool) PROVE Inv'
  BY <1>3, <1>a, ObservePoolSound, SavedInv DEF ObservePool
<1>4. ASSUME NEW pool \in Pools, ProbeDepth(pool) PROVE Inv'
  <2>1. PICK p \in Tracked :
          /\ pairs' = [pairs EXCEPT ![p].state = "cooled", ![p].cooling = Cooldown]
          /\ resting' = [resting EXCEPT ![p] = Cooldown] /\ unfit' = [unfit EXCEPT ![p] = 0]
    BY <1>4 DEF ProbeDepth, RecordDepth, pairByPool
  <2>2. Sound(pairs', resting', unfit')
    BY <1>a, <2>1, CooledSound
  <2>3. QED
    BY <1>4, <1>a, <2>2, SavedInv DEF ProbeDepth, RecordDepth
<1>5. CASE SaveTick
  <2>1. PICK score \in [Tracked -> Scores], fit \in SUBSET Tracked :
          SelectShadow(score, fit) \/ SelectLive(score, fit)
    BY <1>5 DEF SaveTick
  <2>2. saved' \in {saved, [tokens |-> tokens, pairs |-> pairs', resting |-> resting', unfit |-> unfit']}
    BY <1>5 DEF SaveTick, Save
  <2>3. CASE SelectShadow(score, fit)
    <3>1. live' = live
      BY <2>3 DEF SelectShadow
    <3>2. Sound(pairs', resting', unfit')
      BY <1>a, <2>3, SelectShadowSound
    <3>3. QED
      BY <1>a, <2>2, <3>1, <3>2, SavedInv
  <2>4. CASE SelectLive(score, fit)
    BY <1>a, <2>2, <2>4, SelectLiveSound, SavedInv
  <2>5. QED
    BY <2>1, <2>3, <2>4
<1>6. CASE SaveOnly
  BY <1>6, <1>a, SavedInv DEF SaveOnly, Save
<1>7. CASE Tick
  <2>1. /\ Sound(pairs', resting', unfit') /\ live' = live
    BY <1>7, <1>a, LaterSound DEF Tick
  <2>2. /\ saved'.pairs = Later(saved.pairs) /\ saved'.unfit = saved.unfit
        /\ saved'.resting = [p \in Pairs |-> Less(saved.resting[p])] /\ IsFile(saved')
    BY <1>7 DEF Tick, Inv, IsFile
  <2>3. Sound(saved'.pairs, saved'.resting, saved'.unfit)
    BY <1>a, <2>2, LaterSound
  <2>4. QED
    BY <1>a, <2>1, <2>2, <2>3, InvPrime
<1>8. ASSUME NEW m \in Modes, Restart(m) PROVE Inv'
  <2>1. PICK file \in {saved, NoFile} :
          /\ pairs' \in Pruned(file.pairs) /\ resting' = RestOwed(file.resting, DOMAIN pairs')
          /\ unfit' = file.unfit
    BY <1>8 DEF Restart
  <2>2. Sound(file.pairs, file.resting, file.unfit)
    <3>1. NoFile.pairs = NoPairs
      BY DEF NoFile
    <3>2. QED
      BY <1>a, <2>1, <3>1, NoFileSound
  <2>3. Sound(pairs', resting', unfit')
    BY <1>a, <2>1, <2>2, LoadSound
  <2>4. live' \subseteq Pairs /\ Within(live', MaxLivePairs, MaxLiveDynamicAssets)
    BY <1>8, EmptyWithin, Numbers DEF Restart
  <2>5. QED
    BY <1>8, <2>3, <2>4, SavedInv DEF Restart
<1>9. QED
  BY <1>1, <1>2, <1>3, <1>4, <1>5, <1>6, <1>7, <1>8 DEF Next

LEMMA InvHolds == Spec => []Inv
BY InitInv, NextInv, PTL DEF Spec

\* The memory, the shadow set and the market graph stay within their limits of
\* pairs and of dynamic tokens, for any limits, scores and verdicts, although
\* SelectLive keeps pairs in their grace windows first and a restart may change
\* the mode and bring back an old file (SelectShadow, SelectLive, pruneLocked).
THEOREM LimitsHold == Spec => []LiveBounded
<1>1. Inv => LiveBounded
  BY DEF Inv, Sound, BoundedOf, Within, In, LiveBounded, Admitted, InShadow, Tracked
<1>2. QED
  BY <1>1, InvHolds, PTL

\* No pair is chosen or admitted before the end of its last cooldown that the
\* memory or the file it was loaded from knows of, or, if its record was
\* dropped, before the shorter of the cooldown and a whole observation
\* (RecordDepth, SelectLive, pruneLocked, Load), for any lengths of the two.
THEOREM CooldownsServed == Spec => []CooldownServed
<1>1. Inv => CooldownServed
  BY DEF Inv, Sound, Served, In, CooldownServed, Admitted, InShadow, Tracked
<1>2. QED
  BY <1>1, InvHolds, PTL

\* A pair is never in the market graph after EjectWindows selections in a row
\* that it did not qualify for, counting from the file after a restart
\* (SelectLive).
THEOREM NoStalePairLive == Spec => []NoStaleLivePair
<1>1. Inv => NoStaleLivePair
  BY DEF Inv, Sound, GraceKnown, NoStaleLivePair
<1>2. QED
  BY <1>1, InvHolds, PTL

LEMMA GraceStep ==
    ASSUME Inv, EjectedEarly, SaveTick
    PROVE  FALSE
<1>1. PICK p \in Admitted \intersect DOMAIN pairs' :
        pairs'[p].state = "cooled" /\ unfit[p] + 1 < EjectWindows
  BY DEF EjectedEarly
<1>2. /\ p \in Tracked /\ p \in Pairs /\ pairs \in [Tracked -> PairRecord]
      /\ pairs[p].state = "admitted" /\ Sound(pairs, resting, unfit)
  BY <1>1 DEF Admitted, Inv, Sound, TypesOf, Tracked
<1>3. PICK score \in [Tracked -> Scores], fit \in SUBSET Tracked :
        SelectShadow(score, fit) \/ SelectLive(score, fit)
  BY DEF SaveTick
<1>4. CASE SelectShadow(score, fit)
  <2> DEFINE newState(chosen) == CASE p \in chosen -> "shadow"
                 [] p \notin chosen /\ (pairs[p].state = "shadow" \/ (pairs[p].state = "cooled" /\ Rested(p)))
                      -> "observed"
                 [] OTHER -> pairs[p].state
  <2>1. PICK chosen : pairs'[p] = [pairs[p] EXCEPT !.state = newState(chosen)]
    BY <1>2, <1>4 DEF SelectShadow
  <2>2. newState(chosen) # "cooled"
    BY <1>2
  <2> HIDE DEF newState
  <2>3. QED
    BY <1>1, <1>2, <2>1, <2>2 DEF PairRecord
<1>5. CASE SelectLive(score, fit)
  <2>1. PICK qualified \in SUBSET Tracked, ejected \in SUBSET Admitted : Selects(qualified, ejected)
    BY <1>2, <1>5, SelectLiveFacts
  <2>2. p \in ejected /\ p \in Admitted \ qualified
    BY <1>1, <1>2, <2>1 DEF Selects
  <2>3. pairs[p].below + 1 >= EjectWindows /\ unfit[p] = pairs[p].below /\ pairs[p].below \in Nat
    BY <1>2, <2>1, <2>2 DEF Selects, Sound, GraceKnown, PairRecord, In, Tracked
  <2>4. QED
    BY <1>1, <2>3, Numbers
<1>6. QED
  BY <1>3, <1>4, <1>5

\* A selection ejects a pair only after EjectWindows - 1 selections in a row
\* that kept it without it qualifying: a selection it qualifies for starts the
\* grace again, and a change of mode or a restart in between leaves the grace
\* that the memory or the file knows of (SelectLive).
THEOREM GraceIsServed == Spec => GraceServed
<1>1. Inv /\ [Next]_vars => [EjectedEarly => ~SaveTick]_vars
  BY GraceStep
<1>2. QED
  BY <1>1, InvHolds, PTL DEF Spec, GraceServed
=============================================================================
