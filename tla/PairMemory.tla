----------------------------- MODULE PairMemory -----------------------------
(***************************************************************************)
(* The pair memory (go/internal/pairintel/memory.go) and the loop that     *)
(* selects from it (pairintel/service.go: Run): which token pairs are      *)
(* tracked, cooled after failing depth probes, put in the shadow set or    *)
(* admitted to the live market graph, and which one is dropped when the    *)
(* memory is full.                                                         *)
(*                                                                         *)
(* A score is any member of Scores each time it is computed, so it is not  *)
(* kept, and a swap, which only moves scores, is not an action.  Depth,    *)
(* confidence, quote success, the penalties and the number and drift of    *)
(* recent scores are one verdict, fit, drawn at each selection.  The clock *)
(* is relative: age and cooling count ticks since the first observation    *)
(* and until the end of the cooldown.  The pool index of the memory is its *)
(* venues.                                                                 *)
(*                                                                         *)
(* X_variant just before X is a plausible defect of X; no action uses it.  *)
(***************************************************************************)
EXTENDS Integers, FiniteSets

CONSTANTS
    Pairs,         \* numbered in the order of their keys
    TokensOf,      \* the two tokens of a pair
    Configured,    \* tokens of the market configuration, registered at start-up
    Core,          \* those a flash loan may start from
    PoolsOf,       \* the pools of a pair, at most one for each exchange
    Scores, MinScore,
    MaxTrackedPairs, MaxShadowPairs, MaxDynamicAssets,
    MaxLivePairs, MaxLiveDynamicAssets,
    MinVenueDEXes, MinObservation, Cooldown, EjectWindows

Tokens == UNION {TokensOf[p] : p \in Pairs}
Pools == UNION {PoolsOf[p] : p \in Pairs}
Modes == {"shadow", "live"}
States == {"observed", "shadow", "admitted", "cooled"}

ASSUME PairsAssumption ==
    /\ Pairs \subseteq Nat /\ IsFiniteSet(Pairs)
    /\ \A p \in Pairs : /\ IsFiniteSet(TokensOf[p]) /\ Cardinality(TokensOf[p]) = 2
                         /\ IsFiniteSet(PoolsOf[p])
    /\ \A p, q \in Pairs : p # q => PoolsOf[p] \intersect PoolsOf[q] = {}
ASSUME TokensAssumption == Core \subseteq Configured /\ Configured \subseteq Tokens
ASSUME ScoresAssumption == Scores \subseteq Nat /\ MinScore \in Nat \ {0}
ASSUME LimitsAssumption ==
    /\ {MaxTrackedPairs, MaxShadowPairs, MaxDynamicAssets, MaxLivePairs, MaxLiveDynamicAssets,
        MinObservation, Cooldown, EjectWindows} \subseteq Nat \ {0}
    /\ MinVenueDEXes \in Nat /\ MinVenueDEXes >= 2
    /\ MaxLivePairs <= MaxTrackedPairs

VARIABLES
    mode,      \* PAIR_ADMISSION_MODE of this process
    tokens,    \* registered tokens
    pairs,     \* tracked pairs to their records
    live,      \* the pairs of the last snapshot given to OnAdmission
    resting,   \* history: what is left of the rest a pair owes since it was last cooled
    unfit,     \* history: selections in a row that kept an admitted pair without it qualifying
    saved      \* the state file, with the history at the moment it was written
vars == <<mode, tokens, pairs, live, resting, unfit, saved>>

Tracked == DOMAIN pairs
Least(a, b) == IF a < b THEN a ELSE b
NoPairs == [p \in {} |-> {}]
NoFile == [tokens |-> {}, pairs |-> NoPairs, resting |-> [p \in Pairs |-> 0], unfit |-> [p \in Pairs |-> 0]]

Init ==
    /\ mode \in Modes
    /\ tokens = Configured
    /\ pairs = NoPairs
    /\ live = {}
    /\ resting = [p \in Pairs |-> 0]
    /\ unfit = [p \in Pairs |-> 0]
    /\ saved = NoFile

-----------------------------------------------------------------------------
(* Observation.                                                            *)

RegisterToken(t) ==
    /\ t \notin tokens
    /\ tokens' = tokens \union {t}
    /\ UNCHANGED <<mode, pairs, live, resting, unfit, saved>>

NewPair == [venues |-> {}, state |-> "observed", age |-> 0, cooling |-> 0, below |-> 0]

\* ensurePairLocked: the pair's record, created when it is not tracked.
Ensured(p) == [q \in Tracked \union {p} |-> IF q \in Tracked THEN pairs[q] ELSE NewPair]

stateRank(s) ==
    CASE s = "cooled" -> 0 [] s = "observed" -> 1 [] s = "shadow" -> 2 [] s = "admitted" -> 3

\* q goes before p in the order pairs are dropped; of pairs of one rank the
\* lower score goes, then the longest not observed, which may be any of them.
DroppedFirst(m, q, p) == stateRank(m[q].state) < stateRank(m[p].state)

\* What pruneLocked may leave of m.
Pruned(m) ==
    {[p \in keep |-> m[p]] : keep \in
        {k \in SUBSET DOMAIN m :
            /\ Cardinality(k) = Least(Cardinality(DOMAIN m), MaxTrackedPairs)
            /\ \A p \in k, q \in DOMAIN m \ k : ~DroppedFirst(m, p, q)}}

\* The rest owed by every pair when those tracked are left with kept: a pair
\* whose record is gone is observed anew before it is chosen, but no longer.
RestOwed(rest, kept) ==
    [p \in Pairs |-> IF p \in kept THEN rest[p] ELSE Least(resting[p], MinObservation)]

\* A pool read by the market or found by the factory scan.
ObservePool(p, pool) ==
    /\ pool \in PoolsOf[p]
    /\ TokensOf[p] \subseteq tokens
    /\ pairs' \in Pruned([Ensured(p) EXCEPT ![p].venues = @ \union {pool}])
    /\ resting' = RestOwed(resting, DOMAIN pairs')
    /\ UNCHANGED <<mode, tokens, live, unfit, saved>>

pairByPool(pool) == {p \in Tracked : pool \in pairs[p].venues}

\* A probe moves the averages of failures and of illiquidity by a quarter; one
\* that takes either over .80 cools the pair, whatever its state.
RecordDepth(pool) ==
    /\ \E p \in pairByPool(pool) :
         /\ pairs' = [pairs EXCEPT ![p].state = "cooled", ![p].cooling = Cooldown]
         /\ resting' = [resting EXCEPT ![p] = Cooldown]
         /\ unfit' = [unfit EXCEPT ![p] = 0]
    /\ UNCHANGED <<mode, tokens, live, saved>>

\* probeDepth: one quote of the pool in one direction and size.  A full probe
\* channel, the hour between probes, a scan or a busy market only delay it.
ProbeDepth(pool) ==
    /\ \E p \in Pairs : pool \in PoolsOf[p] /\ TokensOf[p] \subseteq tokens
    /\ RecordDepth(pool)

-----------------------------------------------------------------------------
(* Selection, once a minute.                                               *)

\* Candidates go from the best score down, equal scores in the order of keys.
Better(score, q, p) == score[q] > score[p] \/ (score[q] = score[p] /\ q < p)

Dynamic(S) == UNION {TokensOf[p] : p \in S} \ Core

\* There is room for p after acc: for the pair, and for its tokens.
Room(acc, p, maxPairs, maxAssets) ==
    Cardinality(acc) < maxPairs /\ Cardinality(Dynamic(acc \union {p})) <= maxAssets

\* The greedy choice, in the order of the scores: a candidate is taken if there
\* is room for it after the base and what was taken before it.  There is one
\* such choice; it is described and not computed.
Choices(base, candidates, score, maxPairs, maxAssets) ==
    {base \union taken : taken \in
        {S \in SUBSET candidates : \A p \in candidates :
            p \in S <=> Room(base \union {q \in S : Better(score, q, p)}, p, maxPairs, maxAssets)}}

\* SelectShadow: fit is the confidence verdict.  A cooled pair whose cooldown
\* is over is observed again.
Rested(p) == pairs[p].state = "cooled" => pairs[p].cooling = 0
SelectShadow(score, fit) ==
    LET candidates == {p \in Tracked : /\ Rested(p)
                                       /\ pairs[p].age = MinObservation
                                       /\ score[p] >= MinScore /\ p \in fit}
    IN /\ mode = "shadow"
       /\ \E chosen \in Choices({}, candidates, score, MaxShadowPairs, MaxDynamicAssets) :
            pairs' = [p \in Tracked |->
              [pairs[p] EXCEPT
                 !.state = CASE p \in chosen -> "shadow"
                             [] p \notin chosen /\ (@ = "shadow" \/ (@ = "cooled" /\ Rested(p)))
                                  -> "observed"
                             [] OTHER -> @]]
       /\ UNCHANGED <<mode, tokens, live, resting, unfit>>

\* liveQualifiedLocked, after this selection's score is recorded.
liveQualified_untested(p, score, fit) ==
    /\ Rested(p)
    /\ score[p] >= MinScore /\ p \in fit
    /\ Cardinality(pairs[p].venues) >= MinVenueDEXes
    /\ TokensOf[p] \intersect Core # {}
liveQualified(p, score, fit) ==
    /\ Rested(p)
    /\ pairs[p].age = MinObservation
    /\ score[p] >= MinScore /\ p \in fit
    /\ Cardinality(pairs[p].venues) >= MinVenueDEXes
    /\ TokensOf[p] \intersect Core # {}

\* What becomes of an admitted pair that does not qualify: it is kept for
\* EjectWindows - 1 selections in a row.
Ejected_late(p) == pairs[p].below + 1 > EjectWindows
Ejected(p) == pairs[p].below + 1 >= EjectWindows

\* SelectLive: pairs in their grace windows are kept first, then candidates.
LiveSets_candidatesFirst(preserved, qualified, score) ==
    {preserved \union S : S \in Choices({}, qualified, score, MaxLivePairs, MaxLiveDynamicAssets)}
LiveSets(preserved, qualified, score) ==
    Choices(preserved, qualified, score, MaxLivePairs, MaxLiveDynamicAssets)

\* The windows below the threshold; those of a pair neither admitted nor
\* qualified are left alone.
Below_notReset(p, qualified) ==
    IF p \notin qualified /\ pairs[p].state = "admitted" THEN pairs[p].below + 1 ELSE pairs[p].below
Below(p, qualified) ==
    CASE p \in qualified -> 0
      [] p \notin qualified /\ pairs[p].state = "admitted" -> pairs[p].below + 1
      [] OTHER -> pairs[p].below

SelectLive(score, fit) ==
    LET qualified == {p \in Tracked : liveQualified(p, score, fit)}
        admitted == {p \in Tracked : pairs[p].state = "admitted"}
        ejected == {p \in admitted \ qualified : Ejected(p)}
        preserved == (admitted \ qualified) \ ejected
    IN /\ mode = "live"
       /\ \E selected \in LiveSets(preserved, qualified, score) :
            /\ live' = selected
            /\ pairs' = [p \in Tracked |->
                 [pairs[p] EXCEPT
                    !.below = Below(p, qualified),
                    !.cooling = IF p \in ejected THEN Cooldown ELSE @,
                    !.state = CASE p \in selected -> "admitted"
                                [] p \in ejected -> "cooled"
                                [] p \in (admitted \ selected) \ ejected -> "observed"
                                [] OTHER -> @]]
       /\ resting' = [p \in Pairs |-> IF p \in ejected THEN Cooldown ELSE resting[p]]
       /\ unfit' = [p \in Pairs |-> IF p \in preserved THEN unfit[p] + 1 ELSE 0]
       /\ UNCHANGED <<mode, tokens>>

\* Save replaces the file by a rename, or leaves it and returns an error that
\* its callers ignore.
Save(tk, m, rest, grace) ==
    saved' \in {saved, [tokens |-> tk, pairs |-> m, resting |-> rest, unfit |-> grace]}

\* The save tick of Run; the verdict is asked of pairs with the score only.
SaveTick ==
    /\ \E score \in [Tracked -> Scores] : \E fit \in SUBSET {p \in Tracked : score[p] >= MinScore} :
          SelectShadow(score, fit) \/ SelectLive(score, fit)
    /\ Save(tokens, pairs', resting', unfit')

\* The end of a factory scan, and the shutdown, save without a selection.
SaveOnly ==
    /\ Save(tokens, pairs, resting, unfit)
    /\ UNCHANGED <<mode, tokens, pairs, live, resting, unfit>>

-----------------------------------------------------------------------------
(* Time and restarts.                                                      *)

Less(n) == IF n = 0 THEN 0 ELSE n - 1
Later(m) == [p \in DOMAIN m |-> [m[p] EXCEPT !.age = Least(@ + 1, MinObservation), !.cooling = Less(@)]]

\* The file holds times of the clock and ages as the memory does.
Tick ==
    /\ pairs' = Later(pairs)
    /\ resting' = [p \in Pairs |-> Less(resting[p])]
    /\ saved' = [saved EXCEPT !.pairs = Later(@), !.resting = [p \in Pairs |-> Less(@[p])]]
    /\ UNCHANGED <<mode, tokens, live, unfit>>

\* The process ends, with or without the save of its shutdown, and the next one
\* loads and prunes the file, or starts without pairs if the file cannot be
\* read; the operator may have changed the mode.  What happened since the file
\* was written is forgotten.  The market starts without live pairs.
Restart(m) ==
    /\ mode' = m
    /\ \E file \in {saved, NoFile} :
         /\ tokens' = Configured \union file.tokens
         /\ pairs' \in Pruned(file.pairs)
         /\ resting' = RestOwed(file.resting, DOMAIN pairs')
         /\ unfit' = file.unfit
    /\ live' = {}
    /\ UNCHANGED saved

Next ==
    \/ \E t \in Tokens : RegisterToken(t)
    \/ \E p \in Pairs, pool \in Pools : ObservePool(p, pool)
    \/ \E pool \in Pools : ProbeDepth(pool)
    \/ SaveTick \/ SaveOnly
    \/ Tick
    \/ \E m \in Modes : Restart(m)

Spec == Init /\ [][Next]_vars

-----------------------------------------------------------------------------
(* Properties.                                                             *)

Admitted == {p \in Tracked : pairs[p].state = "admitted"}
InShadow == {p \in Tracked : pairs[p].state = "shadow"}

\* Neither the pairs tracked, in the shadow set or admitted to the market graph
\* nor the dynamic tokens they bring exceed their limits, although SelectLive
\* keeps pairs in their grace windows whatever the limits say, across restarts
\* and changes of mode.
LiveBounded ==
    /\ Cardinality(Tracked) <= MaxTrackedPairs
    /\ Cardinality(live) <= MaxLivePairs /\ Cardinality(Admitted) <= MaxLivePairs
    /\ Cardinality(Dynamic(live)) <= MaxLiveDynamicAssets
    /\ Cardinality(Dynamic(Admitted)) <= MaxLiveDynamicAssets
    /\ Cardinality(InShadow) <= MaxShadowPairs
    /\ Cardinality(Dynamic(InShadow)) <= MaxDynamicAssets

\* A pair that RecordDepth or SelectLive cooled is neither admitted nor in the
\* shadow set before its cooldown is over, through selections, restarts and
\* changes of mode, or, if its record was dropped from the full memory or with
\* an unreadable file and the pair is tracked again without its cooldown, before
\* MinObservation, if that is shorter.  A cooldown that a crash lost because
\* no save after it succeeded is not owed: the file does not know of it.
CooldownServed == \A p \in Admitted \union InShadow : resting[p] = 0

\* The market graph never keeps a pair through EjectWindows selections in a
\* row that it did not qualify for, counting from the file after a restart
\* (SelectLive).
NoStaleLivePair == \A p \in live : unfit[p] < EjectWindows

\* No selection ejects a pair before EjectWindows - 1 selections in a row kept
\* it without it qualifying: qualifying in between starts its grace again, and
\* a restart leaves it the grace that the file knows of (SelectLive).
EjectedEarly ==
    \E p \in Admitted \intersect DOMAIN pairs' :
        pairs'[p].state = "cooled" /\ unfit[p] + 1 < EjectWindows
GraceServed == [][EjectedEarly => ~SaveTick]_vars
=============================================================================
