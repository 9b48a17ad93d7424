--------------------------- MODULE ShadowDecision ---------------------------
(***************************************************************************)
(* The shadow decision service (go/internal/decision/service.go): market   *)
(* cycles offer snapshots and evaluations without waiting, once a minute   *)
(* the service ranks the routes of the newest snapshot, proposes some      *)
(* (quality.go: Select) and quotes one of them with reads pinned to the    *)
(* snapshot's block.                                                       *)
(*                                                                         *)
(* Scores are abstracted: a ranking is any order of the candidates, and a  *)
(* pair may qualify for extra routes or not at each analysis.              *)
(*                                                                         *)
(* X_variant just before X is a plausible defect of X; no action uses it.  *)
(***************************************************************************)
EXTENDS Integers, FiniteSets, Sequences

CONSTANTS
    Routes,         \* numbered in the order of their keys
    LiveRoutes,     \* the market's own; the others come from qualified pairs
    AssetOf,        \* funding asset, numbered in the order of their names
    HopsOf,
    Amounts,        \* by asset, 0 without a configured amount
    DepthCaps,      \* what fresh depth of the first pool allows, 0 if unknown
    Divisors,       \* of the amount ladder (100, 20, 10, 4 and 1)
    Snapshots,      \* the sets of routes through an unresolved pool, of a snapshot
    Limit,          \* proposals of an analysis (8)
    ReadLimit,      \* reads a minute (12)
    ObservationCap, \* capacity of the channel (128)
    MaxHistory,     \* routes of the history and of the sampling history (4096)
    MaxOffers, MaxObservations, MaxRounds, MaxRestarts

Assets == {AssetOf[r] : r \in Routes}

ASSUME RoutesAssumption ==
    /\ Routes \subseteq Nat /\ LiveRoutes \subseteq Routes /\ IsFiniteSet(Routes)
    /\ AssetOf \in [Routes -> Nat] /\ HopsOf \in [Routes -> 2..4]
    /\ Snapshots \subseteq SUBSET Routes
ASSUME AmountsAssumption ==
    /\ \A a \in Assets : Amounts[a] \in Nat
    /\ DepthCaps \subseteq Nat /\ Divisors \subseteq Nat \ {0}
ASSUME LimitsAssumption ==
    /\ {Limit, ReadLimit, ObservationCap, MaxHistory} \subseteq Nat \ {0}
    /\ {MaxOffers, MaxObservations, MaxRounds, MaxRestarts} \subseteq Nat

VARIABLES
    offered, offer,      \* number of the newest snapshot, and where its Offer is
    mailbox,             \* in: at most one snapshot
    observations,        \* routes evaluated by the market, waiting
    observed,            \* how many there were
    latest,              \* the snapshot to analyse
    history,             \* routes to [evals, seen]; owned by Run, like the rest
    saved,               \* phase2_history.json
    shadowSeen,          \* routes to the number of their probes
    round,
    selected,            \* [route, bucket] in order
    probe,
    reads, windowOver,   \* reads of the minute, and whether it has passed
    busy, restarts,
    passed,              \* history: probed explorations that passed over a route never observed
    skipped              \* history: analyses in a row, all assets with candidates, that left an asset out
marketVars == <<offered, offer, observed>>
memoryVars == <<history, saved, shadowSeen>>
analysisVars == <<round, selected, passed, skipped>>
readVars == <<probe, reads, windowOver>>
envVars == <<busy, restarts>>
vars == <<marketVars, mailbox, observations, latest, memoryVars, analysisVars, readVars, envVars>>

NoSnapshot == [number |-> 0, unresolved |-> {}]
Empty == [r \in {} |-> 0]
Idle == [pc |-> "idle"]
Least(a, b) == IF a < b THEN a ELSE b

Init ==
    /\ offered = 0 /\ offer = Idle /\ observed = 0
    /\ mailbox = <<>> /\ observations = <<>> /\ latest = NoSnapshot
    /\ history = Empty /\ saved = Empty /\ shadowSeen = Empty
    /\ round = 0 /\ selected = <<>> /\ probe = Idle
    /\ reads = 0 /\ windowOver = TRUE
    /\ busy = FALSE /\ restarts = 0
    /\ passed = [r \in Routes |-> 0] /\ skipped = [a \in Assets |-> 0]

-----------------------------------------------------------------------------
(* The market's side: one cycle at a time offers its snapshot.             *)

\* Offer: send; if the channel is full take out what is there, and send again.
AfterFirstSend_dropNew(sent) == Idle
AfterFirstSend(sent) == IF sent THEN Idle ELSE [offer EXCEPT !.pc = "drain"]

Offer(unresolved) ==
    /\ offer = Idle /\ offered < MaxOffers
    /\ offered' = offered + 1
    /\ offer' = [pc |-> "send", input |-> [number |-> offered + 1, unresolved |-> unresolved]]
    /\ UNCHANGED <<observed, mailbox, observations, latest, memoryVars, analysisVars, readVars,
                   envVars>>

FirstSend ==
    /\ offer.pc = "send"
    /\ mailbox' = IF mailbox = <<>> THEN <<offer.input>> ELSE mailbox
    /\ offer' = AfterFirstSend(mailbox = <<>>)
    /\ UNCHANGED <<offered, observed, observations, latest, memoryVars, analysisVars, readVars,
                   envVars>>

Drain ==
    /\ offer.pc = "drain"
    /\ mailbox' = <<>>
    /\ offer' = [offer EXCEPT !.pc = "resend"]
    /\ UNCHANGED <<offered, observed, observations, latest, memoryVars, analysisVars, readVars,
                   envVars>>

Resend ==
    /\ offer.pc = "resend"
    /\ mailbox' = IF mailbox = <<>> THEN <<offer.input>> ELSE mailbox
    /\ offer' = Idle
    /\ UNCHANGED <<offered, observed, observations, latest, memoryVars, analysisVars, readVars,
                   envVars>>

\* Observe: an evaluation of the market; a full channel drops it.
Observe(r) ==
    /\ observed < MaxObservations /\ r \in LiveRoutes
    /\ observed' = observed + 1
    /\ observations' = IF Len(observations) < ObservationCap THEN Append(observations, r)
                       ELSE observations
    /\ UNCHANGED <<offered, offer, mailbox, latest, memoryVars, analysisVars, readVars, envVars>>

-----------------------------------------------------------------------------
(* Run takes one event at a time; an analysis ends with its probe.         *)

TakeSnapshot ==
    /\ probe = Idle /\ mailbox # <<>>
    /\ latest' = Head(mailbox) /\ mailbox' = <<>>
    /\ UNCHANGED <<marketVars, observations, memoryVars, analysisVars, readVars, envVars>>

\* prune: the routes seen longest ago go first.
Pruned(h) ==
    {[r \in keep |-> h[r]] : keep \in
        {k \in SUBSET DOMAIN h :
            /\ Cardinality(k) = Least(Cardinality(DOMAIN h), MaxHistory)
            /\ \A r \in k, q \in DOMAIN h \ k : h[q].seen <= h[r].seen}}

Evaluations(r) == IF r \in DOMAIN history THEN history[r].evals ELSE 0

\* UpdateHistory, then prune.
TakeObservation ==
    /\ probe = Idle /\ observations # <<>>
    /\ LET r == Head(observations)
       IN history' \in Pruned([q \in DOMAIN history \union {r} |->
                                  IF q = r THEN [evals |-> Evaluations(r) + 1, seen |-> observed]
                                  ELSE history[q]])
    /\ observations' = Tail(observations)
    /\ UNCHANGED <<marketVars, mailbox, latest, saved, shadowSeen, analysisVars, readVars, envVars>>

-----------------------------------------------------------------------------
(* Candidates, ranking and selection.                                      *)

\* shadowRoutes: the market's routes and those of qualified pairs, none of
\* them through an unresolved pool.
Candidates(qualified) == (LiveRoutes \union qualified) \ latest.unresolved

\* Rank: by score, which may be anything; the place of each candidate.
Rankings(C) ==
    {rank \in [C -> 1..Cardinality(C)] : \A p, q \in C : rank[p] = rank[q] => p = q}

Probed(r) == IF r \in DOMAIN shadowSeen THEN shadowSeen[r] ELSE 0
Observations_live(r) == Evaluations(r)
Observations(r) == Evaluations(r) + Probed(r)

AssetsOf(C) == {AssetOf[r] : r \in C}
Quota(n) == (Limit + n - 1) \div n
Place(S, x) == Cardinality({y \in S : y < x})
Nth(S, n) == CHOOSE x \in S : Place(S, x) = n

\* The best ranked of the candidates with the fewest observations, if there is
\* a place to spare for it.
Explored(C, rank) ==
    {r \in C : Limit > 1 /\ \A q \in C : \/ Observations(r) < Observations(q)
                                         \/ Observations(r) = Observations(q) /\ rank[r] <= rank[q]}

\* The turn of an asset: in the order of names, from another one each round.
Turn_fixed(A, a) == Place(A, a)
Turn(A, a) == (Place(A, a) - round) % Cardinality(A)

\* The candidates that Select visits before each one: the explored route comes
\* first, then the others by asset and rank.  (Exploited routes with a changed
\* pool are only labelled differently.)
Earlier(C, rank, explored) ==
    LET turn == [a \in AssetsOf(C) |-> Turn(AssetsOf(C), a)]
    IN [r \in C |-> {q \in C :
          /\ r \notin explored
          /\ \/ q \in explored
             \/ turn[AssetOf[q]] < turn[AssetOf[r]]
             \/ AssetOf[q] = AssetOf[r] /\ rank[q] < rank[r]}]

\* What it adds: a candidate is taken while there is place in the proposals and
\* in the quota of its asset.
Added(C, earlier) ==
    LET quota == Quota(Cardinality(AssetsOf(C)))
    IN {S \in SUBSET C : \A r \in C :
          LET before == S \intersect earlier[r]
          IN r \in S <=> /\ Cardinality(before) < Limit
                         /\ Cardinality({q \in before : AssetOf[q] = AssetOf[r]}) < quota}

\* The proposals, in the order they were added.
InOrder(S, earlier) ==
    {s \in [1..Cardinality(S) -> S] : \A i \in DOMAIN s : Cardinality(S \intersect earlier[s[i]]) = i - 1}
Select(C, rank) ==
    LET explored == Explored(C, rank)
        earlier == Earlier(C, rank, explored)
    IN {[i \in DOMAIN s |->
           [route |-> s[i], bucket |-> IF s[i] \in explored THEN "explore" ELSE "exploit"]] :
        s \in UNION {InOrder(S, earlier) : S \in Added(C, earlier)}}

Chosen(out) == {out[i].route : i \in DOMAIN out}

\* AmountLadder: distinct positive fractions of the amount or the depth cap.
Ladder(base, cap) ==
    {(IF cap > 0 THEN Least(base, cap) ELSE base) \div d : d \in Divisors} \ {0}

\* rememberShadow; a full sampling history drops its smallest key.
Remembered(r) ==
    LET full == r \notin DOMAIN shadowSeen /\ Cardinality(DOMAIN shadowSeen) >= MaxHistory
        kept == IF full
                THEN DOMAIN shadowSeen \ {CHOOSE k \in DOMAIN shadowSeen : \A q \in DOMAIN shadowSeen : k <= q}
                ELSE DOMAIN shadowSeen
    IN [q \in kept \union {r} |-> IF q = r THEN Probed(r) + 1 ELSE shadowSeen[q]]

\* The minute's analysis: rank, select, and probe the proposal and the size
\* whose turn it is.
Analyze(C, chosen, cap) ==
    LET r == chosen[(round % Len(chosen)) + 1].route
        ladder == Ladder(Amounts[AssetOf[r]], cap)
        probes == chosen # <<>> /\ ladder # {}
        explores == probes /\ r = chosen[1].route /\ chosen[1].bucket = "explore"
    IN /\ selected' = chosen
       /\ round' = round + 1
       /\ shadowSeen' = IF probes THEN Remembered(r) ELSE shadowSeen
       /\ probe' = IF probes
                   THEN [pc |-> "read", route |-> r, left |-> HopsOf[r] + 1,
                         amount |-> Nth(ladder, round % Cardinality(ladder))]
                   ELSE [pc |-> "save"]
       /\ passed' = [q \in Routes |->
             IF q \notin C \/ Observations(q) > 0 \/ (explores /\ q = r) THEN 0
             ELSE IF explores THEN passed[q] + 1 ELSE passed[q]]
       /\ skipped' = [a \in Assets |->
             IF \/ AssetsOf(C) # Assets \/ \E q \in Chosen(chosen) : AssetOf[q] = a
             THEN 0 ELSE skipped[a] + 1]
       /\ UNCHANGED <<marketVars, mailbox, observations, latest, history, saved, reads, windowOver,
                      envVars>>

\* A tick before any snapshot, or without candidates, only writes a line.
AnalyzeTick ==
    /\ probe = Idle /\ latest.number > 0 /\ round < MaxRounds
    /\ \E qualified \in SUBSET (Routes \ LiveRoutes), cap \in DepthCaps :
        \E rank \in Rankings(Candidates(qualified)) :
            \E chosen \in Select(Candidates(qualified), rank) :
                Analyze(Candidates(qualified), chosen, cap)

-----------------------------------------------------------------------------
(* The probe: a read for every hop and one for the premium.                *)

Spent == IF windowOver THEN 0 ELSE reads
OutOfBudget == Spent >= ReadLimit

\* pinnedReader.EthCall: out of budget or with the market busy the probe ends;
\* a read may fail, and so may the deadline end it.
Read(ok) ==
    /\ probe.pc = "read"
    /\ windowOver' = FALSE
    /\ IF OutOfBudget \/ busy
       THEN reads' = Spent /\ probe' = [pc |-> "save"]
       ELSE /\ reads' = Spent + 1
            /\ probe' = IF ok /\ probe.left > 1 THEN [probe EXCEPT !.left = @ - 1]
                        ELSE [pc |-> "save"]
    /\ UNCHANGED <<marketVars, mailbox, observations, latest, memoryVars, analysisVars, envVars>>

\* saveHistory, whose errors are counted and ignored.
SaveHistory ==
    /\ probe.pc = "save"
    /\ saved' \in {history, saved}
    /\ probe' = Idle
    /\ UNCHANGED <<marketVars, mailbox, observations, latest, history, shadowSeen, analysisVars,
                   reads, windowOver, envVars>>

\* A minute has passed since the first read of the window.
MinutePasses ==
    /\ ~windowOver /\ windowOver' = TRUE
    /\ UNCHANGED <<marketVars, mailbox, observations, latest, memoryVars, analysisVars, probe,
                   reads, envVars>>

MarketBusy ==
    /\ busy' = ~busy
    /\ UNCHANGED <<marketVars, mailbox, observations, latest, memoryVars, analysisVars, readVars,
                   restarts>>

\* The process ends, having saved its history or not, and starts again.
Restart ==
    /\ restarts < MaxRestarts /\ restarts' = restarts + 1
    /\ saved' \in {history, saved}
    /\ history' \in Pruned(saved')
    /\ offer' = Idle /\ mailbox' = <<>> /\ observations' = <<>> /\ latest' = NoSnapshot
    /\ shadowSeen' = Empty /\ round' = 0 /\ selected' = <<>>
    /\ probe' = Idle /\ reads' = 0 /\ windowOver' = TRUE
    /\ offered' = 0
    /\ passed' = [r \in Routes |-> 0] /\ skipped' = [a \in Assets |-> 0]
    /\ UNCHANGED <<observed, busy>>

Next ==
    \/ \E u \in Snapshots : Offer(u)
    \/ FirstSend \/ Drain \/ Resend
    \/ \E r \in Routes : Observe(r)
    \/ TakeSnapshot \/ TakeObservation
    \/ AnalyzeTick
    \/ \E ok \in BOOLEAN : Read(ok)
    \/ SaveHistory \/ MinutePasses \/ MarketBusy \/ Restart

Spec == Init /\ [][Next]_vars

-----------------------------------------------------------------------------
(* Properties.                                                             *)

\* Once an Offer is over its snapshot waits or is the one to analyse, and no
\* older one is left: the newest snapshot is never lost to an older one,
\* however Offer and Run interleave (Offer, Run).
NewestSnapshot ==
    offer = Idle => IF mailbox = <<>> THEN latest.number = offered
                    ELSE Head(mailbox).number = offered

\* A route that was never evaluated nor probed, and stays a candidate, is passed
\* over by fewer explorations that end in a probe than there are routes (Select,
\* rememberShadow).  Explorations without a probe do not count: a least observed
\* route whose loan ladder is empty is never remembered, and keeps the slot.
ExplorationReaches == \A r \in Routes : passed[r] < Cardinality(Routes)

\* While every funding asset has candidates, none goes without a proposal for as
\* many analyses in a row as there are assets (Select, the rotating start).  When
\* some asset has none the turns are those of a smaller set, the rotation starts
\* from another place, and every count starts again.
AssetsRotate == \A a \in Assets : skipped[a] < Cardinality(Assets)
=============================================================================
