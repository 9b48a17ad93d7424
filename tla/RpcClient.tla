----------------------------- MODULE RpcClient -----------------------------
(***************************************************************************)
(* The managed JSON-RPC client of go/internal/rpc/client.go: concurrent    *)
(* calls over a pool of providers with cooldown, probation, block lag,     *)
(* failover, minute budgets and the single-shot broadcast.                 *)
(*                                                                         *)
(* Time is counted in ticks of the shortest cooldown (15 s).  Every        *)
(* deadline the client stores is kept as the ticks left until it passes.   *)
(* Limiter delays and latencies are shorter than a tick: they only order   *)
(* providers, and the order is left open.                                  *)
(*                                                                         *)
(* X_variant just before X is a plausible defect of X; no action uses it.  *)
(***************************************************************************)
EXTENDS Integers, FiniteSets, Sequences

CONSTANTS
    Callers,      \* goroutines that use the client
    Asks,         \* the requests each of them makes: [method, class]
    Tiers,        \* tier of each provider, 0 premium .. 3 emergency
    Retries,      \* retries of a read
    ShortCooldown, RateCooldown, QuotaCooldown, FloorCooldown, Probation,
    FloorAfter,   \* failures in a row after which the floor applies (3)
    MaxShift,     \* doublings of the rate-limit cooldown
    Hysteresis,   \* ticks before the primary is taken back (2 min)
    MaxBlockLag, BlockFresh,  \* lag allowed, ticks a block observation counts
    Blocks,       \* blocks a provider may answer with
    HotLimit, EthLimit, Window,  \* minute budgets and their length; limit 0 for none
    MaxCalls      \* bound on the calls of a behaviour

ASSUME PoolAssumption == Len(Tiers) > 0 /\ \A i \in 1..Len(Tiers) : Tiers[i] \in 0..3
ASSUME RequestsAssumption ==
    Asks \in [Callers -> SUBSET
        [method : {"eth_call", "eth_blockNumber", "eth_sendRawTransaction", "other"},
         class : {"standard", "background", "hot_path", "critical"}]]
ASSUME DurationsAssumption ==
    /\ {ShortCooldown, RateCooldown, QuotaCooldown, FloorCooldown, FloorAfter, Window}
        \subseteq Nat \ {0}
    /\ {Retries, Probation, MaxShift, Hysteresis, MaxBlockLag, BlockFresh, HotLimit, EthLimit,
        MaxCalls} \subseteq Nat
    /\ Blocks \subseteq Nat \ {0}
\* Arithmetic, stated because the provers do not know the exponential.
ASSUME DoublingAssumption ==
    \A k \in 0..MaxShift : /\ RateCooldown * 2 ^ k \in Nat \ {0}
                           /\ RateCooldown * 2 ^ k <= RateCooldown * 2 ^ MaxShift

VARIABLES
    cool, probation,   \* ticks until cooldownUntil, probationUntil
    failures,          \* consecutiveFailure, counted up to FloorAfter
    streak,            \* rateLimitStreak, counted up to MaxShift + 1
    block, fresh,      \* latestBlock, ticks its observation still counts
    active, sinceSwitch,  \* index in use, ticks until lastSwitch is old
    hotCalls, ethCalls,   \* minuteBudget.calls, each as the ticks it still counts
    pc, request, attempt, target, wait,  \* per caller
    sends,             \* requests the caller's call has put on the wire (history)
    calls              \* calls begun so far

poolVars == <<cool, probation, failures, streak, block, fresh>>
switchVars == <<active, sinceSwitch>>
budgetVars == <<hotCalls, ethCalls>>
callVars == <<pc, request, attempt, target, wait, sends, calls>>
vars == <<poolVars, switchVars, budgetVars, callVars>>

Size == Len(Tiers)
Ring == 0..(Size - 1)
Idle == [method |-> "other", class |-> "standard"]
Low(S) == CHOOSE m \in S : \A n \in S : m <= n
Goto(c, stage) == pc' = [pc EXCEPT ![c] = stage]

\* A new client: no provider has failed or been asked, the first is active.
Init ==
    /\ cool = [p \in Ring |-> 0] /\ probation = [p \in Ring |-> 0]
    /\ failures = [p \in Ring |-> 0] /\ streak = [p \in Ring |-> 0]
    /\ block = [p \in Ring |-> 0] /\ fresh = [p \in Ring |-> 0]
    /\ active = 0 /\ sinceSwitch = 0 /\ hotCalls = <<>> /\ ethCalls = <<>>
    /\ pc = [c \in Callers |-> "idle"] /\ request = [c \in Callers |-> Idle]
    /\ attempt = [c \in Callers |-> 0] /\ target = [c \in Callers |-> 0]
    /\ wait = [c \in Callers |-> 0] /\ sends = [c \in Callers |-> 0] /\ calls = 0

-----------------------------------------------------------------------------
(* Time.  A call of the budget that has left the minute is dropped at once *)
(* and not at the next Allow: nothing reads it in between.                 *)

Less(n) == IF n > 0 THEN n - 1 ELSE 0
Aged(used) ==   \* the calls are in the order of their times
    LET first == Low({i \in 1..(Len(used) + 1) : i <= Len(used) => used[i] > 1})
    IN [i \in 1..(Len(used) + 1 - first) |-> used[i + first - 1] - 1]
Tick ==
    /\ cool' = [p \in Ring |-> Less(cool[p])]
    /\ probation' = [p \in Ring |-> Less(probation[p])]
    /\ fresh' = [p \in Ring |-> Less(fresh[p])]
    /\ sinceSwitch' = Less(sinceSwitch)
    /\ wait' = [c \in Callers |-> Less(wait[c])]
    /\ hotCalls' = Aged(hotCalls) /\ ethCalls' = Aged(ethCalls)
    /\ UNCHANGED <<failures, streak, block, active, pc, request, attempt, target, sends, calls>>

-----------------------------------------------------------------------------
(* Which provider.                                                         *)

\* tierRank gives every class the same order, so a tier is its rank.
TierRank(p) == Tiers[p + 1]

BestKnownBlock == CHOOSE b \in {block[p] : p \in Ring} : \A p \in Ring : block[p] <= b

ProviderLagged(p) ==
    /\ MaxBlockLag > 0 /\ block[p] > 0 /\ fresh[p] > 0
    /\ BestKnownBlock - block[p] > MaxBlockLag

\* The first pass passes over providers in probation, the second does not.
Candidates_ignoreLag(pass) == {p \in Ring : cool[p] = 0 /\ (pass = 0 => probation[p] = 0)}
Candidates(pass) ==
    {p \in Ring : cool[p] = 0 /\ (pass = 0 => probation[p] = 0) /\ ~ProviderLagged(p)}
Usable == IF Candidates(0) # {} THEN Candidates(0) ELSE Candidates(1)

\* busy: providers whose limiter would delay the read past the spill delay.
PreferredReadTiers(among, busy) ==
    IF among \subseteq busy THEN {TierRank(p) : p \in among}
    ELSE {Low({TierRank(p) : p \in among \ busy})}

\* Reads other than the critical ones spill to the next tier when the first
\* is busy; critical reads keep the tier order, even among providers that all
\* cool, whatever their cooldown.
ReadChoices(class) ==
    LET lowest(among) == {p \in among : \A q \in among : TierRank(p) <= TierRank(q)}
        soonest(among) == {p \in among : \A q \in among : cool[p] <= cool[q]}
    IN IF class = "critical"
       THEN IF Usable # {} THEN lowest(Usable) ELSE soonest(lowest(Ring))
       ELSE IF Usable # {}
            THEN UNION {{p \in Usable : TierRank(p) \in PreferredReadTiers(Usable, busy)}
                        : busy \in SUBSET Ring}
            ELSE soonest(Ring)

\* The first provider at or after `from` in the ring that is not cooling.
FirstRested(from, fallback) ==
    LET rested == {n \in 0..(Size - 1) : cool[(from + n) % Size] = 0}
    IN IF rested = {} THEN fallback ELSE (from + Low(rested)) % Size

\* chooseProvider, for the broadcast: back to the primary once the last
\* failover is two minutes old, then the first provider that is not cooling,
\* or the active one if all are.
SendChoice_sticky == FirstRested(active, active)
SendChoice ==
    LET start == IF active # 0 /\ sinceSwitch = 0 /\ cool[0] = 0 THEN 0 ELSE active
    IN FirstRested(start, start)

-----------------------------------------------------------------------------
(* What a provider's answer says of the provider.                          *)

Answers == {"ok", "transport", "timeout", "http_403", "http_5xx", "http_429", "quota",
            "plan_limit", "http_4xx", "rpc_error", "undecodable", "canceled"}
ProviderFailure(answer) ==
    answer \notin {"ok", "http_4xx", "rpc_error", "undecodable", "canceled"}
RateLimited(answer) == answer \in {"http_429", "quota"}

RateLimitCooldown(run) == RateCooldown * 2 ^ (IF run - 1 > MaxShift THEN MaxShift ELSE run - 1)

CooldownFor(answer, run) ==
    CASE answer = "quota" -> QuotaCooldown
      [] answer = "http_429" -> RateLimitCooldown(run)
      [] OTHER -> ShortCooldown

\* The new cooldown replaces whatever was left of an earlier one.
RecordFailure(p, answer) ==
    LET run == IF RateLimited(answer) THEN streak[p] + 1 ELSE streak[p]
        row == IF failures[p] < FloorAfter THEN failures[p] + 1 ELSE FloorAfter
        time == CooldownFor(answer, run)
    IN /\ failures' = [failures EXCEPT ![p] = row]
       /\ streak' = [streak EXCEPT ![p] = IF run > MaxShift + 1 THEN MaxShift + 1 ELSE run]
       /\ cool' = [cool EXCEPT ![p] = IF row = FloorAfter /\ time < FloorCooldown
                                         THEN FloorCooldown ELSE time]
       /\ probation' = [probation EXCEPT ![p] = time + Probation]
       /\ UNCHANGED <<block, fresh>>

RecordSuccess(p, method) ==
    /\ failures' = [failures EXCEPT ![p] = 0]
    /\ streak' = [streak EXCEPT ![p] = 0]
    /\ IF method = "eth_blockNumber"
       THEN \E b \in Blocks : /\ block' = [block EXCEPT ![p] = b]
                              /\ fresh' = [fresh EXCEPT ![p] = BlockFresh]
       ELSE UNCHANGED <<block, fresh>>
    /\ UNCHANGED <<cool, probation>>

\* The failed provider already cools when the search for another begins.
Failover(p) ==
    LET to == FirstRested((p + 1) % Size, p)
    IN IF to = p THEN UNCHANGED switchVars
       ELSE active' = to /\ sinceSwitch' = Hysteresis

-----------------------------------------------------------------------------
(* A call.                                                                 *)

SingleShot_never(r) == FALSE
SingleShot(r) == r.method = "eth_sendRawTransaction"

Begin(c, r) ==
    /\ pc[c] = "idle" /\ calls < MaxCalls
    /\ calls' = calls + 1
    /\ request' = [request EXCEPT ![c] = r]
    /\ attempt' = [attempt EXCEPT ![c] = 0]
    /\ sends' = [sends EXCEPT ![c] = 0]
    /\ Goto(c, IF SingleShot(r) THEN "send" ELSE "admit")
    /\ UNCHANGED <<poolVars, switchVars, budgetVars, target, wait>>

Return(c) ==
    /\ Goto(c, "idle")
    /\ request' = [request EXCEPT ![c] = Idle]
    /\ attempt' = [attempt EXCEPT ![c] = 0]
    /\ target' = [target EXCEPT ![c] = 0]
    /\ wait' = [wait EXCEPT ![c] = 0]
    /\ sends' = [sends EXCEPT ![c] = 0]
    /\ UNCHANGED calls

Allow_oneMore(limit, used) == limit = 0 \/ Len(used) <= limit
Allow(limit, used) == limit = 0 \/ Len(used) < limit
Charge(limit, used) == IF limit = 0 THEN used ELSE Append(used, Window)

\* Every attempt of an eth_call is charged.  A hot read is charged to the hot
\* budget before the common one can refuse it.
Admit(c) ==
    LET r == request[c]
        hot == r.method = "eth_call" /\ r.class = "hot_path"
        common == r.method = "eth_call" /\ r.class # "critical"
        refusedHot == hot /\ ~Allow(HotLimit, hotCalls)
        refused == refusedHot \/ (common /\ ~Allow(EthLimit, ethCalls))
    IN /\ pc[c] = "admit"
       /\ hotCalls' = IF hot /\ ~refusedHot THEN Charge(HotLimit, hotCalls) ELSE hotCalls
       /\ ethCalls' = IF common /\ ~refused THEN Charge(EthLimit, ethCalls) ELSE ethCalls
       /\ IF refused THEN Return(c)
          ELSE Goto(c, "choose") /\ UNCHANGED <<request, attempt, target, wait, sends, calls>>
       /\ UNCHANGED <<poolVars, switchVars>>

\* chooseReadProvider; the cooldown left is waited for outside the mutex.
ChooseRead(c) ==
    /\ pc[c] = "choose"
    /\ \E p \in ReadChoices(request[c].class) :
        /\ active' = p
        /\ target' = [target EXCEPT ![c] = p]
        /\ wait' = [wait EXCEPT ![c] = cool[p]]
    /\ Goto(c, "waiting")
    /\ UNCHANGED <<poolVars, sinceSwitch, budgetVars, request, attempt, sends, calls>>

ChooseSend(c) ==
    /\ pc[c] = "send"
    /\ active' = SendChoice
    /\ target' = [target EXCEPT ![c] = SendChoice]
    /\ Goto(c, "waiting")
    /\ UNCHANGED <<poolVars, sinceSwitch, budgetVars, request, attempt, wait, sends, calls>>

\* recordRequest, then callProvider puts the request on the wire.
Send(c) ==
    /\ pc[c] = "waiting" /\ wait[c] = 0
    /\ Goto(c, "flight")
    /\ sends' = [sends EXCEPT ![c] = @ + 1]
    /\ UNCHANGED <<poolVars, switchVars, budgetVars, request, attempt, target, wait, calls>>

\* Success, an error that is the caller's own, or the end of its context.
Answered(c) ==
    /\ pc[c] = "flight"
    /\ \E answer \in Answers :
        /\ ~ProviderFailure(answer)
        /\ IF answer = "ok" THEN RecordSuccess(target[c], request[c].method)
           ELSE UNCHANGED poolVars
    /\ Return(c)
    /\ UNCHANGED <<switchVars, budgetVars>>

\* The provider failed: cooldown, failover and another attempt, if one is left.
FailedRead(c) ==
    /\ pc[c] = "flight" /\ ~SingleShot(request[c])
    /\ \E answer \in Answers : ProviderFailure(answer) /\ RecordFailure(target[c], answer)
    /\ Goto(c, "failover")
    /\ UNCHANGED <<switchVars, budgetVars, request, attempt, target, wait, sends, calls>>

FailoverRead(c) ==
    /\ pc[c] = "failover"
    /\ Failover(target[c])
    /\ IF attempt[c] < Retries
       THEN /\ attempt' = [attempt EXCEPT ![c] = @ + 1]
            /\ Goto(c, "admit")
            /\ UNCHANGED <<request, target, wait, sends, calls>>
       ELSE Return(c)
    /\ UNCHANGED <<poolVars, budgetVars>>

FailedSend(c) ==
    /\ pc[c] = "flight" /\ SingleShot(request[c])
    /\ \E answer \in Answers : ProviderFailure(answer) /\ RecordFailure(target[c], answer)
    /\ Return(c)
    /\ UNCHANGED <<switchVars, budgetVars>>

\* The context ends while the call waits for a limiter, a cooldown or a retry.
Abandon(c) ==
    /\ \/ pc[c] \in {"choose", "waiting"}
       \/ pc[c] = "admit" /\ attempt[c] > 0
    /\ Return(c)
    /\ UNCHANGED <<poolVars, switchVars, budgetVars>>

CallStep(c) ==
    \/ Admit(c) \/ ChooseRead(c) \/ ChooseSend(c) \/ Send(c)
    \/ Answered(c) \/ FailedRead(c) \/ FailoverRead(c) \/ FailedSend(c)

Next ==
    \/ Tick
    \/ \E c \in Callers :
        \/ \E r \in Asks[c] : Begin(c, r)
        \/ CallStep(c) \/ Abandon(c)

Spec == Init /\ [][Next]_vars

-----------------------------------------------------------------------------
(* Properties.                                                             *)

MaxCooldown ==
    LET S == {ShortCooldown, RateLimitCooldown(MaxShift + 1), QuotaCooldown, FloorCooldown}
    IN CHOOSE m \in S : \A n \in S : n <= m

\* The pool, the calls and the budgets have their types, and neither minute
\* budget (minuteBudget.Allow) ever counts more calls than its limit.
TypeOK ==
    /\ cool \in [Ring -> 0..MaxCooldown] /\ probation \in [Ring -> 0..(MaxCooldown + Probation)]
    /\ failures \in [Ring -> 0..FloorAfter] /\ streak \in [Ring -> 0..(MaxShift + 1)]
    /\ block \in [Ring -> Blocks \union {0}] /\ fresh \in [Ring -> 0..BlockFresh]
    /\ active \in Ring /\ sinceSwitch \in 0..Hysteresis
    /\ hotCalls \in Seq(1..Window) /\ ethCalls \in Seq(1..Window)
    /\ Len(hotCalls) <= HotLimit /\ Len(ethCalls) <= EthLimit
    /\ pc \in [Callers -> {"idle", "admit", "choose", "send", "waiting", "flight", "failover"}]
    /\ request \in [Callers -> {Idle} \union UNION {Asks[c] : c \in Callers}]
    /\ attempt \in [Callers -> 0..Retries]
    /\ target \in [Callers -> Ring] /\ wait \in [Callers -> 0..MaxCooldown]
    /\ sends \in [Callers -> 0..(Retries + 1)] /\ calls \in 0..MaxCalls

\* A signed transaction is put on the wire at most once, whatever the answer
\* (callOnceNoFailover): a timeout after the provider accepted it is not
\* followed by a second broadcast, through this provider or another.
BroadcastOnce ==
    \A c \in Callers : request[c].method = "eth_sendRawTransaction" => sends[c] <= 1

\* chooseReadProvider leaves no read to a provider that is cooling or behind
\* the best known block while another is neither, and takes one in probation
\* only if every such provider is; a critical read gets the best tier there is.
ReadsAvoidUnfit ==
    [][\A c \in Callers :
        pc[c] = "choose" /\ pc'[c] = "waiting" =>
            LET p == target'[c]
                fit == {q \in Ring : cool[q] = 0 /\ ~ProviderLagged(q)}
                proven == {q \in fit : probation[q] = 0}
            IN /\ fit # {} => p \in fit /\ wait'[c] = 0
               /\ proven # {} => p \in proven
               /\ request[c].class = "critical" =>
                    \A q \in proven : p \in proven => TierRank(p) <= TierRank(q)]_vars

\* A broadcast leaves the primary provider only while the primary cools or a
\* failover is less than two minutes old: reads of other goroutines, which
\* move the active index all the time, never divert it.
BroadcastPrefersPrimary ==
    [][\A c \in Callers :
        pc[c] = "send" /\ pc'[c] = "waiting" /\ target'[c] # 0
            => cool[0] # 0 \/ sinceSwitch # 0]_vars
=============================================================================
