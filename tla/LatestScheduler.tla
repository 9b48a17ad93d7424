-------------------------- MODULE LatestScheduler --------------------------
(***************************************************************************)
(* go/internal/scheduler/latest.go: the coalescing scheduler that hands    *)
(* chain heads to the market cycle.                                        *)
(*                                                                         *)
(* Submit is called by the select loop of main.go only, Run is one         *)
(* goroutine.  They share the atomic latest, the slot pending under a      *)
(* mutex, and the wake channel of capacity one; a step below ends at each  *)
(* access to one of them.                                                  *)
(*                                                                         *)
(* X_variant just before X is a plausible defect of X; no action uses it.  *)
(***************************************************************************)
EXTENDS Naturals

CONSTANT MaxBlock  \* bound: highest block submitted

ASSUME MaxBlockAssumption == MaxBlock \in Nat \ {0}

VARIABLES
    latest,     \* Latest.latest
    pending,    \* block of Latest.pending, None for nil
    wake,       \* Latest.wake holds a token
    coalesced,  \* Latest.coalesced
    subPc,      \* where Submit is
    trigger,    \* the block Submit was called with
    runPc,      \* where Run is
    handling,   \* block of the last handler call
    (* history variables: no guard reads them *)
    accepted,   \* triggers that passed the block check
    started     \* handler calls

submitVars == <<subPc, trigger>>
runVars == <<runPc, handling, started>>
schedulerVars == <<latest, pending, wake, coalesced, submitVars, runVars, accepted>>

None == 0

SchedulerInit ==
    /\ latest = 0 /\ pending = None /\ wake = FALSE /\ coalesced = 0
    /\ subPc = "idle" /\ trigger = 0
    /\ runPc = "wait" /\ handling = 0
    /\ accepted = 0 /\ started = 0

\* A trigger no newer than latest is dropped.
IsNewer_any(b) == TRUE
IsNewer(b) == b > latest

\* The order of Submit's accesses.
StepAfter == [idle |-> "store", store |-> "wake", wake |-> "idle"]

\* Load and compare-and-swap: nobody else writes latest.
SubmitBegin(b) ==
    /\ subPc = "idle"
    /\ IF IsNewer(b)
       THEN latest' = b /\ trigger' = b /\ subPc' = StepAfter[subPc] /\ accepted' = accepted + 1
       ELSE UNCHANGED <<latest, trigger, subPc, accepted>>
    /\ UNCHANGED <<pending, wake, coalesced, runVars>>

\* Under the mutex: the slot is overwritten, a replaced trigger is counted.
Replaced == IF pending # None THEN 1 ELSE 0

SlotAfterStore_first == IF pending # None THEN pending ELSE trigger
SlotAfterStore == trigger

SubmitStore ==
    /\ subPc = "store"
    /\ coalesced' = coalesced + Replaced
    /\ pending' = SlotAfterStore
    /\ subPc' = StepAfter[subPc]
    /\ UNCHANGED <<latest, wake, trigger, runVars, accepted>>

\* A send that does not block: a token that is already there is enough.
SubmitWake ==
    /\ subPc = "wake"
    /\ wake' = TRUE
    /\ subPc' = StepAfter[subPc]
    /\ UNCHANGED <<latest, pending, coalesced, trigger, runVars, accepted>>

RunWake ==
    /\ runPc = "wait" /\ wake
    /\ wake' = FALSE
    /\ runPc' = "take"
    /\ UNCHANGED <<latest, pending, coalesced, submitVars, handling, started, accepted>>

\* take, under the mutex: Run waits again only when the slot is empty.
Take ==
    /\ runPc = "take"
    /\ IF pending = None
       THEN runPc' = "wait" /\ UNCHANGED <<pending, handling, started>>
       ELSE /\ handling' = pending /\ pending' = None
            /\ runPc' = "handle" /\ started' = started + 1
    /\ UNCHANGED <<latest, wake, coalesced, submitVars, accepted>>

\* The handler, a whole market cycle, returns.
HandlerReturns ==
    /\ runPc = "handle" /\ runPc' = "take"
    /\ UNCHANGED <<latest, pending, wake, coalesced, submitVars, handling, started, accepted>>

Submit == SubmitStore \/ SubmitWake
Run == RunWake \/ Take \/ HandlerReturns

SchedulerNext == (\E b \in 1..MaxBlock : SubmitBegin(b)) \/ Submit \/ Run

SchedulerSpec == SchedulerInit /\ [][SchedulerNext]_schedulerVars

-----------------------------------------------------------------------------
(* Properties.                                                             *)

\* Every variable holds a value of the Go type it models, and no block in the
\* scheduler is newer than latest.
SchedulerTypeOK ==
    /\ latest \in 0..MaxBlock /\ pending \in 0..latest /\ wake \in BOOLEAN
    /\ coalesced \in Nat /\ subPc \in {"idle", "store", "wake"} /\ trigger \in 0..latest
    /\ runPc \in {"wait", "take", "handle"} /\ handling \in 0..latest
    /\ accepted \in Nat /\ started \in Nat

\* Run never sleeps on a filled slot: a token is there or Submit is about to
\* send one.
NoLostWakeup == pending # None /\ runPc = "wait" => wake \/ subPc = "wake"

\* The newest accepted head is in Submit's hands, in the slot, or was handed
\* to the handler: coalescing only ever drops older ones.
NewestKept ==
    \/ subPc = "store" /\ trigger = latest
    \/ subPc # "store" /\ pending = latest
    \/ subPc # "store" /\ pending = None /\ handling = latest

\* blocks_coalesced is exact: every accepted trigger was handled, was
\* replaced, is waiting, or is about to be stored.
Accounted ==
    accepted = started + coalesced + (IF pending # None THEN 1 ELSE 0)
                       + (IF subPc = "store" THEN 1 ELSE 0)

\* The scheduler keeps what HeadFeed promises.
Feed == INSTANCE HeadFeed WITH observed <- latest, handled <- handling
ImplementsFeed == Feed!Spec
=============================================================================
