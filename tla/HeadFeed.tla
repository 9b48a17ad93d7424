------------------------------ MODULE HeadFeed ------------------------------
(***************************************************************************)
(* What the market scheduler promises its handler, free of goroutines:     *)
(* heads are observed in increasing order, and the handler is started on   *)
(* some head newer than its last one until it has had the newest.          *)
(***************************************************************************)
EXTENDS Naturals

VARIABLES
    observed,  \* newest head accepted
    handled    \* head of the last handler call, 0 before the first

feedVars == <<observed, handled>>

Init == observed = 0 /\ handled = 0

Observe == observed' \in Nat /\ observed' > observed /\ UNCHANGED handled

Handle == handled' \in (handled + 1)..observed /\ UNCHANGED observed

Next == Observe \/ Handle

Spec == Init /\ [][Next]_feedVars
=============================================================================
