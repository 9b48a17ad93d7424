------------------------- MODULE MCRouteEvaluation -------------------------
(* Values for model checking RouteEvaluation: three routes of one loan     *)
(* asset, one of another and one of an asset without an amount; a near     *)
(* miss and a profitable evaluation; a profit curve that loses a little at  *)
(* first, rises to a peak and loses much after it.                         *)
EXTENDS RouteEvaluation

MCAssetOf == <<1, 1, 1, 2, 3>>
MCHopsOf == <<2, 3, 2, 2, 4>>
MCPrior == [r \in Routes |-> 1000 + 500 * (r % 2)]
MCDirty == {1..NumRoutes, {1, 2, 3}, {2, 4, 5}}
MCOutcomes == {[net |-> -2, score |-> 5000], [net |-> 2, score |-> 3000]}
MCCurves == {[a \in 1..200 |-> IF a > 140 THEN -60 ELSE IF a < 20 THEN -a ELSE a]}

Option(routes, quotes, perCycle, adaptive) ==
    [routes |-> routes, deepRoutes |-> 2, samples |-> 5, perCycle |-> perCycle, quotes |-> quotes,
     optimized |-> 2, normal |-> 9, explore |-> 0, ranking |-> TRUE, adaptive |-> adaptive,
     earlyStop |-> TRUE]
MCOptions ==
    {Option(3, 8, 3, TRUE), Option(2, 8, 8, TRUE),
     [Option(2, 4, 8, FALSE) EXCEPT !.ranking = FALSE, !.samples = 4]}
=============================================================================
