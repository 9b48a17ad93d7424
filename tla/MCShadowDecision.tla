-------------------------- MODULE MCShadowDecision --------------------------
(* Values for model checking ShadowDecision: three funding assets, one of  *)
(* them without an amount, and a route of a qualified pair.                *)
EXTENDS ShadowDecision

MCAssetOf == <<1, 2, 3>>
MCHopsOf == <<2, 2, 3>>
MCAmounts == <<40, 3, 0>>
=============================================================================
