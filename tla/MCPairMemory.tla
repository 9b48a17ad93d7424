---------------------------- MODULE MCPairMemory ----------------------------
(* Values for model checking PairMemory: two pairs may go live, but not    *)
(* both at once.  The two pools of a pair are interchangeable.             *)
EXTENDS PairMemory, TLC

CONSTANTS u1, c1, u2, c2

MCTokensOf == <<{"weth", "x"}, {"usdc", "z"}>>
MCPoolsOf == <<{u1, c1}, {u2, c2}>>
MCSymmetry == Permutations({u1, c1}) \union Permutations({u2, c2})
=============================================================================
