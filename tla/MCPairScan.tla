----------------------------- MODULE MCPairScan -----------------------------
(* Values for model checking PairScan: a factory creates a pool of the     *)
(* configured market and then one with a new token.                        *)
EXTENDS PairScan

MCFactories == <<"uniswap_v3">>
MCFactoryOf == [p \in Pools |-> "uniswap_v3"]
MCBornAt == [p \in Pools |-> IF p = "a" THEN 2 ELSE 3]
MCTokensOf == [p \in Pools |-> IF p = "a" THEN {"weth", "usdc"} ELSE {"weth", "x"}]
=============================================================================
