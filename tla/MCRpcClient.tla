---------------------------- MODULE MCRpcClient ----------------------------
(* Values for model checking RpcClient: a premium and a limited provider;  *)
(* one goroutine quotes and polls the head, the other broadcasts and       *)
(* polls with critical priority.                                           *)
EXTENDS RpcClient

CONSTANTS quoter, executor

MCTiers == <<0, 2>>
MCCallers == {quoter, executor}
MCAsks == [c \in MCCallers |->
    IF c = quoter
    THEN {[method |-> "eth_call", class |-> "hot_path"],
          [method |-> "eth_blockNumber", class |-> "background"]}
    ELSE {[method |-> "eth_blockNumber", class |-> "critical"],
          [method |-> "eth_sendRawTransaction", class |-> "standard"]}]
=============================================================================
