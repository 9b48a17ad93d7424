------------------------ MODULE MCExecutionPipeline ------------------------
(* Small instances of ExecutionPipeline for TLC. *)
EXTENDS ExecutionPipeline, TLC

CONSTANTS market, forced

BothThreads == {market, forced}
MarketOnly == {market}

Live == [dryRun |-> FALSE, liveMode |-> TRUE, broadcast |-> TRUE]
OnlyLive == {Live}
\* Live, and with each flag in turn against the broadcast.
EveryFlag == {Live, [Live EXCEPT !.dryRun = TRUE], [Live EXCEPT !.liveMode = FALSE],
              [Live EXCEPT !.broadcast = FALSE]}
=============================================================================
