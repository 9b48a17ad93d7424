--------------------------- MODULE MCQuoteEngine ---------------------------
(* Values for model checking QuoteEngine: two pools and the two-hop cycle *)
(* over them, which is also the forced route.                              *)
EXTENDS QuoteEngine

CONSTANTS uni, camelot

MCPools == {uni, camelot}
MCRoutes == {<<uni, camelot>>}
MCForcedRoutes == {<<uni, camelot>>}
=============================================================================
