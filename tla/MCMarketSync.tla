---------------------------- MODULE MCMarketSync ----------------------------
(* Small instances of MarketSync for TLC. *)
EXTENDS MarketSync, TLC

CONSTANTS p1, p2

TwoPools == {p1, p2}
OneRoute == {{p1, p2}}
EveryBlock == {{p1}}
NoStaging == {}
Shrink == {{p1}, {p1, p2}}
=============================================================================
