---------------------------- MODULE MCPaperTrade ----------------------------
(* One market, on game g1; results arrive for g1 and for another game.      *)
EXTENDS PaperTrade

CONSTANTS g1, g2

MCEventOf == [m \in Market |-> g1]
=============================================================================
