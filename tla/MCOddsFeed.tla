----------------------------- MODULE MCOddsFeed -----------------------------
(* Two sports: e1 is a game of the first, e2 of the second; e3, of the      *)
(* first one too, belongs to another season.                                *)
EXTENDS OddsFeed

CONSTANTS s1, s2, e1, e2, e3

MCSports == <<s1, s2>>
MCSportOf == [e \in Game |-> IF e = e2 THEN s2 ELSE s1]
MCPrice == {-150, 0, 120}
=============================================================================
