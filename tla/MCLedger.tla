------------------------------ MODULE MCLedger ------------------------------
(* Odds of 2, 3 and 5, probabilities in quarters.  A model of three-way     *)
(* games, and one of two-way games that is sure of its winner.              *)
EXTENDS Ledger

Probs(h, a, d) ==
    [s \in Side |-> CASE s = "home_win" -> h [] s = "away_win" -> a [] OTHER -> d]

MCEstimate == {Probs(2, 1, 1), Probs(4, 0, Absent)}
MCPrice == {4, 6, 10}
MCScore == 0 .. 1
=============================================================================
