------------------------ MODULE MCSimulatedBookmaker ------------------------
(* A book with one market of two sides and probabilities 0.40 and 0.60.     *)
EXTENDS SimulatedBookmaker
=============================================================================
