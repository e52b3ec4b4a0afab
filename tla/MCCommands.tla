----------------------------- MODULE MCCommands ------------------------------
(* Two seasons of one event each.  The first event has two flights, which   *)
(* share match m1; m2 is listed in both seasons.                            *)
EXTENDS Commands

CONSTANTS s1, s2, e1, e2, f1, f2, f3, m1, m2

MCEventsOf == [s \in Season |-> IF s = s1 THEN {e1} ELSE {e2}]
MCFlightsOf == [e \in Event |-> IF e = e1 THEN {f1, f2} ELSE {f3}]
MCMatchesOf ==
    [f \in Flight |-> CASE f = f1 -> {m1} [] f = f2 -> {m1, m2} [] f = f3 -> {m2}]
MCDateOf == [m \in Match |-> IF m = m1 THEN 2 ELSE 1]

\* Every model predicts, or the best of soccer does not; Brier scores in an order
\* that is not that of the names, two of them equal.
MCWalks ==
    LET all == [m \in Range(AllModelNames) |->
                   CASE m \in {"elo", "quantile"} -> 1 [] m \in {"logistic", "ensemble"} -> 2
                     [] OTHER -> 0]
    IN  {all, [all EXCEPT !["poisson"] = NoPrediction, !["elo"] = NoPrediction]}

\* A step of an analysis and a request of a fetch touch nothing in common, and
\* after the load no step of the two does: of their orders one is enough.  What is
\* loaded is the same for every command: it is the script's load that goes on while
\* a fetch does.  After the last analysis there is nothing new.
OneOrder ==
    /\ runs' # runs => stage \in {"idle", "rows"}
    /\ loaded' # loaded => stage # "fetch"
    /\ status = "loading" /\ job.cmd # "report" => UNCHANGED <<vars, FetchVars>>
    /\ status = "running" \/ (runs = MaxRuns /\ status # "loading") =>
          UNCHANGED <<vars, FetchVars>> \/ faults' # faults

\* For a counterexample that is easy to read: buffers that end between two rows.
WholeRows == ~loaded'.cut
=============================================================================
