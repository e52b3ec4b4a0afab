------------------------------ MODULE BetStore ------------------------------
(***************************************************************************)
(* The BetStore interface (internal/bettracking/store.go) as               *)
(* MemoryBetStore implements it: a list of bets with distinct IDs in the   *)
(* order of their insertion.  Save appends, Update, Resolve and ResolveCLV *)
(* replace one bet in place, and nothing is ever removed.  Refused calls   *)
(* (duplicate or unknown ID, odds that are not positive) and the finders   *)
(* change nothing.  CSVBetStore implements this specification.             *)
(***************************************************************************)
EXTENDS Naturals, Sequences

CONSTANTS Id,       \* bet IDs
          Bet       \* bets: records with at least an id, a status and a clv

VARIABLE bets

Ids(s) == {s[i].id : i \in 1 .. Len(s)}

Init == bets = <<>>

Save(bet) ==
    /\ bet.id \notin Ids(bets)
    /\ bets' = Append(bets, bet)

\* Update, and what Resolve and ResolveCLV come down to.
Replace(bet) ==
    \E i \in 1 .. Len(bets) : bets[i].id = bet.id /\ bets' = [bets EXCEPT ![i] = bet]

Next == \E bet \in Bet : Save(bet) \/ Replace(bet)

Spec == Init /\ [][Next]_bets
=============================================================================
