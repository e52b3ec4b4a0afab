------------------------------ MODULE BetGuard ------------------------------
(***************************************************************************)
(* What the duplicate-bet guard of SafeBookmakerClient promises to the     *)
(* owner of the account, said at the bookmaker: after a bet the client     *)
(* knows of, the same market and side is not bet again for Window ticks.   *)
(* No caller, no lock and no reservation appears here.  SafeBookmaker      *)
(* implements it.                                                          *)
(***************************************************************************)
EXTENDS Integers

CONSTANTS Id,       \* names of accepted bets
          Key,      \* "marketID:side" combinations
          Window,   \* least distance from a known bet to the next on its key
          MaxNow    \* bound: last instant of the clock

VARIABLES now,      \* the clock
          known     \* accepted bets the client knows of: [id, key, at]

vars == <<now, known>>

Init == now = 0 /\ known = {}

Tick == now < MaxNow /\ now' = now + 1 /\ UNCHANGED known

Place(k, id) ==
    /\ \A b \in known : b.key = k => now - b.at >= Window
    /\ known' = known \union {[id |-> id, key |-> k, at |-> now]}
    /\ UNCHANGED now

\* The client is told that its bet failed.
Forget(b) == known' = known \ {b} /\ UNCHANGED now

Next ==
    \/ Tick
    \/ \E k \in Key, id \in Id : Place(k, id)
    \/ \E b \in known : Forget(b)

Spec == Init /\ [][Next]_vars
=============================================================================
