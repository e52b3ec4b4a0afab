--------------------------- MODULE SafeBookmaker ---------------------------
(***************************************************************************)
(* SafeBookmakerClient (internal/bookmaker/safe.go): a decorator that      *)
(* several goroutines call at once.  PlaceBet reads the account balance,   *)
(* reserves "market:side" under the mutex, calls the inner client with the *)
(* mutex released, and retracts the reservation under the mutex when the   *)
(* inner call fails.  A step of the model is one critical section or one   *)
(* remote call, so every interleaving the mutex allows is explored.        *)
(*                                                                         *)
(* The account and the bookmaker behind the inner client are external:     *)
(* they accept, refuse or fail at will.  MaxCall bounds the time from a    *)
(* reservation to the end of its call (an HTTP timeout in the Pinnacle     *)
(* client).  An accepted bet may be reported to the client as an error.     *)
(***************************************************************************)
EXTENDS Integers, FiniteSets

CONSTANTS Caller,       \* goroutines calling PlaceBet
          Key,          \* "marketID:side" combinations
          TTL,          \* dedupTTL
          MaxCall,      \* longest time between a reservation and its end
          Stake,        \* requested stakes
          StakeCap,     \* maxStakeCap
          Floor,        \* balanceFloor
          Funds,        \* bound: largest account balance, also the first one
          MaxBets,      \* bound: bets the bookmaker accepts
          MaxNow        \* bound: last instant of the clock

ASSUME ConstantsOK ==
    /\ IsFiniteSet(Caller)
    /\ TTL \in Nat /\ MaxCall \in Nat /\ MaxNow \in Nat /\ MaxBets \in Nat
    /\ Stake \subseteq Nat /\ StakeCap \in Nat
    /\ Floor \in Nat /\ Funds \in Nat /\ Funds > Floor

VARIABLES now,          \* time.Now
          recentBets,   \* key -> instant of its reservation, or Never
          pc,           \* where each caller is inside PlaceBet
          key,          \* the key each caller bets on
          stake,        \* the stake each caller asks for
          reservedAt,   \* the instant each caller wrote to recentBets
          balance,      \* account balance at the bookmaker
          bets,         \* bets the bookmaker accepted
          betCount,     \* numbers the accepted bets
          betID,        \* the bet each caller placed last
          lost          \* accepted bets the client was told had failed

vars == <<now, recentBets, pc, key, stake, reservedAt, balance, bets, betCount,
          betID, lost>>
local == <<key, stake, reservedAt, betID>>
account == <<balance, bets, betCount, lost>>

Never == -1             \* the key is absent from recentBets

\* A caller that has reserved its key and not finished its inner call.
Holding(c) == pc[c] \in {"call", "accepted", "retract"}
Holders == {c \in Caller : Holding(c)}

\* A caller whose balance check has passed and whose bet is not accepted.
Cleared == {c \in Caller : pc[c] \in {"guard", "call"}}

TypeOK ==
    /\ now \in Nat
    /\ recentBets \in [Key -> Nat \union {Never}]
    /\ pc \in [Caller -> {"idle", "guard", "call", "accepted", "retract"}]
    /\ key \in [Caller -> Key]
    /\ stake \in [Caller -> Nat]
    /\ reservedAt \in [Caller -> Nat]
    /\ balance \in Nat
    /\ bets \subseteq [id : Nat, key : Key, reservedAt : Nat, at : Nat]
    /\ betCount \in Nat
    /\ betID \in [Caller -> Nat]
    /\ lost \subseteq Nat

-----------------------------------------------------------------------------
Init ==
    /\ now = 0
    /\ recentBets = [k \in Key |-> Never]
    /\ pc = [c \in Caller |-> "idle"]
    /\ key \in [Caller -> Key]
    /\ stake = [c \in Caller |-> 0]
    /\ reservedAt = [c \in Caller |-> 0]
    /\ balance = Funds
    /\ bets = {}
    /\ betCount = 0
    /\ betID = [c \in Caller |-> 0]
    /\ lost = {}

\* PlaceBet returns to its caller, and its local variables are gone.
Leave(c) ==
    /\ pc' = [pc EXCEPT ![c] = "idle"]
    /\ stake' = [stake EXCEPT ![c] = 0]
    /\ reservedAt' = [reservedAt EXCEPT ![c] = 0]
    /\ betID' = [betID EXCEPT ![c] = 0]
    /\ UNCHANGED key

\* A goroutine calls PlaceBet with some market, side and stake, and the
\* balance is above the floor.  (A call that finds it lower, or cannot read
\* it, is rejected and changes nothing.)
Invoke(c) ==
    /\ pc[c] = "idle"
    /\ balance > Floor
    /\ \E k \in Key, s \in Stake :
        /\ key' = [key EXCEPT ![c] = k]
        /\ stake' = [stake EXCEPT ![c] = s]
    /\ pc' = [pc EXCEPT ![c] = "guard"]
    /\ UNCHANGED <<now, recentBets, reservedAt, betID, account>>

\* Lines 107-108: the key was reserved less than TTL ago.
DuplicateEndsEarly(k) == recentBets[k] # Never /\ now - recentBets[k] < TTL - 1
Duplicate(k) == recentBets[k] # Never /\ now - recentBets[k] < TTL

RejectDuplicate(c) ==
    /\ pc[c] = "guard"
    /\ Duplicate(key[c])
    /\ Leave(c)
    /\ UNCHANGED <<now, recentBets, account>>

\* The slot is free: reserve it, in the same critical section as the check.
Reserve(c) ==
    /\ pc[c] = "guard"
    /\ ~Duplicate(key[c])
    /\ recentBets' = [recentBets EXCEPT ![key[c]] = now]
    /\ reservedAt' = [reservedAt EXCEPT ![c] = now]
    /\ pc' = [pc EXCEPT ![c] = "call"]
    /\ UNCHANGED <<now, key, stake, betID, account>>

\* Lines 121-123: the stake the inner client is asked for.
Unclamped(c) == stake[c]
Clamped(c) == IF stake[c] > StakeCap THEN StakeCap ELSE stake[c]

\* The bookmaker accepts a bet the account can pay for.
BookAccepts(c) ==
    /\ pc[c] = "call"
    /\ betCount < MaxBets
    /\ Clamped(c) <= balance
    /\ balance' = balance - Clamped(c)
    /\ bets' = bets \union {[id |-> betCount, key |-> key[c],
                             reservedAt |-> reservedAt[c], at |-> now]}
    /\ betCount' = betCount + 1
    /\ betID' = [betID EXCEPT ![c] = betCount]
    /\ pc' = [pc EXCEPT ![c] = "accepted"]
    /\ UNCHANGED <<now, recentBets, key, stake, reservedAt, lost>>

\* The inner client rejects the bet or returns an error before it is placed.
InnerFails(c) ==
    /\ pc[c] = "call"
    /\ pc' = [pc EXCEPT ![c] = "retract"]
    /\ UNCHANGED <<now, recentBets, local, account>>

\* The bet is placed, but its answer is lost or cannot be decoded.
AnswerLost(c) ==
    /\ pc[c] = "accepted"
    /\ lost' = lost \union {betID[c]}
    /\ pc' = [pc EXCEPT ![c] = "retract"]
    /\ UNCHANGED <<now, recentBets, local, balance, bets, betCount>>

\* The answer of a placed bet reaches the caller of PlaceBet.
ReturnFilled(c) ==
    /\ pc[c] = "accepted"
    /\ Leave(c)
    /\ UNCHANGED <<now, recentBets, account>>

\* Lines 128-131: give the slot back so the opportunity can be retried.
RetractForgotten(c) ==
    /\ pc[c] = "retract"
    /\ Leave(c)
    /\ UNCHANGED <<now, recentBets, account>>
Retract(c) ==
    /\ pc[c] = "retract"
    /\ recentBets' = [recentBets EXCEPT ![key[c]] = Never]
    /\ Leave(c)
    /\ UNCHANGED <<now, account>>

\* The book settles a bet and pays into the account.
Credit ==
    /\ balance < Funds
    /\ balance' = balance + 1
    /\ UNCHANGED <<now, recentBets, pc, local, bets, betCount, lost>>

\* Time passes, but never beyond the deadline of a call in flight.
Tick ==
    /\ now < MaxNow
    /\ \A c \in Holders : now - reservedAt[c] < MaxCall
    /\ now' = now + 1
    /\ UNCHANGED <<recentBets, pc, local, account>>

Step(c) ==
    \/ RejectDuplicate(c) \/ Reserve(c)
    \/ BookAccepts(c) \/ InnerFails(c) \/ AnswerLost(c)
    \/ ReturnFilled(c) \/ Retract(c)

Next == Tick \/ Credit \/ \E c \in Caller : Invoke(c) \/ Step(c)

Spec == Init /\ [][Next]_vars

\* A goroutine inside PlaceBet is scheduled until it returns.
FairSpec == Spec /\ \A c \in Caller : WF_vars(Step(c))

-----------------------------------------------------------------------------
(* Properties *)

\* The double-betting guard (safe.go:26-28): when the client knows of a bet,
\* no later bet on its key is covered by a reservation less than TTL away.
NoDoubleBet ==
    \A a, b \in bets :
        a.key = b.key /\ a.id < b.id /\ a.id \notin lost =>
            \/ b.reservedAt - a.reservedAt >= TTL
            \/ a.reservedAt - b.reservedAt >= TTL

\* A reservation always stands for a bet the bookmaker holds or a call that
\* is still under way: no failed call leaves a slot blocked (safe.go:127).
NoOrphanReservation ==
    \A k \in Key : recentBets[k] # Never =>
        \/ \E b \in bets : b.key = k /\ b.reservedAt = recentBets[k]
        \/ \E c \in Holders : key[c] = k /\ reservedAt[c] = recentBets[k]

\* The balance check is not atomic with the bet (safe.go:89-98, 125), so the
\* floor may be crossed, but by no more than one capped stake for each caller
\* that is not itself still cleared to bet.
OverdraftBounded ==
    balance > Floor - StakeCap * (Cardinality(Caller) - Cardinality(Cleared))

\* A slot reserved for no bet is given back or turns into a bet: the
\* opportunity can be retried (safe.go:127).
Blocked(k) ==
    /\ recentBets[k] # Never
    /\ ~ \E b \in bets : b.key = k /\ b.reservedAt = recentBets[k]
OpportunityFreed == \A k \in Key : Blocked(k) ~> ~Blocked(k)

\* The guard at the bookmaker: after a bet the client knows of, its key is not
\* bet again for TTL - MaxCall, for a bet may be accepted MaxCall after the
\* reservation that covers it.
Known == {b \in bets : b.id \notin lost}
Guard == INSTANCE BetGuard WITH
    Window <- TTL - MaxCall,
    Id <- 0 .. MaxBets - 1,
    known <- {[id |-> b.id, key |-> b.key, at |-> b.at] : b \in Known}
GuardSpec == Guard!Spec
=============================================================================
