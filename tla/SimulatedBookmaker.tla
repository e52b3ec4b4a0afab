------------------------- MODULE SimulatedBookmaker -------------------------
(***************************************************************************)
(* SimulatedBookmakerClient (internal/bookmaker/simulated.go): the paper   *)
(* bookmaker.  One mutex covers every method, so a method is one step.     *)
(*                                                                         *)
(* Probabilities, odds and tolerance are integers in units of 1/Scale:     *)
(* with Scale = 100, 60 is a probability of 0.60 and 158 are odds of 1.58. *)
(* A call that is refused without touching the state ("offer not found",   *)
(* "odds moved") is no step.                                               *)
(***************************************************************************)
EXTENDS Integers, FiniteSets

CONSTANTS Market, Side,     \* a market/side pair is a marketKey
          Prob,             \* probabilities SetMarket is called with
          Stake,            \* requested stakes
          Scale,            \* units in a probability of one
          MarginPct,        \* margin, in percent
          FirstMaxStake,    \* maxStake before the account is limited
          MaxStakeFloor,    \* maxStake once it is
          WinLimitN,        \* wins that get the account limited (0: never)
          OfferTTL,         \* life of an offer
          Liquidity,        \* the larger, the less a bet moves the line
          OddsMoveTol,      \* tolerated distance of quoted odds
          MaxWins,          \* bound: wins recorded
          MaxCount,         \* bound: offers and bets numbered
          MaxNow            \* bound: last instant of the clock

ASSUME BookConstants ==
    /\ Scale \in Nat \ {0} /\ Prob \subseteq 0 .. Scale - 1
    /\ Stake \subseteq Nat /\ Liquidity \in Nat \ {0}
    /\ FirstMaxStake \in Nat /\ MaxStakeFloor \in Nat
    /\ WinLimitN \in Nat /\ OfferTTL \in Nat /\ OddsMoveTol \in Nat
    /\ MarginPct \in Nat /\ MaxWins \in Nat /\ MaxCount \in Nat /\ MaxNow \in Nat
    /\ IsFiniteSet(Side)

VARIABLES now,          \* the clock function
          trueProbs,    \* marketKey -> probability, Unset when not a market
          offers,       \* stored offers
          maxStake,     \* current stake limit
          winCount,     \* recorded wins
          betCounter,   \* numbers offers and bets alike
          fills         \* the bets the book confirmed to its caller

bookVars == <<now, trueProbs, offers, maxStake, winCount, betCounter, fills>>

MarketKey == Market \X Side
Unset == -1

BookTypeOK ==
    /\ now \in Nat
    /\ trueProbs \in [MarketKey -> 0 .. Scale - 1 \union {Unset}]
    /\ offers \subseteq [id : Nat, key : MarketKey, odds : Nat,
                         maxStake : Nat, expires : Nat]
    /\ maxStake \in Nat /\ winCount \in Nat /\ betCounter \in Nat
    /\ fills \subseteq [bet : Nat, offer : Nat, key : MarketKey, odds : Nat,
                        stake : Nat]

-----------------------------------------------------------------------------
\* Offered odds: one over the probability raised by the margin.
OddsForProb(p) ==
    IF p <= 0 THEN Scale
    ELSE (Scale * Scale * 100) \div (p * (100 + MarginPct))

Smaller(a, b) == IF a < b THEN a ELSE b
Distance(a, b) == IF a < b THEN b - a ELSE a - b

\* The probability of a side after the book took a stake on it, at most 0.999.
MovedUncapped(p, stake) == p + (Scale * stake) \div (stake + Liquidity)
Moved(p, stake) ==
    Smaller(p + (Scale * stake) \div (stake + Liquidity), Scale - 1)

BookInit ==
    /\ now = 0
    /\ trueProbs = [k \in MarketKey |-> Unset]
    /\ offers = {}
    /\ maxStake = FirstMaxStake
    /\ winCount = 0
    /\ betCounter = 0
    /\ fills = {}

SetMarket(k, p) ==
    /\ trueProbs' = [trueProbs EXCEPT ![k] = p]
    /\ UNCHANGED <<now, offers, maxStake, winCount, betCounter, fills>>

RecordWin ==
    /\ winCount' = winCount + 1
    /\ maxStake' = IF WinLimitN > 0 /\ winCount' >= WinLimitN
                   THEN MaxStakeFloor ELSE maxStake
    /\ UNCHANGED <<now, trueProbs, offers, betCounter, fills>>

\* The sides of a market that have been set, and the ways to number their
\* offers: the loop over the Go map takes them in any order.
Listed(probs, m) == {k \in MarketKey : k[1] = m /\ probs[k] # Unset}
Numberings(S) ==
    {f \in [S -> betCounter + 1 .. betCounter + Cardinality(S)] :
        \A k, l \in S : f[k] = f[l] => k = l}

\* A new offer for each side; earlier offers stay where they are.
NewOffers(probs, m, num) ==
    {[id |-> num[k], key |-> k, odds |-> OddsForProb(probs[k]),
      maxStake |-> maxStake, expires |-> now + OfferTTL] : k \in Listed(probs, m)}

GetOffers(m) ==
    LET listed == Listed(trueProbs, m) IN
    \E num \in Numberings(listed) :
        /\ betCounter + Cardinality(listed) <= MaxCount
        /\ offers' = offers \union NewOffers(trueProbs, m, num)
        /\ betCounter' = betCounter + Cardinality(listed)
        /\ UNCHANGED <<now, trueProbs, maxStake, winCount, fills>>

Expired(o) == now > o.expires

\* PlaceBet on an offer whose time is over drops the offer.
PlaceExpired(o) ==
    /\ Expired(o)
    /\ offers' = offers \ {o}
    /\ UNCHANGED <<now, trueProbs, maxStake, winCount, betCounter, fills>>

\* The stake the book takes: the limit is the one in force when it is placed.
AcceptedOfOffer(o, requested) == Smaller(requested, o.maxStake)
Accepted(o, requested) == Smaller(requested, maxStake)

Acceptable(o, quoted) == ~Expired(o) /\ Distance(quoted, o.odds) <= OddsMoveTol

\* PlaceBet fills the bet at the odds of the offer, moves the line of the market
\* and side that the request names, which nothing compares with the offer's, and
\* consumes the offer.
FillKeepsOffer(o, k, quoted, requested) ==
    /\ Acceptable(o, quoted)
    /\ betCounter < MaxCount
    /\ betCounter' = betCounter + 1
    /\ fills' = fills \union {[bet |-> betCounter', offer |-> o.id,
                               key |-> k, odds |-> o.odds,
                               stake |-> Accepted(o, requested)]}
    /\ UNCHANGED <<now, trueProbs, offers, maxStake, winCount>>
FillUncounted(o, k, quoted, requested) ==
    /\ Acceptable(o, quoted)
    /\ offers' = offers \ {o}
    /\ fills' = fills \union {[bet |-> betCounter, offer |-> o.id,
                               key |-> k, odds |-> o.odds,
                               stake |-> Accepted(o, requested)]}
    /\ UNCHANGED <<now, trueProbs, maxStake, winCount, betCounter>>
Fill(o, k, quoted, requested) ==
    /\ Acceptable(o, quoted)
    /\ betCounter < MaxCount
    /\ trueProbs' = IF trueProbs[k] = Unset THEN trueProbs
                    ELSE [trueProbs EXCEPT ![k] = Moved(@, Accepted(o, requested))]
    /\ offers' = offers \ {o}
    /\ betCounter' = betCounter + 1
    /\ fills' = fills \union {[bet |-> betCounter', offer |-> o.id,
                               key |-> k, odds |-> o.odds,
                               stake |-> Accepted(o, requested)]}
    /\ UNCHANGED <<now, maxStake, winCount>>

Tick ==
    /\ now < MaxNow
    /\ now' = now + 1
    /\ UNCHANGED <<trueProbs, offers, maxStake, winCount, betCounter, fills>>

-----------------------------------------------------------------------------
(* The book with clients that call its methods in any order, with the odds  *)
(* of any offer they were given, and any market and side.                   *)

BookNext ==
    \/ Tick
    \/ winCount < MaxWins /\ RecordWin
    \/ \E k \in MarketKey, p \in Prob : SetMarket(k, p)
    \/ \E m \in Market : GetOffers(m)
    \/ \E o \in offers : PlaceExpired(o)
    \/ \E o, p \in offers, k \in MarketKey, s \in Stake : Fill(o, k, p.odds, s)

BookSpec == BookInit /\ [][BookNext]_bookVars

-----------------------------------------------------------------------------
(* Properties *)

\* An offer is filled at most once, and no two bets share a bet ID, although
\* offers and bets draw their numbers from one counter (simulated.go:157,
\* 207-212).
FillsApart ==
    \A f, g \in fills : f # g => f.offer # g.offer /\ f.bet # g.bet

\* Once the account is limited, no bet exceeds the floor: not even on an offer
\* that was handed out with the old limit (simulated.go:75, 195-198).
LimitHolds ==
    [][\A f \in fills' \ fills :
        WinLimitN > 0 /\ winCount >= WinLimitN => f.stake <= MaxStakeFloor]_bookVars
=============================================================================
