---------------------------- MODULE LedgerProofs ----------------------------
(***************************************************************************)
(* Proofs about module Ledger: what its bets on one game add up to, and    *)
(* that the loops of its reports compute what they promise.                *)
(***************************************************************************)
EXTENDS Ledger, FoldTheorems, SequenceTheorems

Bet == [game : Nat, side : Side, odds : Nat, prob : 0 .. P, stake : Nat,
        won : BOOLEAN, pnl : Int]

-----------------------------------------------------------------------------
(* One bet *)

\* Kelly stakes on a probability no more than its share of the fraction of the
\* bankroll, and nothing without an edge.
LEMMA StakeFacts ==
    ASSUME NEW prob \in 0 .. P, NEW odds \in Price
    PROVE  /\ Stake(prob, odds) \in Nat
           /\ Stake(prob, odds) % Q = 0
           /\ P * KellyDiv * Stake(prob, odds) <= prob * Bankroll
           /\ Stake(prob, odds) > 0 => prob * odds > P * Q
<1>1. /\ P \in Nat \ {0} /\ Q \in Nat \ {0} /\ KellyDiv \in Nat \ {0}
      /\ Bankroll \in Nat /\ odds \in Nat /\ prob \in Nat /\ prob <= P
  BY LedgerConstants
<1>2. CASE odds <= Q
  <2>1. 0 % Q = 0
    <3>1. Q * 0 = 0
      BY <1>1
    <3> QED BY <1>1, <3>1, MultipleMod
  <2>2. prob * Bankroll >= 0 /\ P * KellyDiv * 0 = 0
    BY <1>1
  <2> QED BY <1>2, <2>1, <2>2 DEF Stake
<1>3. CASE odds > Q
  <2> DEFINE d == Divisor(odds)
             u == Bankroll \div d
             v == u \div Q
             e == Larger(0, Edge(prob, odds))
             w == odds - Q
             m == P * KellyDiv * u
  <2>1. Stake(prob, odds) = e * u
    BY <1>1, <1>3 DEF Stake
  <2>2. w \in Nat \ {0} /\ d = P * w * KellyDiv
    BY <1>1, <1>3 DEF Divisor
  <2>3. d \in Nat \ {0}
    <3> HIDE DEF w, d
    <3>1. P * w \in Nat \ {0}
      BY <1>1, <2>2
    <3> QED BY <1>1, <2>2, <3>1
  <2>4. Bankroll % d = 0 /\ u % Q = 0
    BY <1>3, LedgerConstants
  <2>5. u \in Nat /\ Bankroll = d * u
    <3> HIDE DEF d
    <3>1. u \in Int /\ Bankroll = d * u
      BY <1>1, <2>3, <2>4, Division
    <3>2. u >= 0
      <4> HIDE DEF u
      <4>1. SUFFICES ASSUME u <= -1 PROVE FALSE
        BY <3>1
      <4>2. d * u <= -d
        BY <2>3, <3>1, <4>1
      <4> QED BY <1>1, <2>3, <3>1, <4>2
    <3> QED BY <3>1, <3>2
  <2> HIDE DEF u
  <2>6. v \in Int /\ u = Q * v
    BY <1>1, <2>4, <2>5, Division
  <2>7. e \in Nat /\ (e > 0 => prob * odds > P * Q)
    <3>1. prob * odds \in Int /\ P * Q \in Int
      BY <1>1
    <3> QED BY <3>1 DEF Larger, Edge
  <2>8. e <= prob * w
    <3>1. prob * w = prob * odds - prob * Q
      BY <1>1
    <3>2. prob * Q <= P * Q
      BY <1>1
    <3>3. prob * w >= 0
      BY <1>1, <2>2
    <3>4. prob * odds \in Int /\ prob * Q \in Int /\ P * Q \in Int
      BY <1>1
    <3> HIDE DEF w
    <3> QED BY <3>1, <3>2, <3>3, <3>4 DEF Larger, Edge
  <2> HIDE DEF e, w, d, v
  <2>9. e * u \in Nat /\ (e * u) % Q = 0
    <3>1. v \in Nat
      <4>1. SUFFICES ASSUME v <= -1 PROVE FALSE
        BY <2>6
      <4>2. Q * v <= -Q
        BY <1>1, <2>6, <4>1
      <4> QED BY <1>1, <2>5, <2>6, <4>2
    <3>2. e * v \in Nat
      BY <2>7, <3>1
    <3>3. e * u = Q * (e * v)
      BY <1>1, <2>6, <2>7
    <3>4. e * u \in Nat
      BY <2>5, <2>7
    <3> QED BY <1>1, <3>2, <3>3, <3>4, MultipleMod
  <2>10. P * KellyDiv * (e * u) <= prob * Bankroll
    <3>1. m \in Nat
      BY <1>1, <2>5
    <3>2. P * KellyDiv * (e * u) = e * m
      BY <1>1, <2>5, <2>7
    <3>3. prob * Bankroll = (prob * w) * m
      BY <1>1, <2>2, <2>5
    <3>4. e * m <= (prob * w) * m
      <4>1. prob * w \in Nat
        BY <1>1, <2>2
      <4> HIDE DEF m
      <4> QED BY <2>7, <2>8, <3>1, <4>1
    <3> QED BY <3>2, <3>3, <3>4
  <2>11. e * u > 0 => e > 0
    BY <2>5, <2>7
  <2> QED BY <2>1, <2>7, <2>9, <2>10, <2>11
<1> QED BY <1>1, <1>2, <1>3

\* What holds of each bet of a backtest when it is sized.
Priced(b) ==
    /\ b.stake % Q = 0
    /\ sizer = "kelly" => P * KellyDiv * b.stake <= b.prob * Bankroll
    /\ (sizer = "kelly" \/ MinEdge > 0) /\ b.stake > 0 => b.prob * b.odds > P * Q

\* The bets on some sides of a game, one on each at most, by one estimate.
GameList(bs, game, est, sides) ==
    /\ bs \in Seq(Bet)
    /\ \A i \in DOMAIN bs : /\ bs[i].game = game /\ bs[i].prob = est[bs[i].side]
                            /\ bs[i].side \in sides /\ Priced(bs[i])
    /\ \A i, j \in DOMAIN bs : bs[i].side = bs[j].side => i = j

LEMMA BetFacts ==
    ASSUME sizer \in {"kelly", "flat"}, NEW game \in Nat, NEW side \in Side,
           NEW est \in Estimate, NEW odds \in [Side -> Price \union {Absent}],
           IsValue(est, odds, side), NEW won \in BOOLEAN
    PROVE  LET b == BetResult(game, side, est[side], odds[side], won)
           IN  b \in Bet /\ Priced(b) /\ b.game = game /\ b.side = side
               /\ b.prob = est[side]
<1> DEFINE prob == est[side]
           o == odds[side]
           stake == Sized(prob, o)
           b == BetResult(game, side, prob, o, won)
<1>1. /\ P \in Nat \ {0} /\ Q \in Nat \ {0} /\ Unit \in Nat /\ Unit % Q = 0
      /\ MinEdge \in Int
  BY LedgerConstants
<1>2. prob \in 0 .. P /\ o \in Price /\ o \in Nat
  BY LedgerConstants DEF IsValue, ModelProb
<1> HIDE DEF prob, o
<1>3. /\ stake \in Nat /\ stake % Q = 0
      /\ sizer = "kelly" => P * KellyDiv * stake <= prob * Bankroll
      /\ sizer = "kelly" /\ stake > 0 => prob * o > P * Q
  BY <1>1, <1>2, StakeFacts DEF Sized
<1>4. MinEdge > 0 => prob * o > P * Q
  <2>1. prob * o - P * Q >= MinEdge
    BY DEF IsValue, ModelProb, Edge, prob, o
  <2>2. prob * o \in Int /\ P * Q \in Int
    BY <1>1, <1>2
  <2> QED BY <1>1, <2>1, <2>2
<1> HIDE DEF stake
<1>5. (IF won THEN (stake * (o - Q)) \div Q ELSE -stake) \in Int
  <2>1. stake * (o - Q) \in Int
    BY <1>1, <1>2, <1>3
  <2> QED BY <1>1, <1>3, <2>1
<1>6. b = [game |-> game, side |-> side, odds |-> o, prob |-> prob,
           stake |-> stake, won |-> won,
           pnl |-> IF won THEN (stake * (o - Q)) \div Q ELSE -stake]
  BY DEF BetResult, stake
<1> HIDE DEF b
<1>7. b \in Bet
  BY <1>2, <1>3, <1>5, <1>6 DEF Bet
<1>8. Priced(b) /\ b.game = game /\ b.side = side /\ b.prob = prob
  BY <1>3, <1>4, <1>6 DEF Priced
<1> QED BY <1>7, <1>8 DEF b, prob, o

-----------------------------------------------------------------------------
(* The bets on one game *)

LEMMA OneSide ==
    ASSUME sizer \in {"kelly", "flat"}, NEW game \in Nat, NEW side \in Side,
           NEW est \in Estimate, NEW odds \in [Side -> Price \union {Absent}],
           NEW home \in Score, NEW away \in Score
    PROVE  GameList(BetsOn(side, game, est, odds, home, away), game, est, {side})
<1> DEFINE bs == BetsOn(side, game, est, odds, home, away)
           b == BetResult(game, side, est[side], odds[side], BetWon(side, home, away))
<1>1. CASE IsValue(est, odds, side)
  <2>1. bs = <<b>>
    BY <1>1 DEF BetsOn, ModelProb
  <2>2. BetWon(side, home, away) \in BOOLEAN
    BY DEF BetWon
  <2>3. /\ b \in Bet /\ Priced(b) /\ b.game = game /\ b.side = side
        /\ b.prob = est[side]
    BY <1>1, <2>2, BetFacts
  <2> HIDE DEF bs, b
  <2> QED BY <2>1, <2>3 DEF GameList, bs
<1>2. CASE ~IsValue(est, odds, side)
  <2>1. bs = <<>>
    BY <1>2 DEF BetsOn
  <2> HIDE DEF bs
  <2> QED BY <2>1 DEF GameList, bs
<1> QED BY <1>1, <1>2

LEMMA TwoLists ==
    ASSUME NEW game, NEW est, NEW A, NEW B, A \intersect B = {}, NEW cs, NEW bs,
           GameList(cs, game, est, A), GameList(bs, game, est, B)
    PROVE  GameList(cs \o bs, game, est, A \union B)
<1> DEFINE n == Len(cs)
           k == Len(bs)
           both == cs \o bs
<1>0. cs \in Seq(Bet) /\ bs \in Seq(Bet)
  BY DEF GameList
<1>1. /\ both \in Seq(Bet) /\ Len(both) = n + k
      /\ \A i \in 1 .. n + k : both[i] = IF i <= n THEN cs[i] ELSE bs[i - n]
      /\ n \in Nat /\ k \in Nat
  BY <1>0, ConcatProperties
<1>2. DOMAIN cs = 1 .. n /\ DOMAIN bs = 1 .. k /\ DOMAIN both = 1 .. n + k
  BY <1>0, <1>1
<1> HIDE DEF n, k, both
<1>3. ASSUME NEW i \in DOMAIN both
      PROVE  \/ i \in DOMAIN cs /\ both[i] = cs[i]
             \/ i - n \in DOMAIN bs /\ both[i] = bs[i - n] /\ i > n
  BY <1>1, <1>2
<1>4. \A i \in DOMAIN both :
        /\ both[i].game = game /\ both[i].prob = est[both[i].side]
        /\ both[i].side \in A \union B /\ Priced(both[i])
  BY <1>3 DEF GameList
<1>5. ASSUME NEW i \in DOMAIN both, NEW j \in DOMAIN both, both[i].side = both[j].side
      PROVE  i = j
  <2>1. CASE i \in DOMAIN cs /\ both[i] = cs[i] /\ j \in DOMAIN cs /\ both[j] = cs[j]
    BY <1>5, <2>1 DEF GameList
  <2>2. CASE /\ i - n \in DOMAIN bs /\ both[i] = bs[i - n]
             /\ j - n \in DOMAIN bs /\ both[j] = bs[j - n]
    <3>1. i - n = j - n
      BY <1>5, <2>2 DEF GameList
    <3> QED BY <1>1, <1>2, <3>1
  <2>3. CASE /\ i \in DOMAIN cs /\ both[i] = cs[i]
             /\ j - n \in DOMAIN bs /\ both[j] = bs[j - n]
    BY <1>5, <2>3 DEF GameList
  <2>4. CASE /\ j \in DOMAIN cs /\ both[j] = cs[j]
             /\ i - n \in DOMAIN bs /\ both[i] = bs[i - n]
    BY <1>5, <2>4 DEF GameList
  <2> QED BY <1>3, <2>1, <2>2, <2>3, <2>4
<1> QED BY <1>1, <1>4, <1>5 DEF GameList, both

\* What a game adds to the ledger.
LEMMA GameBetsFacts ==
    ASSUME sizer \in {"kelly", "flat"}, NEW game \in Nat,
           NEW est \in Estimate, NEW odds \in [Side -> Price \union {Absent}],
           NEW home \in Score, NEW away \in Score
    PROVE  GameList(GameBets(game, est, odds, home, away), game, est, Side)
<1> DEFINE On(side) == BetsOn(side, game, est, odds, home, away)
<1>1. \A side \in Side : GameList(On(side), game, est, {side})
  BY OneSide
<1>2. GameBets(game, est, odds, home, away) = (On("home_win") \o On("away_win")) \o On("draw")
  BY DEF GameBets
<1> HIDE DEF On
<1>3. GameList(On("home_win") \o On("away_win"), game, est, {"home_win"} \union {"away_win"})
  BY <1>1, TwoLists DEF Side
<1>4. GameList((On("home_win") \o On("away_win")) \o On("draw"), game, est,
               ({"home_win"} \union {"away_win"}) \union {"draw"})
  BY <1>1, <1>3, TwoLists DEF Side
<1>5. Side = ({"home_win"} \union {"away_win"}) \union {"draw"}
  BY DEF Side
<1> QED BY <1>2, <1>4, <1>5

-----------------------------------------------------------------------------
(* The ledger *)

\* One bet on each side of a game at most.
SidesApart ==
    \A i, j \in DOMAIN results :
        results[i].game = results[j].game /\ results[i].side = results[j].side => i = j

\* All bets on a game are sized by one estimate.
OneModel ==
    \A g \in 1 .. played : \E est \in Estimate :
        \A i \in BetsOf(g) : results[i].prob = est[results[i].side]

LedgerInv ==
    /\ sizer \in {"kelly", "flat"} /\ played \in Nat /\ results \in Seq(Bet)
    /\ \A i \in DOMAIN results : results[i].game \in 1 .. played /\ Priced(results[i])
    /\ SidesApart
    /\ OneModel

LEMMA GameKeeps ==
    ASSUME LedgerInv, NEW est \in Estimate,
           NEW odds \in [Side -> Price \union {Absent}], NEW home \in Score, NEW away \in Score,
           RunGame(est, odds, home, away)
    PROVE  LedgerInv'
<1> DEFINE g == played + 1
           new == GameBets(g, est, odds, home, away)
           n == Len(results)
           k == Len(new)
<1>1. played' = g /\ sizer' = sizer /\ results' = results \o new /\ played \in Nat
  BY DEF RunGame, LedgerInv
<1>2. GameList(new, g, est, Side)
  BY <1>1, GameBetsFacts DEF LedgerInv
<1> HIDE DEF new
<1>3. results \in Seq(Bet) /\ new \in Seq(Bet)
  BY <1>2 DEF LedgerInv, GameList
<1>4. /\ results' \in Seq(Bet) /\ Len(results') = n + k
      /\ \A i \in 1 .. n + k : results'[i] = IF i <= n THEN results[i] ELSE new[i - n]
      /\ n \in Nat /\ k \in Nat
  BY <1>1, <1>3, ConcatProperties
<1>5. DOMAIN results = 1 .. n /\ DOMAIN new = 1 .. k /\ DOMAIN results' = 1 .. n + k
  BY <1>3, <1>4
<1> HIDE DEF n, k
<1>6. ASSUME NEW i \in DOMAIN results'
      PROVE  \/ i \in DOMAIN results /\ results'[i] = results[i]
             \/ i - n \in DOMAIN new /\ results'[i] = new[i - n] /\ i > n
  BY <1>4, <1>5
<1>7. ASSUME NEW i \in DOMAIN results'
      PROVE  \/ /\ i \in DOMAIN results /\ results'[i] = results[i]
                /\ results[i].game \in 1 .. played /\ Priced(results[i])
             \/ /\ i - n \in DOMAIN new /\ results'[i] = new[i - n] /\ i \in Int
                /\ new[i - n].game = g /\ Priced(new[i - n])
                /\ new[i - n].prob = est[new[i - n].side]
  <2>1. i \in Int
    BY <1>4, <1>5
  <2> QED BY <1>2, <1>6, <2>1 DEF LedgerInv, GameList
<1>8. \A i \in DOMAIN results' : results'[i].game \in 1 .. g /\ Priced(results[i])'
  <2> TAKE i \in DOMAIN results'
  <2>1. results'[i].game \in 1 .. g /\ Priced(results'[i])
    BY <1>1, <1>7
  <2> QED BY <1>1, <2>1 DEF Priced
<1>9. SidesApart'
  <2> SUFFICES ASSUME NEW i \in DOMAIN results', NEW j \in DOMAIN results',
                      results'[i].game = results'[j].game,
                      results'[i].side = results'[j].side
               PROVE  i = j
    BY DEF SidesApart
  <2>1. CASE results'[i].game = g
    <3>1. /\ i - n \in DOMAIN new /\ results'[i] = new[i - n] /\ i \in Int
          /\ j - n \in DOMAIN new /\ results'[j] = new[j - n] /\ j \in Int
      BY <1>1, <1>7, <2>1
    <3>2. i - n = j - n
      BY <1>2, <3>1 DEF GameList
    <3> QED BY <1>4, <3>1, <3>2
  <2>2. CASE results'[i].game # g
    <3>1. /\ i \in DOMAIN results /\ results'[i] = results[i]
          /\ j \in DOMAIN results /\ results'[j] = results[j]
      BY <1>7, <2>2
    <3> QED BY <3>1 DEF LedgerInv, SidesApart
  <2> QED BY <2>1, <2>2
<1>10. OneModel'
  <2> SUFFICES ASSUME NEW h \in 1 .. g
               PROVE  \E e \in Estimate : \A i \in DOMAIN results' :
                        results'[i].game = h => results'[i].prob = e[results'[i].side]
    BY <1>1 DEF OneModel, BetsOf
  <2>1. CASE h = g
    <3>1. \A i \in DOMAIN results' :
            results'[i].game = h => results'[i].prob = est[results'[i].side]
      BY <1>1, <1>7, <2>1
    <3> QED BY <3>1
  <2>2. CASE h # g
    <3>1. h \in 1 .. played
      BY <1>1, <2>2
    <3>2. PICK e \in Estimate : \A i \in DOMAIN results :
            results[i].game = h => results[i].prob = e[results[i].side]
      BY <3>1 DEF LedgerInv, OneModel, BetsOf
    <3>3. \A i \in DOMAIN results' :
            results'[i].game = h => results'[i].prob = e[results'[i].side]
      BY <1>7, <2>2, <3>2
    <3> QED BY <3>3
  <2> QED BY <2>1, <2>2
<1> QED BY <1>1, <1>4, <1>8, <1>9, <1>10 DEF LedgerInv

LEMMA LedgerInvariant == Spec => []LedgerInv
<1>1. Init => LedgerInv
  BY DEF Init, LedgerInv, SidesApart, OneModel
<1>2. LedgerInv /\ [Next]_vars => LedgerInv'
  <2> SUFFICES ASSUME LedgerInv, [Next]_vars PROVE LedgerInv'
    OBVIOUS
  <2>1. CASE Next
    BY <2>1, GameKeeps DEF Next
  <2>2. CASE UNCHANGED vars
    BY <2>2 DEF vars, LedgerInv, SidesApart, OneModel, BetsOf, Priced
  <2> QED BY <2>1, <2>2
<1> QED BY <1>1, <1>2, PTL DEF Spec

-----------------------------------------------------------------------------
(* Sums over bets *)

LEMMA StakeSum ==
    ASSUME NEW rs, NEW S, IsFiniteSet(S), NEW F, IntOn(F, S),
           \A i \in S : F[i] = rs[i].stake
    PROVE  MapThenSumSet(LAMBDA i : rs[i].stake, S) = Total(F, S)
<1> DEFINE pick(s) == CHOOSE x \in s : TRUE
           next(f, s) == IF s = {} THEN 0
                         ELSE rs[pick(s)].stake + f[s \ {pick(s)}]
           f == CHOOSE h : h = [s \in SUBSET S |-> next(h, s)]
<1>1. MapThenSumSet(LAMBDA i : rs[i].stake, S) = f[S]
  BY DEF MapThenSumSet, MapThenFoldSet
<1>2. \A h : Summing(h, F, S) <=> h = [s \in SUBSET S |-> next(h, s)]
  <2> TAKE h
  <2>1. \A s \in SUBSET S :
          next(h, s) = IF s = {} THEN 0
                       ELSE F[CHOOSE x \in s : TRUE] + h[s \ {CHOOSE x \in s : TRUE}]
    OBVIOUS
  <2> HIDE DEF next
  <2> QED BY <2>1 DEF Summing
<1>3. \E h : h = [s \in SUBSET S |-> next(h, s)]
  BY <1>2, TotalSums
<1>4. f = [s \in SUBSET S |-> next(f, s)]
  <2> HIDE DEF next
  <2> QED BY <1>3
<1> HIDE DEF f
<1>5. Summing(f, F, S)
  BY <1>2, <1>4
<1> QED BY <1>1, <1>5, SummingTotal

LEMMA ReturnSum ==
    ASSUME NEW rs, NEW S, IsFiniteSet(S), NEW F, IntOn(F, S),
           \A i \in S : F[i] = (rs[i].stake * rs[i].odds) \div Q
    PROVE  MapThenSumSet(LAMBDA i : (rs[i].stake * rs[i].odds) \div Q, S) = Total(F, S)
<1> DEFINE pick(s) == CHOOSE x \in s : TRUE
           next(f, s) == IF s = {} THEN 0
                         ELSE (rs[pick(s)].stake * rs[pick(s)].odds) \div Q + f[s \ {pick(s)}]
           f == CHOOSE h : h = [s \in SUBSET S |-> next(h, s)]
<1>1. MapThenSumSet(LAMBDA i : (rs[i].stake * rs[i].odds) \div Q, S) = f[S]
  BY DEF MapThenSumSet, MapThenFoldSet
<1>2. \A h : Summing(h, F, S) <=> h = [s \in SUBSET S |-> next(h, s)]
  <2> TAKE h
  <2>1. \A s \in SUBSET S :
          next(h, s) = IF s = {} THEN 0
                       ELSE F[CHOOSE x \in s : TRUE] + h[s \ {CHOOSE x \in s : TRUE}]
    OBVIOUS
  <2> HIDE DEF next
  <2> QED BY <2>1 DEF Summing
<1>3. \E h : h = [s \in SUBSET S |-> next(h, s)]
  BY <1>2, TotalSums
<1>4. f = [s \in SUBSET S |-> next(f, s)]
  <2> HIDE DEF next
  <2> QED BY <1>3
<1> HIDE DEF f
<1>5. Summing(f, F, S)
  BY <1>2, <1>4
<1> QED BY <1>1, <1>5, SummingTotal

LEMMA PnlSum ==
    ASSUME NEW rs, NEW S, IsFiniteSet(S), NEW F, IntOn(F, S),
           \A i \in S : F[i] = rs[i].pnl
    PROVE  MapThenSumSet(LAMBDA i : rs[i].pnl, S) = Total(F, S)
<1> DEFINE pick(s) == CHOOSE x \in s : TRUE
           next(f, s) == IF s = {} THEN 0
                         ELSE rs[pick(s)].pnl + f[s \ {pick(s)}]
           f == CHOOSE h : h = [s \in SUBSET S |-> next(h, s)]
<1>1. MapThenSumSet(LAMBDA i : rs[i].pnl, S) = f[S]
  BY DEF MapThenSumSet, MapThenFoldSet
<1>2. \A h : Summing(h, F, S) <=> h = [s \in SUBSET S |-> next(h, s)]
  <2> TAKE h
  <2>1. \A s \in SUBSET S :
          next(h, s) = IF s = {} THEN 0
                       ELSE F[CHOOSE x \in s : TRUE] + h[s \ {CHOOSE x \in s : TRUE}]
    OBVIOUS
  <2> HIDE DEF next
  <2> QED BY <2>1 DEF Summing
<1>3. \E h : h = [s \in SUBSET S |-> next(h, s)]
  BY <1>2, TotalSums
<1>4. f = [s \in SUBSET S |-> next(f, s)]
  <2> HIDE DEF next
  <2> QED BY <1>3
<1> HIDE DEF f
<1>5. Summing(f, F, S)
  BY <1>2, <1>4
<1> QED BY <1>1, <1>5, SummingTotal

-----------------------------------------------------------------------------
(* What the bets on a game add up to *)

\* The bets on one game are on different results of it, whose probabilities do
\* not exceed one together.
LEMMA GameProbs ==
    ASSUME LedgerInv, NEW g \in 1 .. played, NEW S, S = BetsOf(g),
           NEW prob, prob = [i \in S |-> results[i].prob]
    PROVE  /\ IsFiniteSet(S) /\ S \subseteq DOMAIN results
           /\ IntOn(prob, S) /\ Total(prob, S) <= P
<1>1. S \subseteq DOMAIN results /\ IsFiniteSet(S)
  <2>1. DOMAIN results = 1 .. Len(results) /\ Len(results) \in Nat
    BY DEF LedgerInv
  <2>2. S \subseteq 1 .. Len(results)
    BY <2>1 DEF BetsOf
  <2>3. IsFiniteSet(1 .. Len(results))
    BY <2>1, FS_Interval
  <2>4. IsFiniteSet(S)
    BY <2>2, <2>3, FS_Subset
  <2> QED BY <2>1, <2>2, <2>4
<1>2. \A i \in S : results[i] \in Bet /\ results[i].game = g
  BY <1>1 DEF LedgerInv, BetsOf
<1>3. PICK est \in Estimate : \A i \in S : results[i].prob = est[results[i].side]
  BY DEF LedgerInv, OneModel
<1> DEFINE side == [i \in S |-> results[i].side]
           taken == {side[i] : i \in S}
           known == {s \in Side : est[s] # Absent}
           rest == known \ taken
           zero == [s \in rest |-> 0]
<1>4. \A i, j \in S : side[i] = side[j] => i = j
  BY <1>1, <1>2 DEF LedgerInv, SidesApart
<1>5. IntOn(prob, S) /\ \A i \in S : prob[i] = est[side[i]]
  BY <1>2, <1>3 DEF Bet, IntOn
<1>6. Total(est, taken) = Total(prob, S)
  <2> HIDE DEF side
  <2> QED BY <1>1, <1>4, <1>5, TotalImage
<1>7. taken \subseteq known
  BY <1>2, <1>3, LedgerConstants DEF Bet
<1>8. IsFiniteSet(taken) /\ IsFiniteSet(rest) /\ IsFiniteSet(known)
  <2>1. IsFiniteSet(Side)
    <3>1. Side = (({} \union {"home_win"}) \union {"away_win"}) \union {"draw"}
      BY DEF Side
    <3> QED BY <3>1, FS_EmptySet, FS_AddElement
  <2> QED BY <1>7, <2>1, FS_Subset
<1>9. Total(est, known) = P
  BY LedgerConstants DEF Total
<1>10. \A s \in known : est[s] \in Int /\ est[s] >= 0
  BY LedgerConstants
<1> HIDE DEF side, taken, known
<1>11. Total(est, known) = Total(est, taken) + Total(est, rest)
  <2>1. known = taken \union rest /\ taken \intersect rest = {}
    BY <1>7
  <2>2. IntOn(est, taken \union rest)
    BY <1>7, <1>10, <2>1 DEF IntOn
  <2> HIDE DEF rest
  <2> QED BY <1>8, <2>1, <2>2, TotalUnion
<1>12. Total(est, rest) >= 0
  <2>1. IntOn(zero, rest) /\ IntOn(est, rest) /\ \A s \in rest : zero[s] <= est[s]
    BY <1>10 DEF IntOn
  <2>2. Total(zero, rest) = Cardinality(rest) * 0 /\ Cardinality(rest) \in Nat
    <3> DEFINE B == Int
               naught == 0
    <3>1. naught \in B /\ \A s \in rest : zero[s] = naught
      OBVIOUS
    <3> HIDE DEF zero, rest, B, naught
    <3>2. Total(zero, rest) = Cardinality(rest) * naught
      BY <1>8, <3>1, TotalConstant DEF B
    <3> QED BY <1>8, <3>2, FS_CardinalityType DEF naught
  <2> HIDE DEF zero, rest
  <2>3. Total(zero, rest) <= Total(est, rest)
    BY <1>8, <2>1, TotalCompare
  <2>4. Total(est, rest) \in Int
    BY <1>8, <2>1, TotalStep
  <2> QED BY <2>2, <2>3, <2>4
<1>13. Total(prob, S) \in Int /\ Total(est, rest) \in Int
  <2>1. IntOn(est, rest)
    BY <1>10 DEF IntOn
  <2> HIDE DEF rest
  <2> QED BY <1>1, <1>5, <1>8, <2>1, TotalStep
<1> HIDE DEF rest
<1>14. P \in Nat
  BY LedgerConstants
<1>15. Total(prob, S) <= P
  BY <1>6, <1>9, <1>11, <1>12, <1>13, <1>14
<1> QED BY <1>1, <1>5, <1>15

LEMMA StakesBounded == LedgerInv => StakesWithinBankroll
<1> SUFFICES ASSUME LedgerInv, sizer = "kelly", NEW g \in 1 .. played
             PROVE  KellyDiv * Staked(BetsOf(g)) <= Bankroll
  BY DEF StakesWithinBankroll
<1> DEFINE S == BetsOf(g)
           prob == [i \in S |-> results[i].prob]
           stake == [i \in S |-> results[i].stake]
           k == P * KellyDiv
           part == [i \in S |-> k * stake[i]]
           share == [i \in S |-> Bankroll * prob[i]]
<1>1. /\ IsFiniteSet(S) /\ S \subseteq DOMAIN results
      /\ IntOn(prob, S) /\ Total(prob, S) <= P
  BY GameProbs
<1>2. \A i \in S : results[i] \in Bet /\ Priced(results[i])
  BY <1>1 DEF LedgerInv
<1>3. P \in Nat \ {0} /\ KellyDiv \in Nat \ {0} /\ Bankroll \in Nat /\ k \in Int
  BY LedgerConstants
<1>4. IntOn(stake, S) /\ \A i \in S : stake[i] = results[i].stake
  BY <1>2 DEF Bet, IntOn
<1>5. Staked(S) = Total(stake, S)
  <2> HIDE DEF stake, S
  <2> QED BY <1>1, <1>4, StakeSum DEF Staked
<1>6. IntOn(part, S) /\ IntOn(share, S) /\ \A i \in S : part[i] <= share[i]
  <2>1. ASSUME NEW i \in S PROVE part[i] \in Int /\ share[i] \in Int /\ part[i] <= share[i]
    <3> DEFINE b == results[i]
    <3>1. b.stake \in Nat /\ b.prob \in Int /\ k * b.stake <= b.prob * Bankroll
      BY <1>2 DEF Priced, Bet
    <3>2. part[i] = k * b.stake /\ share[i] = Bankroll * b.prob
      OBVIOUS
    <3> HIDE DEF b, k, part, share
    <3>3. b.prob * Bankroll = Bankroll * b.prob
      BY <1>3, <3>1
    <3> QED BY <1>3, <3>1, <3>2, <3>3
  <2> QED BY <2>1 DEF IntOn
<1>7. (\A i \in S : part[i] = k * stake[i]) /\ (\A i \in S : share[i] = Bankroll * prob[i])
  OBVIOUS
<1> HIDE DEF S, prob, stake, part, share, k
<1>8. Total(part, S) = k * Total(stake, S)
  BY <1>1, <1>3, <1>4, <1>7, TotalTimes
<1>9. Total(share, S) = Bankroll * Total(prob, S)
  <2>1. Bankroll \in Int
    BY <1>3
  <2> QED BY <1>1, <1>7, <2>1, TotalTimes
<1>10. Total(part, S) <= Total(share, S)
  BY <1>1, <1>6, TotalCompare
<1>11. Total(stake, S) \in Int /\ Total(prob, S) \in Int
  BY <1>1, <1>4, TotalStep
<1>12. Bankroll * Total(prob, S) <= Bankroll * P
  BY <1>1, <1>3, <1>11
<1>13. P * (KellyDiv * Total(stake, S)) <= P * Bankroll
  <2>1. k * Total(stake, S) = P * (KellyDiv * Total(stake, S))
    BY <1>3, <1>11 DEF k
  <2>2. KellyDiv * Total(stake, S) \in Int
    BY <1>3, <1>11
  <2>3. /\ P * (KellyDiv * Total(stake, S)) \in Int
        /\ Bankroll * Total(prob, S) \in Int /\ Bankroll * P \in Int
    BY <1>3, <1>11, <2>2
  <2>4. Bankroll * P = P * Bankroll
    BY <1>3
  <2> QED BY <1>8, <1>9, <1>10, <1>12, <2>1, <2>3, <2>4
<1>14. KellyDiv * Total(stake, S) <= Bankroll
  <2> DEFINE t == KellyDiv * Total(stake, S)
  <2>1. t \in Int
    BY <1>3, <1>11
  <2> HIDE DEF t
  <2>2. P * t <= P * Bankroll
    BY <1>13 DEF t
  <2>3. SUFFICES ASSUME t > Bankroll PROVE FALSE
    BY <1>3, <2>1 DEF t
  <2>4. P * (t - Bankroll) > 0 /\ P * (t - Bankroll) = P * t - P * Bankroll
    BY <1>3, <2>1, <2>3
  <2>5. P * t \in Int /\ P * Bankroll \in Int
    BY <1>3, <2>1
  <2> QED BY <2>2, <2>4, <2>5
<1> QED BY <1>5, <1>14 DEF S

\* What a bet pays back, times the odds' unit, is its stake times its odds.
LEMMA PaidBack ==
    ASSUME NEW b \in Bet, b.stake % Q = 0
    PROVE  /\ (b.stake * b.odds) \div Q \in Int
           /\ b.stake * b.odds = Q * ((b.stake * b.odds) \div Q)
<1> DEFINE a == b.stake * b.odds
           v == b.stake \div Q
<1>1. Q \in Nat \ {0} /\ b.stake \in Nat /\ b.odds \in Nat
  BY LedgerConstants DEF Bet
<1>2. v \in Int /\ b.stake = Q * v
  <2> DEFINE c == b.stake
  <2>1. c \in Nat /\ c % Q = 0
    BY <1>1
  <2> HIDE DEF c
  <2>2. c \div Q \in Int /\ c = Q * (c \div Q) + (c % Q)
    BY <1>1, <2>1, Division
  <2> DEFINE w == c \div Q
  <2>3. Q * w \in Int
    BY <1>1, <2>2
  <2> QED BY <2>1, <2>2, <2>3 DEF c
<1>3. v \in Nat
  <2> HIDE DEF v
  <2>1. SUFFICES ASSUME v <= -1 PROVE FALSE
    BY <1>2
  <2>2. Q * v <= -Q
    BY <1>1, <1>2, <2>1
  <2> QED BY <1>1, <1>2, <2>2
<1>4. a = Q * (v * b.odds) /\ v * b.odds \in Nat /\ a \in Nat
  <2> HIDE DEF v
  <2> QED BY <1>1, <1>2, <1>3
<1> HIDE DEF a, v
<1>5. a % Q = 0
  BY <1>1, <1>4, MultipleMod
<1>6. a \div Q \in Int /\ a = Q * (a \div Q) + (a % Q)
  BY <1>1, <1>4, Division
<1>7. a = Q * (a \div Q)
  BY <1>1, <1>4, <1>5, <1>6
<1> QED BY <1>6, <1>7 DEF a

\* If every result of a game paid back no more than its bets cost, their average
\* return by the model's own probabilities would be no more either.
LEMMA SomeResultPays == LedgerInv /\ (sizer = "kelly" \/ MinEdge > 0) => NoSureLoss
<1> SUFFICES ASSUME LedgerInv, sizer = "kelly" \/ MinEdge > 0, NEW g \in 1 .. played,
                    Staked(BetsOf(g)) > 0,
                    \A s \in Side : ~(Return(g, s) > Staked(BetsOf(g)))
             PROVE  FALSE
  BY DEF NoSureLoss
<1> DEFINE T == BetsOf(g)
           prob == [i \in T |-> results[i].prob]
           stake == [i \in T |-> results[i].stake]
           back == [i \in T |-> (results[i].stake * results[i].odds) \div Q]
           t == Total(stake, T)
           k == P * Q + 1
           m == Q * t
           cost == [i \in T |-> k * stake[i]]
           cap == [i \in T |-> m * prob[i]]
<1>1. /\ IsFiniteSet(T) /\ T \subseteq DOMAIN results
      /\ IntOn(prob, T) /\ Total(prob, T) <= P
  BY GameProbs
<1>2. \A i \in T : results[i] \in Bet /\ Priced(results[i]) /\ results[i].side \in Side
  <2>1. \A i \in T : results[i] \in Bet /\ Priced(results[i])
    BY <1>1 DEF LedgerInv
  <2> HIDE DEF T
  <2> QED BY <2>1 DEF Bet
<1>3. P \in Nat \ {0} /\ Q \in Nat \ {0} /\ k \in Int
  BY LedgerConstants
<1>4. IntOn(stake, T) /\ \A i \in T : stake[i] = results[i].stake
  BY <1>2 DEF Bet, IntOn
<1>5. Staked(T) = t /\ t \in Int
  <2> HIDE DEF stake, T
  <2> QED BY <1>1, <1>4, StakeSum, TotalStep DEF Staked
<1>6. IntOn(back, T)
  BY <1>2, PaidBack DEF IntOn, Priced
<1>7. ASSUME NEW i \in T PROVE Return(g, results[i].side) = back[i]
  <2>1. {j \in T : results[j].side = results[i].side} = {i}
    BY <1>1 DEF LedgerInv, SidesApart, BetsOf
  <2>2. Return(g, results[i].side) =
            MapThenSumSet(LAMBDA j : (results[j].stake * results[j].odds) \div Q, {i})
    BY <2>1 DEF Return
  <2>3. IntOn(back, {i}) /\ IsFiniteSet({i})
        /\ \A j \in {i} : back[j] = (results[j].stake * results[j].odds) \div Q
    BY <1>6, FS_Singleton DEF IntOn
  <2> HIDE DEF T, back
  <2>4. Return(g, results[i].side) = Total(back, {i})
    BY <2>2, <2>3, ReturnSum
  <2>5. Total(back, {i}) = back[i] + Total(back, {i} \ {i})
    BY <2>3, TotalRemove
  <2>6. {i} \ {i} = {} /\ IsFiniteSet({}) /\ IntOn(back, {})
    BY FS_EmptySet DEF IntOn
  <2>7. Total(back, {i} \ {i}) = 0
    BY <2>6, TotalStep
  <2> QED BY <2>3, <2>4, <2>5, <2>7 DEF IntOn
<1>8. IntOn(cost, T) /\ IntOn(cap, T) /\ \A i \in T : cost[i] <= cap[i]
  <2>1. ASSUME NEW i \in T PROVE cost[i] \in Int /\ cap[i] \in Int /\ cost[i] <= cap[i]
    <3> DEFINE b == results[i]
               s == b.stake
               p == b.prob
               o == b.odds
               r == back[i]
    <3>1. s \in Nat /\ p \in Nat /\ o \in Nat /\ b \in Bet /\ s % Q = 0
      BY <1>2, <1>3 DEF Bet, Priced
    <3>2. s > 0 => p * o > P * Q
      BY <1>2 DEF Priced
    <3>3. r \in Int /\ s * o = Q * r
      BY <3>1, PaidBack
    <3>4. r <= t
      BY <1>2, <1>5, <1>7, <3>3
    <3>5. cost[i] = k * s /\ cap[i] = m * p
      OBVIOUS
    <3> HIDE DEF b, s, p, o, r, t, T, stake, prob, back, cost, cap
    <3>6. k * s \in Int /\ m * p \in Int
      BY <1>3, <1>5, <3>1
    <3>7. k * s <= p * (s * o)
      <4>1. CASE s = 0
        BY <1>3, <3>1, <4>1
      <4>2. CASE s > 0
        <5>1. p * o \in Int /\ P * Q \in Int
          BY <1>3, <3>1
        <5>2. k <= p * o
          BY <3>2, <4>2, <5>1
        <5>3. k * s <= (p * o) * s
          <6> DEFINE x == p * o
          <6> HIDE DEF x, k
          <6> QED BY <1>3, <3>1, <5>1, <5>2 DEF x
        <5> QED BY <3>1, <5>3
      <4> QED BY <3>1, <4>1, <4>2
    <3>8. p * (s * o) <= m * p
      <4>1. Q * r <= Q * t
        BY <1>3, <1>5, <3>3, <3>4
      <4>2. s * o \in Int /\ m \in Int /\ s * o <= m
        BY <1>3, <1>5, <3>1, <3>3, <4>1
      <4> DEFINE x == s * o
      <4> HIDE DEF x, m
      <4>3. p * x <= p * m /\ p * m = m * p
        BY <3>1, <4>2 DEF x
      <4> QED BY <4>3 DEF x
    <3>9. p * (s * o) \in Int
      BY <3>1
    <3> QED BY <3>5, <3>6, <3>7, <3>8, <3>9
  <2> QED BY <2>1 DEF IntOn
<1>9. (\A i \in T : cost[i] = k * stake[i]) /\ (\A i \in T : cap[i] = m * prob[i])
  OBVIOUS
<1>10. m \in Int
  BY <1>3, <1>5
<1> HIDE DEF T, stake, prob, back, cost, cap, k, m
<1>11. Total(cost, T) = k * t /\ Total(cap, T) = m * Total(prob, T)
  <2>1. Total(cost, T) = k * Total(stake, T)
    BY <1>1, <1>3, <1>4, <1>9, TotalTimes
  <2> QED BY <1>1, <1>9, <1>10, <2>1, TotalTimes
<1>12. Total(cost, T) <= Total(cap, T)
  BY <1>1, <1>8, TotalCompare
<1>13. t > 0 /\ Total(prob, T) \in Int
  BY <1>1, <1>5, TotalStep DEF T
<1> HIDE DEF t
<1>14. m * Total(prob, T) <= m * P
  <2>1. m >= 0
    BY <1>3, <1>5, <1>13 DEF m
  <2> QED BY <1>1, <1>3, <1>10, <1>13, <2>1
<1>15. k * t = m * P + t
  BY <1>3, <1>5 DEF k, m
<1>16. k * t \in Int /\ m * P \in Int /\ m * Total(prob, T) \in Int
  BY <1>3, <1>5, <1>10, <1>13
<1> QED BY <1>5, <1>11, <1>12, <1>13, <1>14, <1>15, <1>16

-----------------------------------------------------------------------------
(* The loops of the reports *)

LEMMA BalanceSteps ==
    ASSUME results \in Seq(Bet)
    PROVE  /\ Balance(0) = 0
           /\ \A k \in 1 .. Len(results) : Balance(k) = Balance(k - 1) + results[k].pnl
           /\ \A k \in 0 .. Len(results) : Balance(k) \in Int
<1> DEFINE n == Len(results)
           pnl == [i \in 1 .. n |-> results[i].pnl]
<1>1. n \in Nat /\ \A i \in 1 .. n : results[i] \in Bet
  OBVIOUS
<1>2. \A i \in 1 .. n : pnl[i] \in Int /\ pnl[i] = results[i].pnl
  BY <1>1 DEF Bet
<1> HIDE DEF n, pnl
<1>3. ASSUME NEW k \in 0 .. n
      PROVE  IsFiniteSet(1 .. k) /\ IntOn(pnl, 1 .. k) /\ Balance(k) = Total(pnl, 1 .. k)
  <2>1. k \in Nat /\ \A i \in 1 .. k : i \in 1 .. n
    BY <1>1
  <2>2. IsFiniteSet(1 .. k)
    BY <2>1, FS_Interval
  <2> DEFINE S == 1 .. k
  <2>3. IntOn(pnl, S) /\ \A i \in S : pnl[i] = results[i].pnl
    BY <1>2, <2>1 DEF IntOn
  <2>4. Balance(k) = MapThenSumSet(LAMBDA i : results[i].pnl, S)
    BY DEF Balance
  <2> HIDE DEF S
  <2>5. IsFiniteSet(S)
    BY <2>2 DEF S
  <2>6. Balance(k) = Total(pnl, S)
    BY <2>3, <2>4, <2>5, PnlSum
  <2> QED BY <2>3, <2>5, <2>6 DEF S
<1>4. ASSUME NEW k \in 0 .. n PROVE Balance(k) \in Int
  <2> DEFINE S == 1 .. k
  <2>1. IsFiniteSet(S) /\ IntOn(pnl, S) /\ Balance(k) = Total(pnl, S)
    BY <1>3
  <2> HIDE DEF S
  <2> QED BY <2>1, TotalStep
<1>5. ASSUME NEW k \in 1 .. n PROVE Balance(k) = Balance(k - 1) + results[k].pnl
  <2> DEFINE S == 1 .. k
  <2>1. k \in 0 .. n /\ k - 1 \in 0 .. n /\ k \in S
    BY <1>1
  <2>2. IsFiniteSet(S) /\ IntOn(pnl, S) /\ Balance(k) = Total(pnl, S)
    BY <1>3, <2>1
  <2>3. S \ {k} = 1 .. (k - 1)
    BY <1>1, LastIndex
  <2>4. Balance(k - 1) = Total(pnl, S \ {k})
    BY <1>3, <2>1, <2>3
  <2> HIDE DEF S
  <2>5. Total(pnl, S) = pnl[k] + Total(pnl, S \ {k})
    BY <2>1, <2>2, TotalRemove
  <2>6. Balance(k - 1) \in Int /\ pnl[k] \in Int /\ pnl[k] = results[k].pnl
    BY <1>2, <1>4, <2>1
  <2> QED BY <2>2, <2>4, <2>5, <2>6
<1>6. Balance(0) = 0
  <2> DEFINE S == 1 .. 0
  <2>1. IsFiniteSet(S) /\ IntOn(pnl, S) /\ Balance(0) = Total(pnl, S) /\ S = {}
    BY <1>1, <1>3
  <2> HIDE DEF S
  <2> QED BY <2>1, TotalStep
<1> QED BY <1>4, <1>5, <1>6 DEF n

\* After k turns _max_drawdown has the balance, its highest value and its worst
\* fall so far.
WorstFall(acc, k) ==
    /\ acc.cum = Balance(k)
    /\ acc.peak \in Int /\ acc.fall \in Int
    /\ \E i \in 0 .. k : acc.peak = Balance(i)
    /\ \A i \in 0 .. k : Balance(i) <= acc.peak
    /\ \E j \in 0 .. k : \E i \in 0 .. j : acc.fall = Balance(i) - Balance(j)
    /\ \A j \in 0 .. k : \A i \in 0 .. j : Balance(i) - Balance(j) <= acc.fall

LEMMA FallStep ==
    ASSUME results \in Seq(Bet), NEW k \in 1 .. Len(results), NEW acc,
           WorstFall(acc, k - 1)
    PROVE  WorstFall(DrawdownStep(acc, results[k].pnl), k)
<1> DEFINE cum == acc.cum + results[k].pnl
           peak == Larger(acc.peak, cum)
           fall == Larger(acc.fall, peak - cum)
           n == Len(results)
<1>1. /\ n \in Nat /\ k \in 1 .. n /\ k - 1 \in 0 .. n /\ cum = Balance(k)
      /\ \A i \in 0 .. k : Balance(i) \in Int
  <2>1. n \in Nat /\ k \in 1 .. n /\ k - 1 \in 0 .. n /\ k \in Int
    OBVIOUS
  <2>2. /\ Balance(k) = Balance(k - 1) + results[k].pnl
        /\ \A i \in 0 .. n : Balance(i) \in Int
    BY BalanceSteps
  <2>3. \A i \in 0 .. k : i \in 0 .. n
    BY <2>1
  <2> QED BY <2>1, <2>2, <2>3 DEF WorstFall
<1>2. DrawdownStep(acc, results[k].pnl) = [cum |-> cum, peak |-> peak, fall |-> fall]
  BY DEF DrawdownStep
<1> HIDE DEF n, cum
<1>3. \A i : i \in 0 .. k <=> i \in 0 .. (k - 1) \/ i = k
  BY <1>1
<1>4. /\ peak \in Int /\ peak >= cum /\ peak >= acc.peak
      /\ peak = acc.peak \/ peak = cum
  BY <1>1, <1>3 DEF Larger, WorstFall
<1>5. (\E i \in 0 .. k : peak = Balance(i)) /\ (\A i \in 0 .. k : Balance(i) <= peak)
  <2>1. \E i \in 0 .. k : peak = Balance(i)
    BY <1>1, <1>3, <1>4 DEF WorstFall
  <2>2. ASSUME NEW i \in 0 .. k PROVE Balance(i) <= peak
    <3>1. CASE i = k
      BY <1>1, <1>4, <3>1
    <3>2. CASE i # k
      <4>1. Balance(i) <= acc.peak /\ acc.peak \in Int
        BY <1>3, <3>2 DEF WorstFall
      <4> HIDE DEF peak
      <4> QED BY <1>1, <1>4, <4>1
    <3> QED BY <3>1, <3>2
  <2> QED BY <2>1, <2>2
<1> HIDE DEF peak
<1>6. /\ fall \in Int /\ fall >= acc.fall /\ fall >= peak - cum
      /\ fall = acc.fall \/ fall = peak - cum
  <2>1. cum \in Int
    BY <1>1, <1>3
  <2>2. acc.fall \in Int /\ peak - cum \in Int
    BY <1>4, <2>1 DEF WorstFall
  <2> QED BY <2>2 DEF Larger
<1> HIDE DEF fall
<1>7. \E j \in 0 .. k : \E i \in 0 .. j : fall = Balance(i) - Balance(j)
  <2>1. CASE fall = acc.fall
    BY <1>3, <2>1 DEF WorstFall
  <2>2. CASE fall = peak - cum
    <3>1. k \in 0 .. k
      BY <1>1
    <3> QED BY <1>1, <1>5, <2>2, <3>1
  <2> QED BY <1>6, <2>1, <2>2
<1>8. ASSUME NEW j \in 0 .. k, NEW i \in 0 .. j PROVE Balance(i) - Balance(j) <= fall
  <2>1. i \in 0 .. k /\ Balance(i) \in Int /\ Balance(j) \in Int
    BY <1>1
  <2>2. CASE j = k
    BY <1>1, <1>4, <1>5, <1>6, <2>1, <2>2
  <2>3. CASE j # k
    <3>1. Balance(i) - Balance(j) <= acc.fall /\ acc.fall \in Int
      BY <1>3, <2>3 DEF WorstFall
    <3> QED BY <1>6, <2>1, <3>1
  <2> QED BY <2>2, <2>3
<1> DEFINE new == [cum |-> cum, peak |-> peak, fall |-> fall]
<1>9. new.cum = cum /\ new.peak = peak /\ new.fall = fall
  OBVIOUS
<1> HIDE DEF new
<1>10. WorstFall(new, k)
  BY <1>1, <1>4, <1>5, <1>6, <1>7, <1>8, <1>9 DEF WorstFall
<1> QED BY <1>2, <1>10 DEF new

LEMMA DrawdownPass == LedgerInv => DrawdownIsWorstFall
<1> SUFFICES ASSUME LedgerInv PROVE DrawdownIsWorstFall
  OBVIOUS
<1> DEFINE n == Len(results)
           pnls == Pnls(results)
           base == [cum |-> 0, peak |-> 0, fall |-> 0]
           next(f, s) == IF s = {} THEN base
                         ELSE DrawdownStep(f[s \ {Max(s)}], pnls[Max(s)])
           f == CHOOSE h : h = [s \in SUBSET (1 .. n) |-> next(h, s)]
           B == [cum : Int, peak : Int, fall : Int]
           h == [p \in (1 .. n) \X B |-> DrawdownStep(p[2], pnls[p[1]])]
<1>1. /\ results \in Seq(Bet) /\ n \in Nat
      /\ DOMAIN pnls = 1 .. n /\ \A i \in 1 .. n : pnls[i] = results[i].pnl
  BY DEF LedgerInv, Pnls
<1>2. MaxDrawdown(pnls) = f[1 .. n].fall
  BY <1>1 DEF MaxDrawdown, FoldLeft, MapThenFoldSet
<1>3. \A i \in 1 .. n : pnls[i] \in Int
  <2>1. \A i \in 1 .. n : results[i] \in Bet
    BY <1>1
  <2> HIDE DEF pnls
  <2> QED BY <1>1, <2>1 DEF Bet
<1> HIDE DEF pnls, n
<1>4. base \in B /\ StepsIn(h, 1 .. n, B)
  <2>1. ASSUME NEW x \in 1 .. n, NEW b \in B PROVE h[<<x, b>>] \in B
    <3>1. h[<<x, b>>] = DrawdownStep(b, pnls[x])
      OBVIOUS
    <3>2. DrawdownStep(b, pnls[x]) \in B
      BY <1>3 DEF DrawdownStep, Larger
    <3> QED BY <3>1, <3>2
  <2>2. base \in B
    OBVIOUS
  <2> HIDE DEF h, B, base
  <2> QED BY <2>1, <2>2 DEF StepsIn
<1>5. \E g : g = [s \in SUBSET (1 .. n) |-> next(g, s)]
  <2> HIDE DEF B, h, base
  <2>1. PICK g : /\ g = [s \in SUBSET (1 .. n) |->
                            IF s = {} THEN base ELSE h[<<Max(s), g[s \ {Max(s)}]>>]]
                 /\ \A s \in SUBSET (1 .. n) : g[s] \in B
                 /\ \A s \in SUBSET (1 .. n) : s # {} => Max(s) \in s
    BY <1>1, <1>4, LoopExists
  <2>2. ASSUME NEW s \in SUBSET (1 .. n)
        PROVE  next(g, s) = IF s = {} THEN base ELSE h[<<Max(s), g[s \ {Max(s)}]>>]
    <3>1. CASE s = {}
      BY <3>1
    <3>2. CASE s # {}
      <4>1. Max(s) \in 1 .. n /\ g[s \ {Max(s)}] \in B
        BY <2>1, <3>2
      <4> QED BY <3>2, <4>1 DEF h
    <3> QED BY <3>1, <3>2
  <2>3. g = [s \in SUBSET (1 .. n) |-> next(g, s)]
    <3> HIDE DEF next
    <3> QED BY <2>1, <2>2, Zenon
  <2> QED BY <2>3
<1>6. f = [s \in SUBSET (1 .. n) |-> next(f, s)]
  <2> HIDE DEF next
  <2> QED BY <1>5
<1> HIDE DEF f
<1>7. f[1 .. 0] = base
  <2>1. 1 .. 0 = {} /\ 1 .. 0 \in SUBSET (1 .. n)
    BY <1>1
  <2>2. next(f, 1 .. 0) = base
    BY <2>1
  <2> HIDE DEF next
  <2> QED BY <1>6, <2>1, <2>2
<1>8. ASSUME NEW k \in 1 .. n
      PROVE  f[1 .. k] = DrawdownStep(f[1 .. (k - 1)], results[k].pnl)
  <2>1. /\ Max(1 .. k) = k /\ (1 .. k) \ {k} = 1 .. (k - 1)
        /\ 1 .. k # {} /\ 1 .. k \in SUBSET (1 .. n)
    BY <1>1, LastIndex
  <2>2. next(f, 1 .. k) = DrawdownStep(f[1 .. (k - 1)], pnls[k])
    BY <2>1
  <2> HIDE DEF next
  <2> QED BY <1>1, <1>6, <2>1, <2>2
<1>9. \A k \in 0 .. n : WorstFall(f[1 .. k], k)
  <2> DEFINE Good == {k \in 0 .. n : WorstFall(f[1 .. k], k)}
  <2>1. 0 \in Good
    <3>1. Balance(0) = 0 /\ 0 \in 0 .. n
      BY <1>1, BalanceSteps
    <3>2. WorstFall(base, 0)
      BY <3>1 DEF WorstFall
    <3> QED BY <1>7, <3>1, <3>2
  <2>2. ASSUME NEW k \in 1 .. n, k - 1 \in Good PROVE k \in Good
    <3>1. WorstFall(f[1 .. (k - 1)], k - 1)
      BY <2>2
    <3>2. k \in 1 .. Len(results) /\ k \in 0 .. n
      BY <1>1 DEF n
    <3>3. WorstFall(DrawdownStep(f[1 .. (k - 1)], results[k].pnl), k)
      BY <1>1, <3>1, <3>2, FallStep
    <3> QED BY <1>8, <3>2, <3>3
  <2> HIDE DEF Good
  <2>3. \A k \in 0 .. n : k \in Good
    BY <1>1, <2>1, <2>2, CountInduction
  <2> QED BY <2>3 DEF Good
<1> DEFINE worst == MaxDrawdown(pnls)
           falls == UNION {{Balance(i) - Balance(j) : i \in 0 .. j} : j \in 0 .. n}
<1>10. WorstFall(f[1 .. n], n)
  BY <1>1, <1>9
<1>11. worst \in Int /\ worst \in falls /\ \A x \in falls : x <= worst
  BY <1>2, <1>10 DEF WorstFall
<1>12. \A x \in falls : x \in Int
  <2>1. ASSUME NEW j \in 0 .. n, NEW i \in 0 .. j PROVE Balance(i) - Balance(j) \in Int
    <3>1. i \in 0 .. Len(results) /\ j \in 0 .. Len(results)
      BY <1>1 DEF n
    <3> QED BY <1>1, <3>1, BalanceSteps
  <2> QED BY <2>1
<1> HIDE DEF worst, falls
<1>13. Max(falls) = worst
  <2>1. \A x \in falls : (\A y \in falls : x >= y) => x = worst
    BY <1>11, <1>12
  <2>2. \A y \in falls : worst >= y
    BY <1>11, <1>12
  <2> QED BY <1>11, <2>1, <2>2 DEF Max
<1> QED BY <1>13 DEF DrawdownIsWorstFall, worst, falls, pnls, n

\* After k turns ComputePerformanceReport has the report of the first k bets.
WonUpTo(k) == {i \in 1 .. k : results[i].won}
StakedUpTo(k) == MapThenSumSet(LAMBDA i : results[i].stake, 1 .. k)
Counted(acc, k) ==
    acc = [total |-> k, won |-> Cardinality(WonUpTo(k)),
           lost |-> k - Cardinality(WonUpTo(k)),
           staked |-> StakedUpTo(k), profit |-> Balance(k)]

LEMMA StakedSteps ==
    ASSUME results \in Seq(Bet)
    PROVE  /\ StakedUpTo(0) = 0
           /\ \A k \in 1 .. Len(results) : StakedUpTo(k) = StakedUpTo(k - 1) + results[k].stake
           /\ \A k \in 0 .. Len(results) : StakedUpTo(k) \in Int
<1> DEFINE n == Len(results)
           stake == [i \in 1 .. n |-> results[i].stake]
<1>1. n \in Nat /\ \A i \in 1 .. n : results[i] \in Bet
  OBVIOUS
<1>2. \A i \in 1 .. n : stake[i] \in Int /\ stake[i] = results[i].stake
  BY <1>1 DEF Bet
<1> HIDE DEF n, stake
<1>3. ASSUME NEW k \in 0 .. n
      PROVE  IsFiniteSet(1 .. k) /\ IntOn(stake, 1 .. k) /\ StakedUpTo(k) = Total(stake, 1 .. k)
  <2>1. k \in Nat /\ \A i \in 1 .. k : i \in 1 .. n
    BY <1>1
  <2>2. IsFiniteSet(1 .. k)
    BY <2>1, FS_Interval
  <2> DEFINE S == 1 .. k
  <2>3. IntOn(stake, S) /\ \A i \in S : stake[i] = results[i].stake
    BY <1>2, <2>1 DEF IntOn
  <2>4. StakedUpTo(k) = MapThenSumSet(LAMBDA i : results[i].stake, S)
    BY DEF StakedUpTo
  <2> HIDE DEF S
  <2>5. IsFiniteSet(S)
    BY <2>2 DEF S
  <2>6. StakedUpTo(k) = Total(stake, S)
    BY <2>3, <2>4, <2>5, StakeSum
  <2> QED BY <2>3, <2>5, <2>6 DEF S
<1>4. ASSUME NEW k \in 0 .. n PROVE StakedUpTo(k) \in Int
  <2> DEFINE S == 1 .. k
  <2>1. IsFiniteSet(S) /\ IntOn(stake, S) /\ StakedUpTo(k) = Total(stake, S)
    BY <1>3
  <2> HIDE DEF S
  <2> QED BY <2>1, TotalStep
<1>5. ASSUME NEW k \in 1 .. n PROVE StakedUpTo(k) = StakedUpTo(k - 1) + results[k].stake
  <2> DEFINE S == 1 .. k
  <2>1. k \in 0 .. n /\ k - 1 \in 0 .. n /\ k \in S
    BY <1>1
  <2>2. IsFiniteSet(S) /\ IntOn(stake, S) /\ StakedUpTo(k) = Total(stake, S)
    BY <1>3, <2>1
  <2>3. S \ {k} = 1 .. (k - 1)
    BY <1>1, LastIndex
  <2>4. StakedUpTo(k - 1) = Total(stake, S \ {k})
    BY <1>3, <2>1, <2>3
  <2> HIDE DEF S
  <2>5. Total(stake, S) = stake[k] + Total(stake, S \ {k})
    BY <2>1, <2>2, TotalRemove
  <2>6. StakedUpTo(k - 1) \in Int /\ stake[k] \in Int /\ stake[k] = results[k].stake
    BY <1>2, <1>4, <2>1
  <2> QED BY <2>2, <2>4, <2>5, <2>6
<1>6. StakedUpTo(0) = 0
  <2> DEFINE S == 1 .. 0
  <2>1. IsFiniteSet(S) /\ IntOn(stake, S) /\ StakedUpTo(0) = Total(stake, S) /\ S = {}
    BY <1>1, <1>3
  <2> HIDE DEF S
  <2> QED BY <2>1, TotalStep
<1> QED BY <1>4, <1>5, <1>6 DEF n

LEMMA WonSteps ==
    ASSUME results \in Seq(Bet), NEW k \in 1 .. Len(results)
    PROVE  /\ Cardinality(WonUpTo(k - 1)) \in Nat
           /\ Cardinality(WonUpTo(k)) =
                Cardinality(WonUpTo(k - 1)) + (IF results[k].won THEN 1 ELSE 0)
<1>1. k \in Nat /\ k - 1 \in Nat
  OBVIOUS
<1> DEFINE before == WonUpTo(k - 1)
<1>2. IsFiniteSet(before)
  <2>1. IsFiniteSet(1 .. (k - 1))
    BY <1>1, FS_Interval
  <2>2. before \subseteq 1 .. (k - 1)
    BY DEF WonUpTo
  <2> QED BY <2>1, <2>2, FS_Subset
<1>3. k \notin before
  BY <1>1 DEF WonUpTo
<1>4. WonUpTo(k) = IF results[k].won THEN before \union {k} ELSE before
  BY <1>1 DEF WonUpTo
<1> HIDE DEF before
<1>5. Cardinality(before \union {k}) = Cardinality(before) + 1 /\ Cardinality(before) \in Nat
  BY <1>2, <1>3, FS_AddElement, FS_CardinalityType
<1>6. CASE results[k].won
  BY <1>4, <1>5, <1>6 DEF before
<1>7. CASE ~results[k].won
  BY <1>4, <1>5, <1>7 DEF before
<1> QED BY <1>6, <1>7

LEMMA CountStep ==
    ASSUME results \in Seq(Bet), NEW k \in 1 .. Len(results), NEW acc, Counted(acc, k - 1)
    PROVE  Counted(GoReportStep(acc, results[k]), k)
<1> DEFINE c == Cardinality(WonUpTo(k - 1))
           w == IF results[k].won THEN 1 ELSE 0
<1>1. k \in Nat /\ c \in Nat /\ Cardinality(WonUpTo(k)) = c + w
  BY WonSteps
<1>2. /\ StakedUpTo(k) = StakedUpTo(k - 1) + results[k].stake
      /\ Balance(k) = Balance(k - 1) + results[k].pnl
  BY StakedSteps, BalanceSteps
<1>3. GoReportStep(acc, results[k]) =
        [total |-> (k - 1) + 1, won |-> c + w,
         lost |-> ((k - 1) - c) + (IF results[k].won THEN 0 ELSE 1),
         staked |-> StakedUpTo(k - 1) + results[k].stake,
         profit |-> Balance(k - 1) + results[k].pnl]
  BY DEF GoReportStep, Counted
<1> HIDE DEF c
<1>4. /\ (k - 1) + 1 = k
      /\ ((k - 1) - c) + (IF results[k].won THEN 0 ELSE 1) = k - (c + w)
  BY <1>1
<1> QED BY <1>1, <1>2, <1>3, <1>4 DEF Counted

LEMMA ReportPass == LedgerInv => ReportsAgree
<1> SUFFICES ASSUME LedgerInv PROVE GoReport(results) = Report(results)
  BY DEF ReportsAgree
<1> DEFINE n == Len(results)
           base == [total |-> 0, won |-> 0, lost |-> 0, staked |-> 0, profit |-> 0]
           next(f, s) == IF s = {} THEN base
                         ELSE GoReportStep(f[s \ {Max(s)}], results[Max(s)])
           f == CHOOSE h : h = [s \in SUBSET (1 .. n) |-> next(h, s)]
           B == [total : Int, won : Int, lost : Int, staked : Int, profit : Int]
           h == [p \in (1 .. n) \X B |-> GoReportStep(p[2], results[p[1]])]
<1>1. results \in Seq(Bet) /\ n \in Nat /\ DOMAIN results = 1 .. n
  BY DEF LedgerInv
<1>2. GoReport(results) = f[1 .. n]
  BY <1>1 DEF GoReport, FoldLeft, MapThenFoldSet
<1>3. \A i \in 1 .. n : results[i] \in Bet
  BY <1>1
<1> HIDE DEF n
<1>4. base \in B /\ StepsIn(h, 1 .. n, B)
  <2>1. ASSUME NEW x \in 1 .. n, NEW b \in B PROVE h[<<x, b>>] \in B
    <3>1. h[<<x, b>>] = GoReportStep(b, results[x])
      OBVIOUS
    <3> DEFINE r == results[x]
    <3>2. r.stake \in Int /\ r.pnl \in Int
      BY <1>3 DEF Bet
    <3> HIDE DEF r
    <3>3. GoReportStep(b, r) \in B
      BY <3>2 DEF GoReportStep
    <3> QED BY <3>1, <3>3 DEF r
  <2>2. base \in B
    OBVIOUS
  <2> HIDE DEF h, B, base
  <2> QED BY <2>1, <2>2 DEF StepsIn
<1>5. \E g : g = [s \in SUBSET (1 .. n) |-> next(g, s)]
  <2> HIDE DEF B, h, base
  <2>1. PICK g : /\ g = [s \in SUBSET (1 .. n) |->
                            IF s = {} THEN base ELSE h[<<Max(s), g[s \ {Max(s)}]>>]]
                 /\ \A s \in SUBSET (1 .. n) : g[s] \in B
                 /\ \A s \in SUBSET (1 .. n) : s # {} => Max(s) \in s
    BY <1>1, <1>4, LoopExists
  <2>2. ASSUME NEW s \in SUBSET (1 .. n)
        PROVE  next(g, s) = IF s = {} THEN base ELSE h[<<Max(s), g[s \ {Max(s)}]>>]
    <3>1. CASE s = {}
      BY <3>1
    <3>2. CASE s # {}
      <4>1. Max(s) \in 1 .. n /\ g[s \ {Max(s)}] \in B
        BY <2>1, <3>2
      <4> QED BY <3>2, <4>1 DEF h
    <3> QED BY <3>1, <3>2
  <2>3. g = [s \in SUBSET (1 .. n) |-> next(g, s)]
    <3> HIDE DEF next
    <3> QED BY <2>1, <2>2, Zenon
  <2> QED BY <2>3
<1>6. f = [s \in SUBSET (1 .. n) |-> next(f, s)]
  <2> HIDE DEF next
  <2> QED BY <1>5
<1> HIDE DEF f
<1>7. f[1 .. 0] = base
  <2>1. 1 .. 0 = {} /\ 1 .. 0 \in SUBSET (1 .. n)
    BY <1>1
  <2>2. next(f, 1 .. 0) = base
    BY <2>1
  <2> HIDE DEF next
  <2> QED BY <1>6, <2>1, <2>2
<1>8. ASSUME NEW k \in 1 .. n
      PROVE  f[1 .. k] = GoReportStep(f[1 .. (k - 1)], results[k])
  <2>1. /\ Max(1 .. k) = k /\ (1 .. k) \ {k} = 1 .. (k - 1)
        /\ 1 .. k # {} /\ 1 .. k \in SUBSET (1 .. n)
    BY <1>1, LastIndex
  <2>2. next(f, 1 .. k) = GoReportStep(f[1 .. (k - 1)], results[k])
    BY <2>1
  <2> HIDE DEF next
  <2> QED BY <1>1, <1>6, <2>1, <2>2
<1>9. \A k \in 0 .. n : Counted(f[1 .. k], k)
  <2> DEFINE Good == {k \in 0 .. n : Counted(f[1 .. k], k)}
  <2>1. 0 \in Good
    <3>1. Balance(0) = 0 /\ StakedUpTo(0) = 0 /\ 0 \in 0 .. n
      BY <1>1, BalanceSteps, StakedSteps
    <3>2. WonUpTo(0) = {}
      BY DEF WonUpTo
    <3>3. Counted(base, 0)
      BY <3>1, <3>2, FS_EmptySet DEF Counted
    <3> QED BY <1>7, <3>1, <3>3
  <2>2. ASSUME NEW k \in 1 .. n, k - 1 \in Good PROVE k \in Good
    <3>1. Counted(f[1 .. (k - 1)], k - 1)
      BY <2>2
    <3>2. k \in 1 .. Len(results) /\ k \in 0 .. n
      BY <1>1 DEF n
    <3>3. Counted(GoReportStep(f[1 .. (k - 1)], results[k]), k)
      BY <1>1, <3>1, <3>2, CountStep
    <3> QED BY <1>8, <3>2, <3>3
  <2> HIDE DEF Good
  <2>3. \A k \in 0 .. n : k \in Good
    BY <1>1, <2>1, <2>2, CountInduction
  <2> QED BY <2>3 DEF Good
<1>10. Counted(f[1 .. n], n)
  BY <1>1, <1>9
<1>11. Report(results) =
        [total |-> n, won |-> Cardinality(WonUpTo(n)), lost |-> n - Cardinality(WonUpTo(n)),
         staked |-> StakedUpTo(n), profit |-> Balance(n)]
  <2>1. StakedUpTo(n) = MapThenSumSet(LAMBDA i : results[i].stake, DOMAIN results)
    BY <1>1 DEF StakedUpTo
  <2>2. Balance(n) = MapThenSumSet(LAMBDA i : results[i].pnl, DOMAIN results)
    BY <1>1 DEF Balance
  <2>3. WonUpTo(n) = {i \in DOMAIN results : results[i].won} /\ Len(results) = n
    BY <1>1 DEF WonUpTo, n
  <2> QED BY <2>1, <2>2, <2>3 DEF Report
<1> QED BY <1>2, <1>10, <1>11 DEF Counted

-----------------------------------------------------------------------------
(* The calibration metrics *)

Index == DOMAIN results
Prob == [i \in Index |-> results[i].prob]
Hit == [i \in Index |-> IF results[i].won THEN P ELSE 0]
Miss == [i \in Index |-> Prob[i] - Hit[i]]
BinOf == [i \in Index |-> Bin(results[i].prob)]

\* A bin holds the probabilities between its edges, the last one that of one too.
LEMMA BinFacts ==
    ASSUME NEW p \in 0 .. P
    PROVE  /\ Bin(p) \in 0 .. NBins - 1
           /\ Bin(p) * P <= p * NBins
           /\ Bin(p) < NBins - 1 => p * NBins < (Bin(p) + 1) * P
<1>1. P \in Nat \ {0} /\ NBins \in Nat \ {0} /\ p \in Nat /\ p <= P
  BY LedgerConstants
<1>2. CASE p >= P
  <2>1. p = P /\ Bin(p) = NBins - 1
    BY <1>1, <1>2 DEF Bin
  <2>2. (NBins - 1) * P = P * NBins - P
    BY <1>1
  <2>3. P * NBins \in Int
    BY <1>1
  <2> QED BY <1>1, <2>1, <2>2, <2>3
<1>3. CASE ~(p >= P)
  <2> DEFINE a == p * NBins
             q == a \div P
             r == a % P
  <2>1. a \in Nat
    BY <1>1
  <2>2. Bin(p) = q
    BY <1>3 DEF Bin
  <2>3. a < P * NBins
    <3>1. (P - p) * NBins >= 1 /\ (P - p) * NBins = P * NBins - a
      BY <1>1, <1>3
    <3>2. P * NBins \in Int
      BY <1>1
    <3> HIDE DEF a
    <3> QED BY <2>1, <3>1, <3>2
  <2> HIDE DEF a
  <2>4. q \in Int /\ r \in 0 .. P - 1 /\ a = P * q + r
    BY <1>1, <2>1, Division
  <2> HIDE DEF q, r
  <2>5. q >= 0
    <3>1. SUFFICES ASSUME q <= -1 PROVE FALSE
      BY <2>4
    <3>2. P * q <= -P
      BY <1>1, <2>4, <3>1
    <3>3. P * q \in Int
      BY <1>1, <2>4
    <3> QED BY <1>1, <2>1, <2>4, <3>2, <3>3
  <2>6. q <= NBins - 1
    <3>1. SUFFICES ASSUME q >= NBins PROVE FALSE
      BY <1>1, <2>4
    <3>2. P * q >= P * NBins
      BY <1>1, <2>4, <3>1
    <3>3. P * q \in Int /\ P * NBins \in Int
      BY <1>1, <2>4
    <3> QED BY <1>1, <2>1, <2>3, <2>4, <3>2, <3>3
  <2>7. q * P = P * q /\ (q + 1) * P = P * q + P /\ P * q \in Int
    BY <1>1, <2>4
  <2>8. q * P <= a /\ a < (q + 1) * P
    BY <1>1, <2>1, <2>4, <2>7
  <2> QED BY <1>1, <2>2, <2>4, <2>5, <2>6, <2>8 DEF a
<1> QED BY <1>2, <1>3

\* The bets of a ledger: their types, and their bins.
LEMMA MetricTypes ==
    ASSUME LedgerInv
    PROVE  /\ Len(results) \in Nat /\ Index = 1 .. Len(results)
           /\ IsFiniteSet(Index) /\ Cardinality(Index) = Len(results)
           /\ \A i \in Index : /\ results[i] \in Bet /\ Prob[i] = results[i].prob
                               /\ Hit[i] = IF results[i].won THEN P ELSE 0
                               /\ Miss[i] = Prob[i] - Hit[i]
                               /\ BinOf[i] \in Bins(results) /\ BinOf[i] = Bin(Prob[i])
           /\ IntOn(Prob, Index) /\ IntOn(Hit, Index) /\ IntOn(Miss, Index)
           /\ IsFiniteSet(Bins(results)) /\ Bins(results) \subseteq 0 .. NBins - 1
           /\ \A b : InBin(results, b) = Fiber(Index, BinOf, b)
<1>1. results \in Seq(Bet) /\ Len(results) \in Nat /\ Index = 1 .. Len(results)
  BY DEF LedgerInv, Index
<1>2. IsFiniteSet(Index) /\ Cardinality(Index) = Len(results)
  BY <1>1, FS_Interval
<1>3. ASSUME NEW i \in Index
      PROVE  /\ results[i] \in Bet /\ Prob[i] = results[i].prob
             /\ Hit[i] = IF results[i].won THEN P ELSE 0
             /\ Miss[i] = Prob[i] - Hit[i]
             /\ Prob[i] \in 0 .. P /\ Hit[i] \in Int /\ Miss[i] \in Int /\ P \in Nat
  <2>1. results[i] \in Bet
    BY <1>1
  <2>2. Prob[i] = results[i].prob /\ Hit[i] = (IF results[i].won THEN P ELSE 0)
    BY DEF Prob, Hit
  <2>3. Miss[i] = Prob[i] - Hit[i]
    BY DEF Miss
  <2>4. results[i].prob \in 0 .. P /\ P \in Nat
    BY <2>1, LedgerConstants DEF Bet
  <2>5. Hit[i] \in Int /\ Prob[i] \in Int
    BY <2>2, <2>4
  <2> QED BY <2>1, <2>2, <2>3, <2>4, <2>5
<1>4. ASSUME NEW i \in Index
      PROVE  /\ BinOf[i] \in Bins(results) /\ BinOf[i] = Bin(Prob[i])
             /\ Bin(results[i].prob) \in 0 .. NBins - 1
  BY <1>3, BinFacts DEF BinOf, Bins, Index
<1>5. IntOn(Prob, Index) /\ IntOn(Hit, Index) /\ IntOn(Miss, Index)
  BY <1>3 DEF IntOn
<1>6. Bins(results) \subseteq 0 .. NBins - 1
  BY <1>4 DEF Bins, Index
<1>7. IsFiniteSet(Bins(results))
  <2>1. IsFiniteSet(0 .. NBins - 1)
    <3>1. 0 \in Int /\ NBins - 1 \in Int
      BY LedgerConstants
    <3> QED BY <3>1, FS_Interval
  <2> QED BY <1>6, <2>1, FS_Subset
<1>8. \A b : InBin(results, b) = Fiber(Index, BinOf, b)
  BY DEF InBin, Fiber, BinOf, Index
<1> QED BY <1>1, <1>2, <1>3, <1>4, <1>5, <1>6, <1>7, <1>8

\* The hits of some bets are as many times one as there are bets that were won.
LEMMA HitsCount ==
    ASSUME LedgerInv, NEW S \in SUBSET Index
    PROVE  Total(Hit, S) = P * Cardinality({i \in S : results[i].won})
<1> DEFINE W == {i \in S : results[i].won}
           L == S \ W
<1>1. P \in Nat /\ IsFiniteSet(W) /\ IsFiniteSet(L) /\ S = W \union L /\ W \intersect L = {}
  BY MetricTypes, LedgerConstants, FS_Subset
<1>2. /\ IntOn(Hit, W \union L)
      /\ \A i \in W : Hit[i] = P
      /\ \A i \in L : Hit[i] = 0
  BY MetricTypes DEF IntOn
<1> HIDE DEF W, L
<1>3. Total(Hit, S) = Total(Hit, W) + Total(Hit, L)
  BY <1>1, <1>2, TotalUnion
<1>4. Total(Hit, W) = Cardinality(W) * P
  BY <1>1, <1>2, TotalConstant
<1>5. Total(Hit, L) = Cardinality(L) * 0
  <2>1. 0 \in Int
    OBVIOUS
  <2> QED BY <1>1, <1>2, <2>1, TotalConstant
<1>6. Cardinality(W) \in Nat /\ Cardinality(L) \in Nat
  BY <1>1, FS_CardinalityType
<1>7. Cardinality(W) * P + Cardinality(L) * 0 = P * Cardinality(W)
  BY <1>1, <1>6
<1> QED BY <1>3, <1>4, <1>5, <1>7 DEF W

\* A point of the curve: how many bets it has, what they add up to, and that
\* their mean probability lies between the edges of its bin.
LEMMA BucketFacts ==
    ASSUME LedgerInv, NEW b \in Bins(results)
    PROVE  LET S == InBin(results, b)
               c == Bucket(results, b)
           IN  /\ IsFiniteSet(S) /\ S \subseteq Index /\ b \in 0 .. NBins - 1
               /\ c.count = Cardinality(S) /\ c.count \in Nat /\ c.sum \in Int
               /\ c.sum - P * c.won = Total(Miss, S)
               /\ b * P * c.count <= c.sum * NBins
               /\ b < NBins - 1 => c.sum * NBins < (b + 1) * P * c.count
<1> DEFINE S == InBin(results, b)
           n == Cardinality(S)
           sum == Total(Prob, S)
           scaled == [i \in S |-> NBins * Prob[i]]
           low == [i \in S |-> b * P]
           high == [i \in S |-> (b + 1) * P - 1]
<1>1. /\ P \in Nat \ {0} /\ NBins \in Nat \ {0} /\ b \in 0 .. NBins - 1
      /\ S \subseteq Index /\ IsFiniteSet(S) /\ IntOn(Prob, S) /\ IntOn(Hit, S) /\ IntOn(Miss, S)
      /\ n \in Nat /\ sum \in Int
  <2>1. /\ P \in Nat \ {0} /\ NBins \in Nat \ {0} /\ b \in 0 .. NBins - 1
        /\ S \subseteq Index /\ IsFiniteSet(Index)
    BY MetricTypes, LedgerConstants DEF InBin, Index
  <2>2. IsFiniteSet(S) /\ IntOn(Prob, S) /\ IntOn(Hit, S) /\ IntOn(Miss, S)
    BY <2>1, MetricTypes, FS_Subset DEF IntOn
  <2> HIDE DEF S
  <2> QED BY <2>1, <2>2, TotalStep, FS_CardinalityType
<1>2. S # {}
  BY DEF Bins, InBin
<1>3. n >= 1
  <2> HIDE DEF S
  <2>1. n # 0
    BY <1>1, <1>2, FS_EmptySet
  <2> QED BY <1>1, <2>1
<1>4. ASSUME NEW i \in S
      PROVE  /\ Prob[i] \in Nat /\ scaled[i] = NBins * Prob[i] /\ scaled[i] \in Int
             /\ b * P <= scaled[i]
             /\ b < NBins - 1 => scaled[i] <= (b + 1) * P - 1
  <2>1. Prob[i] \in 0 .. P /\ Bin(Prob[i]) = b
    BY <1>1, MetricTypes DEF InBin, Bet
  <2>2. b * P <= Prob[i] * NBins /\ (b < NBins - 1 => Prob[i] * NBins < (b + 1) * P)
    BY <2>1, BinFacts
  <2>3. /\ Prob[i] \in Nat /\ Prob[i] * NBins = NBins * Prob[i] /\ NBins * Prob[i] \in Int
        /\ b * P \in Int /\ (b + 1) * P \in Int
    BY <1>1, <2>1
  <2>4. scaled[i] = NBins * Prob[i]
    OBVIOUS
  <2> HIDE DEF scaled, S
  <2> QED BY <2>2, <2>3, <2>4
<1>5. /\ IntOn(scaled, S) /\ IntOn(low, S) /\ IntOn(high, S)
      /\ b * P \in Int /\ (b + 1) * P - 1 \in Int
      /\ \A i \in S : low[i] = b * P /\ high[i] = (b + 1) * P - 1
  BY <1>1, <1>4 DEF IntOn
<1> DEFINE edge == b * P
           next == (b + 1) * P - 1
<1>6. /\ \A i \in S : scaled[i] = NBins * Prob[i] /\ low[i] <= scaled[i]
      /\ b < NBins - 1 => \A i \in S : scaled[i] <= high[i]
      /\ \A i \in S : low[i] = edge /\ high[i] = next
      /\ edge \in Int /\ next \in Int
  BY <1>4, <1>5
<1> HIDE DEF S, scaled, low, high, edge, next
<1>7. Total(scaled, S) = NBins * sum
  BY <1>1, <1>6, TotalTimes
<1>8. Total(low, S) = n * edge /\ Total(high, S) = n * next
  BY <1>1, <1>6, TotalConstant
<1>9. /\ n * edge <= NBins * sum
      /\ b < NBins - 1 => NBins * sum <= n * next
  BY <1>1, <1>5, <1>6, <1>7, <1>8, TotalCompare
<1>10. /\ b * P * n <= sum * NBins
       /\ b < NBins - 1 => sum * NBins < (b + 1) * P * n
  <2>1. n * edge = b * P * n
    BY <1>1 DEF edge
  <2>2. n * next = (b + 1) * P * n - n
    BY <1>1 DEF next
  <2>3. NBins * sum = sum * NBins /\ sum * NBins \in Int
    BY <1>1
  <2>4. b * P * n \in Int /\ (b + 1) * P * n \in Int
    BY <1>1
  <2> QED BY <1>1, <1>3, <1>9, <2>1, <2>2, <2>3, <2>4
<1>11. /\ Bucket(results, b).count = n
       /\ Bucket(results, b).sum = SumFunction([i \in S |-> results[i].prob])
       /\ Bucket(results, b).won = Cardinality({i \in S : results[i].won})
  BY DEF Bucket, S
<1>12. SumFunction([i \in S |-> results[i].prob]) = sum
  <2> DEFINE F == [i \in S |-> results[i].prob]
  <2>1. SumFunction(F) = Total(F, S)
    <3>1. DOMAIN F = S
      OBVIOUS
    <3> HIDE DEF F
    <3> QED BY <3>1, SumIsTotal
  <2>2. IntOn(F, S) /\ \A i \in S : F[i] = Prob[i]
    BY <1>1, MetricTypes DEF IntOn
  <2> HIDE DEF F
  <2>3. Total(F, S) = Total(Prob, S)
    BY <1>1, <2>2, TotalCompare
  <2> QED BY <2>1, <2>3 DEF F
<1>13. Total(Prob, S) = Total(Miss, S) + Total(Hit, S)
  <2>1. \A i \in S : Prob[i] = Miss[i] + Hit[i]
    <3> SUFFICES ASSUME NEW i \in S PROVE Prob[i] = Miss[i] + Hit[i]
      OBVIOUS
    <3>1. Miss[i] = Prob[i] - Hit[i] /\ Prob[i] \in Int /\ Hit[i] \in Int
      BY <1>1, MetricTypes DEF IntOn
    <3> QED BY <3>1
  <2> QED BY <1>1, <2>1, TotalPlus
<1>14. Total(Miss, S) \in Int /\ Total(Hit, S) = P * Cardinality({i \in S : results[i].won})
  BY <1>1, TotalStep, HitsCount
<1>15. Total(Hit, S) \in Int
  BY <1>1, TotalStep
<1> QED BY <1>1, <1>10, <1>11, <1>12, <1>13, <1>14, <1>15 DEF S

\* The curve lists the bins in ascending order, each once.
LEMMA CurveFacts ==
    ASSUME LedgerInv
    PROVE  \E bins : /\ bins \in Bijection(1 .. Cardinality(Bins(results)), Bins(results))
                     /\ Ascending(bins)
                     /\ CalibrationCurve(results) =
                          [i \in DOMAIN bins |-> Bucket(results, bins[i])]
<1> DEFINE B == Bins(results)
           Lists == Bijection(1 .. Cardinality(B), B)
           bins == CHOOSE list \in Lists : Ascending(list)
<1>1. IsFiniteSet(B) /\ B \subseteq Int
  BY MetricTypes
<1>2. CalibrationCurve(results) = [i \in DOMAIN bins |-> Bucket(results, bins[i])]
  BY DEF CalibrationCurve, Ascending
<1>3. \E list \in Lists : Ascending(list)
  <2> HIDE DEF B
  <2> QED BY <1>1, AscendingExists
<1>4. bins \in Lists /\ Ascending(bins)
  <2> HIDE DEF Lists
  <2> QED BY <1>3
<1> HIDE DEF bins
<1> QED BY <1>2, <1>4

\* A sum over the points of the curve is one over the bins.
LEMMA CurveTotal ==
    ASSUME NEW K, IsFiniteSet(K), NEW n \in Nat, NEW bins \in Bijection(1 .. n, K),
           NEW F, IntOn(F, K), NEW G, \A i \in 1 .. n : G[i] = F[bins[i]]
    PROVE  Total(G, 1 .. n) = Total(F, K)
<1> DEFINE D == 1 .. n
<1>1. /\ bins \in [D -> K] /\ \A i, j \in D : bins[i] = bins[j] => i = j
      /\ \A k \in K : \E i \in D : bins[i] = k
  BY DEF Bijection, Injection, Surjection, IsInjective
<1>2. {bins[i] : i \in D} = K
  BY <1>1
<1>3. IsFiniteSet(D)
  BY FS_Interval
<1>4. \A i \in D : G[i] = F[bins[i]] /\ G[i] \in Int
  BY <1>1 DEF IntOn
<1> HIDE DEF D
<1>5. Total(F, {bins[i] : i \in D}) = Total(G, D)
  <2>1. IntOn(G, D)
    BY <1>4 DEF IntOn
  <2> QED BY <1>1, <1>3, <1>4, <2>1, TotalImage
<1> QED BY <1>2, <1>5 DEF D

Counts == [b \in Bins(results) |-> Bucket(results, b).count]
Errors == [b \in Bins(results) |-> Bucket(results, b).sum - P * Bucket(results, b).won]
Sizes == [b \in Bins(results) |-> Abs(Errors[b])]

\* The calibration error has the bins of the curve.
LEMMA SameBins ==
    /\ ErrorBins(results) = Bins(results)
    /\ \A b \in Bins(results) :
          BinError(results, b) = Abs(Bucket(results, b).sum - P * Bucket(results, b).won)
<1>1. \A p : ErrorBin(p) = Bin(p)
  BY DEF ErrorBin, Bin
<1>2. \A b : InBin(results, b) = {i \in DOMAIN results : ErrorBin(results[i].prob) = b}
  BY <1>1 DEF InBin
<1>3. ErrorBins(results) = Bins(results)
  BY <1>1 DEF ErrorBins, Bins
<1>4. ASSUME NEW b \in Bins(results)
      PROVE  BinError(results, b) = Abs(Bucket(results, b).sum - P * Bucket(results, b).won)
  <2>1. /\ Bucket(results, b).sum = SumFunction([i \in InBin(results, b) |-> results[i].prob])
        /\ Bucket(results, b).won = Cardinality({i \in InBin(results, b) : results[i].won})
    BY DEF Bucket
  <2> QED BY <1>2, <2>1 DEF BinError
<1> QED BY <1>3, <1>4

\* What the points of the curve add up to, and the calibration error.
LEMMA CurveSums ==
    ASSUME LedgerInv
    PROVE  LET curve == CalibrationCurve(results)
           IN  /\ SumFunction([i \in DOMAIN curve |-> curve[i].count]) =
                    Total(Counts, Bins(results))
               /\ SumFunction([i \in DOMAIN curve |-> curve[i].sum - P * curve[i].won]) =
                    Total(Errors, Bins(results))
               /\ SumFunction([i \in DOMAIN curve |->
                                  Abs([k \in DOMAIN curve |->
                                         curve[k].sum - P * curve[k].won][i])]) =
                    Total(Sizes, Bins(results))
               /\ CalibrationError(results) = Total(Sizes, Bins(results))
               /\ IntOn(Counts, Bins(results)) /\ IntOn(Errors, Bins(results))
               /\ IntOn(Sizes, Bins(results))
<1> DEFINE curve == CalibrationCurve(results)
           B == Bins(results)
           n == Cardinality(B)
           F == [i \in DOMAIN curve |-> curve[i].count]
           G == [i \in DOMAIN curve |-> curve[i].sum - P * curve[i].won]
           H == [i \in DOMAIN curve |-> Abs(G[i])]
<1>1. PICK bins : /\ bins \in Bijection(1 .. n, B)
                  /\ curve = [i \in DOMAIN bins |-> Bucket(results, bins[i])]
  BY CurveFacts
<1>2. DOMAIN bins = 1 .. n /\ \A i \in 1 .. n : bins[i] \in B
  BY <1>1 DEF Bijection, Injection
<1>3. IsFiniteSet(B) /\ n \in Nat
  BY MetricTypes, FS_CardinalityType
<1>4. IntOn(Counts, B) /\ IntOn(Errors, B) /\ IntOn(Sizes, B)
  <2>1. ASSUME NEW b \in B
        PROVE  Counts[b] \in Int /\ Errors[b] \in Int /\ Sizes[b] \in Int
    <3>1. IsFiniteSet(InBin(results, b)) /\ InBin(results, b) \subseteq Index
          /\ Bucket(results, b).count \in Int
          /\ Bucket(results, b).sum - P * Bucket(results, b).won
               = Total(Miss, InBin(results, b))
      BY BucketFacts
    <3>2. IntOn(Miss, InBin(results, b))
      BY <3>1, MetricTypes DEF IntOn
    <3>3. Total(Miss, InBin(results, b)) \in Int
      BY <3>1, <3>2, TotalStep
    <3>4. Counts[b] \in Int /\ Errors[b] \in Int
      BY <3>1, <3>3 DEF Counts, Errors
    <3>5. Sizes[b] = Abs(Errors[b])
      BY DEF Sizes
    <3> QED BY <3>4, <3>5 DEF Abs
  <2> QED BY <2>1 DEF IntOn
<1>5. /\ DOMAIN F = 1 .. n /\ \A i \in 1 .. n : F[i] = Counts[bins[i]]
      /\ DOMAIN G = 1 .. n /\ \A i \in 1 .. n : G[i] = Errors[bins[i]]
  BY <1>1, <1>2 DEF Counts, Errors
<1>6. DOMAIN H = 1 .. n /\ \A i \in 1 .. n : H[i] = Sizes[bins[i]]
  <2>1. DOMAIN H = 1 .. n /\ \A i \in 1 .. n : H[i] = Abs(G[i])
    BY <1>1, <1>2
  <2> HIDE DEF G, H
  <2> QED BY <1>2, <1>5, <2>1 DEF Sizes
<1> HIDE DEF F, G, H, B, n
<1>7. /\ SumFunction(F) = Total(F, 1 .. n) /\ SumFunction(G) = Total(G, 1 .. n)
      /\ SumFunction(H) = Total(H, 1 .. n)
  BY <1>5, <1>6, SumIsTotal
<1>8. /\ Total(F, 1 .. n) = Total(Counts, B) /\ Total(G, 1 .. n) = Total(Errors, B)
      /\ Total(H, 1 .. n) = Total(Sizes, B)
  BY <1>1, <1>3, <1>4, <1>5, <1>6, CurveTotal
<1>9. CalibrationError(results) = Total(Sizes, B)
  <2>1. CalibrationError(results) = SumFunction(Sizes)
    BY SameBins DEF CalibrationError, Sizes, Errors
  <2>2. DOMAIN Sizes = B
    BY DEF Sizes, B
  <2> QED BY <2>1, <2>2, SumIsTotal
<1> QED BY <1>4, <1>7, <1>8, <1>9 DEF F, G, H, B

\* Every bet is in one bin.
LEMMA CurveCounts ==
    ASSUME LedgerInv PROVE Total(Counts, Bins(results)) = Len(results)
<1> DEFINE one == [i \in Index |-> 1]
           B == Bins(results)
<1>1. /\ IsFiniteSet(Index) /\ Cardinality(Index) = Len(results) /\ Len(results) \in Nat
      /\ IsFiniteSet(B) /\ \A i \in Index : BinOf[i] \in B
  BY MetricTypes
<1>2. IntOn(one, Index) /\ \A i \in Index : one[i] = 1
  BY DEF IntOn
<1> HIDE DEF one
<1>3. ASSUME NEW b \in B PROVE Counts[b] = Total(one, Fiber(Index, BinOf, b))
  <2> DEFINE S == Fiber(Index, BinOf, b)
  <2>1. IsFiniteSet(S) /\ S \subseteq Index /\ Counts[b] = Cardinality(S)
    <3>1. S = InBin(results, b)
      BY MetricTypes
    <3>2. Counts[b] = Bucket(results, b).count
      BY DEF Counts
    <3> QED BY <3>1, <3>2, BucketFacts
  <2>2. 1 \in Int /\ \A i \in S : one[i] = 1
    BY <1>2, <2>1
  <2> HIDE DEF S
  <2>3. Total(one, S) = Cardinality(S) * 1
    BY <2>1, <2>2, TotalConstant
  <2>4. Cardinality(S) \in Nat
    BY <2>1, FS_CardinalityType
  <2> QED BY <2>1, <2>3, <2>4 DEF S
<1> HIDE DEF B
<1>4. Total(Counts, B) = Total(one, Index)
  BY <1>1, <1>2, <1>3, TotalFibers
<1>5. Total(one, Index) = Cardinality(Index) * 1
  <2>1. 1 \in Int
    OBVIOUS
  <2> QED BY <1>1, <1>2, <2>1, TotalConstant
<1> QED BY <1>1, <1>4, <1>5 DEF B

\* Between two points of the curve lies the edge of a bin.
LEMMA CurveOrdered ==
    ASSUME LedgerInv
    PROVE  LET curve == CalibrationCurve(results)
           IN  \A i, j \in DOMAIN curve : i < j =>
                 \E edge \in 1 .. NBins - 1 :
                   /\ curve[i].sum * NBins < edge * P * curve[i].count
                   /\ curve[j].sum * NBins >= edge * P * curve[j].count
<1> DEFINE curve == CalibrationCurve(results)
           B == Bins(results)
<1>1. PICK bins : /\ bins \in Bijection(1 .. Cardinality(B), B) /\ Ascending(bins)
                  /\ curve = [i \in DOMAIN bins |-> Bucket(results, bins[i])]
  BY CurveFacts
<1>2. \A i \in DOMAIN bins : bins[i] \in B
  BY <1>1 DEF Bijection, Injection
<1>3. P \in Nat /\ NBins \in Nat \ {0}
  BY LedgerConstants
<1> SUFFICES ASSUME NEW i \in DOMAIN curve, NEW j \in DOMAIN curve, i < j
             PROVE  \E edge \in 1 .. NBins - 1 :
                      /\ curve[i].sum * NBins < edge * P * curve[i].count
                      /\ curve[j].sum * NBins >= edge * P * curve[j].count
  OBVIOUS
<1> DEFINE a == bins[i]
           b == bins[j]
           c == Bucket(results, a)
           d == Bucket(results, b)
<1>4. curve[i] = c /\ curve[j] = d /\ a \in B /\ b \in B /\ a < b
  BY <1>1, <1>2 DEF Ascending
<1> HIDE DEF a, b, curve
<1>5. /\ a \in 0 .. NBins - 1 /\ b \in 0 .. NBins - 1
      /\ c.count \in Nat /\ c.sum \in Int /\ d.count \in Nat /\ d.sum \in Int
      /\ a < NBins - 1 => c.sum * NBins < (a + 1) * P * c.count
      /\ b * P * d.count <= d.sum * NBins
  BY <1>4, BucketFacts
<1> HIDE DEF c, d
<1> DEFINE edge == b
<1>6. a < NBins - 1 /\ a + 1 <= b /\ b \in 1 .. NBins - 1 /\ b \in Nat
  BY <1>3, <1>4, <1>5
<1>7. (a + 1) * P * c.count <= b * P * c.count
  <2> DEFINE e == b - (a + 1)
             k == P * c.count
  <2>1. k \in Nat /\ e \in Nat /\ b = a + 1 + e
    BY <1>3, <1>5, <1>6
  <2>2. b * P * c.count = b * k /\ (a + 1) * P * c.count = (a + 1) * k
    BY <1>3, <1>5, <1>6
  <2> HIDE DEF e, k
  <2>3. b * k = (a + 1) * k + e * k /\ e * k >= 0 /\ (a + 1) * k \in Int /\ e * k \in Int
    BY <1>5, <2>1
  <2> QED BY <2>2, <2>3
<1>8. /\ c.sum * NBins \in Int /\ (a + 1) * P * c.count \in Int /\ b * P * c.count \in Int
      /\ d.sum * NBins \in Int /\ b * P * d.count \in Int
  BY <1>3, <1>5, <1>6
<1>9. c.sum * NBins < b * P * c.count /\ d.sum * NBins >= b * P * d.count
  BY <1>5, <1>6, <1>7, <1>8
<1> QED BY <1>4, <1>6, <1>9

Distance == [i \in Index |-> Abs(Miss[i])]
Square == [i \in Index |-> Miss[i] * Miss[i]]

\* The calibration error lies between the distance of the means and that of the
\* single predictions, whose square is no more than the Brier score.
LEMMA ErrorBounds ==
    ASSUME LedgerInv
    PROVE  LET ece == CalibrationError(results)
           IN  /\ ece >= Abs(Total(Errors, Bins(results)))
               /\ ece * ece <= Len(results) * Brier(results)
<1> DEFINE B == Bins(results)
           part == [b \in B |-> Total(Distance, Fiber(Index, BinOf, b))]
           n == Len(results)
           ece == CalibrationError(results)
           all == Total(Distance, Index)
<1>1. /\ IsFiniteSet(Index) /\ Cardinality(Index) = n /\ n \in Nat
      /\ IsFiniteSet(B) /\ IntOn(Miss, Index) /\ \A i \in Index : BinOf[i] \in B
  BY MetricTypes
<1>2. ece = Total(Sizes, B) /\ IntOn(Errors, B) /\ IntOn(Sizes, B)
  BY CurveSums
<1>3. ASSUME NEW i \in Index
      PROVE  /\ Miss[i] \in Int /\ Distance[i] \in Nat /\ Square[i] \in Int
             /\ Miss[i] <= Distance[i] /\ -Miss[i] <= Distance[i]
             /\ Square[i] = Miss[i] * Miss[i] /\ Square[i] = Distance[i] * Distance[i]
  <2> DEFINE x == Miss[i]
  <2>1. x \in Int
    BY <1>1 DEF IntOn
  <2>2. Distance[i] = Abs(x) /\ Square[i] = x * x
    BY DEF Distance, Square
  <2> HIDE DEF x
  <2>3. (-x) * (-x) = x * x /\ x * x \in Int
    BY <2>1
  <2> QED BY <2>1, <2>2, <2>3 DEF Abs, x
<1>4. IntOn(Distance, Index) /\ IntOn(Square, Index)
  BY <1>3 DEF IntOn
<1>5. ASSUME NEW b \in B
      PROVE  /\ Errors[b] \in Int /\ Sizes[b] \in Nat
             /\ Errors[b] <= Sizes[b] /\ -Errors[b] <= Sizes[b]
             /\ part[b] \in Int /\ Sizes[b] <= part[b]
  <2> DEFINE S == InBin(results, b)
  <2>1. /\ IsFiniteSet(S) /\ S \subseteq Index /\ S = Fiber(Index, BinOf, b)
        /\ Errors[b] = Total(Miss, S)
    BY BucketFacts, MetricTypes DEF Errors
  <2>2. Sizes[b] = Abs(Errors[b]) /\ part[b] = Total(Distance, S)
    BY <2>1 DEF Sizes
  <2>3. IntOn(Miss, S) /\ IntOn(Distance, S)
    BY <2>1, <1>1, <1>4 DEF IntOn
  <2>4. \A i \in S : Miss[i] <= Distance[i] /\ -Miss[i] <= Distance[i]
    BY <2>1, <1>3
  <2> HIDE DEF S, part
  <2>5. /\ Total(Miss, S) \in Int /\ Total(Distance, S) \in Int
        /\ Total(Miss, S) <= Total(Distance, S) /\ -Total(Miss, S) <= Total(Distance, S)
    BY <2>1, <2>3, <2>4, TotalTriangle
  <2> QED BY <2>1, <2>2, <2>5 DEF Abs
<1>6. IntOn(part, B) /\ \A b \in B : part[b] = Total(Distance, Fiber(Index, BinOf, b))
  BY <1>5 DEF IntOn
<1> HIDE DEF B, part, ece, n
<1>7. ece >= Abs(Total(Errors, B)) /\ ece \in Nat
  <2>1. /\ Total(Errors, B) \in Int /\ Total(Sizes, B) \in Int
        /\ Total(Errors, B) <= Total(Sizes, B) /\ -Total(Errors, B) <= Total(Sizes, B)
    BY <1>1, <1>2, <1>5, TotalTriangle
  <2> QED BY <1>2, <2>1 DEF Abs
<1>8. ece <= all /\ all \in Int
  <2>1. Total(Sizes, B) <= Total(part, B)
    BY <1>1, <1>2, <1>5, <1>6, TotalCompare
  <2>2. Total(part, B) = all
    BY <1>1, <1>4, <1>6, TotalFibers
  <2>3. all \in Int
    BY <1>1, <1>4, TotalStep
  <2> QED BY <1>2, <2>1, <2>2, <2>3
<1> HIDE DEF all
<1>9. ece * ece <= all * all
  <2> DEFINE e == all - ece
  <2>1. e \in Nat /\ all = ece + e
    BY <1>7, <1>8
  <2> HIDE DEF e
  <2>2. (ece + e) * (ece + e) = ece * ece + 2 * (ece * e) + e * e
    BY <1>7, <2>1
  <2>3. ece * ece \in Nat /\ ece * e \in Nat /\ e * e \in Nat
    BY <1>7, <2>1
  <2> QED BY <2>1, <2>2, <2>3
<1>10. all * all <= n * Total(Square, Index)
  <2>1. \A i \in Index : Square[i] = Distance[i] * Distance[i]
    BY <1>3
  <2> QED BY <1>1, <1>4, <2>1, TotalSquare DEF all
<1>11. Brier(results) = Total(Square, Index)
  <2>1. ASSUME NEW i \in Index
        PROVE  Square[i] = (results[i].prob - (IF results[i].won THEN P ELSE 0))
                           * (results[i].prob - (IF results[i].won THEN P ELSE 0))
    <3>1. Miss[i] = results[i].prob - (IF results[i].won THEN P ELSE 0)
      BY MetricTypes
    <3> QED BY <1>3, <3>1
  <2>2. Brier(results) = SumFunction(Square)
    <3>1. Square = [i \in Index |-> (results[i].prob - (IF results[i].won THEN P ELSE 0))
                                    * (results[i].prob - (IF results[i].won THEN P ELSE 0))]
      BY <2>1 DEF Square
    <3> QED BY <3>1 DEF Brier, Index
  <2>3. DOMAIN Square = Index
    BY DEF Square
  <2> QED BY <2>2, <2>3, SumIsTotal
<1>12. ece * ece \in Int /\ all * all \in Int /\ n * Total(Square, Index) \in Int
  <2>1. Total(Square, Index) \in Int
    BY <1>1, <1>4, TotalStep
  <2> QED BY <1>1, <1>7, <1>8, <2>1
<1>13. ece * ece <= n * Brier(results)
  BY <1>9, <1>10, <1>11, <1>12
<1> QED BY <1>7, <1>13 DEF B, ece, n

LEMMA MetricsFit == LedgerInv => MetricsAgree
<1> SUFFICES ASSUME LedgerInv PROVE MetricsAgree
  OBVIOUS
<1> QED BY CurveSums, CurveCounts, CurveOrdered, ErrorBounds DEF MetricsAgree

-----------------------------------------------------------------------------
(* The theorems *)

\* However many sides of a game have value, and at whatever odds, the Kelly bets
\* on it stay within the chosen fraction of the bankroll (KellySizer.size).
THEOREM StakesCorrect == Spec => []StakesWithinBankroll
<1> QED BY LedgerInvariant, StakesBounded, PTL

\* The one pass of _max_drawdown finds the worst fall of the balance from any
\* earlier one.
THEOREM DrawdownCorrect == Spec => []DrawdownIsWorstFall
<1> QED BY LedgerInvariant, DrawdownPass, PTL

\* The one pass of Go's ComputePerformanceReport says of every ledger what the
\* passes of Python's compute_performance_report say.
THEOREM GoReportCorrect == Spec => []ReportsAgree
<1> QED BY LedgerInvariant, ReportPass, PTL

\* Brier score, calibration error and calibration curve, each a pass of its own over
\* the predictions, fit together for any number of bins (calibration/metrics.py,
\* curve.py).
THEOREM MetricsCorrect == Spec => []MetricsAgree
<1> QED BY LedgerInvariant, MetricsFit, PTL

\* No game is a sure loss under the Kelly stakes, nor under flat ones if the
\* detector asks for an edge (min_edge, 0.02 unless set).
THEOREM NoSureLossCorrect ==
    Spec => [](sizer = "kelly" \/ MinEdge > 0 => NoSureLoss)
<1>1. LedgerInv => (sizer = "kelly" \/ MinEdge > 0 => NoSureLoss)
  BY SomeResultPays
<1> QED BY <1>1, LedgerInvariant, PTL
=============================================================================
