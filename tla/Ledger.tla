------------------------------- MODULE Ledger -------------------------------
(***************************************************************************)
(* The money side of a backtest: BacktestPipeline.run takes the estimates  *)
(* that `predictions` yields (module WalkForward), lets the detector find  *)
(* the value bets of each game, sizes them, settles them by the score, and *)
(* compute_performance_report reads the whole ledger once at the end.      *)
(*                                                                         *)
(* Numbers are exact: probabilities count in units of 1/P, decimal odds in *)
(* units of 1/Q, amounts in units small enough that no division leaves a   *)
(* remainder (LedgerConstants).  Closing lines are left out, and of the    *)
(* calibration metrics the logarithmic one.                                *)
(***************************************************************************)
EXTENDS Integers, Sequences, FiniteSets, FiniteSetsExt, SequencesExt

CONSTANTS P, Q,         \* units of probabilities and of odds
          Bankroll,     \* BacktestPipeline.bankroll
          KellyDiv,     \* KellySizer.fraction is 1 / KellyDiv
          MinEdge,      \* MinimumEdgeDetector.min_edge, in units of 1/(P*Q)
          MaxOdds,      \* MinimumEdgeDetector.max_odds
          Estimate,     \* probabilities of the sides, as models give them
          Price,        \* decimal odds that a line may have
          Score,        \* goals of a team
          NBins,        \* n_bins of the calibration metrics
          Unit,         \* FlatUnitSizer.unit
          Absent,       \* None: no draw in this sport, no odds for this side
          MaxGames      \* bound: games predicted

Side == {"home_win", "away_win", "draw"}

\* The units of money that the stake on odds o divides by.
Divisor(o) == P * (o - Q) * KellyDiv

ASSUME LedgerConstants ==
    /\ {P, Q, KellyDiv, NBins} \subseteq Nat \ {0} /\ MinEdge \in Int
    /\ {Bankroll, Unit, MaxOdds, MaxGames} \subseteq Nat /\ Unit % Q = 0
    /\ Price \subseteq Nat /\ Score \subseteq Nat /\ Absent \notin Int
    /\ Estimate \subseteq [Side -> 0 .. P \union {Absent}]
    /\ \A e \in Estimate :
          MapThenSumSet(LAMBDA s : e[s], {s \in Side : e[s] # Absent}) = P
    /\ \A o \in Price : o > Q =>
          Bankroll % Divisor(o) = 0 /\ (Bankroll \div Divisor(o)) % Q = 0

VARIABLES sizer,        \* "kelly" or "flat"
          results,      \* the BetResults of run, in order
          played        \* games predicted so far

vars == <<sizer, results, played>>

Larger(a, b) == IF a >= b THEN a ELSE b

\* expected_value, in units of 1/(P*Q): what a bet returns on average, less
\* its stake.
EdgeGross(prob, odds) == prob * odds
Edge(prob, odds) == prob * odds - P * Q

\* full_kelly, max(0, edge / (odds - 1)), times fraction and bankroll: what
\* KellySizer.size stakes.
StakeOfEdge(prob, odds) ==
    IF odds <= Q THEN 0
    ELSE Larger(0, Edge(prob, odds)) * (Bankroll \div (P * KellyDiv))
Stake(prob, odds) ==
    IF odds <= Q THEN 0
    ELSE Larger(0, Edge(prob, odds)) * (Bankroll \div Divisor(odds))

\* The stake of FlatUnitSizer looks at nothing.
Sized(prob, odds) == IF sizer = "flat" THEN Unit ELSE Stake(prob, odds)

\* _model_prob_for_side.
ModelProb(est, side) == est[side]

\* The lines of one game that MinimumEdgeDetector.detect turns into bets.
IsValue(est, odds, side) ==
    /\ odds[side] # Absent /\ odds[side] <= MaxOdds
    /\ ModelProb(est, side) # Absent
    /\ Edge(ModelProb(est, side), odds[side]) >= MinEdge

\* _bet_won.
BetWon(side, home, away) ==
    \/ side = "home_win" /\ home > away
    \/ side = "away_win" /\ away > home
    \/ side = "draw" /\ home = away

\* The bet on one line, as run sizes and settles it.
BetResult(game, side, prob, odds, won) ==
    LET stake == Sized(prob, odds)
    IN  [game |-> game, side |-> side, odds |-> odds, prob |-> prob,
         stake |-> stake, won |-> won,
         pnl |-> IF won THEN (stake * (odds - Q)) \div Q ELSE -stake]

\* The bet on one side of a game, if its line has value.
BetsOn(side, game, est, odds, home, away) ==
    IF IsValue(est, odds, side)
    THEN <<BetResult(game, side, ModelProb(est, side), odds[side],
                     BetWon(side, home, away))>>
    ELSE <<>>

\* The bets on one game, in the order of its lines (_to_market_lines).
GameBets(game, est, odds, home, away) ==
    LET On(side) == BetsOn(side, game, est, odds, home, away)
    IN  On("home_win") \o On("away_win") \o On("draw")

Init == sizer \in {"kelly", "flat"} /\ results = <<>> /\ played = 0

\* One game of run: every value bet of it is sized with the same bankroll,
\* the starting one, and settled at once.
RunGame(est, odds, home, away) ==
    /\ played < MaxGames
    /\ played' = played + 1 /\ UNCHANGED sizer
    /\ results' = results \o GameBets(played + 1, est, odds, home, away)

Next == \E est \in Estimate, odds \in [Side -> Price \union {Absent}],
           home \in Score, away \in Score : RunGame(est, odds, home, away)

Spec == Init /\ [][Next]_vars

(***************************************************************************)
(* The reports on a ledger.                                                *)
(***************************************************************************)
Pnls(rs) == [i \in DOMAIN rs |-> rs[i].pnl]

\* One turn of the loop of _max_drawdown: balance, highest balance and worst
\* fall from it so far.
DrawdownStepLate(acc, pnl) ==
    LET cum == acc.cum + pnl
        peak == IF acc.cum = 0 THEN cum ELSE Larger(acc.peak, cum)
    IN  [cum |-> cum, peak |-> peak, fall |-> Larger(acc.fall, peak - cum)]
DrawdownStep(acc, pnl) ==
    LET cum == acc.cum + pnl
        peak == Larger(acc.peak, cum)
    IN  [cum |-> cum, peak |-> peak, fall |-> Larger(acc.fall, peak - cum)]

MaxDrawdown(pnls) ==
    FoldLeft(DrawdownStep, [cum |-> 0, peak |-> 0, fall |-> 0], pnls).fall

\* compute_performance_report of the Python pipeline.
Report(rs) ==
    LET won == {i \in DOMAIN rs : rs[i].won}
    IN  [total |-> Len(rs), won |-> Cardinality(won),
         lost |-> Len(rs) - Cardinality(won),
         staked |-> MapThenSumSet(LAMBDA i : rs[i].stake, DOMAIN rs),
         profit |-> MapThenSumSet(LAMBDA i : rs[i].pnl, DOMAIN rs)]

Abs(n) == IF n < 0 THEN -n ELSE n

\* brier_score, in units of 1/(P*P), times the number of bets.
Brier(rs) ==
    LET Miss(i) == rs[i].prob - (IF rs[i].won THEN P ELSE 0)
    IN  SumFunction([i \in DOMAIN rs |-> Miss(i) * Miss(i)])

(***************************************************************************)
(* expected_calibration_error sorts the predictions into bins for itself.  *)
(***************************************************************************)
\* The bin of a probability; that of one is the last bin.
ErrorBinUncapped(p) == (p * NBins) \div P
ErrorBin(p) == IF p >= P THEN NBins - 1 ELSE (p * NBins) \div P
ErrorBins(rs) == {ErrorBin(rs[i].prob) : i \in DOMAIN rs}

\* The distance of a bin's mean prediction from its mean outcome, in units of 1/P,
\* times its weight, the number of bets that both means divide by.
BinError(rs, b) ==
    LET bucket == {i \in DOMAIN rs : ErrorBin(rs[i].prob) = b}
    IN  Abs(SumFunction([i \in bucket |-> rs[i].prob])
            - P * Cardinality({i \in bucket : rs[i].won}))

\* expected_calibration_error, in units of 1/P, times the number of bets.
CalibrationError(rs) == SumFunction([b \in ErrorBins(rs) |-> BinError(rs, b)])

(***************************************************************************)
(* calibration_curve does so too, and sorts the bins.                      *)
(***************************************************************************)
Bin(p) == IF p >= P THEN NBins - 1 ELSE (p * NBins) \div P
Bins(rs) == {Bin(rs[i].prob) : i \in DOMAIN rs}
InBin(rs, b) == {i \in DOMAIN rs : Bin(rs[i].prob) = b}

\* A bin's predictions: how many, their sum, how many came true.
Bucket(rs, b) ==
    [count |-> Cardinality(InBin(rs, b)),
     sum |-> SumFunction([i \in InBin(rs, b) |-> rs[i].prob]),
     won |-> Cardinality({i \in InBin(rs, b) : rs[i].won})]

\* The points of the curve, by bin.
CalibrationCurve(rs) ==
    LET bins == CHOOSE list \in Bijection(1 .. Cardinality(Bins(rs)), Bins(rs)) :
                    \A i, j \in DOMAIN list : i < j => list[i] < list[j]
    IN  [i \in DOMAIN bins |-> Bucket(rs, bins[i])]

\* One turn of the loop of ComputePerformanceReport, the report of Go.
GoReportStepReturns(acc, r) ==
    [total |-> acc.total + 1,
     won |-> acc.won + (IF r.won THEN 1 ELSE 0),
     lost |-> acc.lost + (IF r.won THEN 0 ELSE 1),
     staked |-> acc.staked + r.stake,
     profit |-> acc.profit + r.pnl + (IF r.won THEN r.stake ELSE 0)]
GoReportStep(acc, r) ==
    [total |-> acc.total + 1,
     won |-> acc.won + (IF r.won THEN 1 ELSE 0),
     lost |-> acc.lost + (IF r.won THEN 0 ELSE 1),
     staked |-> acc.staked + r.stake, profit |-> acc.profit + r.pnl]

GoReport(rs) ==
    FoldLeft(GoReportStep,
             [total |-> 0, won |-> 0, lost |-> 0, staked |-> 0, profit |-> 0], rs)

(***************************************************************************)
(* Properties.                                                             *)
(***************************************************************************)
BetsOf(g) == {i \in DOMAIN results : results[i].game = g}
Staked(bets) == MapThenSumSet(LAMBDA i : results[i].stake, bets)

\* Kelly sizes each bet as if it were alone, and all from the same bankroll;
\* still the bets on one game never take more than the chosen fraction of it,
\* whatever the odds and however many sides have value.
StakesWithinBankroll ==
    sizer = "kelly" => \A g \in 1 .. played : KellyDiv * Staked(BetsOf(g)) <= Bankroll

\* What a game pays back if side s wins it.
Return(g, s) ==
    MapThenSumSet(LAMBDA i : (results[i].stake * results[i].odds) \div Q,
                  {i \in BetsOf(g) : results[i].side = s})

\* The bets on one game never cancel each other: a game on which money is
\* staked has a result that pays back more than its bets cost together.
NoSureLoss ==
    \A g \in 1 .. played : Staked(BetsOf(g)) > 0 =>
        \E s \in Side : Return(g, s) > Staked(BetsOf(g))

\* The balance after the first n bets, from zero.
Balance(n) == MapThenSumSet(LAMBDA i : results[i].pnl, 1 .. n)

\* The one pass of _max_drawdown finds "the largest peak-to-trough drop in
\* cumulative P&L" (tracking/types.py), the start being a peak too.
DrawdownIsWorstFall ==
    MaxDrawdown(Pnls(results)) =
        Max(UNION {{Balance(i) - Balance(j) : i \in 0 .. j} : j \in 0 .. Len(results)})

\* The three metrics that rate the same predictions by three passes of their own
\* (calibration/metrics.py:24, :76, curve.py:47) fit together.  The curve has at
\* most one point in each of the equal-width bins, a probability of one being in
\* the last, and its points count every prediction once; the calibration error,
\* which sorts into bins for itself, is what the points of the curve are off
\* together; it is no less than the distance of the mean prediction from the mean
\* outcome, and its square no more than the Brier score.
MetricsAgree ==
    LET n == Len(results)
        curve == CalibrationCurve(results)
        counted == SumFunction([i \in DOMAIN curve |-> curve[i].count])
        off == [i \in DOMAIN curve |-> curve[i].sum - P * curve[i].won]
    IN  /\ counted = n
        /\ \A i, j \in DOMAIN curve : i < j =>
              \E edge \in 1 .. NBins - 1 :
                  /\ curve[i].sum * NBins < edge * P * curve[i].count
                  /\ curve[j].sum * NBins >= edge * P * curve[j].count
        /\ CalibrationError(results) = SumFunction([i \in DOMAIN curve |-> Abs(off[i])])
        /\ CalibrationError(results) >= Abs(SumFunction(off))
        /\ CalibrationError(results) * CalibrationError(results) <= n * Brier(results)

\* The reports say the same of the same ledger: that of the Go service, in one
\* pass, equals that of the Python pipeline, in a pass for each field.
ReportsAgree == GoReport(results) = Report(results)
=============================================================================
