---------------------------- MODULE MCMarketData ----------------------------
(* The two views of a poll of market-data, side by side: MarketData, whose  *)
(* lines are versions, with two markets, two games and two versions of the  *)
(* odds, and OddsFeed, with the lines themselves.                           *)
EXTENDS MCOddsFeed, MarketData

\* They share nothing, and each property is about one of them: it is enough that
\* either moves while the other has its initial state.
NoPollYet ==
    /\ phase = "waiting" /\ faults = 0 /\ ended = {}
    /\ \A m \in Market : odds[m] = 1 /\ snapshot[m] = 0
PollsNext ==
    \/ FeedInit /\ Next /\ UNCHANGED oddsVars
    \/ NoPollYet /\ FeedNext /\ UNCHANGED vars

PollsInit == Init /\ FeedInit

\* The ticker keeps firing, and the poll loop of MarketData runs; so the liveness
\* properties are about the behaviours in which it is MarketData that moves.
Polls == PollsInit /\ [][PollsNext]_<<vars, oddsVars>> /\ WF_vars(Poll)
=============================================================================
