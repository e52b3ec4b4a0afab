----------------------------- MODULE MarketData -----------------------------
(***************************************************************************)
(* The market-data service (services/market-data/main.go): a poll loop     *)
(* that copies the provider's odds into the line store and then publishes  *)
(* them, and publishes final scores.  The two writes, to the store and to  *)
(* Kafka, are not one transaction; any remote call may fail, and the       *)
(* process may crash.  The line store is the caching one: SaveLines is two *)
(* remote calls, and fails as a whole when the second one, the deletion of *)
(* cache keys, does.  LineCache models what the cache itself holds.        *)
(*                                                                         *)
(* The provider is external: odds[m] is the version it serves, finished    *)
(* the games whose score is inside the daysFrom window.  A poll works on   *)
(* the snapshot that Events fetched.                                       *)
(***************************************************************************)
EXTENDS Integers

CONSTANTS Market,
          Event,        \* games
          MaxVer,       \* bound: versions the provider serves
          MaxFaults     \* bound: failed calls and crashes

ASSUME MarketDataConstants == MaxVer \in Nat \ {0} /\ MaxFaults \in Nat

VARIABLES phase,        \* what pollCycle is doing
          odds,         \* provider: market -> version of its lines
          finished,     \* provider: games in the scores window
          ended,        \* games whose result the provider has had
          snapshot,     \* what the poll under way fetched
          pollTodo,     \* markets the poll has still to handle
          ver,          \* line store: market -> version of its lines
          saving,       \* the market whose cache keys are not deleted yet, a set
          publishing,   \* the market saved but not yet published, a set
          scoresTodo,   \* results pollScores has still to publish
          linesOut,     \* market -> newest version in the lines topic
          scoresOut,    \* games with a record in the scores topic
          faults

saveVars == <<ver, saving>>
pollVars == <<phase, snapshot, pollTodo, publishing, scoresTodo>>
outside == <<odds, finished, ended>>
out == <<linesOut, scoresOut>>
vars == <<saveVars, pollVars, outside, out, faults>>

TypeOK ==
    /\ ver \in [Market -> 0 .. MaxVer]
    /\ saving \subseteq Market
    /\ phase \in {"waiting", "odds", "scores"}
    /\ odds \in [Market -> 1 .. MaxVer]
    /\ snapshot \in [Market -> 0 .. MaxVer]
    /\ pollTodo \subseteq Market /\ publishing \subseteq Market
    /\ finished \subseteq ended /\ ended \subseteq Event
    /\ scoresTodo \subseteq ended
    /\ linesOut \in [Market -> 0 .. MaxVer] /\ scoresOut \subseteq Event
    /\ publishing # {} => saving = {}
    /\ faults \in 0 .. MaxFaults

Init ==
    /\ ver = [m \in Market |-> 0]
    /\ saving = {}
    /\ phase = "waiting"
    /\ odds = [m \in Market |-> 1]
    /\ finished = {} /\ ended = {}
    /\ snapshot = [m \in Market |-> 0]
    /\ pollTodo = {} /\ publishing = {} /\ scoresTodo = {}
    /\ linesOut = [m \in Market |-> 0] /\ scoresOut = {}
    /\ faults = 0

Fault == faults < MaxFaults /\ faults' = faults + 1

-----------------------------------------------------------------------------
(* The provider *)

OddsChange ==
    /\ \E m \in Market : odds[m] < MaxVer /\ odds' = [odds EXCEPT ![m] = @ + 1]
    /\ UNCHANGED <<saveVars, pollVars, finished, ended, out, faults>>

GameEnds ==
    /\ \E e \in Event \ ended :
        ended' = ended \union {e} /\ finished' = finished \union {e}
    /\ UNCHANGED <<saveVars, pollVars, odds, out, faults>>

\* The result is older than daysFrom: the provider reports it no more.
LeaveWindow ==
    /\ \E e \in finished : finished' = finished \ {e}
    /\ UNCHANGED <<saveVars, pollVars, odds, ended, out, faults>>

-----------------------------------------------------------------------------
(* poll *)

\* The ticker fires, and Events fetches the provider's odds.
StartPoll ==
    /\ phase = "waiting"
    /\ phase' = "odds"
    /\ snapshot' = odds
    /\ pollTodo' = Market
    /\ UNCHANGED <<saveVars, publishing, scoresTodo, outside, out, faults>>

EventsFail ==
    /\ Fault
    /\ phase = "waiting"
    /\ phase' = "odds"
    /\ UNCHANGED <<saveVars, snapshot, pollTodo, publishing, scoresTodo,
                   outside, out>>

Considered(m) ==
    /\ saving = {} /\ publishing = {}
    /\ m \in pollTodo
    /\ pollTodo' = pollTodo \ {m}

\* Markets, Lines or the save fails: on to the next market.
SkipButPublish ==
    /\ Fault
    /\ \E m \in Market : Considered(m) /\ publishing' = {m}
    /\ UNCHANGED <<saveVars, phase, snapshot, scoresTodo, outside, out>>
SkipMarket ==
    /\ Fault
    /\ \E m \in Market : Considered(m)
    /\ UNCHANGED <<saveVars, phase, snapshot, publishing, scoresTodo, outside, out>>

\* SaveLines of the backing store; the deletion of cache keys follows.
BackingSaves(m) ==
    /\ ver' = [ver EXCEPT ![m] = snapshot[m]]
    /\ saving' = {m}

SaveOnlyNews ==
    /\ \E m \in Market :
        /\ Considered(m)
        /\ IF ver[m] = snapshot[m] THEN UNCHANGED saveVars
           ELSE BackingSaves(m)
    /\ UNCHANGED <<phase, snapshot, publishing, scoresTodo, outside, out, faults>>
SaveMarket ==
    /\ \E m \in Market : Considered(m) /\ BackingSaves(m)
    /\ UNCHANGED <<phase, snapshot, publishing, scoresTodo, outside, out, faults>>

Invalidate ==
    /\ saving # {}
    /\ saving' = {}
    /\ publishing' = saving
    /\ UNCHANGED <<ver, phase, snapshot, pollTodo, scoresTodo, outside, out, faults>>

\* SaveLines returns the cache's error: the poll skips the publication.
InvalidateFails ==
    /\ Fault
    /\ saving # {}
    /\ saving' = {}
    /\ UNCHANGED <<ver, pollVars, outside, out>>

PublishLines ==
    /\ \E m \in publishing : linesOut' = [linesOut EXCEPT ![m] = snapshot[m]]
    /\ publishing' = {}
    /\ UNCHANGED <<saveVars, phase, snapshot, pollTodo, scoresTodo, outside,
                   scoresOut, faults>>

PublishLinesFails ==
    /\ Fault
    /\ publishing # {}
    /\ publishing' = {}
    /\ UNCHANGED <<saveVars, phase, snapshot, pollTodo, scoresTodo, outside, out>>

-----------------------------------------------------------------------------
(* pollScores *)

OddsPolled == phase = "odds" /\ pollTodo = {} /\ saving = {} /\ publishing = {}

StartOneScore ==
    /\ OddsPolled
    /\ phase' = "scores"
    /\ scoresTodo' = IF finished = {} THEN {} ELSE {CHOOSE e \in finished : TRUE}
    /\ UNCHANGED <<saveVars, snapshot, pollTodo, publishing, outside, out, faults>>
StartScores ==
    /\ OddsPolled
    /\ phase' = "scores"
    /\ scoresTodo' = finished
    /\ UNCHANGED <<saveVars, snapshot, pollTodo, publishing, outside, out, faults>>

ScoresFail ==
    /\ Fault
    /\ OddsPolled
    /\ phase' = "scores"
    /\ UNCHANGED <<saveVars, snapshot, pollTodo, publishing, scoresTodo,
                   outside, out>>

PublishScore ==
    /\ \E e \in scoresTodo :
        /\ scoresOut' = scoresOut \union {e}
        /\ scoresTodo' = scoresTodo \ {e}
    /\ UNCHANGED <<saveVars, phase, snapshot, pollTodo, publishing, outside,
                   linesOut, faults>>

PublishScoreFails ==
    /\ Fault
    /\ \E e \in scoresTodo : scoresTodo' = scoresTodo \ {e}
    /\ UNCHANGED <<saveVars, phase, snapshot, pollTodo, publishing, outside, out>>

EndCycle ==
    /\ phase = "scores" /\ scoresTodo = {}
    /\ phase' = "waiting"
    /\ UNCHANGED <<saveVars, snapshot, pollTodo, publishing, scoresTodo,
                   outside, out, faults>>

-----------------------------------------------------------------------------
\* The process dies and is started again: the poll under way is
\* gone, the store and the topics stay.
Crash ==
    /\ Fault
    /\ phase' = "waiting" /\ pollTodo' = {} /\ publishing' = {} /\ scoresTodo' = {}
    /\ saving' = {}
    /\ UNCHANGED <<ver, snapshot, outside, out>>

Poll ==
    \/ StartPoll \/ SaveMarket \/ Invalidate \/ PublishLines
    \/ StartScores \/ PublishScore \/ EndCycle

PollFault ==
    \/ EventsFail \/ SkipMarket \/ InvalidateFails \/ PublishLinesFails
    \/ ScoresFail \/ PublishScoreFails \/ Crash

Next == OddsChange \/ GameEnds \/ LeaveWindow \/ Poll \/ PollFault

Spec == Init /\ [][Next]_vars

\* The ticker keeps firing, and the poll loop runs.
FairSpec == Spec /\ WF_vars(Poll)

-----------------------------------------------------------------------------
(* Properties *)

\* The store is written before the topic: whatever fails, a consumer never
\* sees odds that a restart of market-data would have lost (main.go:258-261).
PublishedWasSaved == \A m \in Market : linesOut[m] <= ver[m]

\* The store and the topic are written separately, yet the topic catches up:
\* odds whose publication failed are published again by a later poll, even
\* when they have not changed since (main.go:268-270).
OddsReachTopic ==
    \A m \in Market, v \in 1 .. MaxVer : odds[m] = v ~> linesOut[m] >= v

\* A final score reaches the topic, however often publishing it fails, if the
\* provider's window stays open long enough (main.go:290-297).
ScoresReachTopic == \A e \in Event : [](e \in finished) ~> e \in scoresOut
=============================================================================
