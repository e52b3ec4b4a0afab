------------------------------ MODULE OddsFeed ------------------------------
(***************************************************************************)
(* TheOddsAPIProvider and DevigLines (internal/marketdata) under the poll  *)
(* loop: a refresh fetches one sport, rebuilds the provider's whole cache  *)
(* with devigged lines, and the loop copies the season's events from the   *)
(* cache to the line store, before it refreshes for the next sport.        *)
(*                                                                         *)
(* An event has one market here, quoted by several books; a line is        *)
(* identified by its event, book and side.  A probability p is the integer *)
(* p * Scale, rounded down.  The feed is external; a book that changes its *)
(* quote gives it a new last_update.                                       *)
(***************************************************************************)
EXTENDS Integers, Sequences, FiniteSetsExt

CONSTANTS Game, Book, Side,
          Sports,       \* configured sports, in order
          SportOf,      \* the sport of each event
          InSeason,     \* events of the configured season
          Price,        \* American odds a book quotes
          Scale,        \* units in a probability of one
          MaxUpdates,   \* bound: quotes the feed changes
          MaxFailures   \* bound: failed calls

ASSUME FeedConstants ==
    /\ Price \subseteq Int /\ Scale \in Nat \ {0} /\ InSeason \subseteq Game
    /\ IsFiniteSet(Side)
    /\ MaxUpdates \in Nat /\ MaxFailures \in Nat
    /\ \A e \in Game : \E i \in 1 .. Len(Sports) : SportOf[e] = Sports[i]

VARIABLES feed,         \* <<event, book>> -> its quote: [at, prices]
          updates,      \* changes of the feed so far
          sportsTodo,   \* sports the poll has still to fetch, first one first
          refreshed,    \* has the first of them been fetched?
          cache,        \* the provider's lines, all of one sport
          eventsTodo,   \* events of that sport still to be saved
          store,        \* the line store: line ID -> line
          fetched,      \* lines of the season this poll has fetched
          failed,       \* did a call of this poll fail?
          failures

feedVars == <<feed, updates>>
oddsVars == <<feedVars, sportsTodo, refreshed, cache, eventsTodo, store, fetched,
          failed, failures>>

Id(l) == <<l.event, l.book, l.side>>

FeedInit ==
    /\ feed = [q \in Game \X Book |-> [at |-> 0, prices |-> <<>>]]
    /\ updates = 0
    /\ sportsTodo = <<>> /\ refreshed = FALSE
    /\ cache = {} /\ eventsTodo = {}
    /\ store = <<>> /\ fetched = {}
    /\ failed = FALSE /\ failures = 0

CallFails == failures < MaxFailures /\ failures' = failures + 1 /\ failed' = TRUE

-----------------------------------------------------------------------------
\* A book quotes some sides, or none any more.
FeedChange ==
    /\ updates < MaxUpdates
    /\ updates' = updates + 1
    /\ \E q \in Game \X Book, S \in SUBSET Side : \E prices \in [S -> Price] :
        feed' = [feed EXCEPT ![q] = [at |-> @.at + 1, prices |-> prices]]
    /\ UNCHANGED <<sportsTodo, refreshed, cache, eventsTodo, store, fetched,
                   failed, failures>>

-----------------------------------------------------------------------------
\* The implied probability of American odds, margin included.
RawProb(american) ==
    IF american > 0 THEN (Scale * 100) \div (american + 100)
    ELSE (Scale * (-american)) \div (100 - american)

\* The units are fine enough that no probability is rounded to zero.
ASSUME ScaleConstants == \A p \in Price \ {0} : RawProb(p) > 0

\* The lines of a quote; odds of zero have no decimal and are skipped.
Line(q, s) == [event |-> q[1], book |-> q[2], side |-> s, at |-> feed[q].at,
               raw |-> RawProb(feed[q].prices[s]), implied |-> 0]
RawQuote(q) == {Line(q, s) : s \in {s \in DOMAIN feed[q].prices : feed[q].prices[s] # 0}}
RawLines(sport) ==
    UNION {RawQuote(q) : q \in {q \in Game \X Book : SportOf[q[1]] = sport}}

\* DevigLines: proportional removal of the margin within a snapshot.  A line that
\* is alone in it gets a probability of one.
MarketAndTime(l) == <<l.event, l.at>>
SnapshotKey(l) == <<l.event, l.book, l.at>>

RawOf(l) == l.raw
ImpliedOf(l) == l.implied

FairProb(l, lines) ==
    (Scale * l.raw) \div
        MapThenSumSet(RawOf, {m \in lines : SnapshotKey(m) = SnapshotKey(l)})
DevigLines(lines) == {[l EXCEPT !.implied = FairProb(l, lines)] : l \in lines}

-----------------------------------------------------------------------------
(* The poll loop *)

BeginPoll ==
    /\ sportsTodo = <<>>
    /\ sportsTodo' = Sports /\ refreshed' = FALSE
    /\ fetched' = {} /\ failed' = FALSE
    /\ UNCHANGED <<feedVars, cache, eventsTodo, store, failures>>

\* Events: the response is decoded, and the cache replaced in one section.
Refresh ==
    /\ sportsTodo # <<>> /\ ~refreshed
    /\ refreshed' = TRUE
    /\ cache' = DevigLines(RawLines(Head(sportsTodo)))
    /\ eventsTodo' = {e \in InSeason : SportOf[e] = Head(sportsTodo)}
    /\ fetched' = fetched \union {l \in cache' : l.event \in InSeason}
    /\ UNCHANGED <<feedVars, sportsTodo, store, failed, failures>>

\* The request or the decoding fails: the cache keeps what it had.
RefreshFails ==
    /\ CallFails
    /\ sportsTodo # <<>> /\ ~refreshed
    /\ refreshed' = TRUE
    /\ UNCHANGED <<feedVars, sportsTodo, cache, eventsTodo, store, fetched>>

\* SaveLines: a line whose ID is there is overwritten, others are added.
InsertOnly(lines) ==
    [i \in DOMAIN store \union {Id(l) : l \in lines} |->
        IF i \in DOMAIN store THEN store[i] ELSE CHOOSE l \in lines : Id(l) = i]
Upsert(lines) ==
    [i \in DOMAIN store \union {Id(l) : l \in lines} |->
        IF \E l \in lines : Id(l) = i THEN CHOOSE l \in lines : Id(l) = i
        ELSE store[i]]

SaveEvent ==
    /\ \E e \in eventsTodo :
        /\ store' = Upsert({l \in cache : l.event = e})
        /\ eventsTodo' = eventsTodo \ {e}
    /\ UNCHANGED <<feedVars, sportsTodo, refreshed, cache, fetched, failed, failures>>

SaveFails ==
    /\ CallFails
    /\ \E e \in eventsTodo : eventsTodo' = eventsTodo \ {e}
    /\ UNCHANGED <<feedVars, sportsTodo, refreshed, cache, store, fetched>>

NextSport ==
    /\ refreshed /\ eventsTodo = {}
    /\ sportsTodo' = Tail(sportsTodo) /\ refreshed' = FALSE
    /\ UNCHANGED <<feedVars, cache, eventsTodo, store, fetched, failed, failures>>

FeedNext ==
    \/ FeedChange
    \/ BeginPoll \/ Refresh \/ RefreshFails \/ SaveEvent \/ SaveFails \/ NextSport

FeedSpec == FeedInit /\ [][FeedNext]_oddsVars

-----------------------------------------------------------------------------
(* Properties *)

\* Although a refresh for one sport discards the cached lines of another, a
\* poll in which no call failed leaves every line it fetched in the store, as
\* fetched, or as fetched again later: a sport may be configured twice
\* (main.go:224-226, 303-318, theoddsapi.go:312-319).
Saved(l) ==
    /\ Id(l) \in DOMAIN store
    /\ store[Id(l)] \in fetched /\ store[Id(l)].at >= l.at
PollComplete ==
    sportsTodo = <<>> /\ ~failed => \A l \in fetched : Saved(l)

\* The newest stored lines of a book on a market, if they are more than one, are a
\* whole snapshot, and their probabilities add up to one, less what rounding takes:
\* lines are only devigged with the lines they are stored with, though two books
\* may share a recording time, and though lines are overwritten one by one while
\* those of a withdrawn side stay behind (devig.go:32-41, postgres.go:79-111).
StoredLines == {store[i] : i \in DOMAIN store}
Newest(l) ==
    \A m \in StoredLines : m.event = l.event /\ m.book = l.book => m.at <= l.at
StoredWith(l) == {m \in StoredLines : m.event = l.event /\ m.book = l.book /\ m.at = l.at}
SumsToOne(lines) ==
    MapThenSumSet(ImpliedOf, lines) \in Scale - Cardinality(lines) + 1 .. Scale
SnapshotSumsToOne ==
    \A l \in StoredLines :
        Newest(l) /\ Cardinality(StoredWith(l)) > 1 => SumsToOne(StoredWith(l))

\* "Lines with no peers in their snapshot receive ImpliedProb = RawImpliedProb"
\* (devig.go:41).
LoneLineKeepsRaw ==
    \A l \in cache :
        (\A m \in cache : SnapshotKey(m) = SnapshotKey(l) => m = l) => l.implied = l.raw
=============================================================================
