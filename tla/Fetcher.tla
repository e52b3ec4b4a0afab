------------------------------ MODULE Fetcher ------------------------------
(***************************************************************************)
(* ECNLDataFetcher (src/bet/data/ecnl.py): results are fetched through     *)
(* three layers of requests, from a season to its events, from an event to *)
(* its flights, from a flight to its matches.  Events and flights are      *)
(* cached on the fetcher, matches are not, and a match listed by several   *)
(* flights is taken once.  While one fetch makes its requests, matches are *)
(* played and scores corrected; a request that fails ends the fetch, and   *)
(* the caller may call fetch again on the same fetcher.                    *)
(*                                                                         *)
(* The calendar is fixed: "the event_ids and flight_ids layers are stable  *)
(* within a season" (ecnl.py:11).  The order of events and of flights is   *)
(* the API's, so any order is taken.  A score is its version: zero while   *)
(* the match has none, one more at each correction.                        *)
(***************************************************************************)
EXTENDS Integers

CONSTANTS Season,       \* _season_ids
          Event, Flight, Match,
          EventsOf,     \* calendar: season -> events
          FlightsOf,    \* calendar: event -> flights
          MatchesOf,    \* calendar: flight -> matches
          MaxVer,       \* bound: versions of a score
          MaxFaults,    \* bound: requests that fail
          MaxFetches    \* bound: calls of fetch

ASSUME Calendar ==
    /\ EventsOf \in [Season -> SUBSET Event]
    /\ FlightsOf \in [Event -> SUBSET Flight]
    /\ MatchesOf \in [Flight -> SUBSET Match]
    /\ {MaxVer, MaxFaults, MaxFetches} \subseteq Nat

VARIABLES score,        \* match -> version of its score at the API
          eventIds,     \* _event_ids_cache: season -> events
          flightIds,    \* _flight_ids_cache: event -> flights
          fetching,     \* is a call of fetch under way?
          seasons,      \* the seasons, events and flights its loops have
          events,       \*    yet to visit
          flights,
          season,       \* the season that the loops are in
          games,        \* the results so far
          since,        \* the scores when the fetch began
          returned,     \* what the last fetch returned, and its since
          faults, fetches

caches == <<eventIds, flightIds>>
loops == <<seasons, events, flights, season>>
bounds == <<faults, fetches>>
vars == <<score, caches, fetching, loops, games, since, returned, bounds>>

Result == [match : Match, season : Season, flight : Flight, score : 1 .. MaxVer]
NoSeason == "none"
Nothing == [games |-> {}, since |-> [m \in Match |-> 0]]

\* The set `seen` of fetch.
Seen == {g.match : g \in games}

Init ==
    /\ score = [m \in Match |-> 0]
    /\ eventIds = <<>> /\ flightIds = <<>>
    /\ fetching = FALSE
    /\ seasons = {} /\ events = {} /\ flights = {} /\ season = NoSeason
    /\ games = {}
    /\ since = score
    /\ returned = Nothing
    /\ faults = 0 /\ fetches = 0

\* A match gets its score, or another one.
ScoreChange(m) ==
    /\ score[m] < MaxVer
    /\ score' = [score EXCEPT ![m] = @ + 1]
    /\ UNCHANGED <<caches, fetching, loops, games, since, returned, bounds>>

StartFetchKeeps ==
    /\ ~fetching /\ fetches < MaxFetches
    /\ fetching' = TRUE
    /\ seasons' = Season
    /\ games' = returned.games
    /\ since' = score
    /\ fetches' = fetches + 1
    /\ UNCHANGED <<score, caches, events, flights, season, returned, faults>>
StartFetch ==
    /\ ~fetching /\ fetches < MaxFetches
    /\ fetching' = TRUE
    /\ seasons' = Season
    /\ since' = score
    /\ fetches' = fetches + 1
    /\ UNCHANGED <<score, caches, events, flights, season, games, returned, faults>>

\* The loops and lists of fetch are gone when it returns or raises.
End ==
    /\ fetching' = FALSE
    /\ seasons' = {} /\ events' = {} /\ flights' = {} /\ season' = NoSeason
    /\ games' = {}

\* _get_event_ids, of the next season: asks the API once per season.
GetEventIds(s) ==
    /\ fetching /\ flights = {} /\ events = {} /\ s \in seasons
    /\ seasons' = seasons \ {s} /\ season' = s
    /\ eventIds' = IF s \in DOMAIN eventIds THEN eventIds
                   ELSE [x \in DOMAIN eventIds \union {s} |->
                            IF x = s THEN EventsOf[s] ELSE eventIds[x]]
    /\ events' = eventIds'[s]
    /\ UNCHANGED <<score, flightIds, fetching, flights, games, since, returned, bounds>>

\* _get_flight_ids, of the next event: asks the API once per event.
GetFlightIds(e) ==
    /\ fetching /\ flights = {} /\ e \in events
    /\ events' = events \ {e}
    /\ flightIds' = IF e \in DOMAIN flightIds THEN flightIds
                    ELSE [x \in DOMAIN flightIds \union {e} |->
                            IF x = e THEN FlightsOf[e] ELSE flightIds[x]]
    /\ flights' = flightIds'[e]
    /\ UNCHANGED <<score, eventIds, fetching, seasons, season, games, since,
                   returned, bounds>>

ResultOf(m, f) == [match |-> m, season |-> season, flight |-> f, score |-> score[m]]

\* A match without a score, or a date, is not taken.
Completed(m) == score[m] > 0

\* get_schedules_by_flight, of the next flight: the matches that have a score
\* and were not seen before.
GetScheduleUnseen(f) ==
    /\ fetching /\ f \in flights
    /\ flights' = flights \ {f}
    /\ games' = games \union {ResultOf(m, f) : m \in {x \in MatchesOf[f] : Completed(x)}}
    /\ UNCHANGED <<score, caches, fetching, seasons, events, season, since,
                   returned, bounds>>
GetSchedule(f) ==
    /\ fetching /\ f \in flights
    /\ flights' = flights \ {f}
    /\ games' = games \union
          {ResultOf(m, f) : m \in {x \in MatchesOf[f] : Completed(x)} \ Seen}
    /\ UNCHANGED <<score, caches, fetching, seasons, events, season, since,
                   returned, bounds>>

\* Is the next step of the loops a request, and not a look at a cache?
Requesting ==
    \/ flights # {}
    \/ flights = {} /\ \E e \in events : e \notin DOMAIN flightIds
    \/ flights = {} /\ events = {} /\ \E s \in seasons : s \notin DOMAIN eventIds

\* The request, or the conversion of a match in its answer, raises.  Nothing
\* catches it, so fetch raises.
RequestFailsCached ==
    /\ fetching /\ Requesting
    /\ faults < MaxFaults /\ faults' = faults + 1
    /\ End
    /\ flightIds' = [x \in DOMAIN flightIds \union events |->
                        IF x \in DOMAIN flightIds THEN flightIds[x] ELSE {}]
    /\ UNCHANGED <<score, eventIds, since, returned, fetches>>
RequestFails ==
    /\ fetching /\ Requesting
    /\ faults < MaxFaults /\ faults' = faults + 1
    /\ End
    /\ UNCHANGED <<score, caches, since, returned, fetches>>

Return ==
    /\ fetching /\ seasons = {} /\ events = {} /\ flights = {}
    /\ End
    /\ returned' = [games |-> games, since |-> since]
    /\ UNCHANGED <<score, caches, since, bounds>>

Next ==
    \/ \E m \in Match : ScoreChange(m)
    \/ StartFetch
    \/ \E s \in Season : GetEventIds(s)
    \/ \E e \in Event : GetFlightIds(e)
    \/ \E f \in Flight : GetSchedule(f)
    \/ RequestFails
    \/ Return

Spec == Init /\ [][Next]_vars

-----------------------------------------------------------------------------
(* Properties *)

\* Only matches with a score are taken, and the loops are inside the calendar.
TypeOK ==
    /\ score \in [Match -> 0 .. MaxVer] /\ since \in [Match -> 0 .. MaxVer]
    /\ \A s \in DOMAIN eventIds : eventIds[s] = EventsOf[s]
    /\ \A e \in DOMAIN flightIds : flightIds[e] \subseteq FlightsOf[e]
    /\ fetching \in BOOLEAN
    /\ seasons \subseteq Season /\ events \subseteq Event /\ flights \subseteq Flight
    /\ games \subseteq Result /\ returned.games \subseteq Result

\* "Duplicate match IDs across flights or seasons are deduplicated"
\* (ecnl.py:90), also when the score changes between two flights' answers.
FetchedOnce ==
    \A g, h \in returned.games : g # h => g.match # h.match

\* "Match data is always fetched fresh" (ecnl.py:13): a returned score is one
\* that the match had after this fetch began, on the second call too.
FetchFresh ==
    \A g \in returned.games : returned.since[g.match] <= g.score

\* A fetch that returns has every match that was over when it began, whatever
\* failed in calls before it and was left in the caches.
FetchComplete ==
    \A s \in Season : \A e \in EventsOf[s] : \A f \in FlightsOf[e] :
        \A m \in MatchesOf[f] :
            returned.since[m] > 0 => \E g \in returned.games : g.match = m
=============================================================================
