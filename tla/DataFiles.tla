----------------------------- MODULE DataFiles -----------------------------
(***************************************************************************)
(* The fetch command of the CLI and scripts/fetch_nfl_data.py: fetch the   *)
(* games of a league, by ECNLDataFetcher (module Fetcher) or by one of the *)
(* other sources, and write them to a CSV file, which CSVDataLoader reads  *)
(* back.  Every command is a process of its own; the file outlives it, cut *)
(* off anywhere if its writer fails or dies.                               *)
(*                                                                         *)
(* The calendar of Fetcher serves every source: the seasons of ASA list    *)
(* all their matches, the competitions of WPSL are events.  A score of     *)
(* version Final or more is that of a match that is over, a lower one that *)
(* of a match under way.  A row of the file has a match and its score.     *)
(***************************************************************************)
EXTENDS Fetcher, Sequences, FiniteSets, SequencesExt

CONSTANTS MainEvent,    \* competitions that _is_main_wpsl accepts
          Priced,       \* matches with moneylines at the source of NFL data
          Final,        \* the first version of a final score
          Cap,          \* records in one response of ASA
          Source,       \* sources that are tried
          DateOf        \* match -> its date

ASSUME DataConstants ==
    /\ MainEvent \subseteq Event /\ Priced \subseteq Match
    /\ {Final, Cap} \subseteq Nat \ {0}
    /\ Source \subseteq {"ecnl", "asa", "asa_seasons", "wpsl", "nfl"}
    /\ DateOf \in [Match -> Nat] /\ IsFiniteSet(Match)

VARIABLES source,       \* what the running command fetches from
          stage,        \* where it is
          result,       \* the rows it has yet to write, in order
          csv,          \* the file: its header, its whole rows, a torn one?
          intended      \* what its last writer had to write, from where, and
                        \* how often the file was opened for writing

fileVars == <<csv, intended>>
dvars == <<vars, source, stage, result, fileVars>>

\* A row may be cut where fields are missing, or in its last one (precipitation,
\* or a price of a draw that is empty), which is neither its match nor its score.
Torn == {"no", "fields", "last"}

NoFile == [header |-> FALSE, rows |-> <<>>, torn |-> "no", exists |-> FALSE]
Truncated == [NoFile EXCEPT !.exists = TRUE]

DInit ==
    /\ Init
    /\ source = "none"
    /\ stage = "idle"
    /\ result = <<>>
    /\ csv = NoFile /\ intended = [rows |-> <<>>, source |-> "none", nr |-> 0]

\* sorted(games, key=game_date), as rows.
InDateOrder(rows) ==
    \A i, j \in DOMAIN rows : i < j => DateOf[rows[i].match] <= DateOf[rows[j].match]
RowsOf(S) ==
    LET R == {[match |-> g.match, score |-> g.score] : g \in S}
    IN  CHOOSE rows \in Bijection(1 .. Cardinality(R), R) : InDateOrder(rows)

MatchesIn(e) == UNION {MatchesOf[f] : f \in FlightsOf[e]}
ListedIn(s) == UNION {MatchesIn(e) : e \in EventsOf[s]}
IsFinal(m) == score[m] >= Final

\* A match is taken from the first answer that lists it.
Taken(S) == games \union {ResultOf(m, NoSeason) : m \in S \ Seen}

InFetch(s) == stage = "fetch" /\ source = s /\ fetching
FetchVars == <<source, stage, result, fileVars>>

-----------------------------------------------------------------------------
(* The sources other than ECNL *)

\* An answer of ASA has no more records than the cap, whichever they are.
Capped(S) ==
    IF Cardinality(S) <= Cap THEN {S} ELSE {R \in SUBSET S : Cardinality(R) = Cap}

\* A season is one request of its own, for matches with status=FullTime.
AsaSeasonOnly(s) ==
    /\ InFetch("asa_seasons") /\ s \in seasons
    /\ seasons' = seasons \ {s}
    /\ \E R \in Capped({m \in ListedIn(s) : IsFinal(m)}) :
          games' = {ResultOf(m, NoSeason) : m \in R}
    /\ UNCHANGED <<score, caches, fetching, events, flights, season, since, returned,
                   bounds, FetchVars>>
AsaSeason(s) ==
    /\ InFetch("asa_seasons") /\ s \in seasons
    /\ seasons' = seasons \ {s}
    /\ \E R \in Capped({m \in ListedIn(s) : IsFinal(m)}) : games' = Taken(R)
    /\ UNCHANGED <<score, caches, fetching, events, flights, season, since, returned,
                   bounds, FetchVars>>

\* Without seasons there is one request, without a status: any match may come,
\* and one without a score makes int() raise.
AsaAll ==
    /\ InFetch("asa") /\ seasons # {}
    /\ seasons' = {}
    /\ \E R \in Capped(Match) :
          /\ \A m \in R : Completed(m)
          /\ games' = Taken(R)
    /\ UNCHANGED <<score, caches, fetching, events, flights, season, since, returned,
                   bounds, FetchVars>>

\* The competitions of a year, then the matches of each that have ended.
WpslYear(s) ==
    /\ InFetch("wpsl") /\ events = {} /\ s \in seasons
    /\ seasons' = seasons \ {s} /\ season' = s
    /\ events' = EventsOf[s] \intersect MainEvent
    /\ UNCHANGED <<score, caches, fetching, flights, games, since, returned, bounds,
                   FetchVars>>
WpslCompetition(e) ==
    /\ InFetch("wpsl") /\ e \in events
    /\ events' = events \ {e}
    /\ games' = Taken({m \in MatchesIn(e) : IsFinal(m)})
    /\ UNCHANGED <<score, caches, fetching, flights, seasons, season, since, returned,
                   bounds, FetchVars>>

\* import_schedules: one table, of which games without a score or a price are
\* dropped.
NflSchedule ==
    /\ InFetch("nfl") /\ seasons # {}
    /\ seasons' = {}
    /\ games' = Taken({m \in Priced : IsFinal(m)})
    /\ UNCHANGED <<score, caches, fetching, events, flights, season, since, returned,
                   bounds, FetchVars>>

SourceFails ==
    /\ stage = "fetch" /\ source # "ecnl" /\ fetching
    /\ seasons # {} \/ events # {}
    /\ End
    /\ stage' = "idle"
    /\ UNCHANGED <<score, caches, since, returned, bounds, source, result, fileVars>>

-----------------------------------------------------------------------------
(* The command *)

\* A new process, for another source perhaps.  Those of an earlier one that
\* failed are gone, with their caches.
Command ==
    /\ stage = "idle" /\ fetches < MaxFetches
    /\ stage' = "fetch"
    /\ source' \in Source
    /\ eventIds' = <<>> /\ flightIds' = <<>> /\ returned' = Nothing
    /\ UNCHANGED <<score, fetching, loops, games, since, bounds, result, fileVars>>

Ecnl == stage = "fetch" /\ source = "ecnl" /\ UNCHANGED FetchVars

CallFetch == stage = "fetch" /\ StartFetch /\ UNCHANGED FetchVars

\* fetch returns; a caller in Python may call it again on the same fetcher, the
\* command goes on to write.
FetchReturns ==
    /\ stage = "fetch"
    /\ IF source = "ecnl" THEN Return
       ELSE /\ fetching /\ seasons = {} /\ events = {}
            /\ End
            /\ UNCHANGED <<score, caches, since, returned, bounds>>
    /\ result' = RowsOf(games)
    /\ stage' \in IF source = "ecnl" THEN {"fetch", "open"} ELSE {"open"}
    /\ UNCHANGED <<source, fileVars>>

EcnlFails ==
    /\ source = "ecnl" /\ stage = "fetch"
    /\ RequestFails
    /\ stage' \in {"fetch", "idle"}
    /\ UNCHANGED <<source, result, fileVars>>

\* The fetcher is not used any more.
Discard ==
    /\ eventIds' = <<>> /\ flightIds' = <<>>
    /\ returned' = Nothing /\ since' = Nothing.since
    /\ UNCHANGED <<score, fetching, loops, games, bounds>>

OpenCsvAppend ==
    /\ stage = "open"
    /\ stage' = "rows"
    /\ csv' = [csv EXCEPT !.exists = TRUE, !.torn = "no"]
    /\ intended' = [rows |-> result, source |-> source, nr |-> intended.nr + 1]
    /\ Discard
    /\ UNCHANGED <<source, result>>
\* out_path.open("w") empties the file that is there.
OpenCsv ==
    /\ stage = "open"
    /\ stage' = "rows"
    /\ csv' = Truncated
    /\ intended' = [rows |-> result, source |-> source, nr |-> intended.nr + 1]
    /\ Discard
    /\ UNCHANGED <<source, result>>

\* The next row reaches the file: the writer's buffer is flushed now and then.
WriteRow ==
    /\ stage = "rows" /\ result # <<>>
    /\ csv' = [csv EXCEPT !.header = TRUE, !.rows = Append(@, Head(result))]
    /\ result' = Tail(result)
    /\ UNCHANGED <<vars, source, stage, intended>>

CloseCsv ==
    /\ stage = "rows" /\ result = <<>>
    /\ csv' = [csv EXCEPT !.header = TRUE]
    /\ stage' = "idle"
    /\ UNCHANGED <<vars, source, result, intended>>

\* The disk is full or the process dies: the file ends here, or in a row.
WriteStops ==
    /\ stage = "rows" /\ result # <<>>
    /\ faults < MaxFaults /\ faults' = faults + 1
    /\ \/ UNCHANGED csv
       \/ \E how \in Torn : csv' = [csv EXCEPT !.header = TRUE, !.torn = how]
    /\ stage' = "idle" /\ result' = <<>>
    /\ UNCHANGED <<score, caches, fetching, loops, games, since, returned, fetches,
                   source, intended>>

DNext ==
    \/ \E m \in Match : stage = "fetch" /\ ScoreChange(m) /\ UNCHANGED FetchVars
    \/ Command
    \/ CallFetch
    \/ \E s \in Season : Ecnl /\ GetEventIds(s)
    \/ \E e \in Event : Ecnl /\ GetFlightIds(e)
    \/ \E f \in Flight : Ecnl /\ GetSchedule(f)
    \/ EcnlFails
    \/ \E s \in Season : AsaSeason(s)
    \/ AsaAll
    \/ \E s \in Season : WpslYear(s)
    \/ \E e \in Event : WpslCompetition(e)
    \/ NflSchedule
    \/ SourceFails
    \/ FetchReturns
    \/ OpenCsv \/ WriteRow \/ CloseCsv \/ WriteStops

\* Scores also change between the commands: that is in the fetch that follows.
DSpec == DInit /\ [][DNext]_dvars
=============================================================================
