------------------------------ MODULE Commands ------------------------------
(***************************************************************************)
(* The commands that analyse a file of games: backtest, calibrate and      *)
(* compare of the CLI, and scripts/mls_poisson_report.py ("report").  Each *)
(* loads the file with CSVDataLoader, walks over its games with one model  *)
(* or with every model of the sport, and writes its report.  The fetch     *)
(* command of DataFiles may empty and write the same file at that time, so *)
(* the load has a step for every row.  What is between the load and the    *)
(* report touches nothing that is shared: it is one step, that of the end  *)
(* of the file.                                                            *)
(*                                                                         *)
(* What a walk predicts is module Backtest; here it is one of Walks: for a *)
(* model, the Brier score of its predictions, or NoPrediction.             *)
(***************************************************************************)
EXTENDS DataFiles

CONSTANTS Walks,        \* outcomes of the models' walks that are tried
          ModelOption,  \* values of --model that are tried
          MinTrain,     \* --min-train
          MaxRuns       \* bound: analyses

NoPrediction == -1
AllModelNames ==
    <<"elo", "logistic", "poisson", "gradient_boosting", "quantile", "ensemble">>

ASSUME CommandConstants ==
    /\ \A w \in Walks, m \in Range(AllModelNames) : w[m] \in Nat \union {NoPrediction}
    /\ ModelOption \subseteq Range(AllModelNames)
    /\ {MinTrain, MaxRuns} \subseteq Nat

VARIABLES job,          \* the command of the last analysis, and its sport
          loaded,       \* its games so far, and where its reader is (NoGames)
          walk,         \* what the models predict on them
          table,        \* <<model, Brier score>> of those that predicted
          left,         \* report files it has yet to write
          report,       \* report file -> the run that wrote it, whole or torn
          status,       \* "loading", "running", or how the last analysis ended
          runs

jobVars == <<job, loaded, walk, table, left, report, status, runs>>
cvars == <<dvars, jobVars>>

NoReport == [run |-> 0, torn |-> FALSE]
\* The games, what the file's writer had to write when it was opened for reading
\* and when it was last read, the rows of the latter that are before the reader's
\* offset, and whether its buffer ends inside the next.
NoGames == LET none == [rows |-> <<>>, source |-> "none", nr |-> 0]
           IN  [rows |-> <<>>, opened |-> none, of |-> none, at |-> 0, cut |-> FALSE]
NoWalk == [m \in Range(AllModelNames) |-> NoPrediction]
NoJob == [cmd |-> "none", soccer |-> FALSE, model |-> "none", files |-> <<>>]

CInit ==
    /\ DInit
    /\ job = NoJob /\ loaded = NoGames /\ walk = NoWalk /\ table = <<>>
    /\ left = <<>>
    /\ report = [f \in {"out", "json", "md"} |-> NoReport]
    /\ status = "none" /\ runs = 0

ModelsForSport(soccer) == SelectSeq(AllModelNames, LAMBDA m : soccer \/ m # "poisson")

\* _build_model_and_extractor, when it does not raise.
IsValid(soccer, m) == m \notin IF soccer THEN {"elo", "ensemble"} ELSE {"poisson"}

Predicts(m, rows, w) == Len(rows) > MinTrain /\ w[m] # NoPrediction

\* The loop over the models: one that is not for the sport is passed over, and
\* so is one without predictions.
Table(soccer, ms, rows, w) ==
    LET walked == SelectSeq(ms, LAMBDA m : IsValid(soccer, m) /\ Predicts(m, rows, w))
    IN  [i \in DOMAIN walked |-> <<walked[i], w[walked[i]]>>]

\* rows.sort(key=brier), which is stable.
Ranked(rows) ==
    LET Position(i) ==
            Cardinality({j \in DOMAIN rows : \/ rows[j][2] < rows[i][2]
                                             \/ rows[j][2] = rows[i][2] /\ j <= i})
    IN  [n \in DOMAIN rows |-> rows[CHOOSE i \in DOMAIN rows : Position(i) = n]]

\* Is there a row behind row n of the file, or its beginning?
RowBehind(n) ==
    \/ n < Len(csv.rows)
    \/ csv.torn # "no"
    \/ stage = "rows" /\ result # <<>>

\* A new process with its options: the command, the sport, the model, --output.
\* click refuses a path where there is no file, the script's open raises.
Process(cmd, soccer, m, output) ==
    /\ status \notin {"loading", "running"} /\ runs < MaxRuns
    /\ runs' = runs + 1
    /\ cmd \in {"compare", "report"} => m = "poisson"
    /\ cmd = "report" => soccer /\ output
    /\ job' = [cmd |-> cmd, soccer |-> soccer, model |-> m,
               files |-> IF ~output THEN <<>>
                         ELSE IF cmd = "report" THEN <<"json", "md">> ELSE <<"out">>]
    /\ \E cut \in BOOLEAN :
          /\ cut => RowBehind(0)
          /\ loaded' = [NoGames EXCEPT !.opened = intended, !.of = intended, !.cut = cut]
    /\ table' = <<>> /\ left' = <<>>
    /\ status' = IF csv.exists THEN "loading" ELSE "raised"
    /\ UNCHANGED <<dvars, walk, report>>

-----------------------------------------------------------------------------
(* The load.  The file is read through a buffer, and its writer may empty   *)
(* it and write it anew between two reads: the reader stays at its offset.  *)

Rewritten == intended # loaded.of

\* Is the file, as far as it goes, what the reader has read?
SameBeginning ==
    /\ loaded.of.source = intended.source
    /\ \A i \in 1 .. loaded.at : i <= Len(csv.rows) => csv.rows[i] = loaded.of.rows[i]

\* Rows that may be the one at the offset, or the end of the file.  Rows differ in
\* length, but what was read is more than the first: in a file of other rows the
\* offset is anywhere behind it.
AtOffset ==
    LET end == Len(csv.rows) + 1
    IN  IF loaded.at = 0 \/ SameBeginning THEN {Min({loaded.at + 1, end})}
        ELSE {end} \union 2 .. end

\* A row whose beginning is read from the file that was, and whose rest from the
\* file that is.
Joined(r) ==
    LET old == loaded.of.rows[loaded.at + 1]
    IN  {r} \union {[match |-> old.match, score |-> n] : n \in {old.score, r.score}}

Loading == status = "loading"
LoadVars == <<dvars, job, walk, table, left, report, runs>>

\* The next row, which is row n of the file.
Read(n, r) ==
    \E cut \in BOOLEAN :
        /\ cut => RowBehind(n)
        /\ loaded' = [loaded EXCEPT !.rows = Append(@, r), !.of = intended,
                                    !.at = n, !.cut = cut]

ReadOn ==
    /\ Loading /\ ~Rewritten
    /\ loaded.at < Len(csv.rows)
    /\ Read(loaded.at + 1, csv.rows[loaded.at + 1])
    /\ UNCHANGED <<LoadVars, status>>

ReadRewritten ==
    /\ Loading /\ Rewritten
    /\ \E n \in AtOffset \intersect DOMAIN csv.rows :
          \E r \in IF loaded.cut THEN Joined(csv.rows[n]) ELSE {csv.rows[n]} : Read(n, r)
    /\ UNCHANGED <<LoadVars, status>>

\* The row at the end of the file is cut: how?  Its writer flushes its buffer
\* anywhere, and so does a buffer that was read of a file before it was emptied.
CutAtEnd ==
    IF Rewritten THEN IF loaded.cut THEN Torn ELSE {"no"}
    ELSE IF stage = "rows" /\ result # <<>> THEN Torn ELSE {csv.torn}

AtEnd ==
    /\ Loading
    /\ IF Rewritten THEN Len(csv.rows) + 1 \in AtOffset ELSE loaded.at = Len(csv.rows)

\* A row lacks fields, and None or an empty string is no number, or what was
\* joined is none; or the model is not for the sport, which only compare catches.
Raises ==
    /\ Loading
    /\ \/ AtEnd /\ "fields" \in CutAtEnd
       \/ Rewritten
       \/ AtEnd /\ job.cmd # "compare" /\ ~IsValid(job.soccer, job.model)
    /\ status' = "raised"
    /\ loaded' = NoGames
    /\ UNCHANGED LoadVars

\* The end of the file.  One that is empty, or has a header alone, has no games.
\* A backtest without predictions is a report of no bets, the others exit 1.
Analyse ==
    /\ AtEnd
    /\ job.cmd = "compare" \/ IsValid(job.soccer, job.model)
    /\ \E cut \in CutAtEnd \ {"fields"} :
          loaded' = IF cut = "no" THEN loaded
                    ELSE [loaded EXCEPT !.rows = Append(@, loaded.of.rows[loaded.at + 1]),
                                        !.at = @ + 1]
    /\ walk' \in Walks
    /\ table' = Ranked(Table(job.soccer,
                             IF job.cmd = "compare" THEN ModelsForSport(job.soccer)
                             ELSE <<job.model>>,
                             loaded'.rows, walk'))
    /\ IF table' = <<>> /\ job.cmd # "backtest" THEN status' = "1" /\ left' = <<>>
       ELSE /\ left' = job.files
            /\ status' = IF job.files # <<>> THEN "running" ELSE "0"
    /\ UNCHANGED <<dvars, job, report, runs>>

-----------------------------------------------------------------------------
(* The report *)

\* The next report file is emptied and written; the last one ends the command.
WriteReport ==
    /\ status = "running"
    /\ report' = [report EXCEPT ![Head(left)] = [run |-> runs, torn |-> FALSE]]
    /\ left' = Tail(left)
    /\ status' = IF left' = <<>> THEN "0" ELSE "running"
    /\ UNCHANGED <<dvars, job, loaded, walk, table, runs>>

WriteFails(exit) ==
    /\ status = "running"
    /\ faults < MaxFaults /\ faults' = faults + 1
    /\ \/ UNCHANGED report
       \/ report' = [report EXCEPT ![Head(left)] = [run |-> runs, torn |-> TRUE]]
    /\ status' = exit /\ left' = <<>>
    /\ UNCHANGED <<score, caches, fetching, loops, games, since, returned, fetches,
                   FetchVars, job, loaded, walk, table, runs>>
ReportFailsQuietly == WriteFails("0")
\* open() or write() raises OSError: the CLI catches it and exits 1, the script
\* does not catch it.
ReportFails == WriteFails(IF job.cmd = "report" THEN "raised" ELSE "1")

\* relative_to(REPO_ROOT) of a path outside of it: ValueError, after the JSON.
OutsideRepo ==
    /\ status = "running" /\ left = <<"md">>
    /\ status' = "raised" /\ left' = <<>>
    /\ UNCHANGED <<dvars, job, loaded, walk, table, report, runs>>

CNext ==
    \/ DNext /\ UNCHANGED jobVars
    \/ \E cmd \in {"backtest", "calibrate", "compare", "report"}, soccer \in BOOLEAN,
          m \in ModelOption, output \in BOOLEAN :
          Process(cmd, soccer, m, output)
    \/ ReadOn \/ ReadRewritten \/ Raises \/ Analyse
    \/ WriteReport \/ ReportFails \/ OutsideRepo

CSpec == CInit /\ [][CNext]_cvars

-----------------------------------------------------------------------------
(* Properties *)

\* A fetch by season (base.py:65) or by competition (wpsl.py:57) that comes to
\* its end has every match listed there that was over when it began, if no answer
\* is capped: "no single season exceeds ~540 games" (asa.py:10).
SeasonsComplete ==
    stage = "open" /\ source \in {"asa_seasons", "wpsl"} =>
        \A s \in Season : \A e \in EventsOf[s] : \A m \in MatchesIn(e) :
            /\ source = "wpsl" => e \in MainEvent
            /\ source = "asa_seasons" => Cardinality(ListedIn(s)) <= Cap
            /\ since[m] >= Final
            => \E i \in DOMAIN result : result[i].match = m

\* What an analysis loads, whatever a fetch wrote, is writing, or failed to write
\* (cli.py:610, fetch_nfl_data.py:97), is the beginning of one fetch's games, in
\* the order of their dates, each match once: nothing that an earlier fetch, or
\* one that failed, left in the file.  A load that reads on in a file which was
\* emptied under it is not one of these: it is LoadedInFileOrder that speaks of it.
LoadedIsPrefix ==
    loaded.of = loaded.opened =>
        /\ IsPrefix(loaded.rows, loaded.of.rows)
        /\ InDateOrder(loaded.rows)
        /\ \A i, j \in DOMAIN loaded.rows :
              loaded.rows[i].match = loaded.rows[j].match => i = j

\* "List of HistoricalGame objects in file order" (loader.py:32): of the file as it
\* was opened, or as it was when it was last read.
LoadedInFileOrder ==
    \/ IsPrefix(loaded.rows, loaded.opened.rows)
    \/ IsPrefix(loaded.rows, loaded.of.rows)

\* Exit status 0 says that every report that was asked for is whole and of this
\* run (cli.py:239, :324, :460, mls_poisson_report.py:188): so a failure between
\* the JSON and the markdown report never passes for a pair that belongs together.
ReportsOfThisRun ==
    status = "0" => \A i \in DOMAIN job.files :
                        report[job.files[i]] = [run |-> runs, torn |-> FALSE]

=============================================================================
