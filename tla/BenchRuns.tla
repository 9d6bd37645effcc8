----------------------------- MODULE BenchRuns -----------------------------
(***************************************************************************)
(* Runs of memllm_benchmark.py, one after the other, with the results they *)
(* leave behind: a run drives one client of ApiHistory through its turns,  *)
(* then main reads the CSV file of earlier runs, replaces the rows of its  *)
(* own label, and save writes the file anew, in place.  A run may be       *)
(* killed at any moment, while it writes the file too.                     *)
(*                                                                         *)
(* A row is its label, its turn and its ok flag; the measurements are left *)
(* out, and so are the summary and the plots, which are computed from the  *)
(* rows.  Bound: Runs.                                                     *)
(***************************************************************************)
EXTENDS ApiHistory

CONSTANT Runs

VARIABLES
    run,      \* runs begun
    phase,    \* where the run is
    csv,      \* RAW_CSV
    existing  \* the rows of other labels that main has read back

benchVars == <<vars, run, phase, csv, existing>>

\* torn: the row is cut off within the line.
Row(label, n, t, ok) ==
    [label |-> label, run |-> n, turn |-> t, ok |-> ok, torn |-> FALSE]

\* What run_turns returns.
AllResults ==
    [t \in DOMAIN result |-> Row(api, run, t, result[t] = "answered")]

\* The rows that pass a test, in their order.
Selected(rows, Test(_)) ==
    FlattenSeq([i \in DOMAIN rows |-> IF Test(rows[i]) THEN <<rows[i]>> ELSE <<>>])

RowsOf(rows, label) ==
    Selected(rows, LAMBDA row : row.label = label /\ ~row.torn)

-----------------------------------------------------------------------------
\* A new process, with a new client.
StartRun ==
    /\ phase = "off"
    /\ run < Runs
    /\ run' = run + 1
    /\ phase' = "running"
    /\ api' \in Api
    /\ turn' = 0 /\ attempt' = 0 /\ pc' = "idle"
    /\ history' = <<>> /\ request' = <<>> /\ result' = <<>>
    /\ UNCHANGED <<csv, existing>>

Drive ==
    /\ phase = "running"
    /\ StartTurn \/ Post \/ Answered \/ Failed \/ RateLimited
    /\ UNCHANGED <<run, phase, csv, existing>>

\* Mutants: every row is read back; any text is true.
KeepAll(row) == TRUE
ReadTruthy(row) == [row EXCEPT !.ok = TRUE]

\* "skip old runs of same mode — replace them"
Kept(row) == row.label # api

\* The flag is the text "True" or "False" in the file.
ReadBack(row) ==
    LET text == IF row.ok THEN "True" ELSE "False"
    IN  [row EXCEPT !.ok = text = "True"]

\* The fields of a torn row do not convert.
Unreadable(row) == row.torn /\ Kept(row)

AllTurnsRun == phase = "running" /\ pc = "idle" /\ turn = Turns

Merge ==
    /\ AllTurnsRun
    /\ \A i \in DOMAIN csv : ~Unreadable(csv[i])
    /\ LET others == Selected(csv, Kept)
       IN  existing' = [i \in DOMAIN others |-> ReadBack(others[i])]
    /\ phase' = "saving"
    /\ UNCHANGED <<vars, run, csv>>

\* The process ends: by an exception that nothing catches, or killed.
EndRun(how) ==
    /\ phase' = how
    /\ existing' = <<>>
    /\ UNCHANGED <<vars, run>>

MergeRaises ==
    /\ AllTurnsRun
    /\ \E i \in DOMAIN csv : Unreadable(csv[i])
    /\ EndRun("off")
    /\ UNCHANGED csv

Save ==
    /\ phase = "saving"
    /\ csv' = existing \o AllResults
    /\ EndRun("off")

\* Killed with the file truncated: some rows have reached it, and a part of
\* one more, perhaps not even its whole label.  Cut off in its flag, a row is
\* read as one that failed.
Cut(row) ==
    {[row EXCEPT !.torn = TRUE],
     [row EXCEPT !.torn = TRUE, !.label = "cut"],
     [row EXCEPT !.ok = FALSE]}

SaveKilled ==
    /\ phase = "saving"
    /\ LET rows == existing \o AllResults
       IN  \E n \in 0 .. Len(rows) - 1 :
              \/ csv' = SubSeq(rows, 1, n)
              \/ \E row \in Cut(rows[n + 1]) :
                    csv' = Append(SubSeq(rows, 1, n), row)
    /\ EndRun("killed")

Killed ==
    /\ phase \in {"running", "saving"}
    /\ EndRun("killed")
    /\ UNCHANGED csv

\* The next run may be started.
Bury ==
    /\ phase = "killed"
    /\ EndRun("off")
    /\ UNCHANGED csv

AllRun == phase = "off" /\ run = Runs /\ UNCHANGED benchVars

BenchInit ==
    /\ Init
    /\ run = 0
    /\ phase = "off"
    /\ csv = <<>>
    /\ existing = <<>>

BenchNext ==
    \/ StartRun
    \/ Drive
    \/ Merge
    \/ MergeRaises
    \/ Save
    \/ SaveKilled
    \/ Killed
    \/ Bury
    \/ AllRun

BenchSpec == BenchInit /\ [][BenchNext]_benchVars

-----------------------------------------------------------------------------
(* Properties *)

\* The rows of a label are those of one run, from its first turn on, whatever
\* was killed: the file never mixes two runs of a client.
OneRunPerLabel ==
    \A label \in Api :
        LET rows == RowsOf(csv, label)
        IN  \A i \in DOMAIN rows : rows[i].turn = i /\ rows[i].run = rows[1].run

\* A run that is not killed while it saves changes the rows of its own label
\* only, to its own results; those of other labels stay as they are, through
\* any number of readings and writings of the file.
OthersKept ==
    [][phase' # "killed" =>
          \A label \in Api :
              RowsOf(csv', label) =
                  IF label = api THEN AllResults ELSE RowsOf(csv, label)]_csv
=============================================================================
