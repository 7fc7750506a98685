----------------------------- MODULE DiskMonitor -----------------------------
(***************************************************************************)
(* go-diskmonitor: a run measures a disk and writes the figure to a file   *)
(* for Prometheus; from a threshold on it looks for large directories,     *)
(* asks whether to empty the temporary ones, or does so unasked, and then  *)
(* measures and writes again.                                              *)
(***************************************************************************)
EXTENDS Integers, Sequences

CONSTANTS
  Threshold,    \* -threshold
  Percents,     \* figures a measurement may give
  Lines,        \* what stdin may hold: sequences of "yes", "no", "other"
  TempEntries,  \* entries the temporary directories may have
  Nothing       \* no figure

VARIABLES
  step,      \* "measure", "write", "compare", "ask", "list", "remove", "exit"
  auto,      \* -auto-clean
  stdin,     \* lines not read yet
  temp,      \* entries of the temporary directories
  doomed,    \* those read from the directories and not yet removed
  cleaned,   \* the directories have been gone through
  pct,       \* the last figure
  promFile   \* -prom-file: its figure, and whether the file is whole

vars == <<step, auto, stdin, temp, doomed, cleaned, pct, promFile>>

-----------------------------------------------------------------------------
TypeOK ==
  /\ step \in {"measure", "write", "compare", "ask", "list", "remove", "exit"}
  /\ {auto, cleaned} \subseteq BOOLEAN /\ stdin \in Seq({"yes", "no", "other"})
  /\ {temp, doomed} \subseteq SUBSET TempEntries
  /\ pct \in Percents \union {Nothing}
  /\ promFile \in [whole: BOOLEAN, pct: Percents \union {Nothing}]

Init ==
  /\ step = "measure" /\ auto \in BOOLEAN /\ stdin \in Lines
  /\ temp = TempEntries /\ doomed = {} /\ cleaned = FALSE
  /\ pct = Nothing /\ promFile = [whole |-> TRUE, pct |-> Nothing]

\* Before and after the cleaning; an error ends the run.
getDiskUsage ==
  /\ step = "measure"
  /\ \/ step' = "exit" /\ UNCHANGED pct
     \/ step' = "write" /\ pct' \in Percents
  /\ UNCHANGED <<auto, stdin, temp, doomed, cleaned, promFile>>

\* A file that cannot be created is reported and the run goes on.  Creating it
\* truncates it, and what cannot be written after that is not reported: the
\* file ends somewhere before its figures or after them.
writePrometheusFile ==
  /\ step = "write"
  /\ promFile' \in {promFile} \union [whole: BOOLEAN, pct: {pct}]
  /\ step' = IF cleaned THEN "exit" ELSE "compare"
  /\ UNCHANGED <<auto, stdin, temp, doomed, cleaned, pct>>

\* Below the threshold the run is over; otherwise the hotspots are listed.
Compare ==
  /\ step = "compare"
  /\ step' = IF pct < Threshold THEN "exit" ELSE IF auto THEN "list" ELSE "ask"
  /\ UNCHANGED <<auto, stdin, temp, doomed, cleaned, pct, promFile>>

\* Anything else than an answer is asked again, the end of the input too, and
\* that without end: reading it changes nothing.
askYesNo ==
  /\ step = "ask" /\ stdin # <<>>
  /\ stdin' = Tail(stdin)
  /\ step' = CASE Head(stdin) = "yes" -> "list" [] Head(stdin) = "no" -> "exit" [] OTHER -> "ask"
  /\ UNCHANGED <<auto, temp, doomed, cleaned, pct, promFile>>

\* The entries are read once; what cannot be removed is passed over.
ReadDirs ==
  /\ step = "list"
  /\ doomed' = temp /\ step' = "remove"
  /\ UNCHANGED <<auto, stdin, temp, cleaned, pct, promFile>>
Remove ==
  /\ step = "remove" /\ doomed # {}
  /\ \E e \in doomed : doomed' = doomed \ {e} /\ temp' \in {temp, temp \ {e}}
  /\ UNCHANGED <<step, auto, stdin, cleaned, pct, promFile>>
EndOfDirs ==
  /\ step = "remove" /\ doomed = {}
  /\ cleaned' = TRUE /\ step' = "measure"
  /\ UNCHANGED <<auto, stdin, temp, doomed, pct, promFile>>
cleanupTempDirs == ReadDirs \/ Remove \/ EndOfDirs

\* Other programs go on writing while the entries are removed.
OthersWrite ==
  /\ step # "exit"
  /\ \E e \in TempEntries \ temp : temp' = temp \union {e}
  /\ UNCHANGED <<step, auto, stdin, doomed, cleaned, pct, promFile>>

Run == getDiskUsage \/ writePrometheusFile \/ Compare \/ askYesNo \/ cleanupTempDirs

Next == Run \/ OthersWrite

Fairness == WF_vars(Run)

Spec == Init /\ [][Next]_vars /\ Fairness

-----------------------------------------------------------------------------
\* The run needs nothing from its input that is not there, and its end.
NeedsNoMore == auto \/ \E i \in DOMAIN stdin : stdin[i] # "other"
Ended == step = "exit"
=============================================================================
