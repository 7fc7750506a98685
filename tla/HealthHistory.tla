---------------------------- MODULE HealthHistory ----------------------------
(***************************************************************************)
(* go-healthcheck: each run of the command checks a URL and appends the    *)
(* result to a JSON file by reading the whole list, adding to it, and      *)
(* writing the file anew, which truncates it first.  Runs may overlap, a   *)
(* read or a write may fail, and a run may be killed.                      *)
(***************************************************************************)
EXTENDS Integers, Sequences, FiniteSets

CONSTANT Commands   \* runs of the command; a run's result has its name

VARIABLES
  file,       \* what is in the file: "nothing", a "list", or "part" of one
  step,       \* run: "checking", "loaded", "truncated", "done", "killed"
  list,       \* run: the list it read, with its own result
  since,      \* history: the results written since the last disturbance
  disturbed   \* history: in the runs now under way one read while another
              \* was about to write, or did not write what it truncated

vars == <<file, step, list, since, disturbed>>

-----------------------------------------------------------------------------
Writing == {p \in Commands : step[p] \in {"loaded", "truncated"}}

TypeOK ==
  /\ file \in [is: {"nothing", "list", "part"}, results: Seq(Commands)]
  /\ step \in [Commands -> {"checking", "loaded", "truncated", "done", "killed"}]
  /\ list \in [Commands -> Seq(Commands)]
  /\ since \in Seq(Commands) /\ disturbed \in BOOLEAN

Nothing      == [is |-> "nothing", results |-> <<>>]
Part         == [is |-> "part", results |-> <<>>]
Whole(items) == [is |-> "list", results |-> items]

\* No file yet.
Init ==
  /\ file = Nothing
  /\ step = [p \in Commands |-> "checking"]
  /\ list = [p \in Commands |-> <<>>]
  /\ since = <<>> /\ disturbed = FALSE

\* A file that is missing or does not parse counts as an empty list.
LoadedNothing == <<>>
Loaded == IF file.is = "list" THEN file.results ELSE <<>>

\* The check is over, up or down, and the file is read; one that cannot be
\* read counts as an empty list, too.
Load(p) ==
  /\ step[p] = "checking"
  /\ step' = [step EXCEPT ![p] = "loaded"]
  /\ \E readable \in BOOLEAN :
       /\ list' = [list EXCEPT ![p] = Append(IF readable THEN Loaded ELSE <<>>, p)]
       /\ since' = IF disturbed \/ ~readable THEN <<>> ELSE since
  /\ disturbed' = (Writing # {})
  /\ UNCHANGED file

\* os.WriteFile opens the file truncated, and then writes it from the start:
\* over what another run has written in between, of which the end may remain.
Truncate(p) ==
  /\ step[p] = "loaded"
  /\ step' = [step EXCEPT ![p] = "truncated"]
  /\ file' = Nothing
  /\ UNCHANGED <<list, since, disturbed>>
Write(p) ==
  /\ step[p] = "truncated"
  /\ step' = [step EXCEPT ![p] = "done"]
  /\ file' \in {Whole(list[p])} \union (IF file = Nothing THEN {} ELSE {Part})
  /\ since' = Append(since, p)
  /\ UNCHANGED <<list, disturbed>>

\* The file cannot be opened, or it can be opened and not be written (a full
\* disk) or closed; the run says so and ends.
Refused(p) ==
  /\ step[p] = "loaded"
  /\ step' = [step EXCEPT ![p] = "done"]
  /\ UNCHANGED <<file, list, since, disturbed>>
WriteFails(p) ==
  /\ step[p] = "truncated"
  /\ step' = [step EXCEPT ![p] = "done"]
  /\ file' \in {file, Part, Whole(list[p])}
  /\ disturbed' = TRUE
  /\ UNCHANGED <<list, since>>

saveJSONAppend(p) == Load(p) \/ Truncate(p) \/ Write(p) \/ Refused(p) \/ WriteFails(p)

\* A run that is killed while it writes may have written a part.
Kill(p) ==
  /\ p \in Writing
  /\ step' = [step EXCEPT ![p] = "killed"]
  /\ file' \in {file} \union (IF step[p] = "truncated" THEN {Part} ELSE {})
  /\ disturbed' = (disturbed \/ step[p] = "truncated")
  /\ UNCHANGED <<list, since>>

Next == \E p \in Commands : saveJSONAppend(p) \/ Kill(p)

Spec == Init /\ [][Next]_vars

-----------------------------------------------------------------------------
EndsWith(items, end) ==
  /\ Len(end) <= Len(items)
  /\ \A i \in 1 .. Len(end) : items[Len(items) - Len(end) + i] = end[i]

\* "Append de JSON sem sobrescrever": what runs write one after the other
\* stays at the end of the file, in order.  Only a disturbance costs results,
\* and only those written before or during it: runs that overlap, a run killed
\* or failing between truncating the file and having written it, a file that
\* cannot be read.  The runs that come after one keep their results again,
\* whatever it left in the file.
AppendKeepsHistory == ~disturbed /\ Writing = {} => EndsWith(Loaded, since)
=============================================================================
