----------------------------- MODULE MCPrograms -----------------------------
(***************************************************************************)
(* A small instance, for TLC, of each of the Programs.                     *)
(***************************************************************************)
EXTENDS Programs

CONSTANTS
  slow, quick,        \* services of the probe loop
  db, agent,          \* slots of the cluster: StatefulSet, DaemonSet
  op1, op2,           \* operations on its pods
  ls, rm, cp,         \* commands, posted at the times 1, 2 and 1
  tmp1, tmp2          \* temporary entries

\* A timeout of two ticks, or none.
MCTimeoutFlags == {0, 2}

\* Every two ticks a probe; one service answers or fails within one tick, the
\* other has a timeout of three.
MCProbed   == {slow, quick}
MCTimeouts == [s \in MCProbed |-> IF s = slow THEN 3 ELSE 1]

\* Three entries for two URLs, two at a time.
MCListings == 1 .. 3
MCUrlOf    == <<"a", "b", "b">>

MCAppends == 1 .. 4

\* Two repositories and one malformed entry, one at a time, with one retry
\* or with -1.
\* v1.2-a of one, 1.2.0 of the other; releases 1.2.0+build, v1.2.0-b, and one
\* that is no version.
Text(v, nums, pre, build) == [v |-> v, nums |-> nums, pre |-> pre, build |-> build]
MCRetryFlags == {-1, 1}
MCRepos      == <<"a/a", "b/b", "c">>
MCWellFormed == {"a/a", "b/b"}
MCCurrentMap == <<[repo |-> "a/a", ver |-> Text(FALSE, <<9>>, 0, FALSE)],
                  [repo |-> "a/a", ver |-> Text(TRUE, <<1, 2>>, 1, FALSE)],
                  [repo |-> "a/a", ver |-> Missing]>>
MCCurrent == Text(FALSE, <<1, 2, 0, 7>>, 0, FALSE)
MCTags == {Text(FALSE, <<1, 2, 0>>, 0, TRUE), Text(TRUE, <<1, 2, 0>>, 2, FALSE),
           Text(FALSE, <<1, -1, 3>>, 0, FALSE), Text(TRUE, <<1, 3>>, 1, FALSE)}

\* Pods of a tick and older, or all of them; two operations at once.
MCSlots      == {db, agent}
MCStable     == {db}
MCProtected  == {agent}
MCOperations == {op1, op2}
MCChoices    == {[DryRun |-> FALSE, Force |-> FALSE, MaxAge |-> 1],
                 [DryRun |-> FALSE, Force |-> TRUE, MaxAge |-> 0],
                 [DryRun |-> TRUE, Force |-> FALSE, MaxAge |-> 0]}

\* Four ids, three commands; pages of one and two, and the export.
MCCommands  == {ls, rm, cp}
MCSensitive == {rm}
MCWhen      == [c \in MCCommands |-> IF c = rm THEN 2 ELSE 1]
MCIds       == 1 .. 4
MCQueries   == {[Since |-> 0, SensitiveOnly |-> FALSE, Limit |-> 2],
                [Since |-> 2, SensitiveOnly |-> FALSE, Limit |-> 1],
                [Since |-> 0, SensitiveOnly |-> TRUE, Limit |-> 2],
                [Since |-> 0, SensitiveOnly |-> FALSE, Limit |-> 0]}

\* Below the threshold, at it and above; an answer, an answer after something
\* else, or none.
MCPercents    == {79, 80, 95}
MCTempEntries == {tmp1, tmp2}
MCInputs      == {<<>>, <<"other">>, <<"yes">>, <<"other", "no">>}
=============================================================================
