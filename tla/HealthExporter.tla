--------------------------- MODULE HealthExporter ---------------------------
(***************************************************************************)
(* prometheus-healthcheck-exporter: a collector checks the configured      *)
(* entries in rounds, at most Concurrency at once, and stores each result  *)
(* under its URL as it comes; /metrics prints one copy of the store.  The  *)
(* same URL may be listed twice.                                           *)
(***************************************************************************)
EXTENDS Integers, FiniteSets

CONSTANTS
  Entries,      \* entries of -urls
  UrlOf,        \* entry to URL
  Concurrency,  \* -concurrency; main refuses less than one
  MaxRounds     \* bound: rounds

VARIABLES
  rounds,    \* rounds begun
  queued,    \* goroutines waiting for the semaphore: their entry and round
  checking,  \* goroutines that hold it
  results    \* URL to what is stored: up or not, and of which round

vars == <<rounds, queued, checking, results>>

-----------------------------------------------------------------------------
Urls == {UrlOf[e] : e \in Entries}
Goroutine == [entry: Entries, round: 1 .. MaxRounds]

TypeOK ==
  /\ rounds \in 0 .. MaxRounds
  /\ {queued, checking} \subseteq SUBSET Goroutine /\ Cardinality(checking) <= Concurrency
  /\ results \in [Urls -> [up: BOOLEAN, of: 0 .. MaxRounds]]

Init ==
  /\ rounds = 0 /\ queued = {} /\ checking = {}
  /\ results = [u \in Urls |-> [up |-> FALSE, of |-> 0]]

\* wg.Wait: the goroutines of the round before are done.
NotWaited == TRUE
Waited    == queued \union checking = {}

\* At the start and with every tick of the ticker.
runRound ==
  /\ Waited
  /\ rounds < MaxRounds
  /\ rounds' = rounds + 1
  /\ queued' = queued \union {[entry |-> e, round |-> rounds + 1] : e \in Entries}
  /\ UNCHANGED <<checking, results>>

Acquire(g) ==
  /\ g \in queued /\ Cardinality(checking) < Concurrency
  /\ queued' = queued \ {g} /\ checking' = checking \union {g}
  /\ UNCHANGED <<rounds, results>>

\* An answer of any status, or an error, at the latest after the timeout.
checkURL(g) ==
  /\ g \in checking /\ checking' = checking \ {g}
  /\ \E up \in BOOLEAN : results' = [results EXCEPT ![UrlOf[g.entry]] = [up |-> up, of |-> g.round]]
  /\ UNCHANGED <<rounds, queued>>

Next == runRound \/ \E g \in queued \union checking : Acquire(g) \/ checkURL(g)

Spec == Init /\ [][Next]_vars

-----------------------------------------------------------------------------
\* What a scrape prints: the URLs that have a result.
Snapshot == {u \in Urls : results[u].of > 0}

\* The results of one scrape are at most one round apart, however long the
\* slowest URL takes, and from the second round on none is missing.
ScrapeOfTwoRounds ==
  /\ \A u, v \in Snapshot : results[u].of - results[v].of <= 1
  /\ rounds > 1 => Snapshot = Urls
=============================================================================
