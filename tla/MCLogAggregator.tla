-------------------------- MODULE MCLogAggregator --------------------------
(***************************************************************************)
(* LogAggregator with a ring of the events of its sources.                 *)
(***************************************************************************)
EXTENDS LogAggregator

MCEvents == [source: Files \union Stdins, n: 1 .. MaxEvents]
=============================================================================
