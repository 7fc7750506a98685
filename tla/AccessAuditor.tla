---------------------------- MODULE AccessAuditor ----------------------------
(***************************************************************************)
(* go-access-auditor: agents post the commands people run, a processor     *)
(* flags those a rule matches and puts them into a bolt bucket under a     *)
(* random id, and GET /v1/events lists those that match a query, in pages. *)
(***************************************************************************)
EXTENDS Integers, Sequences, FiniteSets, SequencesExt

CONSTANTS
  Commands,   \* commands, with the user and the time the agent sends
  Sensitive,  \* those a rule matches
  When,       \* command to that time
  Ids,        \* ids there may be, in the order of the bucket's keys
  Queries,    \* filters of the pager: [Since, SensitiveOnly, Limit]
  MaxOffset   \* bound: how far a pager goes

VARIABLES
  bucket,  \* the bucket: id to [Command, FlagSensitive], for ids in use
  query,   \* filter of the pager
  offset,  \* of its next page
  page,    \* ids of its last page
  there,   \* history: ids that matched when it asked for the first page
  seen     \* history: ids in its pages

vars == <<bucket, query, offset, page, there, seen>>

-----------------------------------------------------------------------------
Event == [Command: Commands, FlagSensitive: BOOLEAN]

TypeOK ==
  /\ DOMAIN bucket \subseteq Ids /\ \A id \in DOMAIN bucket : bucket[id] \in Event
  /\ query \in Queries /\ offset \in 0 .. MaxOffset
  /\ page \in Seq(Ids) /\ {there, seen} \subseteq SUBSET Ids

Init ==
  /\ bucket = [id \in {} |-> 0]
  /\ query = CHOOSE q \in Queries : TRUE
  /\ offset = 0 /\ page = <<>>
  /\ there = {} /\ seen = {}

\* The first rule that matches, if any; which one is not told apart.
Match(c) == c \in Sensitive

\* Put, under twelve random hexadecimal digits, taken never to be those of an id
\* in use.
Handle ==
  /\ \E c \in Commands, id \in Ids \ DOMAIN bucket :
       bucket' = [i \in DOMAIN bucket \union {id} |->
                    IF i = id THEN [Command |-> c, FlagSensitive |-> Match(c)] ELSE bucket[i]]
  /\ UNCHANGED <<query, offset, page, there, seen>>

\* Host, Source, Text and Until are conditions of the same kind.
Selected(id, q) == /\ When[bucket[id].Command] >= q.Since
                   /\ q.SensitiveOnly => bucket[id].FlagSensitive

\* Cursor.Last and Cursor.Prev: before each id come those with a later key.
ByKey(S) == [i \in 1 .. Cardinality(S) |->
               CHOOSE id \in S : Cardinality({other \in S : other > id}) = i - 1]

\* The cursor starts at the last key and collects what is selected until
\* there is enough for the page, which is cut out last.  An offset at or past
\* the end is ignored.
Enough(q, off) == IF q.Limit > 0 THEN q.Limit + off ELSE Cardinality(Ids)
Found(q, off)  == LET all == ByKey({id \in DOMAIN bucket : Selected(id, q)})
                  IN SubSeq(all, 1, IF Enough(q, off) < Len(all) THEN Enough(q, off) ELSE Len(all))
FromNext(out, off) == IF off > 0 /\ off < Len(out) THEN SubSeq(out, off + 2, Len(out)) ELSE out
From(out, off) == IF off > 0 /\ off < Len(out) THEN SubSeq(out, off + 1, Len(out)) ELSE out
UpTo(out, lim) == IF lim > 0 /\ lim < Len(out) THEN SubSeq(out, 1, lim) ELSE out
List(q, off)   == UpTo(From(Found(q, off), off), q.Limit)

\* A client asks for page after page until one is not full, with the same
\* filter; a limit of zero is the export: all there is.
handleList(q, off) ==
  /\ query' = q /\ page' = List(q, off)
  /\ offset' = off + q.Limit /\ offset' <= MaxOffset
  /\ UNCHANGED bucket

FirstPage(q) ==
  /\ handleList(q, 0)
  /\ there' = {id \in DOMAIN bucket : Selected(id, q)} /\ seen' = ToSet(page')

NextPage ==
  /\ offset > 0 /\ Len(page) = query.Limit
  /\ handleList(query, offset)
  /\ seen' = seen \union ToSet(page') /\ UNCHANGED there

Next == Handle \/ (\E q \in Queries : FirstPage(q)) \/ NextPage

Spec == Init /\ [][Next]_vars

-----------------------------------------------------------------------------
\* Events that come between two pages get ids anywhere in the order, and an
\* offset past the end starts anew; still a client that stops at a page that
\* is not full has got every event that was there when it began.
PagerSeesAll == Len(page) # query.Limit => there \subseteq seen

\* "newest-first já garantido": a page is in the order of the times of its
\* events, the newest first.
NewestFirst ==
  \A i, j \in DOMAIN page : i < j => When[bucket[page[i]].Command] >= When[bucket[page[j]].Command]
=============================================================================
