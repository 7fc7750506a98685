--------------------------- MODULE ReleaseChecker ---------------------------
(***************************************************************************)
(* release-checker-api: asks GitHub for the latest release of each listed  *)
(* repository, a goroutine per entry of which a semaphore lets Concurrency *)
(* run, and hands the results to main over a channel without a buffer.     *)
(* Main counts them, reports, and exits with a code that says what it saw. *)
(***************************************************************************)
EXTENDS Integers, Sequences, FiniteSets, FiniteSetsExt

CONSTANTS
  List,          \* entries of -repos, in order; an entry may come twice
  WellFormed,    \* those of the form owner/repo
  CurrentMap,    \* entries of -current-map, in order: [repo, ver]
  Current,       \* -current
  Tags,          \* tags a latest release may have
  Concurrency,   \* -concurrency
  RetryFlags,    \* values of -retries
  OutdatedExit,  \* -outdated-exitcode
  None           \* no version given

VARIABLES
  retries,    \* -retries as given
  worker,     \* entry: "queued", "fetching", "backoff", "sending", "sent", "done"
  attempt,    \* entry: attempts that failed
  answer,     \* entry: the last answer of its fetches
  collected,  \* results main has received, in order
  tally,      \* main's counters and its exit code so far
  exit        \* the report and the code main exits with, once it does

vars == <<retries, worker, attempt, answer, collected, tally, exit>>

-----------------------------------------------------------------------------
(* Versions.  A text is [v, nums, pre, build]: a leading v, the numbers     *)
(* between dots (NotANumber for one that is none, 0 for an empty one), the  *)
(* rank in the order of Go's strings of the part after a dash (0 if there   *)
(* is none or nothing follows), and whether +build follows.                 *)

NotANumber == -1

normalizeVer(text) == [text EXCEPT !.v = FALSE, !.build = FALSE]

\* Missing numbers are zero and those after the third are dropped; the part
\* after a dash is cut off first, or the last number would be none.
DashNotCut(text) ==
  LET part(i) == IF i <= Len(text.nums) THEN text.nums[i] ELSE 0
  IN [Valid |-> text.pre = 0 /\ NotANumber \notin {part(i) : i \in 1 .. 3},
      Major |-> part(1), Minor |-> part(2), Patch |-> part(3), Pre |-> 0]
parseSemver(text) ==
  LET t == normalizeVer(text)
      part(i) == IF i <= Len(t.nums) THEN t.nums[i] ELSE 0
  IN [Valid |-> NotANumber \notin {part(i) : i \in 1 .. 3},
      Major |-> part(1), Minor |-> part(2), Patch |-> part(3), Pre |-> t.pre]

Sign(n) == IF n < 0 THEN -1 ELSE IF n > 0 THEN 1 ELSE 0

\* Without a pre-release is newer than with one, and of two pre-releases the
\* greater string: rc.9 is newer than rc.10.
compareSemver(a, b) ==
  IF a.Major # b.Major THEN Sign(a.Major - b.Major)
  ELSE IF a.Minor # b.Minor THEN Sign(a.Minor - b.Minor)
  ELSE IF a.Patch # b.Patch THEN Sign(a.Patch - b.Patch)
  ELSE IF a.Pre = 0 /\ b.Pre # 0 THEN 1
  ELSE IF a.Pre # 0 /\ b.Pre = 0 THEN -1
  ELSE Sign(a.Pre - b.Pre)

\* The last entry that names the repository and has a version counts.
parseCurrentMap(repo) ==
  LET entries == {i \in DOMAIN CurrentMap :
                    CurrentMap[i].repo = repo /\ CurrentMap[i].ver # None}
  IN IF entries = {} THEN None ELSE CurrentMap[Max(entries)].ver

CurrentOf(repo) ==
  IF parseCurrentMap(repo) # None THEN parseCurrentMap(repo) ELSE Current

\* Outdated is set only if there is a current version and both parse.
Outdated(repo, tag) ==
  /\ CurrentOf(repo) # None
  /\ LET cur == parseSemver(CurrentOf(repo))
         lat == parseSemver(tag)
     IN cur.Valid /\ lat.Valid /\ compareSemver(cur, lat) < 0

-----------------------------------------------------------------------------
Entries == DOMAIN List

\* What one request comes to: a release, or an HTTP status or none with an
\* error, transient if it is a timeout or temporary; reading the body of a
\* 200 may fail too.
NoAnswer == [status |-> 0, err |-> "unasked", tag |-> None]
Released == [status: {200}, err: {"none"}, tag: Tags]
NoText   == [v |-> FALSE, nums |-> <<>>, pre |-> 0, build |-> FALSE]
Unasked  == [status |-> 0, err |-> "none", tag |-> NoText]
Failed   == [status: {0, 200}, err: {"transient", "other"}, tag: {None}]
              \union [status: {403, 404, 429, 503}, err: {"other"}, tag: {None}]
Answers  == Released \union Failed

isRetryable(a) == a.status \in 500 .. 599 \/ a.err = "transient"

Ok(e) == answer[e].err = "none"
Result == [entry: Entries, ok: BOOLEAN, outdated: BOOLEAN]
NoExit == [code |-> -1, tests |-> 0, failures |-> 0]

TypeOK ==
  /\ worker \in [Entries -> {"queued", "fetching", "backoff", "sending", "sent", "done"}]
  /\ retries \in RetryFlags
  /\ attempt \in [Entries -> Nat] /\ \A e \in Entries : attempt[e] = 0 \/ attempt[e] <= retries
  /\ answer \in [Entries -> {NoAnswer, Unasked} \union Answers]
  /\ collected \in Seq(Result)
  /\ tally \in [ok: 0 .. Len(List), fail: 0 .. Len(List), outdated: 0 .. Len(List), code: {0, 1}]
  /\ exit \in [code: {-1, 0, 1, OutdatedExit}, tests: 0 .. Len(List), failures: 0 .. Len(List)]

\* The goroutine of an entry that is malformed has its result at once.
Init ==
  /\ worker = [e \in Entries |-> IF List[e] \in WellFormed THEN "queued" ELSE "sending"]
  /\ retries \in RetryFlags
  /\ attempt = [e \in Entries |-> 0]
  /\ answer = [e \in Entries |-> NoAnswer]
  /\ collected = <<>>
  /\ tally = [ok |-> 0, fail |-> 0, outdated |-> 0, code |-> 0]
  /\ exit = NoExit

Unreturned == {e \in Entries : List[e] \in WellFormed /\ worker[e] # "queued"}
Holders    == {e \in Entries : List[e] \in WellFormed /\ worker[e] \notin {"queued", "done"}}

Acquire(e) ==
  /\ worker[e] = "queued" /\ Cardinality(Holders) < Concurrency
  /\ worker' = [worker EXCEPT ![e] = "fetching"]
  /\ UNCHANGED <<retries, attempt, answer, collected, tally, exit>>

RetriesOnly(e, a) == ~isRetryable(a)
GivesUp(e, a)     == ~isRetryable(a) \/ attempt[e] = retries

fetchLatest(e) ==
  /\ worker[e] = "fetching" /\ attempt[e] <= retries
  /\ \E a \in Answers :
       /\ answer' = [answer EXCEPT ![e] = a]
       /\ worker' = [worker EXCEPT ![e] = IF a.err = "none" \/ GivesUp(e, a)
                                          THEN "sending" ELSE "backoff"]
  /\ UNCHANGED <<retries, attempt, collected, tally, exit>>

\* The sleep is over; the semaphore is kept through it.
Retry(e) ==
  /\ worker[e] = "backoff"
  /\ worker' = [worker EXCEPT ![e] = "fetching"]
  /\ attempt' = [attempt EXCEPT ![e] = @ + 1]
  /\ UNCHANGED <<retries, answer, collected, tally, exit>>

\* With retries below zero the loop does not run once: nothing is asked, and
\* what is returned is an empty release and no error.
NotAsked(e) ==
  /\ worker[e] = "fetching" /\ attempt[e] > retries
  /\ answer' = [answer EXCEPT ![e] = Unasked]
  /\ worker' = [worker EXCEPT ![e] = "sending"]
  /\ UNCHANGED <<retries, attempt, collected, tally, exit>>

fetchWithRetries(e) == fetchLatest(e) \/ NotAsked(e) \/ Retry(e)

ResultOf(e) == [entry |-> e, ok |-> Ok(e),
                outdated |-> Ok(e) /\ Outdated(List[e], answer[e].tag)]

Counted(r) == [ok       |-> tally.ok + (IF r.ok THEN 1 ELSE 0),
               fail     |-> tally.fail + (IF r.ok THEN 0 ELSE 1),
               outdated |-> tally.outdated + (IF r.ok /\ r.outdated THEN 1 ELSE 0),
               code     |-> IF r.ok THEN tally.code ELSE 1]

\* The goroutine and main meet at the channel.
Receive(e) ==
  /\ worker[e] = "sending"
  /\ worker' = [worker EXCEPT ![e] = "sent"]
  /\ collected' = Append(collected, ResultOf(e))
  /\ tally' = Counted(ResultOf(e))
  /\ UNCHANGED <<retries, attempt, answer, exit>>

Release(e) ==
  /\ worker[e] = "sent"
  /\ worker' = [worker EXCEPT ![e] = "done"]
  /\ UNCHANGED <<retries, attempt, answer, collected, tally, exit>>

\* An error counts before a version that is out of date.
ExitCode == IF tally.code = 0 /\ tally.outdated > 0 THEN OutdatedExit ELSE tally.code

\* wg.Wait is over and the channel closed: main reports, on the terminal and
\* as JUnit, where an outdated version is a failure too, and exits.
Exit ==
  /\ exit = NoExit /\ \A e \in Entries : worker[e] = "done"
  /\ exit' = [code     |-> ExitCode,
              tests    |-> tally.ok + tally.fail,
              failures |-> Cardinality({i \in DOMAIN collected :
                                          ~collected[i].ok \/ collected[i].outdated})]
  /\ UNCHANGED <<retries, worker, attempt, answer, collected, tally>>

Next == \/ \E e \in Entries : Acquire(e) \/ fetchWithRetries(e) \/ Receive(e) \/ Release(e)
        \/ Exit

\* Requests time out, sleeps end, and Go runs what can run.
Fairness == WF_vars(Next)

Spec == Init /\ [][Next]_vars /\ Fairness

-----------------------------------------------------------------------------
\* Which of two texts is the older version, read off the texts: the first of
\* the three numbers that differs decides, whatever stands around them; if none
\* does, a pre-release is older than none and than one greater as a string.
Number(text, i) == IF i \in DOMAIN text.nums THEN text.nums[i] ELSE 0
IsVersion(text) == \A i \in 1 .. 3 : Number(text, i) # NotANumber
Older(a, b) ==
  \/ \E i \in 1 .. 3 : /\ Number(a, i) < Number(b, i)
                        /\ \A j \in 1 .. i - 1 : Number(a, j) = Number(b, j)
  \/ /\ \A i \in 1 .. 3 : Number(a, i) = Number(b, i)
     /\ a.pre # 0 /\ (b.pre = 0 \/ a.pre < b.pre)

Behind(e) ==
  LET cur == CurrentOf(List[e])
      lat == answer[e].tag
  IN Ok(e) /\ cur # None /\ IsVersion(cur) /\ IsVersion(lat) /\ Older(cur, lat)

\* Whatever the order of the results: every entry is reported, the code is 1
\* if one failed, -outdated-exitcode if none did and one is behind, and else
\* 0; JUnit counts those that failed or are behind.  An entry that was never
\* asked about did not fail.
ReportIsRight ==
  exit # NoExit =>
    /\ exit.tests = Len(List)
    /\ exit.code = IF \E e \in Entries : ~Ok(e) THEN 1
                   ELSE IF \E e \in Entries : Behind(e) THEN OutdatedExit ELSE 0
    /\ exit.failures = Cardinality({e \in Entries : ~Ok(e) \/ Behind(e)})

\* What is to happen in the end.
Ended == exit # NoExit
=============================================================================
