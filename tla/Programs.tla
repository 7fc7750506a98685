------------------------------ MODULE Programs ------------------------------
(***************************************************************************)
(* The programs that have a process of their own and little state: the     *)
(* status dashboard, go-sre-monitor's probe loop, the exporter,            *)
(* go-healthcheck's history file, release-checker-api, k8s-pod-restarter,  *)
(* go-access-auditor and go-diskmonitor.  They share nothing, so a         *)
(* behaviour runs one of them and the others stay as they start; a program *)
(* that does not run has one initial state.                                *)
(***************************************************************************)
EXTENDS StatusDashboard

CONSTANTS
  Probed, Timeouts, Interval, MaxClock,              \* ProbeLoop
  Listings, UrlOf, Concurrency,                      \* HealthExporter
  Appends,                                           \* HealthHistory
  Repos, WellFormed, CurrentMap, Current, Tags,      \* ReleaseChecker
  Fetchers, RetryFlags, OutdatedExit, Missing,
  Slots, Stable, Protected, Operations, Choices,     \* PodRestarter
  MaxTime, MaxPods,
  Commands, Sensitive, When, Ids, Queries, MaxOffset,  \* AccessAuditor
  Threshold, Percents, Inputs, TempEntries           \* DiskMonitor

ASSUME FlagsAssumption == TimeoutFlags # {} /\ RetryFlags # {}
ASSUME LoopAssumption == Timeouts \in [Probed -> Nat] /\ {Interval, MaxClock} \subseteq Nat
ASSUME ExporterAssumption == Concurrency \in Nat

\* A version may have any numbers between its dots, and some part after a dash.
VersionText == [v: BOOLEAN, nums: Seq(Int), pre: Nat, build: BOOLEAN]

ASSUME ReposAssumption   == Repos \in Seq(STRING) /\ RetryFlags \subseteq Int
ASSUME VersionAssumption == /\ Tags \subseteq VersionText
                            /\ Current \in VersionText \union {Missing}
                            /\ CurrentMap \in Seq([repo: STRING, ver: VersionText \union {Missing}])

\* A pod of a StatefulSet has its slot for a name, another one its uid.
ASSUME SlotsAssumption   == /\ IsFiniteSet(Slots) /\ Slots \intersect Nat = {}
                            /\ {MaxPods, MaxTime} \subseteq Nat /\ Cardinality(Slots) <= MaxPods
ASSUME ChoicesAssumption == Choices \subseteq [DryRun: BOOLEAN, Force: BOOLEAN, MaxAge: Nat]

\* A filter asks for a page of at most so many events, or of none: all of them.
ASSUME AuditorAssumption ==
  /\ IsFiniteSet(Ids) /\ Ids \subseteq Nat /\ MaxOffset \in Nat
  /\ Queries # {} /\ Queries \subseteq [Since: Int, SensitiveOnly: BOOLEAN, Limit: Nat]

ASSUME DiskAssumption == Inputs \subseteq Seq({"yes", "no", "other"})

VARIABLES
  program,                                          \* the one that runs
  now, due, probes, gauge, monitor,                 \* ProbeLoop
  rounds, queued, checking, results,                \* HealthExporter
  file, step, list, since, disturbed,               \* HealthHistory
  retries, worker, attempt, answer, collected, tally, exit,  \* ReleaseChecker
  age, pods, ending, created, todo,                 \* PodRestarter
  bucket, query, offset, page, there, seen,         \* AccessAuditor
  at, auto, stdin, temp, doomed, cleaned, pct, promFile  \* DiskMonitor

probing   == <<now, due, probes, gauge, monitor>>
exporting == <<rounds, queued, checking, results>>
appending == <<file, step, list, since, disturbed>>
releases  == <<retries, worker, attempt, answer, collected, tally, exit>>
cluster   == <<age, pods, ending, created, todo>>
auditing  == <<bucket, query, offset, page, there, seen>>
disk      == <<at, auto, stdin, temp, doomed, cleaned, pct, promFile>>
all == <<program, vars, probing, exporting, appending, releases, cluster, auditing, disk>>

-----------------------------------------------------------------------------
Loop     == INSTANCE ProbeLoop WITH Services <- Probed, MaxTime <- MaxClock, phase <- monitor
Exporter == INSTANCE HealthExporter WITH Entries <- Listings
History  == INSTANCE HealthHistory WITH Commands <- Appends
Checker  == INSTANCE ReleaseChecker WITH List <- Repos, Concurrency <- Fetchers, None <- Missing
Restarter == INSTANCE PodRestarter WITH now <- age
Auditor  == INSTANCE AccessAuditor
Disk     == INSTANCE DiskMonitor WITH step <- at, Lines <- Inputs, Nothing <- Missing

ProgramsInit ==
  /\ program \in {"dashboard", "loop", "exporter", "history", "checker", "restarter", "auditor", "disk"}
  /\ Init /\ Loop!Init /\ Exporter!Init /\ History!Init
  /\ Checker!Init /\ Restarter!Init /\ Auditor!Init /\ Disk!Init
  /\ program # "disk" => auto /\ stdin = <<>>
  /\ program # "dashboard" => timeout = CHOOSE t \in TimeoutFlags : TRUE
  /\ program # "checker" => retries = CHOOSE n \in RetryFlags : TRUE

ProgramsNext ==
  /\ UNCHANGED program
  /\ \/ /\ program = "dashboard" /\ Next
        /\ UNCHANGED <<probing, exporting, appending, releases, cluster, auditing, disk>>
     \/ /\ program = "loop" /\ Loop!Next
        /\ UNCHANGED <<vars, exporting, appending, releases, cluster, auditing, disk>>
     \/ /\ program = "exporter" /\ Exporter!Next
        /\ UNCHANGED <<vars, probing, appending, releases, cluster, auditing, disk>>
     \/ /\ program = "history" /\ History!Next
        /\ UNCHANGED <<vars, probing, exporting, releases, cluster, auditing, disk>>
     \/ /\ program = "checker" /\ Checker!Next
        /\ UNCHANGED <<vars, probing, exporting, appending, cluster, auditing, disk>>
     \/ /\ program = "restarter" /\ Restarter!Next
        /\ UNCHANGED <<vars, probing, exporting, appending, releases, auditing, disk>>
     \/ /\ program = "auditor" /\ Auditor!Next
        /\ UNCHANGED <<vars, probing, exporting, appending, releases, cluster, disk>>
     \/ /\ program = "disk" /\ Disk!Next
        /\ UNCHANGED <<vars, probing, exporting, appending, releases, cluster, auditing>>

\* The fairness of each program, while it is the one that runs.
ProgramsSpec == /\ ProgramsInit /\ [][ProgramsNext]_all
                /\ WF_vars(program = "dashboard" /\ Scheduler)
                /\ \A c \in Clients : WF_vars(program = "dashboard" /\ Handler(c))
                /\ WF_releases(program = "checker" /\ Checker!Next)
                /\ WF_disk(program = "disk" /\ Disk!Run)

-----------------------------------------------------------------------------
(* The properties of each, stated in its module.                            *)

NewestProbeWins    == Loop!NewestProbeWins
ScrapeOfTwoRounds  == Exporter!ScrapeOfTwoRounds
AppendKeepsHistory == History!AppendKeepsHistory
ReportIsRight      == Checker!ReportIsRight
EndsOnlyWhatItMay  == Restarter!EndsOnlyWhatItMay
PagerSeesAll       == Auditor!PagerSeesAll

\* release-checker-api ends, though its goroutines keep the semaphore while
\* they sleep and while they wait for main to take their result.  A run of
\* go-diskmonitor ends, however busy the temporary directories are, unless it
\* waits for an answer that is not on its input: then it asks for ever.
CommandsEnd ==
  (program = "checker" \/ (program = "disk" /\ Disk!NeedsNoMore)) => <>(Checker!Ended \/ Disk!Ended)

\* The types of all variables.
TypesOK == /\ TypeOK /\ Loop!TypeOK /\ Exporter!TypeOK /\ History!TypeOK
           /\ Checker!TypeOK /\ Restarter!TypeOK /\ Auditor!TypeOK /\ Disk!TypeOK
=============================================================================
