------------------------ MODULE MCDeployOrchestrator ------------------------
(***************************************************************************)
(* Small instances of DeployOrchestrator for TLC, and the statements of    *)
(* the documentation that the code does not keep.                          *)
(***************************************************************************)
EXTENDS DeployOrchestrator

CONSTANTS app, v1, v2, v3

Request(image, strategy, step, gate) ==
  [app |-> app, image |-> image, strategy |-> strategy, canaryStep |-> step,
   requireApproval |-> gate]

\* Every kind of request, for one deploy at a time.  Of 5 replicas a step of
\* 160, 320 and 420 percent is 8, 16 and 21, which an int32 of 16 values turns
\* into -8, 0 and 5; an int of 4096 values does not hold the 2100 or 2940 that
\* 420 percent of 5 or 7 begin with; and steps of 2 go from 6 past 7 to -8.
AllRequests ==
  {Request(v2, "canary", p, g) : p \in {0, 30, 40, 150, 160, 320, 420}, g \in BOOLEAN}
    \union {Request(v2, s, 0, g) : s \in {"bluegreen", "other"}, g \in BOOLEAN}

\* Two overlapping deploys of one app: a canary, a gated blue-green deploy and
\* a request whose strategy is unknown.
OverlappingRequests ==
  {Request(v2, "canary", 50, FALSE), Request(v3, "bluegreen", 0, TRUE),
   Request(v3, "other", 0, FALSE)}

\* Requests that have to be approved.
GatedRequests == {Request(v2, s, 50, TRUE) : s \in {"canary", "bluegreen"}}

\* Requests served at once.
UngatedRequests == {Request(v2, s, 40, FALSE) : s \in {"canary", "bluegreen"}}

-----------------------------------------------------------------------------
(* Statements of the documentation and of the code's own checks.           *)

\* approve takes effect only on a record that is waiting for one
\* (handleApprove answers "not waiting approval" otherwise).
ApproveOnlyWaiting ==
  [][\A d \in Deploys : db'[d].status = "running" =>
       db[d].status \in {"waiting_approval", "running"}]_db

\* Once approved, a deploy goes on and ends, unless the process goes away
\* ("libera quando requireApproval=true").
ApprovedIsReleased ==
  \A d \in Deploys : d \in approved ~> db[d].status \in Terminal \/ pc[d] = "killed"

\* A deploy recorded as rolled back has the previous image back in place
\* ("rollback automatico para a imagem anterior").
RolledBackIsRestored ==
  [][\A d \in Deploys :
       db[d].status # "rolled_back" /\ db'[d].status = "rolled_back" /\ rec[d].imageOld # None
       => obj[App(d)].image = rec[d].imageOld]_db

\* While the app's pods breach the thresholds the SLO check fails
\* ("Rollback automatico quando SLOs sao violados").
BadImages == {v2}
BreachIsNoticed ==
  [][\A d \in Deploys :
       pc[d] = "slo" /\ pc'[d] \notin {"slo", "killed"} /\ obj[App(d)].image \in BadImages
       => pc'[d] \in {"restoreGet", "fail"}]_pc

\* A canary that succeeded leaves the app with all its replicas, as the clamp
\* "if cur > replicas { cur = replicas }" in its loop intends.
CanaryEndsFull ==
  [][\A d \in Deploys :
       pc[d] = "succeed" /\ pc'[d] = "done" /\ input[d].strategy = "canary"
       => obj[App(d)].replicas = loop[d].replicas]_pc

-----------------------------------------------------------------------------
NoFirst   == {None}
WithFirst == {None, v3}
=============================================================================
