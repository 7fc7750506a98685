-------------------------- MODULE DeployLifecycle --------------------------
(***************************************************************************)
(* What go-deploy-orchestrator does to the status of a deploy, seen from   *)
(* GET /deploys/{id}: a deploy is started, waits for approval and is       *)
(* released when it asked for one, and ends succeeded or rolled back, once.*)
(* A status that has been final can change again in one way only: by an    *)
(* approval that was under way when another one released the deploy.       *)
(***************************************************************************)
CONSTANTS Deploys

VARIABLES
  status,  \* the status GET /deploys/{id} reports, "none" before the deploy
  gated,   \* deploys that require an approval
  late,    \* deploys with an approval under way that another has overtaken
  ended    \* deploys whose goroutine has stored its final status

Init ==
  /\ status = [d \in Deploys |-> "none"]
  /\ gated = {}
  /\ late = {}
  /\ ended = {}

Move(d, from, to) ==
  /\ status[d] = from
  /\ status' = [status EXCEPT ![d] = to]

Create(d) ==
  /\ Move(d, "none", "started")
  /\ gated' \in {gated, gated \union {d}}
  /\ UNCHANGED <<late, ended>>

Park(d) ==
  /\ d \in gated
  /\ Move(d, "started", "waiting_approval")
  /\ UNCHANGED <<gated, late, ended>>

\* The approval that releases the deploy may overtake another.
Release(d) ==
  /\ d \in gated
  /\ Move(d, "waiting_approval", "running")
  /\ late' \in {late, late \union {d}}
  /\ UNCHANGED <<gated, ended>>

\* Only a deploy that needs no approval ends without having been released.
Finish(d) ==
  /\ d \notin ended
  /\ ended' = ended \union {d}
  /\ \E to \in {"succeeded", "rolled_back"} :
       Move(d, IF d \in gated THEN "running" ELSE "started", to)
  /\ UNCHANGED <<gated, late>>

\* An overtaken approval says "running" of a deploy that may have ended.
Reopen(d) ==
  /\ d \in late
  /\ status[d] \in {"running", "succeeded", "rolled_back"}
  /\ status' = [status EXCEPT ![d] = "running"]
  /\ late' \in {late, late \ {d}}
  /\ UNCHANGED <<gated, ended>>

\* The approvals under way go away with the process.
Forget ==
  /\ late' = {}
  /\ UNCHANGED <<status, gated, ended>>

Next ==
  \/ \E d \in Deploys : Create(d) \/ Park(d) \/ Release(d) \/ Finish(d) \/ Reopen(d)
  \/ Forget

Spec == Init /\ [][Next]_<<status, gated, late, ended>>
=============================================================================
