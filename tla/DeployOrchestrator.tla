------------------------- MODULE DeployOrchestrator -------------------------
(***************************************************************************)
(* go-deploy-orchestrator: POST /deploys stores a record and starts one    *)
(* goroutine (Orchestrator.run) that snapshots the app's image, waits for  *)
(* an approval when the request asks for one, applies a canary or blue-    *)
(* green strategy to the app's Kubernetes Deployment, and finally stores   *)
(* "succeeded" or, after trying to restore the snapshot, "rolled_back".    *)
(* POST /deploys/{id}/approve is a read-modify-write of the stored record. *)
(*                                                                         *)
(* The goroutine runs under the context of the HTTP request that started   *)
(* it, which net/http cancels when the handler returns; from then on every *)
(* call it makes to the API server fails.                                  *)
(*                                                                         *)
(* Several deploys and several approvers run at once; every access to the  *)
(* store or to the API server is a step of its own.                        *)
(***************************************************************************)
EXTENDS Integers, CanarySchedule

CONSTANTS
  Deploys,        \* ids of the deploys clients may start
  Approvers,      \* concurrent calls of the approve handler
  Apps,           \* names of Kubernetes Deployments
  Images,         \* container images
  FirstImages,    \* images of a container that precedes the app's, None: no such container
  ReplicaCounts,  \* spec.replicas an app may have before the first deploy
  Requests,       \* the request bodies clients may send
  ConfiguredStep, \* cfg.Defaults.CanaryStepPercent
  None            \* the empty ImageOld, a record or object not there

Strategies == {"canary", "bluegreen", "other"}

DeployInput ==
  [app: Apps, image: Images, strategy: Strategies, canaryStep: Int,
   requireApproval: BOOLEAN]

ASSUME RequestsAssumption   == Requests \subseteq DeployInput
ASSUME NoneAssumption       == None \notin Images /\ None \notin Deploys /\ None \notin Requests
ASSUME FirstAssumption      == FirstImages \subseteq Images \union {None}
ASSUME ReplicasAssumption   == ReplicaCounts \subseteq 0..MaxInt32
ASSUME ConfiguredAssumption == ConfiguredStep \in Int

VARIABLES
  db,        \* the BoltDB bucket "deploys": the record stored for each id
  input,     \* the fields of a record that only the request sets
  rec,       \* each goroutine's own copy of its record
  pc,        \* where each goroutine is
  loop,      \* RunCanary's locals replicas, step and cur
  ctxDone,   \* deploys whose request context has been cancelled
  obj,       \* the Deployment objects in the API server
  held,      \* the object a goroutine has read and is about to send back
  fresh,     \* deploys whose held object has the current resourceVersion
  approver,  \* the record each approve handler is about to store
  approved,  \* history: deploys for which an approver has stored "running"
  overtaken, \* history: deploys whose app another deploy has given another image
             \* since they took their snapshot or set their own image
  had        \* history: the replica count each app had before the first deploy

cluster  == <<obj, held, fresh, overtaken, had>>
approval == <<approver, approved>>
vars     == <<db, input, rec, pc, loop, ctxDone, cluster, approval>>

-----------------------------------------------------------------------------
Status   == {"none", "started", "waiting_approval", "running", "succeeded", "rolled_back"}
Terminal == {"succeeded", "rolled_back"}

Record     == [status: Status, imageOld: Images \union {None}]
NoRecord   == [status |-> "none", imageOld |-> None]
\* image is what SetImage writes (the container named after the app, or the
\* first one); first is the image of another container listed before it.
Deployment == [image: Images \union {None}, first: Images \union {None}, replicas: 0..MaxInt32]
NoObject   == [image |-> None, first |-> None, replicas |-> 0]
NoCall     == [id |-> None, record |-> NoRecord]
NoLoop     == [replicas |-> 0, step |-> 1, cur |-> 1]

Waiting  == {"wait", "checkCtx"}
Acting   == {"setGet", "setPut", "discover", "scaleGet", "scalePut", "rollout",
             "slo", "succeed", "restoreGet", "restorePut", "fail"}
Ended    == {"done", "gaveUp", "killed"}
Location == {"idle", "snapshot", "park"} \union Waiting \union Acting \union Ended

TypeOK ==
  /\ db \in [Deploys -> Record]
  /\ input \in [Deploys -> Requests \union {None}]
  /\ rec \in [Deploys -> Record]
  /\ pc \in [Deploys -> Location]
  /\ loop \in [Deploys -> [replicas: 0..MaxInt32, step: Int32, cur: Int32]]
  /\ ctxDone \subseteq Deploys
  /\ obj \in [Apps -> Deployment]
  /\ held \in [Deploys -> Deployment]
  /\ fresh \subseteq Deploys
  /\ approver \in [Approvers -> [id: Deploys \union {None}, record: Record]]
  /\ approved \subseteq Deploys
  /\ overtaken \subseteq Deploys
  /\ had \in [Apps -> 0..MaxInt32]

Init ==
  /\ db       = [d \in Deploys |-> NoRecord]
  /\ input    = [d \in Deploys |-> None]
  /\ rec      = [d \in Deploys |-> NoRecord]
  /\ pc       = [d \in Deploys |-> "idle"]
  /\ loop     = [d \in Deploys |-> NoLoop]
  /\ ctxDone  = {}
  /\ obj \in [Apps -> [image: Images, first: FirstImages, replicas: ReplicaCounts]]
  /\ held     = [d \in Deploys |-> NoObject]
  /\ fresh    = {}
  /\ approver = [a \in Approvers |-> NoCall]
  /\ approved = {}
  /\ overtaken = {}
  /\ had      = [a \in Apps |-> obj[a].replicas]

-----------------------------------------------------------------------------
(* Steps of a goroutine.                                                   *)

At(d, from)      == pc[d] = from
Goto(d, to)      == pc' = [pc EXCEPT ![d] = to]
App(d)           == input[d].app

\* store.Put of the goroutine's record, after changing its status.
PutStatus(d, status) ==
  /\ rec' = [rec EXCEPT ![d].status = status]
  /\ db'  = [db EXCEPT ![d] = rec'[d]]

\* A call to the API server can succeed only while the context is live.
CanCall(d) == d \notin ctxDone

\* rollback: without a snapshot there is nothing to restore.
Rollback(d) == IF rec[d].imageOld = None THEN "fail" ELSE "restoreGet"

\* applyStrategy: an unknown strategy is an error, hence a rollback.
Begin(d, record) ==
  IF input[d].strategy # "other" THEN "setGet"
  ELSE IF record.imageOld = None THEN "fail" ELSE "restoreGet"

\* cs.Get before cs.Update: the object is held with its resourceVersion.
Read(d, from, to, onError) ==
  /\ At(d, from)
  /\ \/ /\ CanCall(d)
        /\ held'  = [held EXCEPT ![d] = obj[App(d)]]
        /\ fresh' = fresh \union {d}
        /\ Goto(d, to)
     \/ /\ Goto(d, onError)
        /\ UNCHANGED <<held, fresh>>
  /\ UNCHANGED <<db, input, rec, loop, ctxDone, obj, overtaken, had, approval>>

\* The other deploys of the app, when what d stores has another image.
Outdated(d, new) ==
  {e \in Deploys \ {d} : pc[e] # "idle" /\ App(e) = App(d) /\ new.image # obj[App(d)].image}

Overtake(d, new) ==
  overtaken' = (IF At(d, "setPut") THEN overtaken \ {d} ELSE overtaken) \union Outdated(d, new)

\* Variant: an Update sent without a resourceVersion is never refused.
StoreUnconditionally(d, new) ==
  /\ new.replicas >= 0
  /\ obj' = [obj EXCEPT ![App(d)] = new]
  /\ fresh' = IF new = obj[App(d)] THEN fresh \ {d}
              ELSE {e \in fresh : App(e) # App(d)}
  /\ Overtake(d, new)

\* The API server stores the object only if the version sent is the current
\* one and the replica count is not negative; a change makes every copy other
\* goroutines hold stale.  An Update of an unchanged object leaves its version
\* alone.
Store(d, new) ==
  /\ d \in fresh
  /\ new.replicas >= 0
  /\ obj' = [obj EXCEPT ![App(d)] = new]
  /\ fresh' = IF new = obj[App(d)] THEN fresh \ {d}
              ELSE {e \in fresh : App(e) # App(d)}
  /\ Overtake(d, new)

\* cs.Update: it may succeed, fail with no effect (conflict, refused count,
\* cancelled context, unreachable server), or take effect and still report an error.
Write(d, from, new, to, onError) ==
  /\ At(d, from)
  /\ \/ CanCall(d) /\ Store(d, new) /\ Goto(d, to)
     \/ Store(d, new) /\ Goto(d, onError)
     \/ /\ Goto(d, onError)
        /\ fresh' = fresh \ {d}
        /\ UNCHANGED <<obj, overtaken>>
  /\ held' = [held EXCEPT ![d] = NoObject]
  /\ UNCHANGED <<db, input, rec, loop, ctxDone, had, approval>>

\* handleStart and StartDeploy: the record is stored, the goroutine started.
StartDeploy(d, request) ==
  /\ At(d, "idle")
  /\ input' = [input EXCEPT ![d] = request]
  /\ PutStatus(d, "started")
  /\ Goto(d, "snapshot")
  /\ UNCHANGED <<loop, ctxDone, cluster, approval>>

\* handleStart returns: net/http cancels the context the goroutine runs under.
ReturnHandler(d) ==
  /\ pc[d] # "idle" /\ d \notin ctxDone
  /\ ctxDone' = ctxDone \union {d}
  /\ UNCHANGED <<db, input, rec, pc, loop, cluster, approval>>

\* Variant: the record keeps the requested image as the old one.
SnapshotOfRequest(d) == input[d].image

\* ImageOld is the image of the first container.
SnapshotOf(d) == IF obj[App(d)].first = None THEN obj[App(d)].image ELSE obj[App(d)].first

\* The snapshot; a failed Get is ignored and leaves ImageOld empty.  The Put
\* that follows is merged with the Get: nobody else touches a record that is
\* "started".
Snapshot(d) ==
  /\ At(d, "snapshot")
  /\ \/ /\ CanCall(d)
        /\ rec' = [rec EXCEPT ![d].imageOld = SnapshotOf(d)]
        /\ db'  = [db EXCEPT ![d] = rec'[d]]
        /\ overtaken' = overtaken \ {d}
     \/ UNCHANGED <<rec, db, overtaken>>
  /\ Goto(d, IF input[d].requireApproval THEN "park" ELSE Begin(d, rec'[d]))
  /\ UNCHANGED <<input, loop, ctxDone, obj, held, fresh, had, approval>>

Park(d) ==
  /\ At(d, "park")
  /\ PutStatus(d, "waiting_approval")
  /\ Goto(d, "wait")
  /\ UNCHANGED <<input, loop, ctxDone, cluster, approval>>

\* Variant: any status but "started" releases the deploy.
ReleasedEarly(d) == db[d].status # "started"

\* The condition on which the approval loop breaks.
Released(d) == db[d].status = "running"

\* One turn of the approval loop: Get, leave when the status is "running".
PollApproval(d) ==
  /\ At(d, "wait")
  /\ Goto(d, IF Released(d) THEN Begin(d, rec[d]) ELSE "checkCtx")
  /\ UNCHANGED <<db, input, rec, loop, ctxDone, cluster, approval>>

\* Variant: the loop never looks at the context.
CheckNothing(d) ==
  /\ At(d, "checkCtx")
  /\ Goto(d, "wait")
  /\ UNCHANGED <<db, input, rec, loop, ctxDone, cluster, approval>>

\* ... and then, the status already read, return when the context is done.
CheckContext(d) ==
  /\ At(d, "checkCtx")
  /\ Goto(d, IF d \in ctxDone THEN "gaveUp" ELSE "wait")
  /\ UNCHANGED <<db, input, rec, loop, ctxDone, cluster, approval>>

-----------------------------------------------------------------------------
(* The strategies.                                                         *)

SetImageGet(d) == Read(d, "setGet", "setPut", Rollback(d))

\* Where the strategies go on after SetImage.
AfterSetImage(d) == IF input[d].strategy = "canary" THEN "discover" ELSE "rollout"

\* Variant: the strategies ignore the error SetImage returns.
SetImagePutUnchecked(d) ==
  Write(d, "setPut", [held[d] EXCEPT !.image = input[d].image], AfterSetImage(d), AfterSetImage(d))

SetImagePut(d) ==
  Write(d, "setPut", [held[d] EXCEPT !.image = input[d].image],
        AfterSetImage(d), Rollback(d))

\* RunCanary reads the replica count and enters its loop, if it enters it.
Discover(d) ==
  /\ At(d, "discover")
  /\ \/ /\ CanCall(d)
        /\ LET total == obj[App(d)].replicas
               step  == Step(total, StepPercent(input[d].canaryStep, ConfiguredStep))
           IN  /\ loop' = [loop EXCEPT ![d] = [replicas |-> total, step |-> step, cur |-> step]]
               /\ Goto(d, IF InLoop(step, total) THEN "scaleGet" ELSE "succeed")
     \/ Goto(d, Rollback(d)) /\ UNCHANGED loop
  /\ UNCHANGED <<db, input, rec, ctxDone, cluster, approval>>

ScaleGet(d) == Read(d, "scaleGet", "scalePut", Rollback(d))

ScalePut(d) ==
  Write(d, "scalePut", [held[d] EXCEPT !.replicas = loop[d].cur], "rollout", Rollback(d))

\* WaitRollout: the rollout completes, or a Get fails, or five minutes pass.
WaitRollout(d) ==
  /\ At(d, "rollout")
  /\ \/ CanCall(d) /\ Goto(d, "slo")
     \/ Goto(d, Rollback(d))
  /\ UNCHANGED <<db, input, rec, loop, ctxDone, cluster, approval>>

\* What QueryRange returns for the queries the strategies send: vector(0) is
\* 0, and an error or an empty result is reported as 0 too.
QueryRange == 0

\* The thresholds are compared when they are positive.
MaxError   == 1
PassSLOs   == ~(MaxError > 0 /\ QueryRange > MaxError)

\* The SLO check that ends a canary step or the blue-green probe wait.
CheckSLOs(d) ==
  LET next == Advance(loop[d].cur, loop[d].step)
      more == input[d].strategy = "canary" /\ InLoop(next, loop[d].replicas)
  IN  /\ At(d, "slo")
      /\ Goto(d, IF ~PassSLOs THEN Rollback(d) ELSE IF more THEN "scaleGet" ELSE "succeed")
      /\ loop' = IF PassSLOs /\ more THEN [loop EXCEPT ![d].cur = next] ELSE loop
      /\ UNCHANGED <<db, input, rec, ctxDone, cluster, approval>>

Succeed(d) ==
  /\ At(d, "succeed")
  /\ PutStatus(d, "succeeded")
  /\ Goto(d, "done")
  /\ UNCHANGED <<input, loop, ctxDone, cluster, approval>>

-----------------------------------------------------------------------------
(* rollback: SetImage(ImageOld) and WaitRollout, whose errors are ignored  *)
(* (the wait changes nothing and is not a step), then the final Put.       *)

RestoreGet(d) == Read(d, "restoreGet", "restorePut", "fail")

RestorePut(d) ==
  Write(d, "restorePut", [held[d] EXCEPT !.image = rec[d].imageOld], "fail", "fail")

RolledBack(d) ==
  /\ At(d, "fail")
  /\ PutStatus(d, "rolled_back")
  /\ Goto(d, "done")
  /\ UNCHANGED <<input, loop, ctxDone, cluster, approval>>

-----------------------------------------------------------------------------
(* handleApprove: Get the record, refuse it unless it is waiting, and Put  *)
(* the copy back with status "running".                                    *)

\* Variant: approve accepts a record in any status.
ApprovableAlways(d) == db[d].status # "none"

Approvable(d) == db[d].status = "waiting_approval"

ApproveRead(a, d) ==
  /\ approver[a] = NoCall
  /\ Approvable(d)
  /\ approver' = [approver EXCEPT ![a] = [id |-> d, record |-> [db[d] EXCEPT !.status = "running"]]]
  /\ UNCHANGED <<db, input, rec, pc, loop, ctxDone, cluster, approved>>

ApprovePut(a) ==
  /\ approver[a] # NoCall
  /\ db' = [db EXCEPT ![approver[a].id] = approver[a].record]
  /\ approved' = approved \union {approver[a].id}
  /\ approver' = [approver EXCEPT ![a] = NoCall]
  /\ UNCHANGED <<input, rec, pc, loop, ctxDone, cluster>>

\* The process ends (SIGTERM makes ListenAndServe return and main exit, or a
\* crash) and starts again: the goroutines are gone and nothing resumes them.
Restart ==
  /\ pc' = [d \in Deploys |-> IF pc[d] \in {"idle", "done", "gaveUp"} THEN pc[d] ELSE "killed"]
  /\ ctxDone'  = {d \in Deploys : pc[d] # "idle"}
  /\ held'     = [d \in Deploys |-> NoObject]
  /\ fresh'    = {}
  /\ approver' = [a \in Approvers |-> NoCall]
  /\ UNCHANGED <<db, input, rec, loop, obj, approved, overtaken, had>>

-----------------------------------------------------------------------------
Run(d) ==
  \/ Snapshot(d)    \/ Park(d)        \/ PollApproval(d) \/ CheckContext(d)
  \/ SetImageGet(d) \/ SetImagePut(d) \/ Discover(d)
  \/ ScaleGet(d)    \/ ScalePut(d)    \/ WaitRollout(d)  \/ CheckSLOs(d)
  \/ Succeed(d)     \/ RestoreGet(d)  \/ RestorePut(d)   \/ RolledBack(d)

Approve(a) == ApprovePut(a) \/ \E d \in Deploys : ApproveRead(a, d)

Next ==
  \/ \E d \in Deploys, request \in Requests : StartDeploy(d, request)
  \/ \E d \in Deploys : Run(d) \/ ReturnHandler(d)
  \/ \E a \in Approvers : Approve(a)
  \/ Restart

Spec == Init /\ [][Next]_vars

\* The Go scheduler runs every goroutine and every handler that can run, and
\* each call has a timeout; clients and restarts are not fair.
Fairness ==
  /\ \A d \in Deploys : WF_vars(Run(d)) /\ WF_vars(ReturnHandler(d))
  /\ \A a \in Approvers : WF_vars(ApprovePut(a))

FairSpec == Spec /\ Fairness

-----------------------------------------------------------------------------
(* Properties.                                                             *)

\* A deploy that asked for approval does not touch the cluster before some
\* approver has released it (run's approval loop, orchestrator.go:72-82).
ApprovalGate ==
  \A d \in Deploys :
    pc[d] \in Acting \union {"done"} /\ input[d].requireApproval => d \in approved

\* An update changes one field of the Deployment: a goroutine that writes
\* back the object it read some steps ago never undoes what another deploy
\* changed in between (SetImage and Scale are read-modify-write).
NoLostClusterUpdate ==
  [][\A a \in Apps : obj'[a].image = obj[a].image \/ obj'[a].replicas = obj[a].replicas]_obj

\* The replicas one canary step of d should add do not fit an int32.
Oversized(d) ==
  (loop[d].replicas * StepPercent(input[d].canaryStep, ConfiguredStep)) \div 100 > MaxInt32

\* However the canaries of several deploys interleave with each other and with
\* rollbacks, no app is scaled above the replica count it had, and one is
\* scaled to zero only by a canary whose step int32() has wrapped to 0.
ReplicasWithinBounds ==
  \A a \in Apps :
    /\ obj[a].replicas <= had[a]
    /\ obj[a].replicas = 0 /\ had[a] # 0
         => \E d \in Deploys : pc[d] # "idle" /\ App(d) = a /\ Oversized(d)

\* The lifecycle of the records: of what approve calls that overlap can do to
\* them, it allows only that a released deploy is called "running" again.
Lifecycle ==
  INSTANCE DeployLifecycle WITH
    status <- [d \in Deploys |-> db[d].status],
    gated  <- {d \in Deploys : pc[d] # "idle" /\ input[d].requireApproval},
    late   <- {d \in Deploys : db[d].status # "waiting_approval" /\
                               \E a \in Approvers : approver[a].id = d},
    ended  <- {d \in Deploys : pc[d] = "done"}

LifecycleSpec == Lifecycle!Spec

\* The image SetImage replaces is the one in the snapshot that a rollback puts
\* back, however long the wait for an approval in between: unless there is no
\* snapshot, another container is listed first, or another deploy has changed
\* the app's image after the snapshot (orchestrator.go:66-68 against :130).
RestoresWhatItReplaced ==
  [][\A d \in Deploys :
       pc[d] = "setPut" /\ obj'[App(d)].image # obj[App(d)].image /\ pc'[d] # pc[d]
       => \/ rec[d].imageOld \in {None, obj[App(d)].image}
          \/ obj[App(d)].first # None
          \/ d \in overtaken]_vars

\* A deploy recorded as succeeded has its image in place at that moment, unless
\* another deploy has changed the app's image after this one set it.
SucceededIsLive ==
  [][\A d \in Deploys :
       db[d].status # "succeeded" /\ db'[d].status = "succeeded"
       => obj[App(d)].image = input[d].image \/ d \in overtaken]_vars

\* Every goroutine ends, and unless it gave up waiting for an approval or the
\* process went away the record it leaves is a final one.
EveryDeployEnds ==
  \A d \in Deploys :
    pc[d] # "idle" ~> pc[d] \in {"gaveUp", "killed"} \/ db[d].status \in Terminal
=============================================================================
