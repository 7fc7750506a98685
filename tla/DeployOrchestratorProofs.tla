---------------------- MODULE DeployOrchestratorProofs ----------------------
(***************************************************************************)
(* Theorems of DeployOrchestrator for any number of deploys, approvers,    *)
(* apps, images and requests.                                              *)
(***************************************************************************)
EXTENDS DeployOrchestrator, TLAPS

\* A count and its remainder: what both mean for an int32 of even size.
LEMMA Halves ==
  /\ MaxInt32 \in Nat /\ Int32Size = 2 * MaxInt32 + 2
  /\ Int32 = -(MaxInt32 + 1) .. MaxInt32
  BY SizesAssumption DEF MaxInt32, Int32

\* A positive int of even size is a multiple of two.
LEMMA IntHalves == IntSize \div 2 \in Nat \ {0} /\ IntSize = 2 * (IntSize \div 2)
  BY SizesAssumption

\* Two's complement in 2h values: the result is one of them, a value that fits
\* is left alone, and one below 2h that does not fit becomes negative.
LEMMA TwosComplement ==
  ASSUME NEW h \in Nat \ {0}, NEW size \in Nat \ {0}, size = 2 * h, size \div 2 = h, NEW x \in Int
  PROVE  /\ Wrap(x, size) \in -h .. h - 1
         /\ x \in -h .. h - 1 => Wrap(x, size) = x
         /\ x \in 1 .. 2 * h - 1 => Wrap(x, size) # 0
  BY DEF Wrap

\* The same of an int32: up to twice its largest value nothing wraps to zero.
LEMMA WrapInt32 ==
  ASSUME NEW x \in Int
  PROVE  /\ Wrap(x, Int32Size) \in Int32
         /\ x \in Int32 => Wrap(x, Int32Size) = x
         /\ x \in 1 .. 2 * MaxInt32 + 1 => Wrap(x, Int32Size) # 0
<1> DEFINE h == MaxInt32 + 1
<1>1. h \in Nat \ {0} /\ Int32Size \in Nat \ {0} /\ Int32Size = 2 * h /\ Int32Size \div 2 = h
  BY Halves
<1>2. Int32 = -h .. h - 1 /\ 1 .. 2 * MaxInt32 + 1 = 1 .. 2 * h - 1
  BY Halves
<1> HIDE DEF h
<1>3. /\ Wrap(x, Int32Size) \in -h .. h - 1
      /\ x \in -h .. h - 1 => Wrap(x, Int32Size) = x
      /\ x \in 1 .. 2 * h - 1 => Wrap(x, Int32Size) # 0
  BY <1>1, TwosComplement
<1> QED
  BY <1>2, <1>3

\* A share that is computed in an int is not above the one it stands for.
LEMMA ShareBelow ==
  ASSUME NEW p \in Nat
  PROVE  Wrap(p, IntSize) \in Int /\ Wrap(p, IntSize) <= p
<1> DEFINE h == IntSize \div 2
           m == (p + h) % IntSize
<1>1. h \in Nat \ {0} /\ IntSize = 2 * h
  BY IntHalves
<1>2. m \in Nat /\ m <= p + h
  BY <1>1
<1>3. Wrap(p, IntSize) = m - h
  BY DEF Wrap
<1> HIDE DEF h, m
<1> QED
  BY <1>1, <1>2, <1>3

\* One step of RunCanary is an int32 (canary.go:34); it is 0 only if the share of
\* the replicas does not fit one, the case that max(1, ...) does not see.
LEMMA StepRange ==
  ASSUME NEW replicas \in Nat, NEW percent \in Nat
  PROVE  /\ Step(replicas, percent) \in Int32
         /\ Step(replicas, percent) = 0 => (replicas * percent) \div 100 > MaxInt32
<1> DEFINE p == replicas * percent
           w == Wrap(p, IntSize)
           n == IF w \div 100 > 1 THEN w \div 100 ELSE 1
<1>1. p \in Nat
  OBVIOUS
<1> HIDE DEF p
<1>2. w \in Int /\ w <= p
  BY <1>1, ShareBelow
<1>3. Step(replicas, percent) = Wrap(n, Int32Size)
  BY DEF Step, Share, p, w, n
<1> HIDE DEF w
<1>4. n \in Nat \ {0}
  BY <1>2
<1>5. n > 2 * MaxInt32 + 1 => p \div 100 > MaxInt32
  BY <1>1, <1>2, Halves
<1> HIDE DEF n
<1>6. Wrap(n, Int32Size) \in Int32
  BY <1>4, WrapInt32
<1>7. Wrap(n, Int32Size) = 0 => n > 2 * MaxInt32 + 1
  BY <1>4, WrapInt32, Halves
<1> QED
  BY <1>3, <1>5, <1>6, <1>7 DEF p

\* The percentage RunCanary works with is positive.
LEMMA StepPercentPositive ==
  ASSUME NEW requested \in Int, NEW configured \in Int
  PROVE  StepPercent(requested, configured) \in Nat \ {0}
  BY DEF StepPercent

\* A started deploy has the input of some request.
InputSet == \A d \in Deploys : pc[d] # "idle" => input[d] \in Requests

\* The disjuncts of Next, one per kind of step.
LEMMA NextCases ==
  ASSUME Next
  PROVE  \/ \E d \in Deploys, request \in Requests : StartDeploy(d, request)
         \/ \E d \in Deploys : ReturnHandler(d)
         \/ \E d \in Deploys : Run(d)
         \/ \E a \in Approvers : ApprovePut(a)
         \/ \E a \in Approvers, d \in Deploys : ApproveRead(a, d)
         \/ Restart
  BY DEF Next, Approve

\* store.Put of a record whose status has been set leaves records in place.
LEMMA PutStatusType ==
  ASSUME TypeOK, NEW d \in Deploys, NEW status \in Status, PutStatus(d, status)
  PROVE  db' \in [Deploys -> Record] /\ rec' \in [Deploys -> Record]
<1>1. rec[d] \in Record
  BY DEF TypeOK
<1>2. [rec[d] EXCEPT !.status = status] \in Record
  BY <1>1 DEF Record
<1>3. rec' = [rec EXCEPT ![d] = [rec[d] EXCEPT !.status = status]]
  BY DEF PutStatus
<1>4. rec' \in [Deploys -> Record]
  BY <1>2, <1>3 DEF TypeOK
<1>5. db' \in [Deploys -> Record]
  BY <1>4 DEF TypeOK, PutStatus
<1> QED
  BY <1>4, <1>5

\* A goroutine that moves to a location is at some location.
LEMMA GotoType ==
  ASSUME TypeOK, NEW d \in Deploys, NEW to \in Location, Goto(d, to)
  PROVE  pc' \in [Deploys -> Location]
  BY DEF TypeOK, Goto

\* Every location named in the actions is one.
LEMMA Locations ==
  /\ {"idle", "snapshot", "park", "wait", "checkCtx", "setGet", "setPut", "discover",
      "scaleGet", "scalePut", "rollout", "slo", "succeed", "restoreGet", "restorePut",
      "fail", "done", "gaveUp", "killed"} \subseteq Location
  /\ \A d : Rollback(d) \in Location
  /\ \A d, r : Begin(d, r) \in Location
  /\ \A d : AfterSetImage(d) \in Location
  BY DEF Location, Waiting, Acting, Ended, Rollback, Begin, AfterSetImage

\* The statuses the program stores.
LEMMA Statuses ==
  {"started", "waiting_approval", "running", "succeeded", "rolled_back"} \subseteq Status
  BY DEF Status

\* cs.Get keeps the types.
LEMMA ReadType ==
  ASSUME TypeOK, InputSet, NEW d \in Deploys, NEW from \in Location \ {"idle"},
         NEW to \in Location \ {"idle"}, NEW onError \in Location \ {"idle"},
         Read(d, from, to, onError)
  PROVE  TypeOK' /\ InputSet'
<1>1. input[d] \in Requests /\ input[d].app \in Apps
  BY RequestsAssumption DEF InputSet, Read, At, DeployInput
<1>2. held' \in [Deploys -> Deployment] /\ fresh' \subseteq Deploys
  <2>1. obj[App(d)] \in Deployment
    BY <1>1 DEF TypeOK, App
  <2> QED
    BY <2>1 DEF TypeOK, Read
<1>3. pc' \in [Deploys -> Location]
  BY GotoType DEF Read
<1>4. TypeOK'
  BY <1>2, <1>3 DEF TypeOK, Read, approval
<1>5. InputSet'
  BY <1>1 DEF TypeOK, InputSet, Read, Goto
<1> QED
  BY <1>4, <1>5

\* A Deployment as a goroutine may send it: its count can be any int32.
Draft == [image: Images \union {None}, first: Images \union {None}, replicas: Int32]

\* What the API server takes of those is a Deployment.
LEMMA DraftTaken ==
  ASSUME NEW new \in Draft, new.replicas >= 0
  PROVE  new \in Deployment
  BY Halves DEF Draft, Deployment

\* cs.Update keeps the types.
LEMMA WriteType ==
  ASSUME TypeOK, InputSet, NEW d \in Deploys, NEW from \in Location \ {"idle"},
         NEW new \in Draft, NEW to \in Location \ {"idle"},
         NEW onError \in Location \ {"idle"}, Write(d, from, new, to, onError)
  PROVE  TypeOK' /\ InputSet'
<1>1. input[d] \in Requests /\ input[d].app \in Apps
  BY RequestsAssumption DEF InputSet, Write, At, DeployInput
<1>2. obj' \in [Apps -> Deployment]
  <2>1. ASSUME Store(d, new) PROVE obj' \in [Apps -> Deployment]
    BY <1>1, <2>1, DraftTaken DEF TypeOK, Store, App
  <2> QED
    BY <2>1 DEF TypeOK, Write
<1>3. held' \in [Deploys -> Deployment]
  BY Halves DEF TypeOK, Write, Deployment, NoObject
<1>4. fresh' \subseteq Deploys /\ overtaken' \subseteq Deploys
  BY DEF TypeOK, Write, Store, Overtake, Outdated
<1>5. pc' \in [Deploys -> Location]
  BY GotoType DEF Write
<1>6. TypeOK'
  BY <1>2, <1>3, <1>4, <1>5 DEF TypeOK, Write, approval
<1>7. InputSet'
  BY <1>1 DEF TypeOK, InputSet, Write, Goto
<1> QED
  BY <1>6, <1>7

\* Every step of a goroutine keeps the types.
LEMMA RunType ==
  ASSUME TypeOK, InputSet, NEW d \in Deploys, Run(d)
  PROVE  TypeOK' /\ InputSet'
<1> USE Locations, Statuses DEF cluster, approval
<1>1. pc[d] # "idle" /\ input[d] \in Requests
  BY DEF Run, InputSet, At, Snapshot, Park, PollApproval, CheckContext, SetImageGet, SetImagePut,
         Discover, ScaleGet, ScalePut, WaitRollout, CheckSLOs, Succeed, RestoreGet, RestorePut,
         RolledBack, Read, Write
<1>2. /\ input[d].app \in Apps /\ input[d].image \in Images /\ input[d].canaryStep \in Int
      /\ obj[App(d)] \in Deployment
  BY <1>1, RequestsAssumption DEF DeployInput, TypeOK, App
<1>3. /\ Rollback(d) # "idle" /\ AfterSetImage(d) # "idle"
      /\ \A r : Begin(d, r) # "idle"
  BY DEF Rollback, AfterSetImage, Begin
<1>4. rec[d] \in Record /\ held[d] \in Deployment /\ loop[d].cur \in Int32
      /\ Deployment \subseteq Draft
  BY Halves DEF TypeOK, Deployment, Draft
<1>5. ASSUME NEW to \in Location \ {"idle"}, Goto(d, to), UNCHANGED input
      PROVE  InputSet'
  BY <1>1, <1>5 DEF InputSet, Goto, TypeOK
<1>6. CASE Snapshot(d)
  <2>1. SnapshotOf(d) \in Images \union {None}
    BY <1>2 DEF SnapshotOf, Deployment
  <2>2. [rec[d] EXCEPT !.imageOld = SnapshotOf(d)] \in Record
    BY <1>4, <2>1 DEF Record
  <2>3. rec' \in [Deploys -> Record] /\ db' \in [Deploys -> Record]
    <3>1. \/ /\ rec' = [rec EXCEPT ![d] = [rec[d] EXCEPT !.imageOld = SnapshotOf(d)]]
             /\ db' = [db EXCEPT ![d] = rec'[d]]
          \/ rec' = rec /\ db' = db
      BY <1>6 DEF Snapshot
    <3>2. rec' \in [Deploys -> Record]
      BY <2>2, <3>1 DEF TypeOK
    <3> QED
      BY <3>1, <3>2 DEF TypeOK
  <2>4. PICK to \in Location \ {"idle"} : Goto(d, to)
    BY <1>3, <1>6 DEF Snapshot
  <2> QED
    BY <1>5, <1>6, <2>3, <2>4, GotoType DEF Snapshot, TypeOK
<1>7. CASE Park(d)
  BY <1>5, <1>7, GotoType, PutStatusType DEF Park, TypeOK
<1>8. CASE PollApproval(d) \/ CheckContext(d) \/ WaitRollout(d)
  <2>1. PICK to \in Location \ {"idle"} : Goto(d, to)
    BY <1>3, <1>8 DEF PollApproval, CheckContext, WaitRollout
  <2> QED
    BY <1>5, <1>8, <2>1, GotoType DEF PollApproval, CheckContext, WaitRollout, TypeOK
<1>9. CASE SetImageGet(d)
  BY <1>3, <1>9, ReadType DEF SetImageGet
<1>10. CASE SetImagePut(d)
  <2>1. [held[d] EXCEPT !.image = input[d].image] \in Draft
    BY <1>2, <1>4 DEF Draft
  <2> QED
    BY <1>3, <1>10, <2>1, WriteType DEF SetImagePut
<1>11. CASE Discover(d)
  <2>1. PICK to \in Location \ {"idle"} : Goto(d, to)
    BY <1>3, <1>11 DEF Discover
  <2>2. loop' \in [Deploys -> [replicas: 0..MaxInt32, step: Int32, cur: Int32]]
    <3> DEFINE total == obj[App(d)].replicas
               step  == Step(total, StepPercent(input[d].canaryStep, ConfiguredStep))
    <3>1. total \in 0..MaxInt32
      BY <1>2 DEF Deployment
    <3>2. step \in Int32
      <4>1. total \in Nat
        BY <3>1, Halves
      <4>2. input[d].canaryStep \in Int
        BY <1>2 DEF DeployInput
      <4>3. StepPercent(input[d].canaryStep, ConfiguredStep) \in Nat
        BY <4>2, StepPercentPositive, ConfiguredAssumption
      <4> HIDE DEF total
      <4> QED
        BY <4>1, <4>3, StepRange DEF step
    <3> HIDE DEF total, step
    <3>3. loop' = [loop EXCEPT ![d] = [replicas |-> total, step |-> step, cur |-> step]]
          \/ loop' = loop
      BY <1>11 DEF Discover, total, step
    <3> QED
      BY <3>1, <3>2, <3>3 DEF TypeOK
  <2> QED
    BY <1>5, <1>11, <2>1, <2>2, GotoType DEF Discover, TypeOK
<1>12. CASE ScaleGet(d)
  BY <1>3, <1>12, ReadType DEF ScaleGet
<1>13. CASE ScalePut(d)
  <2>1. [held[d] EXCEPT !.replicas = loop[d].cur] \in Draft
    BY <1>4 DEF Draft
  <2> QED
    BY <1>3, <1>13, <2>1, WriteType DEF ScalePut
<1>14. CASE CheckSLOs(d)
  <2>1. PICK to \in Location \ {"idle"} : Goto(d, to)
    BY <1>3, <1>14 DEF CheckSLOs
  <2>2. loop' \in [Deploys -> [replicas: 0..MaxInt32, step: Int32, cur: Int32]]
    <3>1. Advance(loop[d].cur, loop[d].step) \in Int32
      BY <1>4, WrapInt32 DEF Advance, TypeOK, Int32
    <3> QED
      BY <1>14, <3>1 DEF CheckSLOs, TypeOK
  <2> QED
    BY <1>5, <1>14, <2>1, <2>2, GotoType DEF CheckSLOs, TypeOK
<1>15. CASE Succeed(d) \/ RolledBack(d)
  BY <1>5, <1>15, GotoType, PutStatusType DEF Succeed, RolledBack, TypeOK
<1>16. CASE RestoreGet(d)
  BY <1>3, <1>16, ReadType DEF RestoreGet
<1>17. CASE RestorePut(d)
  <2>1. [held[d] EXCEPT !.image = rec[d].imageOld] \in Draft
    BY <1>4 DEF Draft, Record
  <2> QED
    BY <1>3, <1>17, <2>1, WriteType DEF RestorePut
<1> QED
  BY <1>6, <1>7, <1>8, <1>9, <1>10, <1>11, <1>12, <1>13, <1>14, <1>15, <1>16, <1>17 DEF Run

\* Types are kept by every step: records, cluster objects and calls are what
\* the declarations of the module say, for any instance (all of the module).
THEOREM TypeCorrect == Spec => [](TypeOK /\ InputSet)
<1>1. Init => TypeOK /\ InputSet
  <2>1. NoRecord \in Record /\ NoObject \in Deployment
    BY Halves DEF NoRecord, Record, Status, NoObject, Deployment
  <2>2. NoCall \in [id: Deploys \union {None}, record: Record]
    BY <2>1 DEF NoCall
  <2>3. NoLoop \in [replicas: 0..MaxInt32, step: Int32, cur: Int32]
    BY SizesAssumption, Halves DEF NoLoop
  <2>4. [image: Images, first: FirstImages, replicas: ReplicaCounts] \subseteq Deployment
    BY FirstAssumption, ReplicasAssumption DEF Deployment
  <2>5. Init => had \in [Apps -> 0..MaxInt32]
    <3>1. Init => \A a \in Apps : obj[a].replicas \in ReplicaCounts
      BY DEF Init
    <3> QED
      BY <3>1, ReplicasAssumption DEF Init
  <2> QED
    BY <2>1, <2>2, <2>3, <2>4, <2>5, Locations DEF Init, TypeOK, InputSet
<1>2. TypeOK /\ InputSet /\ [Next]_vars => TypeOK' /\ InputSet'
  <2> SUFFICES ASSUME TypeOK, InputSet, [Next]_vars PROVE TypeOK' /\ InputSet'
    OBVIOUS
  <2> USE Locations, Statuses DEF cluster, approval
  <2>1. ASSUME NEW d \in Deploys, NEW request \in Requests, StartDeploy(d, request)
        PROVE  TypeOK' /\ InputSet'
    <3>1. input' \in [Deploys -> Requests \union {None}]
      BY <2>1 DEF StartDeploy, TypeOK
    <3>2. InputSet'
      BY <2>1 DEF StartDeploy, TypeOK, InputSet, Goto
    <3> QED
      BY <2>1, <3>1, <3>2, PutStatusType, GotoType DEF StartDeploy, TypeOK
  <2>2. ASSUME NEW d \in Deploys, ReturnHandler(d) PROVE TypeOK' /\ InputSet'
    BY <2>2 DEF ReturnHandler, TypeOK, InputSet
  <2>3. ASSUME NEW d \in Deploys, Run(d) PROVE TypeOK' /\ InputSet'
    BY <2>3, RunType
  <2>4. ASSUME NEW a \in Approvers, ApprovePut(a) PROVE TypeOK' /\ InputSet'
    <3>1. approver[a].record \in Record /\ NoCall \in [id: Deploys \union {None}, record: Record]
      BY DEF TypeOK, NoCall, NoRecord, Record, Status
    <3>2. db' \in [Deploys -> Record]
      BY <2>4, <3>1 DEF ApprovePut, TypeOK
    <3>3. approver' \in [Approvers -> [id: Deploys \union {None}, record: Record]]
      BY <2>4, <3>1 DEF ApprovePut, TypeOK
    <3> QED
      BY <2>4, <3>2, <3>3 DEF ApprovePut, TypeOK, InputSet
  <2>5. ASSUME NEW a \in Approvers, NEW d \in Deploys, ApproveRead(a, d)
        PROVE  TypeOK' /\ InputSet'
    <3>1. [db[d] EXCEPT !.status = "running"] \in Record
      <4>1. db[d] \in [status: Status, imageOld: Images \union {None}] /\ "running" \in Status
        BY DEF TypeOK, Record, Status
      <4> QED
        BY <4>1 DEF Record
    <3>2. approver' \in [Approvers -> [id: Deploys \union {None}, record: Record]]
      BY <2>5, <3>1 DEF ApproveRead, TypeOK
    <3> QED
      BY <2>5, <3>2 DEF ApproveRead, TypeOK, InputSet
  <2>6. CASE Restart
    <3>1. NoObject \in Deployment /\ NoCall \in [id: Deploys \union {None}, record: Record]
      BY Halves DEF NoObject, Deployment, NoCall, NoRecord, Record, Status
    <3> QED
      BY <2>6, <3>1 DEF Restart, TypeOK, InputSet
  <2>7. CASE UNCHANGED vars
    BY <2>7 DEF vars, TypeOK, InputSet
  <2> QED
    BY <2>1, <2>2, <2>3, <2>4, <2>5, <2>6, <2>7, NextCases
<1> QED
  BY <1>1, <1>2, PTL DEF Spec

-----------------------------------------------------------------------------
\* ApprovalGate is not inductive: the approval loop believes the stored status.
\* Strengthening: a stored "running" comes from an approver, and no goroutine
\* ever writes "running" itself, so its own Put cannot open the gate.
GateInv ==
  /\ ApprovalGate
  /\ \A d \in Deploys : db[d].status = "running" => d \in approved
  /\ \A d \in Deploys : rec[d].status # "running"

\* A Put of a status other than "running" keeps the records' part of GateInv.
LEMMA PutKeepsGate ==
  ASSUME TypeOK, GateInv, NEW d \in Deploys, NEW status \in Status \ {"running"},
         PutStatus(d, status), UNCHANGED approved
  PROVE  /\ \A e \in Deploys : db'[e].status = "running" => e \in approved'
         /\ \A e \in Deploys : rec'[e].status # "running"
<1>1. rec' = [rec EXCEPT ![d] = [rec[d] EXCEPT !.status = status]]
  BY DEF PutStatus
<1>2. rec'[d].status = status
  BY <1>1 DEF TypeOK, Record
<1> QED
  BY <1>1, <1>2 DEF TypeOK, PutStatus, GateInv

\* A step that stores no record and moves one goroutine keeps the gate when the
\* move stays on the acting side, or leads where no acting location is.
LEMMA MoveKeepsGate ==
  ASSUME TypeOK, GateInv, NEW d \in Deploys, NEW to \in Location, Goto(d, to),
         UNCHANGED <<db, rec, input, approved>>,
         to \in Acting \union {"done"} /\ input[d].requireApproval
           => pc[d] \in Acting \/ d \in approved
  PROVE  GateInv'
  BY DEF TypeOK, GateInv, ApprovalGate, Goto

\* No deploy that asked for approval touches the cluster before an approver has
\* released it, however goroutines, approvers and restarts interleave
\* (orchestrator.go:72-82 and handleApprove).
THEOREM GateHolds == Spec => []ApprovalGate
<1>1. Init => GateInv
  BY DEF Init, GateInv, ApprovalGate, Acting, NoRecord
<1>2. TypeOK /\ InputSet /\ GateInv /\ [Next]_vars => GateInv'
  <2> SUFFICES ASSUME TypeOK, InputSet, GateInv, [Next]_vars PROVE GateInv'
    OBVIOUS
  <2> USE Locations, Statuses DEF cluster, approval
  <2>1. ASSUME NEW d \in Deploys, NEW request \in Requests, StartDeploy(d, request)
        PROVE  GateInv'
    <3>1. ApprovalGate'
      BY <2>1 DEF StartDeploy, TypeOK, GateInv, ApprovalGate, Goto, Acting
    <3> QED
      BY <2>1, <3>1, PutKeepsGate DEF StartDeploy, GateInv
  <2>2. ASSUME NEW d \in Deploys, ReturnHandler(d) PROVE GateInv'
    BY <2>2 DEF ReturnHandler, GateInv, ApprovalGate
  <2>3. ASSUME NEW d \in Deploys, Run(d) PROVE GateInv'
    <3>1. CASE Snapshot(d)
      <4>1. \/ /\ rec' = [rec EXCEPT ![d] = [rec[d] EXCEPT !.imageOld = SnapshotOf(d)]]
               /\ db' = [db EXCEPT ![d] = rec'[d]]
            \/ rec' = rec /\ db' = db
        BY <3>1 DEF Snapshot
      <4>2. rec'[d].status = rec[d].status
        BY <4>1 DEF TypeOK, Record
      <4>3. ApprovalGate'
        BY <3>1 DEF Snapshot, TypeOK, GateInv, ApprovalGate, Goto, Acting
      <4> QED
        BY <3>1, <4>1, <4>2, <4>3 DEF Snapshot, TypeOK, GateInv
    <3>2. CASE Park(d)
      <4>1. ApprovalGate'
        BY <3>2 DEF Park, TypeOK, GateInv, ApprovalGate, Goto, Acting
      <4> QED
        BY <3>2, <4>1, PutKeepsGate DEF Park, GateInv
    <3>3. CASE PollApproval(d)
      BY <3>3, MoveKeepsGate DEF PollApproval, Released, GateInv, Acting
    <3>4. CASE CheckContext(d)
      BY <3>4, MoveKeepsGate DEF CheckContext, Acting
    <3>5. CASE SetImageGet(d) \/ ScaleGet(d) \/ RestoreGet(d)
      BY <3>5, MoveKeepsGate DEF SetImageGet, ScaleGet, RestoreGet, Read, At, Acting
    <3>6. CASE SetImagePut(d) \/ ScalePut(d) \/ RestorePut(d)
      BY <3>6, MoveKeepsGate DEF SetImagePut, ScalePut, RestorePut, Write, At, Acting
    <3>7. CASE Discover(d) \/ WaitRollout(d) \/ CheckSLOs(d)
      BY <3>7, MoveKeepsGate DEF Discover, WaitRollout, CheckSLOs, At, Acting
    <3>8. CASE Succeed(d) \/ RolledBack(d)
      <4>1. ApprovalGate'
        BY <3>8 DEF Succeed, RolledBack, TypeOK, GateInv, ApprovalGate, Goto, At, Acting
      <4> QED
        BY <3>8, <4>1, PutKeepsGate DEF Succeed, RolledBack, GateInv
    <3> QED
      BY <2>3, <3>1, <3>2, <3>3, <3>4, <3>5, <3>6, <3>7, <3>8 DEF Run
  <2>4. ASSUME NEW a \in Approvers, ApprovePut(a) PROVE GateInv'
    BY <2>4 DEF ApprovePut, TypeOK, GateInv, ApprovalGate
  <2>5. ASSUME NEW a \in Approvers, NEW d \in Deploys, ApproveRead(a, d) PROVE GateInv'
    BY <2>5 DEF ApproveRead, GateInv, ApprovalGate
  <2>6. CASE Restart
    BY <2>6 DEF Restart, TypeOK, GateInv, ApprovalGate, Acting
  <2>7. CASE UNCHANGED vars
    BY <2>7 DEF vars, GateInv, ApprovalGate
  <2> QED
    BY <2>1, <2>2, <2>3, <2>4, <2>5, <2>6, <2>7, NextCases
<1>3. GateInv => ApprovalGate
  BY DEF GateInv
<1> QED
  BY <1>1, <1>2, <1>3, TypeCorrect, PTL DEF Spec

-----------------------------------------------------------------------------
(* What the goroutines may do to the Deployments of the cluster.           *)

\* The copy of a Deployment whose resourceVersion is current is the Deployment.
FreshInv == \A d \in fresh : held[d] = obj[App(d)] /\ pc[d] # "idle"

\* The steps of a goroutine, by what they do to the cluster.
LEMMA RunCases ==
  ASSUME NEW d \in Deploys, Run(d)
  PROVE  \/ obj' = obj /\ held' = held /\ fresh' = fresh
         \/ \E from, to \in Location \ {"idle"}, onError \in Location \ {"idle"} : Read(d, from, to, onError)
         \/ \E to, onError \in Location \ {"idle"} :
              Write(d, "setPut", [held[d] EXCEPT !.image = input[d].image], to, onError)
         \/ \E to, onError \in Location \ {"idle"} :
              Write(d, "scalePut", [held[d] EXCEPT !.replicas = loop[d].cur], to, onError)
         \/ \E to, onError \in Location \ {"idle"} :
              Write(d, "restorePut", [held[d] EXCEPT !.image = rec[d].imageOld], to, onError)
<1> USE Locations DEF Rollback, AfterSetImage
<1>1. CASE SetImageGet(d) \/ ScaleGet(d) \/ RestoreGet(d)
  BY <1>1 DEF SetImageGet, ScaleGet, RestoreGet
<1>2. CASE SetImagePut(d)
  BY <1>2 DEF SetImagePut
<1>3. CASE ScalePut(d)
  BY <1>3 DEF ScalePut
<1>4. CASE RestorePut(d)
  BY <1>4 DEF RestorePut
<1>5. CASE Snapshot(d)
  BY <1>5 DEF Snapshot
<1>6. CASE \/ Park(d) \/ PollApproval(d) \/ CheckContext(d) \/ Discover(d) \/ WaitRollout(d)
           \/ CheckSLOs(d) \/ Succeed(d) \/ RolledBack(d)
  <2>1. UNCHANGED cluster
    BY <1>6 DEF Park, PollApproval, CheckContext, Discover, WaitRollout, CheckSLOs, Succeed, RolledBack
  <2> QED
    BY <2>1 DEF cluster
<1> QED
  BY <1>1, <1>2, <1>3, <1>4, <1>5, <1>6 DEF Run

\* No step of a goroutine changes what was requested, nor makes it idle.
LEMMA RunKeepsInput ==
  ASSUME TypeOK, NEW d \in Deploys, Run(d)
  PROVE  /\ UNCHANGED input /\ pc[d] # "idle"
         /\ \A e \in Deploys : pc[e] # "idle" => pc'[e] # "idle"
<1>1. pc[d] # "idle" /\ UNCHANGED input /\ \E to \in Location \ {"idle"} : Goto(d, to)
  BY Locations DEF Run, At, Snapshot, Park, PollApproval, CheckContext, SetImageGet, SetImagePut,
     Discover, ScaleGet, ScalePut, WaitRollout, CheckSLOs, Succeed, RestoreGet, RestorePut,
     RolledBack, Read, Write, Rollback, Begin, AfterSetImage
<1> QED
  BY <1>1 DEF Goto, TypeOK

\* A deploy that is not idle is of one of the apps.
LEMMA AppInApps ==
  ASSUME InputSet, NEW d \in Deploys, pc[d] # "idle"
  PROVE  App(d) \in Apps
  BY RequestsAssumption DEF InputSet, DeployInput, App

\* cs.Update removes from fresh every copy it makes stale.
LEMMA WriteKeepsFresh ==
  ASSUME TypeOK, InputSet, FreshInv, NEW d \in Deploys, UNCHANGED input, pc[d] # "idle",
         NEW from, NEW new, NEW to \in Location \ {"idle"}, NEW onError \in Location \ {"idle"},
         Write(d, from, new, to, onError)
  PROVE  FreshInv'
<1>1. \A e \in fresh' : e \in fresh /\ e # d /\ obj'[App(e)] = obj[App(e)]
  <2>1. SUFFICES ASSUME NEW e \in fresh'
                 PROVE  e \in fresh /\ e # d /\ obj'[App(e)] = obj[App(e)]
    OBVIOUS
  <2>2. CASE Store(d, new)
    <3>1. e \in fresh /\ e # d
      BY <2>2 DEF Store
    <3>2. App(e) \in Apps /\ App(d) \in Apps
      BY <3>1, AppInApps DEF FreshInv, TypeOK
    <3>3. obj' = [obj EXCEPT ![App(d)] = new] /\ (new = obj[App(d)] \/ App(e) # App(d))
      BY <2>2 DEF Store
    <3> QED
      BY <3>1, <3>2, <3>3 DEF TypeOK
  <2>3. CASE fresh' = fresh \ {d} /\ UNCHANGED obj
    BY <2>3
  <2> QED
    BY <2>2, <2>3 DEF Write
<1>2. \A e \in fresh' : held'[e] = held[e] /\ pc'[e] # "idle" /\ App(e)' = App(e)
  BY <1>1 DEF Write, Goto, TypeOK, FreshInv, App
<1> QED
  BY <1>1, <1>2 DEF FreshInv

\* cs.Get copies the current Deployment.
LEMMA ReadKeepsFresh ==
  ASSUME TypeOK, FreshInv, NEW d \in Deploys, UNCHANGED input, pc[d] # "idle",
         NEW from, NEW to \in Location \ {"idle"}, NEW onError \in Location \ {"idle"},
         Read(d, from, to, onError)
  PROVE  FreshInv'
<1>1. \A e \in fresh' : pc'[e] # "idle" /\ App(e)' = App(e)
  BY DEF Read, Goto, TypeOK, FreshInv, App
<1>2. \A e \in fresh' : held'[e] = obj[App(e)]
  BY DEF Read, TypeOK, FreshInv
<1> QED
  BY <1>1, <1>2 DEF FreshInv, Read

\* FreshInv is kept by every step: a stale copy is never taken for a current one.
LEMMA FreshStep ==
  ASSUME TypeOK, InputSet, FreshInv, [Next]_vars
  PROVE  FreshInv'
<1> USE DEF cluster, approval
<1>1. ASSUME NEW d \in Deploys, NEW request \in Requests, StartDeploy(d, request) PROVE FreshInv'
  BY <1>1 DEF StartDeploy, FreshInv, TypeOK, Goto, At, App
<1>2. ASSUME NEW d \in Deploys, ReturnHandler(d) PROVE FreshInv'
  BY <1>2 DEF ReturnHandler, FreshInv, App
<1>3. ASSUME NEW d \in Deploys, Run(d) PROVE FreshInv'
  <2>1. UNCHANGED input /\ pc[d] # "idle" /\ \A e \in Deploys : pc[e] # "idle" => pc'[e] # "idle"
    BY <1>3, RunKeepsInput
  <2>2. CASE UNCHANGED <<obj, held, fresh>>
    BY <2>1, <2>2 DEF FreshInv, App, TypeOK
  <2>3. ASSUME NEW from, NEW to \in Location \ {"idle"}, NEW onError \in Location \ {"idle"},
               Read(d, from, to, onError)
        PROVE  FreshInv'
    BY <2>1, <2>3, ReadKeepsFresh
  <2>4. ASSUME NEW from, NEW new, NEW to \in Location \ {"idle"}, NEW onError \in Location \ {"idle"},
               Write(d, from, new, to, onError)
        PROVE  FreshInv'
    BY <2>1, <2>4, WriteKeepsFresh
  <2> QED
    BY <1>3, <2>2, <2>3, <2>4, RunCases
<1>4. ASSUME NEW a \in Approvers, ApprovePut(a) PROVE FreshInv'
  BY <1>4 DEF ApprovePut, FreshInv, App
<1>5. ASSUME NEW a \in Approvers, NEW d \in Deploys, ApproveRead(a, d) PROVE FreshInv'
  BY <1>5 DEF ApproveRead, FreshInv, App
<1>6. CASE Restart
  BY <1>6 DEF Restart, FreshInv
<1>7. CASE UNCHANGED vars
  BY <1>7 DEF vars, FreshInv, App
<1> QED
  BY <1>1, <1>2, <1>3, <1>4, <1>5, <1>6, <1>7, NextCases

-----------------------------------------------------------------------------
\* A stored Deployment differs from the one before in at most one of the two
\* fields, because what is stored is the current one with one field replaced.
LEMMA OneFieldAtATime ==
  ASSUME TypeOK, InputSet, FreshInv, NEW d \in Deploys, Run(d), NEW a \in Apps
  PROVE  obj'[a].image = obj[a].image \/ obj'[a].replicas = obj[a].replicas
<1>1. App(d) \in Apps /\ held[d] \in Deployment
  BY RunKeepsInput, AppInApps DEF TypeOK
<1>2. ASSUME NEW from, NEW to, NEW onError, NEW new, new \in {[held[d] EXCEPT !.image = input[d].image],
               [held[d] EXCEPT !.image = rec[d].imageOld], [held[d] EXCEPT !.replicas = loop[d].cur]},
             Write(d, from, new, to, onError)
      PROVE  obj'[a].image = obj[a].image \/ obj'[a].replicas = obj[a].replicas
  <2>1. CASE Store(d, new)
    <3>1. obj[App(d)] = held[d] /\ obj' = [obj EXCEPT ![App(d)] = new]
      BY <2>1 DEF Store, FreshInv
    <3>2. new.image = held[d].image \/ new.replicas = held[d].replicas
      BY <1>1, <1>2 DEF Deployment
    <3> QED
      BY <1>1, <3>1, <3>2 DEF TypeOK
  <2>2. CASE UNCHANGED obj
    BY <2>2
  <2> QED
    BY <1>2, <2>1, <2>2 DEF Write
<1> QED
  BY <1>2, RunCases DEF Read, cluster

\* However goroutines, conflicts, failed calls and restarts interleave, no
\* read-modify-write of a Deployment (SetImage, Scale) undoes another one's.
THEOREM NoUpdateLost == Spec => NoLostClusterUpdate
<1>1. Init => FreshInv
  BY DEF Init, FreshInv
<1>2. TypeOK /\ InputSet /\ FreshInv /\ [Next]_vars
      => [\A a \in Apps : obj'[a].image = obj[a].image \/ obj'[a].replicas = obj[a].replicas]_obj
  <2> SUFFICES ASSUME TypeOK, InputSet, FreshInv, [Next]_vars, NEW a \in Apps, obj' # obj
               PROVE  obj'[a].image = obj[a].image \/ obj'[a].replicas = obj[a].replicas
    OBVIOUS
  <2>1. PICK d \in Deploys : Run(d)
    BY NextCases DEF vars, cluster, StartDeploy, ReturnHandler, ApprovePut, ApproveRead, Restart
  <2> QED
    BY <2>1, OneFieldAtATime
<1> QED
  BY <1>1, <1>2, FreshStep, TypeCorrect, PTL DEF Spec, NoLostClusterUpdate

-----------------------------------------------------------------------------
\* Some deploy of the app asked for canary steps that no int32 holds.
Oversize(a) == \E d \in Deploys : pc[d] # "idle" /\ App(d) = a /\ Oversized(d)

\* A replica count that an app may have.
Bounded(r, a) == r <= had[a] /\ (r = 0 /\ had[a] # 0 => Oversize(a))

BeforeLoop == {"idle", "snapshot", "park", "wait", "checkCtx", "setGet", "setPut", "discover"}
Scaling    == {"scaleGet", "scalePut"}

\* RunCanary's locals.  The count it scales to next is in range, it is 0 only
\* if the step is, and the step is 0 only if it is the wrapped one; with a
\* negative step the loop has not got beyond its first count, which the API
\* server refuses.
LoopOf(d) ==
  /\ pc[d] \in BeforeLoop => loop[d] = NoLoop
  /\ pc[d] # "idle" => loop[d].replicas <= had[App(d)]
  /\ pc[d] # "idle" /\ loop[d].step = 0 => Oversized(d)
  /\ loop[d].cur = 0 => loop[d].step = 0
  /\ loop[d].step < 0 => loop[d].cur = loop[d].step
  /\ pc[d] \in Scaling => InLoop(loop[d].cur, loop[d].replicas)
  /\ pc[d] \in {"rollout", "slo"} => loop[d].cur >= 0

BoundInv == ReplicasWithinBounds /\ \A d \in Deploys : LoopOf(d)

\* The property, app by app.
LEMMA BoundedApps == ReplicasWithinBounds <=> \A a \in Apps : Bounded(obj[a].replicas, a)
  BY DEF ReplicasWithinBounds, Bounded, Oversize

\* No step of a goroutine but Discover's changes what its percentage amounts
\* to, and Discover finds no amount yet.
LEMMA RunKeepsOversize ==
  ASSUME TypeOK, InputSet, \A d \in Deploys : LoopOf(d), NEW d \in Deploys, Run(d), NEW a, Oversize(a)
  PROVE  Oversize(a)'
<1>1. PICK e \in Deploys : pc[e] # "idle" /\ App(e) = a /\ Oversized(e)
  BY DEF Oversize
<1>2. UNCHANGED input /\ pc'[e] # "idle"
  BY <1>1, RunKeepsInput
<1>3. loop'[e].replicas = loop[e].replicas
  <2>1. CASE Discover(d) /\ e = d
    <3>1. loop[e].replicas = 0 /\ input[e].canaryStep \in Int
      BY <1>1, <2>1, RequestsAssumption DEF Discover, At, LoopOf, BeforeLoop, NoLoop, InputSet, DeployInput
    <3>2. StepPercent(input[e].canaryStep, ConfiguredStep) \in Nat
      BY <3>1, StepPercentPositive, ConfiguredAssumption
    <3>3. ~Oversized(e)
      BY <3>1, <3>2, Halves DEF Oversized
    <3> QED
      BY <1>1, <3>3
  <2>2. CASE Discover(d) /\ e # d
    BY <2>2 DEF Discover, TypeOK
  <2>3. CASE CheckSLOs(d)
    BY <2>3 DEF CheckSLOs, TypeOK
  <2>4. CASE UNCHANGED loop
    BY <2>4
  <2> QED
    BY <2>1, <2>2, <2>3, <2>4 DEF Run, Snapshot, Park, PollApproval, CheckContext, SetImageGet,
       SetImagePut, ScaleGet, ScalePut, WaitRollout, Succeed, RestoreGet, RestorePut, RolledBack, Read, Write
<1> QED
  BY <1>1, <1>2, <1>3 DEF Oversize, Oversized, App

\* No goroutine changes what the apps had.
LEMMA RunKeepsHad ==
  ASSUME NEW d \in Deploys, Run(d)
  PROVE  UNCHANGED had
  BY DEF Run, Snapshot, Park, PollApproval, CheckContext, SetImageGet, SetImagePut, Discover, ScaleGet,
     ScalePut, WaitRollout, CheckSLOs, Succeed, RestoreGet, RestorePut, RolledBack, Read, Write, cluster

\* The write of a bounded object keeps every app bounded.
LEMMA WriteBounded ==
  ASSUME TypeOK, InputSet, BoundInv, NEW d \in Deploys, Run(d),
         NEW from, NEW new \in Draft, NEW to, NEW onError, Write(d, from, new, to, onError),
         d \in fresh => Bounded(new.replicas, App(d))
  PROVE  ReplicasWithinBounds'
<1>1. App(d) \in Apps /\ UNCHANGED had
  BY RunKeepsInput, AppInApps, RunKeepsHad
<1>2. \A a \in Apps : Bounded(obj[a].replicas, a) /\ (Oversize(a) => Oversize(a)')
  BY BoundedApps, RunKeepsOversize DEF BoundInv
<1>3. CASE Store(d, new)
  <2>1. obj' = [obj EXCEPT ![App(d)] = new] /\ Bounded(new.replicas, App(d))
    BY <1>3 DEF Store
  <2>2. \A a \in Apps : Bounded(obj'[a].replicas, a)
    BY <1>1, <1>2, <2>1 DEF TypeOK
  <2>3. \A a \in Apps : Bounded(obj[a].replicas, a)'
    BY <1>1, <1>2, <2>2 DEF Bounded
  <2> QED
    BY <2>3 DEF ReplicasWithinBounds, Bounded, Oversize
<1>4. CASE UNCHANGED obj
  <2>1. \A a \in Apps : Bounded(obj[a].replicas, a)'
    BY <1>1, <1>2, <1>4 DEF Bounded
  <2> QED
    BY <2>1 DEF ReplicasWithinBounds, Bounded, Oversize
<1> QED
  BY <1>3, <1>4 DEF Write

\* Whatever a goroutine writes to its app is bounded.
LEMMA RunBounded ==
  ASSUME TypeOK, InputSet, FreshInv, BoundInv, NEW d \in Deploys, Run(d)
  PROVE  ReplicasWithinBounds'
<1>1. pc[d] # "idle" /\ UNCHANGED had
  BY RunKeepsInput, RunKeepsHad
<1>2. App(d) \in Apps /\ held[d] \in Draft /\ rec[d] \in Record /\ loop[d].cur \in Int32
  BY <1>1, AppInApps, Halves DEF TypeOK, Deployment, Draft
<1>3. d \in fresh => Bounded(held[d].replicas, App(d))
  BY <1>2, BoundedApps DEF FreshInv, BoundInv
<1>4. ASSUME NEW to, NEW onError, NEW image \in Images \union {None}, NEW from,
             Write(d, from, [held[d] EXCEPT !.image = image], to, onError)
      PROVE  ReplicasWithinBounds'
  <2>1. [held[d] EXCEPT !.image = image] \in Draft
    BY <1>2 DEF Draft
  <2>2. [held[d] EXCEPT !.image = image].replicas = held[d].replicas
    BY <1>2 DEF Draft
  <2> QED
    BY <1>3, <1>4, <2>1, <2>2, WriteBounded
<1>5. ASSUME NEW to, NEW onError, Write(d, "scalePut", [held[d] EXCEPT !.replicas = loop[d].cur], to, onError)
      PROVE  ReplicasWithinBounds'
  <2>1. [held[d] EXCEPT !.replicas = loop[d].cur] \in Draft
    BY <1>2 DEF Draft
  <2>2. [held[d] EXCEPT !.replicas = loop[d].cur].replicas = loop[d].cur
    BY <1>2 DEF Draft
  <2>3. LoopOf(d) /\ pc[d] = "scalePut"
    BY <1>5 DEF Write, At, BoundInv
  <2>4. loop[d].replicas \in Int /\ had[App(d)] \in Int /\ loop[d].cur \in Int
    BY <1>2, Halves DEF TypeOK, Int32
  <2>5. loop[d].cur <= had[App(d)]
    BY <1>1, <2>3, <2>4 DEF LoopOf, Scaling, InLoop
  <2>6. loop[d].cur = 0 => Oversize(App(d))
    BY <1>1, <2>3 DEF LoopOf, Oversize
  <2>7. Bounded(loop[d].cur, App(d))
    BY <2>5, <2>6 DEF Bounded
  <2> QED
    BY <1>5, <2>1, <2>2, <2>7, WriteBounded
<1>6. input[d].image \in Images /\ rec[d].imageOld \in Images \union {None}
  BY <1>1, <1>2, RequestsAssumption DEF InputSet, DeployInput, Record
<1>7. ASSUME UNCHANGED obj PROVE ReplicasWithinBounds'
  <2>1. \A a \in Apps : Bounded(obj[a].replicas, a) /\ (Oversize(a) => Oversize(a)')
    BY BoundedApps, RunKeepsOversize DEF BoundInv
  <2>2. \A a \in Apps : Bounded(obj[a].replicas, a)'
    BY <1>1, <1>7, <2>1 DEF Bounded
  <2> QED
    BY <2>2 DEF ReplicasWithinBounds, Bounded, Oversize
<1> QED
  BY <1>4, <1>5, <1>6, <1>7, RunCases DEF Read, cluster

\* A goroutine that leaves its locals alone and does not enter the loop.
LEMMA StaysInLoop ==
  ASSUME TypeOK, InputSet, NEW d \in Deploys, Run(d), LoopOf(d), UNCHANGED loop, NEW to, Goto(d, to),
         to \in BeforeLoop => pc[d] \in BeforeLoop,
         to \in Scaling => pc[d] \in Scaling,
         to \in {"rollout", "slo"} => pc[d] \in BeforeLoop \union {"rollout", "slo"} \/ loop[d].cur >= 0
  PROVE  LoopOf(d)'
<1>1. pc'[d] = to /\ UNCHANGED <<input, had>> /\ pc[d] # "idle"
  BY RunKeepsInput, RunKeepsHad DEF Goto, TypeOK
<1>2. pc[d] \in BeforeLoop => loop[d].cur >= 0
  BY DEF LoopOf, NoLoop
<1> QED
  BY <1>1, <1>2 DEF LoopOf, Oversized, App, BeforeLoop

\* RunCanary's loop, entered at Discover with the wrapped step.
LEMMA EntersLoop ==
  ASSUME TypeOK, InputSet, BoundInv, NEW d \in Deploys, Run(d), Discover(d)
  PROVE  LoopOf(d)'
<1> DEFINE total   == obj[App(d)].replicas
           percent == StepPercent(input[d].canaryStep, ConfiguredStep)
           first   == Step(total, percent)
<1>1. pc[d] # "idle" /\ UNCHANGED <<input, had>> /\ App(d) \in Apps /\ input[d].canaryStep \in Int
  BY RunKeepsInput, RunKeepsHad, AppInApps, RequestsAssumption DEF InputSet, DeployInput
<1>2. total \in 0..MaxInt32 /\ total <= had[App(d)]
  BY <1>1 DEF TypeOK, Deployment, BoundInv, ReplicasWithinBounds
<1>3. percent \in Nat
  BY <1>1, StepPercentPositive, ConfiguredAssumption
<1>4. first \in Int32 /\ (first = 0 => (total * percent) \div 100 > MaxInt32)
  BY <1>2, <1>3, StepRange
<1>5. \/ /\ loop' = [loop EXCEPT ![d] = [replicas |-> total, step |-> first, cur |-> first]]
         /\ Goto(d, IF InLoop(first, total) THEN "scaleGet" ELSE "succeed")
      \/ Goto(d, Rollback(d)) /\ UNCHANGED loop
  BY DEF Discover
<1>6. percent' = percent /\ App(d)' = App(d)
  BY <1>1 DEF App
<1>7. CASE Goto(d, Rollback(d)) /\ UNCHANGED loop
  BY <1>7, StaysInLoop DEF Rollback, BoundInv, BeforeLoop, Scaling
<1>8. CASE /\ loop' = [loop EXCEPT ![d] = [replicas |-> total, step |-> first, cur |-> first]]
           /\ Goto(d, IF InLoop(first, total) THEN "scaleGet" ELSE "succeed")
  <2>1. loop'[d] = [replicas |-> total, step |-> first, cur |-> first]
    BY <1>8 DEF TypeOK
  <2>2. pc'[d] \in {"scaleGet", "succeed"} /\ (pc'[d] = "scaleGet" => InLoop(first, total))
    BY <1>8 DEF TypeOK, Goto
  <2>3. first = 0 => Oversized(d)'
    BY <1>4, <1>6, <2>1 DEF Oversized
  <2> HIDE DEF total, first, percent
  <2> QED
    BY <1>1, <1>2, <1>6, <2>1, <2>2, <2>3 DEF LoopOf, BeforeLoop, Scaling
<1> QED
  BY <1>5, <1>7, <1>8

\* RunCanary's loop, repeated while the next count is in range.
LEMMA RepeatsLoop ==
  ASSUME TypeOK, InputSet, BoundInv, NEW d \in Deploys, Run(d), CheckSLOs(d)
  PROVE  LoopOf(d)'
<1> DEFINE next == Advance(loop[d].cur, loop[d].step)
<1>1. LoopOf(d) /\ pc[d] = "slo" /\ loop[d] \in [replicas: 0..MaxInt32, step: Int32, cur: Int32]
  BY DEF BoundInv, CheckSLOs, At, TypeOK
<1>2. loop[d].cur \in 0..MaxInt32 /\ loop[d].step \in 0..MaxInt32
  BY <1>1, Halves DEF LoopOf
<1>3. next = 0 => loop[d].step = 0
  <2>1. loop[d].step # 0 => loop[d].cur + loop[d].step \in 1 .. 2 * MaxInt32 + 1
    BY <1>2, Halves
  <2> QED
    BY <1>2, <2>1, WrapInt32, Halves DEF Advance
<1>4. \/ /\ loop' = [loop EXCEPT ![d].cur = next] /\ Goto(d, "scaleGet")
         /\ InLoop(next, loop[d].replicas)
      \/ \E to \in {"succeed", "restoreGet", "fail"} : Goto(d, to) /\ UNCHANGED loop
  BY DEF CheckSLOs, Rollback
<1> HIDE DEF next
<1>5. CASE \E to \in {"succeed", "restoreGet", "fail"} : Goto(d, to) /\ UNCHANGED loop
  BY <1>1, <1>5, StaysInLoop DEF BeforeLoop, Scaling
<1>6. CASE /\ loop' = [loop EXCEPT ![d].cur = next] /\ Goto(d, "scaleGet")
           /\ InLoop(next, loop[d].replicas)
  <2>1. loop' = [loop EXCEPT ![d] = [loop[d] EXCEPT !.cur = next]]
    BY <1>6
  <2>2. /\ loop'[d].replicas = loop[d].replicas /\ loop'[d].step = loop[d].step
        /\ loop'[d].cur = next /\ pc'[d] = "scaleGet"
    BY <1>1, <1>6, <2>1 DEF TypeOK, Goto
  <2>3. UNCHANGED <<input, had>>
    BY RunKeepsInput, RunKeepsHad
  <2> QED
    BY <1>1, <1>2, <1>3, <1>6, <2>2, <2>3 DEF LoopOf, BeforeLoop, Scaling, Oversized, App
<1> QED
  BY <1>4, <1>5, <1>6

\* A count the API server has taken is not negative.
LEMMA TakenCount ==
  ASSUME TypeOK, NEW d \in Deploys, ScalePut(d), pc'[d] = "rollout"
  PROVE  loop[d].cur >= 0
<1>1. pc'[d] = IF Store(d, [held[d] EXCEPT !.replicas = loop[d].cur]) THEN pc'[d] ELSE Rollback(d)
  BY DEF ScalePut, Write, Goto, TypeOK
<1>2. [held[d] EXCEPT !.replicas = loop[d].cur].replicas = loop[d].cur
  BY DEF TypeOK, Deployment
<1> QED
  BY <1>1, <1>2 DEF Store, Rollback

\* Every step of a goroutine keeps the account of its locals.
LEMMA RunKeepsLoop ==
  ASSUME TypeOK, InputSet, BoundInv, NEW d \in Deploys, Run(d)
  PROVE  \A e \in Deploys : LoopOf(e)'
<1> USE DEF BeforeLoop, Scaling
<1>1. LoopOf(d) /\ UNCHANGED <<input, had>>
  BY RunKeepsInput, RunKeepsHad DEF BoundInv
<1>2. CASE Discover(d) \/ CheckSLOs(d)
  <2>1. LoopOf(d)'
    BY <1>2, EntersLoop, RepeatsLoop
  <2>2. \A e \in Deploys : e # d => loop'[e] = loop[e] /\ pc'[e] = pc[e]
    BY <1>2 DEF Discover, CheckSLOs, Goto, TypeOK
  <2>3. ASSUME NEW e \in Deploys, e # d PROVE LoopOf(e)'
    <3>1. loop'[e] = loop[e] /\ pc'[e] = pc[e] /\ LoopOf(e)
      BY <2>2, <2>3 DEF BoundInv
    <3> QED
      BY <1>1, <3>1 DEF LoopOf, Oversized, App
  <2> QED
    BY <2>1, <2>3
<1>3. ASSUME UNCHANGED loop, LoopOf(d)', \A e \in Deploys : e # d => pc'[e] = pc[e]
      PROVE  \A e \in Deploys : LoopOf(e)'
  <2>1. ASSUME NEW e \in Deploys, e # d PROVE LoopOf(e)'
    <3>1. pc'[e] = pc[e] /\ LoopOf(e)
      BY <1>3, <2>1 DEF BoundInv
    <3> QED
      BY <1>1, <1>3, <3>1 DEF LoopOf, Oversized, App
  <2> QED
    BY <1>3, <2>1
<1>4. ASSUME UNCHANGED loop, NEW to, Goto(d, to),
             to \in BeforeLoop => pc[d] \in BeforeLoop, to \in Scaling => pc[d] \in Scaling,
             to \in {"rollout", "slo"} => pc[d] \in BeforeLoop \union {"rollout", "slo"} \/ loop[d].cur >= 0
      PROVE  \A e \in Deploys : LoopOf(e)'
  <2>1. LoopOf(d)'
    BY <1>1, <1>4, StaysInLoop
  <2>2. \A e \in Deploys : e # d => pc'[e] = pc[e]
    BY <1>4 DEF Goto, TypeOK
  <2> QED
    BY <1>3, <1>4, <2>1, <2>2
<1>5. CASE ScaleGet(d)
  BY <1>4, <1>5 DEF ScaleGet, Read, At, Rollback
<1>6. CASE SetImageGet(d) \/ RestoreGet(d)
  BY <1>4, <1>6 DEF SetImageGet, RestoreGet, Read, At, Rollback
<1>7. CASE SetImagePut(d) \/ RestorePut(d)
  <2>1. \E to \in {"discover", "rollout", "restoreGet", "fail"} : Goto(d, to) /\ (to \in {"discover", "rollout"} => pc[d] = "setPut")
    BY <1>7 DEF SetImagePut, RestorePut, Write, At, Rollback, AfterSetImage
  <2>2. UNCHANGED loop
    BY <1>7 DEF SetImagePut, RestorePut, Write
  <2> QED
    BY <1>4, <2>1, <2>2
<1>8. CASE ScalePut(d)
  <2>1. PICK to \in {"rollout", "restoreGet", "fail"} : Goto(d, to)
    BY <1>8 DEF ScalePut, Write, Rollback
  <2>2. to = "rollout" => loop[d].cur >= 0
    BY <1>8, <2>1, TakenCount DEF Goto, TypeOK
  <2>3. UNCHANGED loop
    BY <1>8 DEF ScalePut, Write
  <2> QED
    BY <1>4, <2>1, <2>2, <2>3
<1>9. CASE Snapshot(d) \/ PollApproval(d)
  BY <1>4, <1>9 DEF Snapshot, PollApproval, Begin, At
<1>10. CASE Park(d) \/ CheckContext(d) \/ WaitRollout(d) \/ Succeed(d) \/ RolledBack(d)
  BY <1>4, <1>10 DEF Park, CheckContext, WaitRollout, Succeed, RolledBack, Rollback, At
<1> QED
  BY <1>2, <1>5, <1>6, <1>7, <1>8, <1>9, <1>10 DEF Run

\* Canaries, whatever their step and the percentage asked for, and rollbacks
\* never leave an app with more replicas than it had, and leave it with none
\* only by a step that does not fit an int32 and has become 0 (RunCanary's
\* loop, its conversion at canary.go:34, and Scale writing an absolute count).
THEOREM ReplicasBounded == Spec => []ReplicasWithinBounds
<1>1. Init => FreshInv /\ BoundInv
  <2> SUFFICES ASSUME Init PROVE FreshInv /\ BoundInv
    OBVIOUS
  <2>1. \A a \in Apps : obj[a].replicas \in ReplicaCounts /\ had[a] = obj[a].replicas
    BY DEF Init
  <2>2. ReplicasWithinBounds
    <3>1. \A a \in Apps : obj[a].replicas \in Int /\ had[a] = obj[a].replicas
      <4>1. ReplicaCounts \subseteq Int
        BY ReplicasAssumption, Halves
      <4> QED
        BY <2>1, <4>1
    <3>2. \A a \in Apps : obj[a].replicas <= had[a]
      BY <3>1
    <3> QED
      BY <3>1, <3>2 DEF ReplicasWithinBounds
  <2>3. \A d \in Deploys : LoopOf(d)
    BY DEF Init, LoopOf, NoLoop, Scaling
  <2> QED
    BY <2>2, <2>3 DEF Init, FreshInv, BoundInv
<1>2. TypeOK /\ InputSet /\ FreshInv /\ BoundInv /\ [Next]_vars => BoundInv'
  <2> SUFFICES ASSUME TypeOK, InputSet, FreshInv, BoundInv, [Next]_vars PROVE BoundInv'
    OBVIOUS
  <2>1. CASE \E d \in Deploys : Run(d)
    BY <2>1, RunBounded, RunKeepsLoop DEF BoundInv
  <2>2. ASSUME UNCHANGED <<loop, obj, had>>, \A d \in Deploys : LoopOf(d)',
               \A d \in Deploys : pc[d] # "idle" => pc'[d] # "idle" /\ input'[d] = input[d]
        PROVE  BoundInv'
    <3>1. \A d \in Deploys : pc[d] # "idle" /\ Oversized(d)
                           => pc'[d] # "idle" /\ Oversized(d)' /\ App(d)' = App(d)
      BY <2>2 DEF Oversized, App
    <3>2. ReplicasWithinBounds'
      BY <2>2, <3>1 DEF BoundInv, ReplicasWithinBounds
    <3> QED
      BY <2>2, <3>2 DEF BoundInv
  <2>3. ASSUME NEW d \in Deploys, NEW request \in Requests, StartDeploy(d, request) PROVE BoundInv'
    <3>1. pc[d] = "idle" /\ UNCHANGED <<loop, obj, had>> /\ pc'[d] = "snapshot"
      BY <2>3 DEF StartDeploy, At, Goto, TypeOK, cluster
    <3>2. \A e \in Deploys : e # d => pc'[e] = pc[e] /\ input'[e] = input[e]
      BY <2>3 DEF StartDeploy, Goto, TypeOK
    <3>3. input'[d] \in Requests /\ had[input'[d].app] \in Nat
      BY <2>3, RequestsAssumption, Halves DEF StartDeploy, TypeOK, DeployInput
    <3>4. LoopOf(d)'
      BY <3>1, <3>3 DEF BoundInv, LoopOf, BeforeLoop, Scaling, NoLoop, App
    <3>5. ASSUME NEW e \in Deploys, e # d PROVE LoopOf(e)'
      <4>1. pc'[e] = pc[e] /\ input'[e] = input[e] /\ LoopOf(e)
        BY <3>2, <3>5 DEF BoundInv
      <4> QED
        BY <3>1, <4>1 DEF LoopOf, Oversized, App
    <3> QED
      BY <2>2, <3>1, <3>2, <3>4, <3>5
  <2>4. ASSUME UNCHANGED <<loop, obj, had, input>>,
               \A d \in Deploys : pc'[d] = pc[d] \/ (pc'[d] = "killed" /\ pc[d] # "idle")
        PROVE  BoundInv'
    <3>1. ASSUME NEW d \in Deploys PROVE LoopOf(d)'
      <4>1. LoopOf(d)
        BY DEF BoundInv
      <4> QED
        BY <2>4, <4>1 DEF LoopOf, Oversized, App, BeforeLoop, Scaling
    <3> QED
      BY <2>2, <2>4, <3>1
  <2> QED
    BY <2>1, <2>3, <2>4, NextCases DEF vars, cluster, ReturnHandler, ApprovePut, ApproveRead, Restart
<1>3. BoundInv => ReplicasWithinBounds
  BY DEF BoundInv
<1> QED
  BY <1>1, <1>2, <1>3, FreshStep, TypeCorrect, PTL DEF Spec

-----------------------------------------------------------------------------
(* The records implement DeployLifecycle.                                  *)

\* What DeployLifecycle's variables stand for.
StatusMap == [d \in Deploys |-> db[d].status]
Gated    == {d \in Deploys : pc[d] # "idle" /\ input[d].requireApproval}
Late     == {d \in Deploys : db[d].status # "waiting_approval" /\ \E a \in Approvers : approver[a].id = d}
EndedSet == {d \in Deploys : pc[d] = "done"}

\* The stored status of a deploy follows from where its goroutine is, as long
\* as the goroutine lives.
StoredStatus(d) ==
  /\ pc[d] = "idle" => db[d].status = "none"
  /\ pc[d] \in {"snapshot", "park"} => db[d].status = "started" /\ rec[d].status = "started"
  /\ pc[d] \in {"park"} \union Waiting => input[d].requireApproval
  /\ pc[d] \in Waiting => db[d].status \in {"waiting_approval", "running"}
  /\ db[d].status = "waiting_approval" => input[d].requireApproval
  /\ pc[d] \in Acting =>
       db[d].status = IF input[d].requireApproval THEN "running" ELSE "started"

\* The record an approver has read was waiting; by now it may have been
\* released by another, and may even have ended.
PendingApproval(a) ==
  /\ approver[a] # NoCall => approver[a].id \in Deploys /\ approver[a].record.status = "running"
  /\ \A d \in Deploys : approver[a].id = d =>
       /\ pc[d] \notin {"idle", "snapshot", "park"} /\ input[d].requireApproval
       /\ db[d].status \in {"waiting_approval", "running", "succeeded", "rolled_back"}

LifecycleInv ==
  /\ \A d \in Deploys : StoredStatus(d)
  /\ \A a \in Approvers : PendingApproval(a)

-----------------------------------------------------------------------------
\* store.Put of a record replaces one status.
LEMMA PutMoves ==
  ASSUME TypeOK, NEW d \in Deploys, NEW record, db' = [db EXCEPT ![d] = record]
  PROVE  /\ StatusMap' = [StatusMap EXCEPT ![d] = record.status]
         /\ db'[d].status = record.status
         /\ \A e \in Deploys : e # d => db'[e] = db[e]
<1>1. db'[d] = record /\ \A e \in Deploys : e # d => db'[e] = db[e]
  BY DEF TypeOK
<1>2. [StatusMap EXCEPT ![d] = record.status]
        = [e \in Deploys |-> IF e = d THEN record.status ELSE db[e].status]
  BY DEF StatusMap
<1>3. StatusMap' = [e \in Deploys |-> IF e = d THEN record.status ELSE db[e].status]
  BY <1>1 DEF StatusMap
<1> QED
  BY <1>1, <1>2, <1>3

\* PutStatus stores the status it is given.
LEMMA PutStatusMoves ==
  ASSUME TypeOK, NEW d \in Deploys, NEW status, PutStatus(d, status)
  PROVE  /\ StatusMap' = [StatusMap EXCEPT ![d] = status]
         /\ db'[d].status = status /\ rec'[d].status = status
         /\ \A e \in Deploys : e # d => db'[e] = db[e] /\ rec'[e] = rec[e]
<1>1. rec' = [rec EXCEPT ![d] = [rec[d] EXCEPT !.status = status]]
  BY DEF PutStatus
<1>2. rec'[d].status = status /\ \A e \in Deploys : e # d => rec'[e] = rec[e]
  BY <1>1 DEF TypeOK, Record
<1>3. db' = [db EXCEPT ![d] = rec'[d]]
  BY DEF PutStatus
<1> QED
  BY <1>2, <1>3, PutMoves

\* No step of a goroutine changes which deploys are gated.
LEMMA RunKeepsGated ==
  ASSUME TypeOK, NEW d \in Deploys, Run(d)
  PROVE  Gated' = Gated
<1>1. UNCHANGED input /\ \E to \in Location \ {"idle"} : pc[d] # "idle" /\ Goto(d, to)
  BY Locations DEF Run, At, Snapshot, Park, PollApproval, CheckContext, SetImageGet, SetImagePut,
     Discover, ScaleGet, ScalePut, WaitRollout, CheckSLOs, Succeed, RestoreGet, RestorePut,
     RolledBack, Read, Write, Rollback, Begin, AfterSetImage
<1>2. \A e \in Deploys : pc'[e] # "idle" <=> pc[e] # "idle"
  BY <1>1 DEF Goto, TypeOK
<1> QED
  BY <1>1, <1>2 DEF Gated

\* A goroutine that has ended does not run; one that ends stores a final status.
LEMMA RunEnds ==
  ASSUME TypeOK, NEW d \in Deploys, Run(d)
  PROVE  EndedSet' = IF Succeed(d) \/ RolledBack(d) THEN EndedSet \union {d} ELSE EndedSet
<1>1. pc[d] # "done"
  BY DEF Run, At, Snapshot, Park, PollApproval, CheckContext, SetImageGet, SetImagePut, Discover,
     ScaleGet, ScalePut, WaitRollout, CheckSLOs, Succeed, RestoreGet, RestorePut, RolledBack, Read, Write
<1>2. CASE Succeed(d) \/ RolledBack(d)
  <2>1. pc' = [pc EXCEPT ![d] = "done"]
    BY <1>2 DEF Succeed, RolledBack, Goto
  <2> QED
    BY <1>2, <2>1 DEF EndedSet, TypeOK
<1>3. CASE ~(Succeed(d) \/ RolledBack(d))
  <2>1. \E to \in Location \ {"done"} : Goto(d, to)
    BY <1>3, Locations DEF Run, Snapshot, Park, PollApproval, CheckContext, SetImageGet, SetImagePut,
       Discover, ScaleGet, ScalePut, WaitRollout, CheckSLOs, RestoreGet, RestorePut, Read, Write,
       Rollback, Begin, AfterSetImage
  <2>2. \A e \in Deploys : pc'[e] = "done" <=> pc[e] = "done"
    BY <1>1, <2>1 DEF Goto, TypeOK
  <2> QED
    BY <1>3, <2>2 DEF EndedSet
<1> QED
  BY <1>2, <1>3

\* No goroutine reads or stores an approval.
LEMMA RunKeepsApprovers ==
  ASSUME NEW d \in Deploys, Run(d)
  PROVE  UNCHANGED <<approver, approved>>
  BY DEF Run, Snapshot, Park, PollApproval, CheckContext, SetImageGet, SetImagePut, Discover, ScaleGet,
     ScalePut, WaitRollout, CheckSLOs, Succeed, RestoreGet, RestorePut, RolledBack, Read, Write, approval

\* Approvals become late only by a status that stops being "waiting_approval".
LEMMA SameLate ==
  ASSUME UNCHANGED approver,
         \A d \in Deploys : (\E a \in Approvers : approver[a].id = d)
           => (db'[d].status = "waiting_approval" <=> db[d].status = "waiting_approval")
  PROVE  Late' = Late
  BY DEF Late

-----------------------------------------------------------------------------
\* The snapshot stores the record again, with the status it already has.
LEMMA SnapshotStutters ==
  ASSUME TypeOK, LifecycleInv, NEW d \in Deploys, Snapshot(d)
  PROVE  /\ \A e \in Deploys : db'[e].status = db[e].status /\ rec'[e].status = rec[e].status
         /\ StatusMap' = StatusMap
<1>1. db[d].status = "started" /\ rec[d].status = "started"
  BY DEF LifecycleInv, StoredStatus, Snapshot, At
<1>2. CASE UNCHANGED <<rec, db>>
  BY <1>2 DEF StatusMap
<1>3. CASE /\ rec' = [rec EXCEPT ![d].imageOld = SnapshotOf(d)]
           /\ db'  = [db EXCEPT ![d] = rec'[d]]
  <2>1. rec' = [rec EXCEPT ![d] = [rec[d] EXCEPT !.imageOld = SnapshotOf(d)]]
    BY <1>3
  <2>2. rec'[d].status = "started" /\ \A e \in Deploys : e # d => rec'[e] = rec[e]
    BY <1>1, <2>1 DEF TypeOK, Record
  <2>3. \A e \in Deploys : db'[e].status = db[e].status
    BY <1>1, <1>3, <2>2, PutMoves
  <2> QED
    BY <1>1, <2>2, <2>3 DEF StatusMap
<1> QED
  BY <1>2, <1>3 DEF Snapshot

\* Before a goroutine waits for its approval nobody can approve its record.
Unasked == {"idle", "snapshot", "park"}

\* A step of a goroutine that changes no status leaves it, and everyone, in order.
LEMMA MoveKeepsLifecycle ==
  ASSUME TypeOK, LifecycleInv, NEW d \in Deploys, NEW to, Goto(d, to), UNCHANGED <<input, approver>>,
         \A e \in Deploys : db'[e].status = db[e].status /\ rec'[e].status = rec[e].status,
         to # "idle",
         to \in {"snapshot", "park"} => pc[d] \in {"snapshot", "park"},
         to = "park" => input[d].requireApproval,
         to \in Waiting => pc[d] \in Waiting,
         to \in Acting =>
           db[d].status = IF input[d].requireApproval THEN "running" ELSE "started"
  PROVE  LifecycleInv'
<1>1. \A e \in Deploys : StoredStatus(e)'
  BY DEF Goto, TypeOK, LifecycleInv, StoredStatus, Waiting
<1>2. \A e \in Deploys : pc[e] \notin Unasked => pc'[e] \notin Unasked
  BY DEF Goto, TypeOK, Unasked
<1>3. \A a \in Approvers : PendingApproval(a)'
  BY <1>2 DEF LifecycleInv, PendingApproval, Unasked
<1> QED
  BY <1>1, <1>3 DEF LifecycleInv

\* A goroutine that stores a status: before anyone can approve its record, or
\* at its end.
LEMMA PutKeepsLifecycle ==
  ASSUME TypeOK, LifecycleInv, NEW d \in Deploys, NEW status, NEW to, PutStatus(d, status),
         Goto(d, to), UNCHANGED approver,
         pc[d] \in Unasked \/ (to = "done" /\ status \in Terminal /\ UNCHANGED input),
         \A e \in Deploys : e # d => input'[e] = input[e],
         StoredStatus(d)'
  PROVE  LifecycleInv'
<1>1. \A e \in Deploys : e # d =>
        db'[e] = db[e] /\ rec'[e] = rec[e] /\ pc'[e] = pc[e] /\ input'[e] = input[e]
  BY PutStatusMoves DEF Goto, TypeOK
<1>2. \A e \in Deploys : e # d => StoredStatus(e)'
  BY <1>1 DEF LifecycleInv, StoredStatus
<1>3. db'[d].status = status /\ pc'[d] = to
  BY PutStatusMoves DEF Goto, TypeOK
<1>4. ASSUME NEW a \in Approvers PROVE PendingApproval(a)'
  <2>1. PendingApproval(a)
    BY DEF LifecycleInv
  <2>2. approver[a].id = d => to = "done" /\ status \in Terminal /\ UNCHANGED input
    BY <2>1 DEF PendingApproval, Unasked
  <2>3. ASSUME NEW e \in Deploys, approver[a].id = e
        PROVE  /\ pc'[e] \notin {"idle", "snapshot", "park"} /\ input'[e].requireApproval
               /\ db'[e].status \in {"waiting_approval", "running", "succeeded", "rolled_back"}
    BY <1>1, <1>3, <2>1, <2>2, <2>3 DEF PendingApproval, Terminal
  <2> QED
    BY <2>1, <2>3 DEF PendingApproval
<1> QED
  BY <1>2, <1>4 DEF LifecycleInv

-----------------------------------------------------------------------------
\* Every step of a goroutine keeps the statuses in order.
LEMMA RunKeepsLifecycle ==
  ASSUME TypeOK, InputSet, LifecycleInv, NEW d \in Deploys, Run(d)
  PROVE  LifecycleInv'
<1> USE DEF Acting, Waiting, cluster, approval
<1>1. StoredStatus(d)
  BY DEF LifecycleInv
<1>2. \A r : Begin(d, r) \in {"setGet", "fail", "restoreGet"}
  BY DEF Begin
<1>3. Rollback(d) \in {"fail", "restoreGet"} /\ AfterSetImage(d) \in {"discover", "rollout"}
  BY DEF Rollback, AfterSetImage
<1>4. UNCHANGED input
  BY RunKeepsInput
<1>5. CASE Snapshot(d)
  <2>1. PICK to : /\ Goto(d, to)
                  /\ IF input[d].requireApproval THEN to = "park"
                     ELSE to \in {"setGet", "fail", "restoreGet"}
    BY <1>2, <1>5 DEF Snapshot
  <2>2. pc[d] = "snapshot" /\ UNCHANGED approver
    BY <1>5 DEF Snapshot, At
  <2>3. input[d].requireApproval => to = "park"
    BY <2>1
  <2>4. ~input[d].requireApproval => to \in {"setGet", "fail", "restoreGet"}
    BY <2>1
  <2> QED
    BY <1>1, <1>4, <1>5, <2>1, <2>2, <2>3, <2>4, SnapshotStutters, MoveKeepsLifecycle DEF StoredStatus
<1>6. CASE Park(d)
  <2>1. StoredStatus(d)'
    BY <1>1, <1>4, <1>6, PutStatusMoves DEF Park, At, Goto, TypeOK, StoredStatus
  <2> QED
    BY <1>4, <1>6, <2>1, PutKeepsLifecycle DEF Park, At, Unasked
<1>7. CASE Succeed(d) \/ RolledBack(d)
  <2>1. StoredStatus(d)'
    BY <1>4, <1>7, PutStatusMoves DEF Succeed, RolledBack, Goto, TypeOK, StoredStatus
  <2> QED
    BY <1>4, <1>7, <2>1, PutKeepsLifecycle DEF Succeed, RolledBack, Terminal
<1>8. CASE PollApproval(d)
  <2>1. PICK to : /\ Goto(d, to)
                  /\ IF db[d].status = "running" THEN to \in {"setGet", "fail", "restoreGet"}
                     ELSE to = "checkCtx"
    BY <1>2, <1>8 DEF PollApproval, Released
  <2> QED
    BY <1>1, <1>4, <1>8, <2>1, MoveKeepsLifecycle DEF PollApproval, At, StoredStatus
<1>9. CASE CheckContext(d)
  BY <1>1, <1>4, <1>9, MoveKeepsLifecycle DEF CheckContext, At, StoredStatus
<1>10. CASE \/ SetImageGet(d) \/ SetImagePut(d) \/ Discover(d) \/ ScaleGet(d) \/ ScalePut(d)
            \/ WaitRollout(d) \/ CheckSLOs(d) \/ RestoreGet(d) \/ RestorePut(d)
  <2>1. /\ pc[d] \in Acting /\ UNCHANGED <<db, rec, approver>>
        /\ \E to \in Acting : Goto(d, to)
    BY <1>3, <1>10 DEF SetImageGet, SetImagePut, Discover, ScaleGet, ScalePut, WaitRollout,
       CheckSLOs, RestoreGet, RestorePut, Read, Write, At
  <2> QED
    BY <1>1, <1>4, <2>1, MoveKeepsLifecycle DEF StoredStatus
<1> QED
  BY <1>5, <1>6, <1>7, <1>8, <1>9, <1>10 DEF Run

\* Every step keeps the statuses in order, however approvals overlap.
LEMMA LifecycleStep ==
  ASSUME TypeOK, InputSet, LifecycleInv, [Next]_vars
  PROVE  LifecycleInv'
<1> USE DEF cluster, approval
<1>1. ASSUME NEW d \in Deploys, NEW request \in Requests, StartDeploy(d, request)
      PROVE  LifecycleInv'
  <2>1. StoredStatus(d)'
    BY <1>1, PutStatusMoves DEF StartDeploy, Goto, TypeOK, StoredStatus, Waiting, Acting
  <2>2. \A e \in Deploys : e # d => input'[e] = input[e]
    BY <1>1 DEF StartDeploy, TypeOK
  <2> QED
    BY <1>1, <2>1, <2>2, PutKeepsLifecycle DEF StartDeploy, At, Unasked
<1>2. ASSUME NEW d \in Deploys, ReturnHandler(d) PROVE LifecycleInv'
  BY <1>2 DEF ReturnHandler, LifecycleInv, StoredStatus, PendingApproval
<1>3. ASSUME NEW d \in Deploys, Run(d) PROVE LifecycleInv'
  BY <1>3, RunKeepsLifecycle
<1>4. ASSUME NEW a \in Approvers, ApprovePut(a) PROVE LifecycleInv'
  <2> DEFINE id == approver[a].id
  <2>1. /\ id \in Deploys /\ approver[a].record.status = "running"
        /\ pc[id] \notin {"idle", "snapshot", "park"} /\ input[id].requireApproval
    BY <1>4 DEF ApprovePut, LifecycleInv, PendingApproval
  <2>2. /\ db'[id].status = "running"
        /\ \A e \in Deploys : e # id => db'[e] = db[e]
    BY <1>4, <2>1, PutMoves DEF ApprovePut
  <2> HIDE DEF id
  <2>3. ASSUME NEW b \in Approvers PROVE PendingApproval(b)'
    <3>1. approver'[b] \in {NoCall, approver[b]} /\ UNCHANGED <<pc, input>> /\ PendingApproval(b)
      BY <1>4 DEF ApprovePut, TypeOK, LifecycleInv
    <3>2. NoCall.id \notin Deploys
      BY NoneAssumption DEF NoCall
    <3>3. \A e \in Deploys : db'[e].status \in {"running", db[e].status}
      BY <2>2
    <3> QED
      BY <3>1, <3>2, <3>3 DEF PendingApproval
  <2>4. \A e \in Deploys : StoredStatus(e)'
    BY <1>4, <2>1, <2>2 DEF ApprovePut, LifecycleInv, StoredStatus
  <2> QED
    BY <2>3, <2>4 DEF LifecycleInv
<1>5. ASSUME NEW a \in Approvers, NEW d \in Deploys, ApproveRead(a, d) PROVE LifecycleInv'
  <2>1. [db[d] EXCEPT !.status = "running"].status = "running"
    BY DEF TypeOK, Record
  <2>2. /\ approver'[a] = [id |-> d, record |-> [db[d] EXCEPT !.status = "running"]]
        /\ \A b \in Approvers : b # a => approver'[b] = approver[b]
    BY <1>5 DEF ApproveRead, TypeOK
  <2>3. db[d].status = "waiting_approval" /\ UNCHANGED <<db, pc, input, rec>>
    BY <1>5 DEF ApproveRead, Approvable
  <2>4. pc[d] \notin {"idle", "snapshot", "park"} /\ input[d].requireApproval
    BY <2>3 DEF LifecycleInv, StoredStatus
  <2>5. PendingApproval(a)'
    <3>1. approver'[a].id = d /\ approver'[a].record.status = "running"
      <4> DEFINE r == [db[d] EXCEPT !.status = "running"]
      <4>1. r.status = "running" /\ approver'[a] = [id |-> d, record |-> r]
        BY <2>1, <2>2
      <4> HIDE DEF r
      <4> QED
        BY <4>1
    <3>2. /\ pc'[d] \notin {"idle", "snapshot", "park"} /\ input'[d].requireApproval
          /\ db'[d].status \in {"waiting_approval", "running", "succeeded", "rolled_back"}
      BY <2>3, <2>4
    <3> QED
      BY <3>1, <3>2 DEF PendingApproval
  <2>6. \A b \in Approvers : b # a => PendingApproval(b)'
    BY <2>2, <2>3 DEF LifecycleInv, PendingApproval
  <2>7. \A e \in Deploys : StoredStatus(e)'
    BY <2>3 DEF LifecycleInv, StoredStatus
  <2> QED
    BY <2>5, <2>6, <2>7 DEF LifecycleInv
<1>6. CASE Restart
  <2>1. \A e \in Deploys : StoredStatus(e)'
    BY <1>6 DEF Restart, LifecycleInv, StoredStatus, Waiting, Acting
  <2>2. \A a \in Approvers : approver'[a] = NoCall
    BY <1>6 DEF Restart
  <2>3. \A a \in Approvers : PendingApproval(a)'
    BY <2>2, NoneAssumption DEF PendingApproval, NoCall
  <2> QED
    BY <2>1, <2>3 DEF LifecycleInv
<1>7. CASE UNCHANGED vars
  BY <1>7 DEF vars, LifecycleInv, StoredStatus, PendingApproval
<1> QED
  BY <1>1, <1>2, <1>3, <1>4, <1>5, <1>6, <1>7, NextCases

-----------------------------------------------------------------------------
\* What a goroutine does to its record is a step of the lifecycle, or none.
LEMMA RunSimulates ==
  ASSUME TypeOK, LifecycleInv, NEW d \in Deploys, Run(d)
  PROVE  Lifecycle!Next \/ UNCHANGED <<StatusMap, Gated, Late, EndedSet>>
<1>1. Gated' = Gated /\ UNCHANGED approver
  BY RunKeepsGated, RunKeepsApprovers
<1>2. StoredStatus(d) /\ StatusMap[d] = db[d].status
  BY DEF LifecycleInv, StatusMap
<1>3. d \in Gated <=> pc[d] # "idle" /\ input[d].requireApproval
  BY DEF Gated
<1>4. CASE Park(d)
  <2>1. pc[d] = "park" /\ StatusMap' = [StatusMap EXCEPT ![d] = "waiting_approval"]
        /\ \A e \in Deploys : e # d => db'[e] = db[e]
    BY <1>4, PutStatusMoves DEF Park, At
  <2>2. \A a \in Approvers : approver[a].id # d
    BY <2>1 DEF LifecycleInv, PendingApproval
  <2>3. Late' = Late
    BY <1>1, <2>1, <2>2, SameLate
  <2>4. EndedSet' = EndedSet
    BY <1>4, <2>1, RunEnds DEF Succeed, RolledBack, At
  <2>5. Lifecycle!Park(d)
    BY <1>1, <1>2, <1>3, <2>1, <2>3, <2>4
       DEF Lifecycle!Park, Lifecycle!Move, StoredStatus, StatusMap, Gated, Late, EndedSet
  <2> QED
    BY <2>5 DEF Lifecycle!Next
<1>5. CASE Succeed(d) \/ RolledBack(d)
  <2>1. PICK to \in {"succeeded", "rolled_back"} :
          /\ StatusMap' = [StatusMap EXCEPT ![d] = to] /\ db'[d].status = to
          /\ \A e \in Deploys : e # d => db'[e] = db[e]
    BY <1>5, PutStatusMoves DEF Succeed, RolledBack
  <2>2. pc[d] \in Acting /\ d \notin EndedSet
    BY <1>5 DEF Succeed, RolledBack, At, Acting, EndedSet
  <2>3. StatusMap[d] = IF d \in Gated THEN "running" ELSE "started"
    BY <1>2, <1>3, <2>2 DEF StoredStatus, Acting
  <2>4. Late' = Late
    BY <1>1, <1>2, <2>1, <2>3, SameLate
  <2>5. EndedSet' = EndedSet \union {d}
    BY <1>5, RunEnds
  <2>6. Lifecycle!Finish(d)
    BY <1>1, <2>1, <2>2, <2>3, <2>4, <2>5
       DEF Lifecycle!Finish, Lifecycle!Move, StatusMap, Gated, Late, EndedSet
  <2> QED
    BY <2>6 DEF Lifecycle!Next
<1>6. CASE Snapshot(d)
  <2>1. EndedSet' = EndedSet
    BY <1>6, RunEnds DEF Snapshot, Succeed, RolledBack, At
  <2>2. Late' = Late
    BY <1>1, <1>6, SnapshotStutters, SameLate
  <2> QED
    BY <1>1, <1>6, <2>1, <2>2, SnapshotStutters
<1>7. CASE UNCHANGED db /\ ~(Succeed(d) \/ RolledBack(d))
  <2>1. EndedSet' = EndedSet
    BY <1>7, RunEnds
  <2>2. Late' = Late /\ StatusMap' = StatusMap
    BY <1>1, <1>7 DEF Late, StatusMap
  <2> QED
    BY <1>1, <2>1, <2>2
<1> QED
  BY <1>4, <1>5, <1>6, <1>7 DEF Run, PollApproval, CheckContext, SetImageGet, SetImagePut,
     Discover, ScaleGet, ScalePut, WaitRollout, CheckSLOs, RestoreGet, RestorePut, Read, Write

\* An approval releases its deploy, or finds that another one has.
LEMMA ApproveSimulates ==
  ASSUME TypeOK, LifecycleInv, NEW a \in Approvers, ApprovePut(a)
  PROVE  Lifecycle!Next
<1>1. PICK id \in Deploys : id = approver[a].id
  BY DEF ApprovePut, LifecycleInv, PendingApproval
<1>2. /\ approver[a].record.status = "running" /\ pc[id] # "idle" /\ input[id].requireApproval
      /\ db[id].status \in {"waiting_approval", "running", "succeeded", "rolled_back"}
  BY <1>1 DEF ApprovePut, LifecycleInv, PendingApproval
<1>3. db' = [db EXCEPT ![id] = approver[a].record]
  BY <1>1 DEF ApprovePut
<1>4. /\ StatusMap' = [StatusMap EXCEPT ![id] = "running"] /\ db'[id].status = "running"
      /\ \A e \in Deploys : e # id => db'[e] = db[e]
  <2>1. /\ StatusMap' = [StatusMap EXCEPT ![id] = approver[a].record.status]
        /\ db'[id].status = approver[a].record.status
        /\ \A e \in Deploys : e # id => db'[e] = db[e]
    BY <1>3, PutMoves
  <2>2. approver[a].record.status = "running"
    BY <1>2
  <2> QED
    BY <2>1, <2>2, Zenon
<1>5. Gated' = Gated /\ EndedSet' = EndedSet /\ id \in Gated
  BY <1>2 DEF ApprovePut, Gated, EndedSet
<1>6. \A e \in Deploys : e # id => (e \in Late' <=> e \in Late)
  <2>1. ASSUME NEW e \in Deploys, e # id
        PROVE  (\E b \in Approvers : approver'[b].id = e) <=> (\E b \in Approvers : approver[b].id = e)
    <3>1. NoCall.id # e
      BY NoneAssumption DEF NoCall
    <3>2. \A b \in Approvers : approver'[b].id = e <=> approver[b].id = e
      BY <1>1, <2>1, <3>1 DEF ApprovePut, TypeOK
    <3> QED
      BY <3>2
  <2> QED
    BY <1>4, <2>1 DEF Late
<1>7. Late \subseteq Deploys /\ Late' \subseteq Deploys
  BY DEF Late
<1>8. CASE db[id].status = "waiting_approval"
  <2>1. Late' \in {Late, Late \union {id}}
    <3>1. id \notin Late
      BY <1>8 DEF Late
    <3> QED
      BY <1>6, <1>7, <3>1
  <2>2. Lifecycle!Release(id)
    BY <1>4, <1>5, <1>8, <2>1
       DEF Lifecycle!Release, Lifecycle!Move, StatusMap, Gated, Late, EndedSet
  <2> QED
    BY <2>2 DEF Lifecycle!Next
<1>9. CASE db[id].status # "waiting_approval"
  <2>1. id \in Late
    BY <1>1, <1>9 DEF Late
  <2>2. Late' \in {Late, Late \ {id}}
    BY <1>6, <1>7, <2>1
  <2>3. StatusMap[id] \in {"running", "succeeded", "rolled_back"}
    BY <1>2, <1>9 DEF StatusMap
  <2>4. Lifecycle!Reopen(id)
    BY <1>4, <1>5, <2>1, <2>2, <2>3 DEF Lifecycle!Reopen, StatusMap, Gated, Late, EndedSet
  <2> QED
    BY <2>4 DEF Lifecycle!Next
<1> QED
  BY <1>8, <1>9

\* The Puts of the handlers are Create, Release and Reopen; a restart forgets
\* the approvals under way; nothing else moves a status.
LEMMA StepSimulates ==
  ASSUME TypeOK, InputSet, LifecycleInv, [Next]_vars
  PROVE  Lifecycle!Next \/ UNCHANGED <<StatusMap, Gated, Late, EndedSet>>
<1> USE DEF cluster, approval
<1>1. ASSUME NEW d \in Deploys, NEW request \in Requests, StartDeploy(d, request)
      PROVE  Lifecycle!Next
  <2>1. /\ StatusMap[d] = "none" /\ StatusMap' = [StatusMap EXCEPT ![d] = "started"]
        /\ db'[d].status = "started" /\ \A e \in Deploys : e # d => db'[e] = db[e]
    BY <1>1, PutStatusMoves DEF StartDeploy, At, LifecycleInv, StoredStatus, StatusMap
  <2>2. \A e \in Deploys : e # d => (e \in Gated' <=> e \in Gated)
    BY <1>1 DEF StartDeploy, Goto, TypeOK, Gated
  <2>3. d \notin Gated /\ Gated \subseteq Deploys /\ Gated' \subseteq Deploys
    BY <1>1 DEF StartDeploy, At, Gated
  <2>4. Gated' \in {Gated, Gated \union {d}}
    BY <2>2, <2>3
  <2>5. \A a \in Approvers : approver[a].id # d
    BY <1>1 DEF StartDeploy, At, LifecycleInv, PendingApproval
  <2>6. Late' = Late
    BY <1>1, <2>1, <2>5, SameLate DEF StartDeploy
  <2>7. EndedSet' = EndedSet
    BY <1>1 DEF StartDeploy, At, Goto, TypeOK, EndedSet
  <2>8. Lifecycle!Create(d)
    BY <2>1, <2>4, <2>6, <2>7 DEF Lifecycle!Create, Lifecycle!Move, StatusMap, Gated, Late, EndedSet
  <2> QED
    BY <2>8 DEF Lifecycle!Next
<1>2. ASSUME NEW a \in Approvers, ApprovePut(a) PROVE Lifecycle!Next
  BY <1>2, ApproveSimulates
<1>3. ASSUME NEW d \in Deploys, Run(d)
      PROVE  Lifecycle!Next \/ UNCHANGED <<StatusMap, Gated, Late, EndedSet>>
  BY <1>3, RunSimulates
<1>4. ASSUME NEW a \in Approvers, NEW d \in Deploys, ApproveRead(a, d)
      PROVE  UNCHANGED <<StatusMap, Gated, Late, EndedSet>>
  <2>1. UNCHANGED <<db, pc, input>> /\ db[d].status = "waiting_approval"
    BY <1>4 DEF ApproveRead, Approvable
  <2>2. ASSUME NEW e \in Deploys, db[e].status # "waiting_approval"
        PROVE  (\E b \in Approvers : approver'[b].id = e) <=> (\E b \in Approvers : approver[b].id = e)
    <3>1. NoCall.id # e /\ e # d
      BY <2>1, <2>2, NoneAssumption DEF NoCall
    <3>2. \A b \in Approvers : approver'[b].id = e <=> approver[b].id = e
      BY <1>4, <3>1 DEF ApproveRead, TypeOK
    <3> QED
      BY <3>2
  <2>3. Late' = Late
    BY <2>1, <2>2 DEF Late
  <2> QED
    BY <2>1, <2>3 DEF StatusMap, Gated, EndedSet
<1>5. CASE Restart
  <2>1. Late' = {}
    BY <1>5, NoneAssumption DEF Restart, Late, NoCall
  <2>2. \A d \in Deploys : (pc'[d] = "idle" <=> pc[d] = "idle") /\ (pc'[d] = "done" <=> pc[d] = "done")
    BY <1>5 DEF Restart
  <2>3. UNCHANGED <<StatusMap, Gated, EndedSet>>
    BY <1>5, <2>2 DEF Restart, StatusMap, Gated, EndedSet
  <2>4. Lifecycle!Forget
    BY <2>1, <2>3 DEF Lifecycle!Forget, StatusMap, Gated, Late, EndedSet
  <2> QED
    BY <2>4 DEF Lifecycle!Next
<1>6. CASE UNCHANGED <<db, input, pc, approver>>
  BY <1>6 DEF StatusMap, Gated, Late, EndedSet
<1> QED
  BY <1>1, <1>2, <1>3, <1>4, <1>5, <1>6, NextCases DEF ReturnHandler, vars

\* However approvals, goroutines, failed calls and restarts interleave, the
\* status of every deploy goes through started, waiting_approval and running to
\* succeeded or rolled_back, no gated deploy ends without its release, and what
\* has ended is called "running" again only by an approval that was read before
\* another one released the deploy (orchestrator.go:58-97, server.go:83-91).
THEOREM ImplementsLifecycle == Spec => LifecycleSpec
<1>1. Init => LifecycleInv /\ Lifecycle!Init
  <2> SUFFICES ASSUME Init PROVE LifecycleInv /\ Lifecycle!Init
    OBVIOUS
  <2>1. LifecycleInv
    BY NoneAssumption DEF Init, LifecycleInv, StoredStatus, PendingApproval, NoRecord, NoCall, Waiting, Acting
  <2>2. Late = {}
    BY NoneAssumption DEF Init, Late, NoCall
  <2> QED
    BY <2>1, <2>2 DEF Init, Late, NoRecord, Lifecycle!Init
<1>2. TypeOK /\ InputSet /\ LifecycleInv /\ [Next]_vars => LifecycleInv'
  BY LifecycleStep
<1>3. TypeOK /\ InputSet /\ LifecycleInv /\ [Next]_vars
      => [Lifecycle!Next]_<<[d \in Deploys |-> db[d].status],
                            {d \in Deploys : pc[d] # "idle" /\ input[d].requireApproval},
                            {d \in Deploys : db[d].status # "waiting_approval" /\
                                             \E a \in Approvers : approver[a].id = d},
                            {d \in Deploys : pc[d] = "done"}>>
  BY StepSimulates DEF StatusMap, Gated, Late, EndedSet
<1> QED
  BY <1>1, <1>2, <1>3, TypeCorrect, PTL DEF Spec, LifecycleSpec, Lifecycle!Spec

-----------------------------------------------------------------------------
(* The image of an app, between the deploys that share it.                 *)

\* Where the snapshot has been taken and the new image not been set, and where
\* it has been set and not been taken back.
BeforeSet == {"park"} \union Waiting \union {"setGet", "setPut"}
AfterSet  == {"discover", "scaleGet", "scalePut", "rollout", "slo", "succeed"}

\* A deploy's snapshot is the image in place until it sets its own, and from
\* then until it rolls back its own is, unless another deploy has written the
\* image since.  Only Succeed stores "succeeded".
ImageInv(d) ==
  /\ pc[d] \in {"idle", "snapshot"} => rec[d].imageOld = None
  /\ pc[d] = "snapshot" => rec[d].status = "started"
  /\ pc[d] \in BeforeSet =>
       rec[d].imageOld \in {None, obj[App(d)].image} \/ obj[App(d)].first # None \/ d \in overtaken
  /\ pc[d] \in AfterSet => obj[App(d)].image = input[d].image \/ d \in overtaken

ImagesInv ==
  /\ \A a \in Approvers : approver[a].record.status \in {"none", "running"}
  /\ \A d \in Deploys : ImageInv(d)

\* A goroutine writes to its own app only, and leaves the other container alone.
LEMMA WritesOwnApp ==
  ASSUME TypeOK, InputSet, FreshInv, NEW d \in Deploys, Run(d)
  PROVE  \A a \in Apps : /\ obj'[a].first = obj[a].first
                         /\ a # App(d) => obj'[a] = obj[a]
<1>1. App(d) \in Apps /\ held[d] \in Deployment
  BY RunKeepsInput, AppInApps DEF TypeOK
<1>2. ASSUME NEW from, NEW to, NEW onError, NEW new, new \in {[held[d] EXCEPT !.image = input[d].image],
               [held[d] EXCEPT !.image = rec[d].imageOld], [held[d] EXCEPT !.replicas = loop[d].cur]},
             Write(d, from, new, to, onError)
      PROVE  \A a \in Apps : obj'[a].first = obj[a].first /\ (a # App(d) => obj'[a] = obj[a])
  <2>1. CASE Store(d, new)
    <3>1. obj[App(d)] = held[d] /\ obj' = [obj EXCEPT ![App(d)] = new]
      BY <2>1 DEF Store, FreshInv
    <3>2. new.first = held[d].first
      BY <1>1, <1>2 DEF Deployment
    <3> QED
      BY <1>1, <3>1, <3>2 DEF TypeOK
  <2>2. CASE UNCHANGED obj
    BY <2>2
  <2> QED
    BY <1>2, <2>1, <2>2 DEF Write
<1> QED
  BY <1>2, RunCases DEF Read, cluster

\* What d writes to the image of an app overtakes the other deploys of the app.
LEMMA WriteOvertakes ==
  ASSUME TypeOK, InputSet, FreshInv, NEW d \in Deploys, Run(d), NEW e \in Deploys, e # d, pc[e] # "idle"
  PROVE  /\ e \in overtaken => e \in overtaken'
         /\ obj'[App(e)].image # obj[App(e)].image => e \in overtaken'
<1>1. App(d) \in Apps /\ App(e) \in Apps /\ pc[d] # "idle"
  BY RunKeepsInput, AppInApps
<1>2. ASSUME NEW from, NEW to, NEW onError, NEW new, Write(d, from, new, to, onError)
      PROVE  /\ e \in overtaken => e \in overtaken'
             /\ obj'[App(e)].image # obj[App(e)].image => e \in overtaken'
  <2>1. CASE Store(d, new)
    <3>1. obj' = [obj EXCEPT ![App(d)] = new]
          /\ overtaken' = (IF At(d, "setPut") THEN overtaken \ {d} ELSE overtaken) \union Outdated(d, new)
      BY <2>1 DEF Store, Overtake
    <3>2. App(e) # App(d) => obj'[App(e)] = obj[App(e)]
      BY <1>1, <3>1 DEF TypeOK
    <3>3. App(e) = App(d) /\ new.image # obj[App(e)].image => e \in overtaken'
      BY <3>1 DEF Outdated
    <3>4. App(e) = App(d) => obj'[App(e)] = new
      BY <1>1, <3>1 DEF TypeOK
    <3> QED
      BY <3>1, <3>2, <3>3, <3>4
  <2>2. CASE UNCHANGED <<obj, overtaken>>
    BY <2>2
  <2> QED
    BY <1>2, <2>1, <2>2 DEF Write
<1>3. CASE UNCHANGED obj /\ \E S \in {{}, {d}} : overtaken' = overtaken \ S
  BY <1>3
<1> QED
  BY <1>2, <1>3 DEF Run, Snapshot, Park, PollApproval, CheckContext, SetImageGet, SetImagePut, Discover, ScaleGet,
     ScalePut, WaitRollout, CheckSLOs, Succeed, RestoreGet, RestorePut, RolledBack, Read, cluster

\* The steps of one goroutine keep the account of the other deploys' images.
LEMMA OthersKeepImage ==
  ASSUME TypeOK, InputSet, FreshInv, NEW d \in Deploys, Run(d), NEW e \in Deploys, e # d, ImageInv(e)
  PROVE  ImageInv(e)'
<1>1. UNCHANGED input /\ pc'[e] = pc[e] /\ rec'[e] = rec[e]
  <2>1. UNCHANGED input
    BY RunKeepsInput
  <2>2. pc'[e] = pc[e]
    BY DEF Run, Snapshot, Park, PollApproval, CheckContext, SetImageGet, SetImagePut, Discover, ScaleGet,
       ScalePut, WaitRollout, CheckSLOs, Succeed, RestoreGet, RestorePut, RolledBack, Read, Write, Goto, TypeOK
  <2>3. rec'[e] = rec[e]
    BY DEF Run, Snapshot, Park, PollApproval, CheckContext, SetImageGet, SetImagePut, Discover, ScaleGet,
       ScalePut, WaitRollout, CheckSLOs, Succeed, RestoreGet, RestorePut, RolledBack, Read, Write,
       PutStatus, TypeOK
  <2> QED
    BY <2>1, <2>2, <2>3
<1>2. pc[e] \in BeforeSet \union AfterSet
        => /\ e \in overtaken => e \in overtaken'
           /\ obj'[App(e)].image # obj[App(e)].image => e \in overtaken'
           /\ obj'[App(e)].first = obj[App(e)].first
  <2> SUFFICES ASSUME pc[e] \in BeforeSet \union AfterSet
               PROVE  /\ e \in overtaken => e \in overtaken'
                      /\ obj'[App(e)].image # obj[App(e)].image => e \in overtaken'
                      /\ obj'[App(e)].first = obj[App(e)].first
    OBVIOUS
  <2>1. pc[e] # "idle"
    BY DEF BeforeSet, AfterSet, Waiting
  <2> QED
    BY <2>1, AppInApps, WritesOwnApp, WriteOvertakes
<1> QED
  BY <1>1, <1>2 DEF ImageInv, App

\* A goroutine keeps its own image invariant: it takes the snapshot of the
\* image in place, and SetImage's update replaces just that image.
LEMMA OwnImage ==
  ASSUME TypeOK, InputSet, FreshInv, NEW d \in Deploys, Run(d), ImageInv(d)
  PROVE  ImageInv(d)'
<1> USE DEF BeforeSet, AfterSet, Waiting
<1>1. pc[d] # "idle" /\ UNCHANGED input /\ App(d) \in Apps /\ App(d)' = App(d)
  BY RunKeepsInput, AppInApps DEF App
<1>2. rec[d] \in Record /\ held[d] \in Deployment /\ obj[App(d)] \in Deployment
  BY <1>1 DEF TypeOK
<1>3. ASSUME NEW to, Goto(d, to) PROVE pc'[d] = to
  BY <1>3 DEF Goto, TypeOK
<1>4. CASE Snapshot(d)
  <2>1. obj[App(d)].first = None => SnapshotOf(d) = obj[App(d)].image
    BY <1>1 DEF SnapshotOf
  <2>2. \/ rec' = [rec EXCEPT ![d] = [rec[d] EXCEPT !.imageOld = SnapshotOf(d)]]
        \/ rec' = rec /\ rec[d].imageOld = None
    BY <1>4 DEF Snapshot, ImageInv, At
  <2>3. rec'[d].imageOld \in {None, SnapshotOf(d)}
    BY <1>2, <2>2 DEF TypeOK, Record
  <2>4. UNCHANGED obj /\ pc'[d] \notin {"idle", "snapshot"} \union AfterSet
    BY <1>3, <1>4 DEF Snapshot, Begin, cluster
  <2> QED
    BY <1>1, <2>1, <2>3, <2>4 DEF ImageInv
<1>5. CASE Park(d) \/ Succeed(d) \/ RolledBack(d)
  <2>1. PICK status : rec' = [rec EXCEPT ![d] = [rec[d] EXCEPT !.status = status]]
    BY <1>5 DEF Park, Succeed, RolledBack, PutStatus
  <2>2. rec'[d].imageOld = rec[d].imageOld
    BY <1>2, <2>1 DEF TypeOK, Record
  <2>3. UNCHANGED <<obj, overtaken>> /\ ((pc[d] = "park" /\ pc'[d] = "wait") \/ pc'[d] = "done")
    BY <1>3, <1>5 DEF Park, Succeed, RolledBack, cluster, At
  <2> QED
    BY <1>1, <2>2, <2>3 DEF ImageInv
<1>6. CASE PollApproval(d) \/ CheckContext(d)
  <2>1. UNCHANGED <<obj, rec, overtaken>> /\ pc[d] \in BeforeSet
        /\ pc'[d] \notin {"idle", "snapshot"} \union AfterSet
    BY <1>3, <1>6 DEF PollApproval, CheckContext, Begin, cluster, At
  <2> QED
    BY <1>1, <2>1 DEF ImageInv
<1>7. CASE SetImageGet(d) \/ ScaleGet(d) \/ RestoreGet(d)
  <2>1. UNCHANGED <<obj, rec, overtaken>>
    BY <1>7 DEF SetImageGet, ScaleGet, RestoreGet, Read
  <2>2. \/ pc[d] = "setGet" /\ pc'[d] = "setPut"
        \/ pc[d] = "scaleGet" /\ pc'[d] = "scalePut"
        \/ pc'[d] \in {"restoreGet", "restorePut", "fail"}
    BY <1>3, <1>7 DEF SetImageGet, ScaleGet, RestoreGet, Read, At, Rollback
  <2> QED
    BY <1>1, <2>1, <2>2 DEF ImageInv
<1>8. CASE SetImagePut(d)
  <2>1. CASE pc'[d] \in {"restoreGet", "fail"}
    BY <2>1 DEF ImageInv
  <2>2. CASE Store(d, [held[d] EXCEPT !.image = input[d].image]) /\ pc'[d] = AfterSetImage(d)
    <3>1. obj' = [obj EXCEPT ![App(d)] = [held[d] EXCEPT !.image = input[d].image]]
      BY <2>2 DEF Store
    <3>2. obj'[App(d)].image = input[d].image
      BY <1>1, <1>2, <3>1 DEF TypeOK, Deployment
    <3> QED
      BY <1>1, <2>2, <3>2 DEF ImageInv, AfterSetImage
  <2> QED
    BY <1>3, <1>8, <2>1, <2>2 DEF SetImagePut, Write, Rollback
<1>9. CASE ScalePut(d)
  <2>1. UNCHANGED rec /\ pc[d] = "scalePut" /\ pc'[d] \in {"rollout", "restoreGet", "fail"}
    BY <1>3, <1>9 DEF ScalePut, Write, At, Rollback
  <2>2. obj'[App(d)].image = obj[App(d)].image /\ (d \in overtaken => d \in overtaken')
    <3>1. CASE Store(d, [held[d] EXCEPT !.replicas = loop[d].cur])
      <4>1. obj' = [obj EXCEPT ![App(d)] = [held[d] EXCEPT !.replicas = loop[d].cur]]
            /\ held[d] = obj[App(d)] /\ (d \in overtaken => d \in overtaken')
        BY <2>1, <3>1 DEF Store, FreshInv, Overtake, At
      <4> QED
        BY <1>1, <1>2, <4>1 DEF TypeOK, Deployment
    <3> QED
      BY <1>9, <3>1 DEF ScalePut, Write
  <2> QED
    BY <1>1, <2>1, <2>2 DEF ImageInv
<1>10. CASE RestorePut(d)
  BY <1>3, <1>10 DEF RestorePut, Write, ImageInv
<1>11. CASE Discover(d) \/ WaitRollout(d) \/ CheckSLOs(d)
  <2>1. UNCHANGED <<obj, rec, overtaken>> /\ pc[d] \in AfterSet
        /\ pc'[d] \notin {"idle", "snapshot"} \union BeforeSet
    BY <1>3, <1>11 DEF Discover, WaitRollout, CheckSLOs, At, Rollback, cluster
  <2> QED
    BY <1>1, <2>1 DEF ImageInv
<1> QED
  BY <1>4, <1>5, <1>6, <1>7, <1>8, <1>9, <1>10, <1>11 DEF Run

\* ImagesInv is kept by every step.
LEMMA ImagesStep ==
  ASSUME TypeOK, InputSet, FreshInv, ImagesInv, [Next]_vars
  PROVE  ImagesInv'
<1> USE DEF cluster, approval
<1>1. ASSUME NEW d \in Deploys, NEW request \in Requests, StartDeploy(d, request) PROVE ImagesInv'
  <2>1. rec' = [rec EXCEPT ![d] = [rec[d] EXCEPT !.status = "started"]] /\ pc[d] = "idle"
    BY <1>1 DEF StartDeploy, PutStatus, At
  <2>2. rec[d] \in Record /\ rec[d].imageOld = None
    BY <2>1 DEF TypeOK, ImagesInv, ImageInv
  <2>3. rec'[d].status = "started" /\ rec'[d].imageOld = None
    BY <2>1, <2>2 DEF TypeOK, Record
  <2>4. pc'[d] = "snapshot"
    BY <1>1 DEF StartDeploy, Goto, TypeOK
  <2>5. ImageInv(d)'
    BY <2>3, <2>4 DEF ImageInv, BeforeSet, AfterSet, Waiting
  <2>6. ASSUME NEW e \in Deploys, e # d PROVE ImageInv(e)'
    <3>1. pc'[e] = pc[e] /\ rec'[e] = rec[e] /\ input'[e] = input[e] /\ UNCHANGED <<obj, overtaken>>
      BY <1>1, <2>1, <2>6 DEF StartDeploy, Goto, TypeOK
    <3> QED
      BY <3>1 DEF ImagesInv, ImageInv, App
  <2> QED
    BY <1>1, <2>5, <2>6 DEF StartDeploy, ImagesInv
<1>2. ASSUME NEW d \in Deploys, Run(d) PROVE ImagesInv'
  <2>1. ImageInv(d)'
    BY <1>2, OwnImage DEF ImagesInv
  <2>2. \A e \in Deploys : e # d => ImageInv(e)'
    BY <1>2, OthersKeepImage DEF ImagesInv
  <2>3. UNCHANGED approver
    BY <1>2, RunKeepsApprovers
  <2> QED
    BY <2>1, <2>2, <2>3 DEF ImagesInv
<1>3. CASE Restart
  <2>1. \A a \in Approvers : approver'[a].record.status = "none"
    BY <1>3 DEF Restart, NoCall, NoRecord
  <2>2. \A d \in Deploys : pc'[d] \in {"idle", "done", "gaveUp", "killed"} /\ (pc'[d] = "idle" => pc[d] = "idle")
    BY <1>3 DEF Restart
  <2> QED
    BY <1>3, <2>1, <2>2 DEF Restart, ImagesInv, ImageInv, BeforeSet, AfterSet, Waiting
<1>4. ASSUME NEW d \in Deploys, ReturnHandler(d) PROVE ImagesInv'
  BY <1>4 DEF ReturnHandler, ImagesInv, ImageInv, App
<1>5. ASSUME NEW a \in Approvers, ApprovePut(a) PROVE ImagesInv'
  BY <1>5 DEF ApprovePut, ImagesInv, ImageInv, App, NoCall, NoRecord, TypeOK
<1>6. ASSUME NEW a \in Approvers, NEW d \in Deploys, ApproveRead(a, d) PROVE ImagesInv'
  <2>1. approver' = [approver EXCEPT ![a] = [id |-> d, record |-> [db[d] EXCEPT !.status = "running"]]]
    BY <1>6 DEF ApproveRead
  <2>2. approver'[a].record.status = "running"
    BY <2>1 DEF TypeOK, Record
  <2> QED
    BY <1>6, <2>1, <2>2 DEF ApproveRead, ImagesInv, ImageInv, App, TypeOK
<1>7. CASE UNCHANGED vars
  BY <1>7 DEF vars, ImagesInv, ImageInv, App
<1> QED
  BY <1>1, <1>2, <1>3, <1>4, <1>5, <1>6, <1>7, NextCases

\* "succeeded" is stored by Succeed only.
LEMMA OnlySucceedSays ==
  ASSUME TypeOK, InputSet, ImagesInv, [Next]_vars, NEW d \in Deploys,
         db[d].status # "succeeded", db'[d].status = "succeeded"
  PROVE  pc[d] = "succeed"
<1> USE DEF cluster, approval
<1>1. ASSUME NEW e \in Deploys, NEW status, PutStatus(e, status), status # "succeeded" PROVE FALSE
  <2>1. rec' = [rec EXCEPT ![e] = [rec[e] EXCEPT !.status = status]] /\ db' = [db EXCEPT ![e] = rec'[e]]
    BY <1>1 DEF PutStatus
  <2> QED
    BY <1>1, <2>1 DEF TypeOK, Record
<1>2. ASSUME NEW e \in Deploys, NEW request \in Requests, StartDeploy(e, request) PROVE FALSE
  BY <1>1, <1>2 DEF StartDeploy
<1>3. ASSUME NEW e \in Deploys, Run(e) PROVE pc[d] = "succeed"
  <2>1. CASE Snapshot(e)
    <3>1. \/ /\ rec' = [rec EXCEPT ![e] = [rec[e] EXCEPT !.imageOld = SnapshotOf(e)]]
             /\ db' = [db EXCEPT ![e] = rec'[e]]
          \/ db' = db
      BY <2>1 DEF Snapshot
    <3>2. rec[e].status = "started" /\ rec[e] \in Record
      BY <2>1 DEF Snapshot, At, ImagesInv, ImageInv, TypeOK
    <3>3. CASE /\ rec' = [rec EXCEPT ![e] = [rec[e] EXCEPT !.imageOld = SnapshotOf(e)]]
               /\ db' = [db EXCEPT ![e] = rec'[e]]
      <4>1. rec'[e].status = "started"
        BY <3>2, <3>3 DEF TypeOK, Record
      <4> QED
        BY <3>3, <4>1 DEF TypeOK
    <3> QED
      BY <3>1, <3>3
  <2>2. CASE Park(e) \/ RolledBack(e)
    BY <1>1, <2>2 DEF Park, RolledBack
  <2>3. CASE Succeed(e)
    <3>1. db' = [db EXCEPT ![e] = rec'[e]] /\ pc[e] = "succeed"
      BY <2>3 DEF Succeed, PutStatus, At
    <3> QED
      BY <3>1 DEF TypeOK
  <2> QED
    BY <1>3, <2>1, <2>2, <2>3 DEF Run, PollApproval, CheckContext, SetImageGet, SetImagePut, Discover,
       ScaleGet, ScalePut, WaitRollout, CheckSLOs, RestoreGet, RestorePut, Read, Write
<1>4. ASSUME NEW a \in Approvers, ApprovePut(a) PROVE FALSE
  BY <1>4 DEF ApprovePut, ImagesInv, TypeOK
<1> QED
  BY <1>2, <1>3, <1>4, NextCases DEF ReturnHandler, ApproveRead, Restart, vars

\* The fact both theorems rest on.
LEMMA ImagesHold == Spec => [](TypeOK /\ InputSet /\ FreshInv /\ ImagesInv)
<1>1. Init => FreshInv /\ ImagesInv
  BY DEF Init, FreshInv, ImagesInv, ImageInv, NoRecord, NoCall, BeforeSet, AfterSet, Waiting
<1> QED
  BY <1>1, FreshStep, ImagesStep, TypeCorrect, PTL DEF Spec

\* What a rollback would restore is what the deploy replaced, after any wait for
\* an approval and any failed calls, unless there is no snapshot, another
\* container is listed first, or another deploy has written the app's image
\* after the snapshot (orchestrator.go:66-68 against :130).
THEOREM RollbackTarget == Spec => RestoresWhatItReplaced
<1>1. TypeOK /\ InputSet /\ FreshInv /\ ImagesInv /\ [Next]_vars
      => [\A d \in Deploys :
            pc[d] = "setPut" /\ obj'[App(d)].image # obj[App(d)].image /\ pc'[d] # pc[d]
            => \/ rec[d].imageOld \in {None, obj[App(d)].image}
               \/ obj[App(d)].first # None
               \/ d \in overtaken]_vars
  BY DEF ImagesInv, ImageInv, BeforeSet
<1> QED
  BY <1>1, ImagesHold, PTL DEF Spec, RestoresWhatItReplaced

\* A deploy recorded as succeeded has its image in place at that moment, whatever
\* calls failed on the way, unless another deploy has written the app's image
\* after this one set it.
THEOREM SuccessIsLive == Spec => SucceededIsLive
<1>1. TypeOK /\ InputSet /\ FreshInv /\ ImagesInv /\ [Next]_vars
      => [\A d \in Deploys :
            db[d].status # "succeeded" /\ db'[d].status = "succeeded"
            => obj[App(d)].image = input[d].image \/ d \in overtaken]_vars
  BY OnlySucceedSays DEF ImagesInv, ImageInv, AfterSet
<1> QED
  BY <1>1, ImagesHold, PTL DEF Spec, SucceededIsLive
=============================================================================
