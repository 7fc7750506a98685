\* Two overlapping deploys of one app, two approvers, with and without a
\* container listed before the app's.
SPECIFICATION Spec
CONSTANTS
  app = app
  v1 = v1
  v2 = v2
  v3 = v3
  None = None
  Int32Size = 16
  IntSize = 4096
  Deploys = {d1, d2}
  Approvers = {p1, p2}
  Apps = {app}
  Images = {v1, v2, v3}
  FirstImages <- WithFirst
  ReplicaCounts = {3}
  ConfiguredStep = 20
  Requests <- OverlappingRequests
INVARIANTS
  ApprovalGate
  ReplicasWithinBounds
PROPERTIES
  NoLostClusterUpdate
  LifecycleSpec
  RestoresWhatItReplaced
  SucceededIsLive
CHECK_DEADLOCK FALSE
