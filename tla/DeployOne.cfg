\* One deploy, every kind of request, one approver at a time; an int32 of 16
\* values and an int of 4096.
SPECIFICATION FairSpec
CONSTANTS
  app = app
  v1 = v1
  v2 = v2
  v3 = v3
  None = None
  Int32Size = 16
  IntSize = 4096
  Deploys = {d1}
  Approvers = {p1}
  Apps = {app}
  Images = {v1, v2}
  FirstImages <- NoFirst
  ReplicaCounts = {0, 1, 5, 7}
  ConfiguredStep = 20
  Requests <- AllRequests
INVARIANTS
  TypeOK
  ReplicasWithinBounds
PROPERTIES
  EveryDeployEnds
CHECK_DEADLOCK FALSE
