SPECIFICATION Spec
CONSTANTS
  MaxReplicas = 2
  ReplicaCounts = {1, 2}
  MaxRevision = 3
  InitialRevisions = {1}
  BadRevisions = {2}
  UpdateWatch = 0
  CanaryWatch = 0
  MaxTime = 0
  Disturbances = {"template", "scale", "podfails", "reapply", "apierror", "crash"}
  MaxDisturbances = 2
  LaggingPods = FALSE
  Prompt = FALSE
INVARIANTS
  IInv
  WalkInOrder
  PassedPodsUpdated
  CanaryGateHolds
  DoneMeansUpdated
  CanaryContainsBadTemplate
PROPERTIES
  OneStepDown
  ImplementsCanaryWalk
\* The system comes to rest once the rollout ends.
CHECK_DEADLOCK FALSE
