SPECIFICATION LiveSpec
CONSTANTS
  MaxReplicas = 2
  ReplicaCounts = {2}
  MaxRevision = 2
  InitialRevisions = {1}
  BadRevisions = {2}
  UpdateWatch = 2
  CanaryWatch = 1
  MaxTime = 3
  Disturbances = {"template", "apierror"}
  MaxDisturbances = 2
  LaggingPods = TRUE
  Prompt = TRUE
INVARIANTS
  IInv
  CanaryIsolation
  WatchIsKept
PROPERTIES
  EndedStaysEnded
  WatchedUpdateEnds
\* The system comes to rest once the rollout ends.
CHECK_DEADLOCK FALSE
