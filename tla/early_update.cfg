SPECIFICATION LiveSpec
CONSTANTS
  MaxReplicas = 2
  ReplicaCounts = {2}
  MaxRevision = 2
  InitialRevisions = {1}
  BadRevisions = {}
  UpdateWatch = 0
  CanaryWatch = 0
  MaxTime = 0
  Disturbances = {"template"}
  MaxDisturbances = 1
  LaggingPods = FALSE
  Prompt = FALSE
PROPERTIES
  EarlyUpdateRollsOut
\* The system comes to rest once the rollout ends.
CHECK_DEADLOCK FALSE
