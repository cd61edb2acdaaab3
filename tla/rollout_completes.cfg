SPECIFICATION LiveSpec
CONSTANTS
  MaxReplicas = 3
  ReplicaCounts = {1, 2, 3}
  MaxRevision = 3
  InitialRevisions = {1, 2}
  BadRevisions = {1}
  UpdateWatch = 0
  CanaryWatch = 0
  MaxTime = 0
  Disturbances = {"template"}
  MaxDisturbances = 1
  LaggingPods = FALSE
  Prompt = FALSE
PROPERTIES
  GoodTemplateRollsOut
\* The system comes to rest once the rollout ends.
CHECK_DEADLOCK FALSE
