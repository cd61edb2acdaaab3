SPECIFICATION Spec
CONSTANTS
  MaxReplicas = 3
  ReplicaCounts = {2, 3}
  MaxRevision = 2
  InitialRevisions = {1}
  BadRevisions = {}
  UpdateWatch = 0
  CanaryWatch = 0
  MaxTime = 0
  Disturbances = {"template"}
  MaxDisturbances = 1
  LaggingPods = FALSE
  Prompt = FALSE
INVARIANTS
  GateWhenUpscaled
\* The system comes to rest once the rollout ends.
CHECK_DEADLOCK FALSE
