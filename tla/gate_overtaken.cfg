SPECIFICATION Spec
CONSTANTS
  MaxReplicas = 2
  ReplicaCounts = {2}
  MaxRevision = 3
  InitialRevisions = {1}
  BadRevisions = {}
  UpdateWatch = 0
  CanaryWatch = 0
  MaxTime = 0
  Disturbances = {"template"}
  MaxDisturbances = 2
  LaggingPods = FALSE
  Prompt = FALSE
INVARIANTS
  GateWhenOvertaken
\* The system comes to rest once the rollout ends.
CHECK_DEADLOCK FALSE
