SPECIFICATION LiveSpec
CONSTANTS
  MaxZones = 2
  ZoneCounts = {1, 2}
  MaxGen = 3
  InitialSecrets = {0, 1}
  MaxSecret = 2
  UpdateOnConfigChange = TRUE
  UsesConfigMap = TRUE
  Disturbances = {"spec", "touch", "secret", "config", "unready", "apierror", "crash"}
  MaxDisturbances = 2
INVARIANTS
  IInv
  ZonesInOrder
  ReadyMeansServed
  NothingForgotten
  
  CreationIsKept
PROPERTIES
  VersionsGoUp
  StampedOnce
  UpdatesAreApplied
  ImplementsZoneChain
\* The system comes to rest once every update is applied.
CHECK_DEADLOCK FALSE
