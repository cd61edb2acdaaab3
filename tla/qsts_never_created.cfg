SPECIFICATION LiveSpec
CONSTANTS
  MaxZones = 2
  ZoneCounts = {1, 2}
  MaxGen = 1
  InitialSecrets = {1}
  MaxSecret = 1
  UpdateOnConfigChange = TRUE
  UsesConfigMap = TRUE
  Disturbances = {"config"}
  MaxDisturbances = 1
PROPERTIES
  StatefulSetsAreCreated
\* The system comes to rest once every update is applied.
CHECK_DEADLOCK FALSE
