SPECIFICATION Spec
CONSTANTS
  WebhookServer = TRUE
  ProbeConfig = TRUE
  MaxCertificates = 2
  Zones = {z1, z2}
  Ordinals = {o1}
  MaxVersion = 2
  MaxIncarnations = 2
  Containers = {c1, c2}
  PeriodSeconds = 0
  Disturbances = {"version", "replace", "unready", "label", "app", "hang", "probes", "delete", "apierror", "crash", "secret"}
  MaxDisturbances = 2
INVARIANTS
  IInv
  ServedIsTrusted
  RoundsGoOn
PROPERTIES
  PodsAreNumbered
  LabelsFollowProbe
  DeletedRunsOut
\* Everything rests once the QuarksStatefulSet is gone.
CHECK_DEADLOCK FALSE
