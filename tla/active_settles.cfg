SPECIFICATION LiveSpec
CONSTANTS
  WebhookServer = TRUE
  ProbeConfig = TRUE
  MaxCertificates = 2
  Zones = {z1}
  Ordinals = {o1, o2}
  MaxVersion = 1
  MaxIncarnations = 2
  Containers = {c1}
  PeriodSeconds = 0
  Disturbances = {"replace", "app", "probes", "delete", "apierror", "crash", "secret"}
  MaxDisturbances = 2
PROPERTIES
  PodsComeBack
  LabelsSettle
  DeletedIsForgotten
\* Everything rests once the QuarksStatefulSet is gone.
CHECK_DEADLOCK FALSE
