SPECIFICATION MCSpec
CONSTANTS
  a1 = a1  a2 = a2  e1 = e1  e2 = e2  f1 = f1  i1 = i1  i2 = i2  n1 = n1  n2 = n2
  Focus = {"deferred", "duration", "presence"}
  AlertIds = {a1, a2}
  Evaluators = {e1}
  Flushers = {f1}
  Levels = {"warning", "critical"}
  Routed = {"critical"}
  NoAlert = NoAlert
  MaxReports = 3
  MaxWindows = 2
  MaxFaults = 2
  DEvals = {e1, e2}
  Duration = 3
  MaxDFaults = 2
  Ingests = {i1, i2}
  Monitors = {n1, n2}
  Grace = 2
  MaxOutages = 2
  MaxHFaults = 2
PROPERTIES DeferredTold FirstOutageAlerted RecoveryCleans NoEarlyOpening SustainedOpens RecoveryClears
CHECK_DEADLOCK FALSE
