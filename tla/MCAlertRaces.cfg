SPECIFICATION Spec
CONSTANTS
  a1 = a1  a2 = a2  e1 = e1  e2 = e2  f1 = f1  f2 = f2
  AlertIds = {a1, a2}
  Evaluators = {e1, e2}
  Flushers = {f1}
  Levels = {"warning", "critical"}
  Routed = {"warning", "critical"}
  NoAlert = NoAlert
  MaxReports = 4
  MaxWindows = 1
  MaxFaults = 1
SYMMETRY Perms
INVARIANTS TypeOK OneActive ResolvedToldOnce NewsBeforeResolution
PROPERTIES ResolvedIsFinal
CHECK_DEADLOCK FALSE
