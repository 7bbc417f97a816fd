SPECIFICATION Spec
CONSTANTS
  a1 = a1  a2 = a2  e1 = e1  e2 = e2  f1 = f1  f2 = f2
  AlertIds = {a1, a2}
  Evaluators = {e1, e2}
  Flushers = {}
  Levels = {"warning", "critical"}
  Routed = {"warning", "critical"}
  NoAlert = NoAlert
  MaxReports = 3
  MaxWindows = 0
  MaxFaults = 0
PROPERTY AckLostOnlyOnRise
CHECK_DEADLOCK FALSE
