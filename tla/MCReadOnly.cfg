SPECIFICATION RulesSpec
CONSTANTS
  x1 = x1  x2 = x2
  Mounts = {x1, x2}
  Groups = {"ro"}
  Unset = Unset
  Keep = Keep
  MissingAfter = 2
  QuietAfter = 2
  MaxRuleChanges = 1
INVARIANT ReadOnlyNoticed
CHECK_DEADLOCK FALSE
