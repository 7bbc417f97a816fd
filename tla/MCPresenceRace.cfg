SPECIFICATION PresenceFairSpec
CONSTANTS
  i1 = i1  i2 = i2  n1 = n1  n2 = n2
  Ingests = {i1}
  Monitors = {n1}
  Grace = 2
  MaxOutages = 2
  MaxHFaults = 0
PROPERTY OutageAlerted
CHECK_DEADLOCK FALSE
