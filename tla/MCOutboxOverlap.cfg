SPECIFICATION LeaseSpec
CONSTANTS
  w1 = w1  w2 = w2  m1 = m1  m2 = m2
  Ids = {m1, m2}
  Workers = {w1, w2}
  Kinds = {"alert"}
  WorkerKinds <- Replicas
  Recipients = {"ayse"}
  NoItem = NoItem
  BatchSize = 2
  Lease = 3
  DeliveryTimeout = 2
  MaxAttempts = 2
  BaseBackoff = 1
  MaxBackoff = 2
  ResetTTL = 2
  MaxFaults = 0
INVARIANT Exclusive
