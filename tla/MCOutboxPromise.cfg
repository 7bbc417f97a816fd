SPECIFICATION LeaseFairSpec
CONSTANTS
  w1 = w1  w2 = w2  m1 = m1  m2 = m2
  Ids = {m1}
  Workers = {w1, w2}
  Kinds = {"alert", "password_reset"}
  WorkerKinds <- Replicas
  Recipients = {"ayse"}
  NoItem = NoItem
  BatchSize = 2
  Lease = 1
  DeliveryTimeout = 1
  MaxAttempts = 3
  BaseBackoff = 1
  MaxBackoff = 1
  ResetTTL = 3
  MaxFaults = 2
PROPERTIES RowsSettle Promise
INVARIANTS TypeOK SharedOnlyWhenOverrun AttemptsPaid BodyChk SentWasDelivered CopiesWithinAttempts
