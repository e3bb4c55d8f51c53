CONSTANTS
  w1 = w1
  w2 = w2
  d1 = d1
  d2 = d2
  t1 = t1
  Tasks = {t1}
  Writers = {w1}
  Values <- MCValues
  NewRows <- OneRow
  Patches <- OnePatch
  Fits = {TRUE}
  Dispatchers = {d1, d2}
  Limit = 2
  MaxEvents = 2
  Uninvited = TRUE
  MaxFaults = 1
SPECIFICATION Spec
INVARIANTS
  TypeOK
  CompletedIsRecorded
  RecordedOnce
  DeliveryInv
  OutboxTellsRow
PROPERTY
  ImplementsDelivery
CHECK_DEADLOCK FALSE
