CONSTANTS
  w1 = w1
  w2 = w2
  d1 = d1
  d2 = d2
  t1 = t1
  Tasks = {t1}
  Writers = {w1, w2}
  Values <- MCValues
  NewRows <- OneRow
  Patches <- TwoPatches
  Fits = {TRUE, FALSE}
  Dispatchers = {d1}
  Limit = 2
  MaxEvents = 3
  Uninvited = FALSE
  MaxFaults = 1
SPECIFICATION FairSpec
INVARIANTS
  HistoryInOrderWithoutFaults
  OrderInv
PROPERTIES
  EventuallyAligned
  NextWriteAligns
  ImplementsMemoryService
CHECK_DEADLOCK FALSE
