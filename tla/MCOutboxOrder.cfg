CONSTANTS
  w1 = w1
  w2 = w2
  d1 = d1
  d2 = d2
  t1 = t1
  Tasks = {t1}
  Writers = {w1}
  Values <- MCValues
  NewRows <- OneRow
  Patches <- TwoPatches
  Fits = {TRUE}
  Dispatchers = {d1}
  Limit = 3
  MaxEvents = 3
  Uninvited = TRUE
  MaxFaults = 1
SPECIFICATION Spec
INVARIANT
  HistoryInOrder
CHECK_DEADLOCK FALSE
