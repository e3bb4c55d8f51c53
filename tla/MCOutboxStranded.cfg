CONSTANTS
  w1 = w1
  w2 = w2
  d1 = d1
  d2 = d2
  t1 = t1
  Tasks = {t1}
  Writers = {w1}
  Values <- MCValues
  NewRows <- OneRow
  Patches <- OnePatch
  Fits = {TRUE}
  Dispatchers = {d1, d2}
  Limit = 2
  MaxEvents = 1
  Uninvited = TRUE
  MaxFaults = 2
SPECIFICATION Spec
INVARIANT
  NoEventStranded
CHECK_DEADLOCK FALSE
