CONSTANTS
  Tasks = {a, b, c}
  MaxRecent = 2
  MaxCalls = 6
  MaxFaults = 1
SYMMETRY TaskSymmetry
SPECIFICATION Spec
INVARIANTS
  TypeOK
  QuietIsCurrent
  NoApprovalWasted
  QueueHasAwaiting
  ConsoleInv
CHECK_DEADLOCK FALSE
