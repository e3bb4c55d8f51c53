CONSTANTS
  p1 = p1
  p2 = p2
  k1 = k1
  k2 = k2
  alice = alice
  bob = bob
  Payments = {p1, p2}
  Keys = {k1, k2}
  Releasers = {alice, bob}
  Threads = {"t1", "t2"}
  Requests <- RacingRequests
  Rails = {"ach", "rtp"}
  RailScope = {"ach"}
  RailVerdict <- MCRailVerdict
  RailOutcome <- MCRailOutcome
  AmbiguousStatus = "pending_reconcile"
  DryRunSupported = FALSE
  MaxRestarts = 1
SPECIFICATION Spec
INVARIANTS
  TypeOK
  AnswerBacked
  ApprovedOnlyAfterRail
  RestartNeverRepeats
  ThreadSubmitsKeyOnce
  GatewayInv
PROPERTY
  AtMostOnceIfApart
