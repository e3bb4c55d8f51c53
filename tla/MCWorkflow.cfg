CONSTANTS
  p1 = p1
  p2 = p2
  p3 = p3
  k1 = k1
  k2 = k2
  k3 = k3
  short = short
  alice = alice
  bob = bob
  carol = carol
  Payments = {p1, p3}
  Handlers = {"h1", "h2"}
  MaxAwaited = 2
  Orders <- ManyOrders
  Approvals <- ManyApprovals
  GatewayKeys = {k1, k2, k3}
  GatewayDryRun = FALSE
  RailVerdict <- MCRailVerdict
  RailOutcome <- MCRailOutcome
  AmbiguousStatus = "pending_reconcile"
  MaxFaults = 1
  Rails = {"ach", "rtp"}
  RailScope = {"ach"}
  ReadOnly = FALSE
  HighRiskThreshold = 2
  DryRunAllowed = FALSE
SPECIFICATION Spec
INVARIANTS
  TypeOK
  ReleaseLicensed
  StatusBacked
  AwaitingIsReady
  IntakeFindsRecords
  SagaInv
  IntakeInv
CHECK_DEADLOCK FALSE
