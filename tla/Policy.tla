-------------------------------- MODULE Policy --------------------------------
(***************************************************************************)
(* The policy-engine: pure decisions on the intake of a payment and on its *)
(* release, from thresholds and modes read once from the control-plane     *)
(* document.  Amounts are whole numbers; reasons and recommended           *)
(* capabilities are left out.                                              *)
(***************************************************************************)
EXTENDS Naturals

CONSTANTS
  Rails,             \* values of rail
  RailScope,         \* environment.rail_scope
  ReadOnly,          \* environment.default_mode is read_only
  HighRiskThreshold, \* control_plane.high_risk_escalation_threshold_usd
  DryRunAllowed      \* capabilities.release_approved_payment.dry_run_supported

ASSUME PolicyAssumption ==
  /\ RailScope \subseteq Rails
  /\ HighRiskThreshold \in Nat
  /\ ReadOnly \in BOOLEAN /\ DryRunAllowed \in BOOLEAN

IntakeDecision(order) ==
  CASE order.rail \notin RailScope          -> "deny"
    [] order.rail \in RailScope /\ ReadOnly -> "simulate"
    [] OTHER -> IF order.amount >= HighRiskThreshold THEN "escalate" ELSE "allow"

\* What a release is refused for, once its rail is in scope and the environment
\* is not read-only: row is the task, req the request of its approver.
UnscopedRefusal(row, req) ==
  \/ req.mode = "dry_run" /\ ~DryRunAllowed
  \/ row.status # "awaiting_approval"
  \/ row.beneficiary # "approved"
Refusal(row, req) ==
  \/ req.mode = "dry_run" /\ ~DryRunAllowed
  \/ row.status # "awaiting_approval"
  \/ row.beneficiary # "approved"
  \/ ~req.scoped

ReleaseDecision(order, row, req) ==
  CASE order.rail \notin RailScope          -> "deny"
    [] order.rail \in RailScope /\ ReadOnly -> "simulate"
    [] OTHER -> IF Refusal(row, req) THEN "deny"
                ELSE IF order.amount >= HighRiskThreshold THEN "escalate"
                ELSE "allow"
=============================================================================
