-------------------------- MODULE MCPaymentWorkflow --------------------------
(***************************************************************************)
(* Finite instances of PaymentWorkflow.                                    *)
(***************************************************************************)
EXTENDS PaymentInvariants, TLC

CONSTANTS p1, p2, p3, k1, k2, k3, short, alice, bob, carol

Order(rail, amount) == [rail |-> rail, amount |-> amount]
Approval(by, key, mode, scoped) ==
  [by |-> by, key |-> key, mode |-> mode, scoped |-> scoped]

\* A payment below the high-risk threshold.
OneOrder == {Order("ach", 1)}
\* That, one at the threshold, and one on a rail out of scope.
ManyOrders == OneOrder \cup {Order("ach", 2), Order("rtp", 1)}

\* Two approvers, with a key each.
TwoApprovals ==
  {Approval(alice, k1, "execute", TRUE), Approval(bob, k2, "execute", TRUE)}
\* One for every outcome of the rail.
ThreeApprovals == TwoApprovals \cup {Approval(bob, k3, "execute", TRUE)}
\* Those, and an approver whose keys are refused: one is too short for the
\* gateway, the other may be taken by another payment.
RefusedApprovals ==
  ThreeApprovals \cup
    {Approval(carol, short, "execute", TRUE), Approval(carol, k1, "execute", TRUE)}
\* The three, one that reuses a key, and ones without scope, with a key that is too
\* short and in dry-run mode.
ManyApprovals ==
  ThreeApprovals \cup
    {Approval(bob, k1, "execute", TRUE), Approval(bob, k1, "execute", FALSE),
     Approval(alice, short, "execute", TRUE), Approval(alice, k1, "dry_run", TRUE)}

MCRailVerdict ==
  [p \in Payments |-> IF p = p3 THEN "needs_review" ELSE "validated"]
MCRailOutcome ==
  [pk \in Payments \X Keys |->
     IF pk[2] = k1 THEN "success" ELSE IF pk[2] = k2 THEN "ambiguous" ELSE "reject"]
=============================================================================
