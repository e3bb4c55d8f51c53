---------------------------- MODULE MCEventConsumer ----------------------------
(***************************************************************************)
(* Finite instances of EventConsumer.                                      *)
(***************************************************************************)
EXTENDS EventConsumer, TLC

CONSTANTS w1, w2, d1, d2, t1

Received ==
  ("status" :> "received" @@ "approval_status" :> "pending"
     @@ "beneficiary_status" :> "unknown")
OneRow == {Received}

\* A patch of the status alone, and ones that set an approval as well, the last
\* without a change of a received task's status.
Approve == "status" :> "approved" @@ "approval_status" :> "granted"
Grant == "status" :> "received" @@ "approval_status" :> "granted"
TwoPatches == {"status" :> "failed", Grant}
OnePatch == {Approve}

MCValues == {"received", "pending", "unknown", "failed", "approved", "granted"}
=============================================================================
