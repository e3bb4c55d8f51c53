------------------------- MODULE MCCapabilityGateway -------------------------
(***************************************************************************)
(* Finite instances of CapabilityGateway.                                  *)
(***************************************************************************)
EXTENDS CapabilityGateway, TLC

CONSTANTS p1, p2, k1, k2, alice, bob

Req(p, task, k, by, mode) ==
  [payment |-> p, task |-> task, key |-> k, releasedBy |-> by, mode |-> mode]

\* Two requests under one key for one payment, from different releasers, and
\* one under that key for another payment.
RacingRequests ==
  {Req(p1, p1, k1, alice, "execute"), Req(p1, p1, k1, bob, "execute"),
   Req(p2, p2, k1, alice, "execute")}

\* Those, with a second key, a wrong task and a mode that is not supported.
SerialRequests ==
  RacingRequests \cup
    {Req(p1, p1, k2, alice, "execute"), Req(p2, p1, k2, alice, "execute"),
     Req(p1, p1, k1, alice, "dry_run")}

\* The three answers of the mock rail all occur.
MCRailOutcome ==
  [pk \in Payments \X Keys |->
     IF pk[1] = p2 THEN "ambiguous"
     ELSE IF pk[2] = k1 THEN "success" ELSE "reject"]
MCRailVerdict ==
  [p \in Payments |-> IF p = p1 THEN {"validated"} ELSE {"rejected"}]
=============================================================================
