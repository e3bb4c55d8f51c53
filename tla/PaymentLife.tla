------------------------------ MODULE PaymentLife ------------------------------
(***************************************************************************)
(* The life of a payment, as its task tells it and as the rail sees it: it *)
(* is validated, waits for approval, is approved, and only then, and only  *)
(* once, submitted to the rail; what the task says afterwards is what the  *)
(* rail answered.                                                          *)
(***************************************************************************)
EXTENDS Naturals, Sequences

CONSTANTS
  Payments,    \* payments, each with its task
  Outcomes     \* the rail's answers to a release

VARIABLES
  status,      \* the status of each payment's task, none before there is one
  submitted    \* the releases the rail performed, with their outcomes

vars == <<status, submitted>>

Init == status = [p \in Payments |-> "none"] /\ submitted = <<>>

\* A task that has ended one way never leaves it, but a released one settles.
Steps ==
  {<<"none", "received">>,
   <<"received", "validated">>, <<"received", "exception">>,
   <<"received", "failed">>,
   <<"validated", "awaiting_approval">>, <<"awaiting_approval", "approved">>,
   <<"released", "settlement_pending">>}
Conclusion ==
  [success |-> "released", reject |-> "failed", ambiguous |-> "pending_reconcile"]

Answers(p) ==
  {submitted[i].outcome : i \in {j \in DOMAIN submitted : submitted[j].payment = p}}

Advance(p) ==
  /\ \E s \in Steps : s[1] = status[p] /\ status' = [status EXCEPT ![p] = s[2]]
  /\ UNCHANGED submitted

Submit(p, outcome) ==
  /\ status[p] = "approved" /\ Answers(p) = {}
  /\ submitted' = Append(submitted, [payment |-> p, outcome |-> outcome])
  /\ UNCHANGED status

Conclude(p) ==
  /\ status[p] = "approved"
  /\ \E outcome \in Answers(p) :
       status' = [status EXCEPT ![p] = Conclusion[outcome]]
  /\ UNCHANGED submitted

Next ==
  \E p \in Payments :
    Advance(p) \/ Conclude(p) \/ \E outcome \in Outcomes : Submit(p, outcome)

Spec == Init /\ [][Next]_vars
=============================================================================
