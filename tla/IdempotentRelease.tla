-------------------------- MODULE IdempotentRelease --------------------------
(***************************************************************************)
(* What a release boundary promises to its callers: a payment is released  *)
(* only while it is open, a key is bound to the first request that         *)
(* released under it and never releases again, and a boundary that forgets *)
(* its keys closes every payment it knew.                                  *)
(***************************************************************************)
EXTENDS Sequences, Dict

CONSTANTS
  Payments,    \* payments that may be opened
  Requests     \* requests; each has fields payment and key

VARIABLES
  opened,      \* payments opened so far
  open,        \* payments that may be released
  bound,       \* the request each used key is bound to
  effects      \* the requests performed, in order

vars == <<opened, open, bound, effects>>

Init == opened = {} /\ open = {} /\ bound = Empty /\ effects = <<>>

Open(p) ==
  /\ p \notin opened
  /\ opened' = opened \cup {p}
  /\ open' = open \cup {p}
  /\ UNCHANGED <<bound, effects>>

\* The one step with an effect: the key is unused and becomes bound.
Perform(r) ==
  /\ r.payment \in open
  /\ r.key \notin DOMAIN bound
  /\ bound' = Put(bound, r.key, r)
  /\ effects' = Append(effects, r)
  /\ UNCHANGED <<opened, open>>

Forget ==
  /\ open' = {}
  /\ bound' = Empty
  /\ UNCHANGED <<opened, effects>>

Next ==
  \/ \E p \in Payments : Open(p)
  \/ \E r \in Requests : Perform(r)
  \/ Forget

Spec == Init /\ [][Next]_vars
=============================================================================
