----------------------------- MODULE EventDelivery -----------------------------
(***************************************************************************)
(* What the outbox promises: every event is delivered at most once, to a   *)
(* task that was opened, and is acknowledged only after its delivery.      *)
(***************************************************************************)
EXTENDS Naturals, Sequences

CONSTANT Tasks

VARIABLES
  emitted,     \* the task of each event, in the order of emission
  opened,      \* tasks opened at the destination
  delivered,   \* the events delivered, in the order of delivery
  acked        \* the events known to be delivered

vars == <<emitted, opened, delivered, acked>>

Init == emitted = <<>> /\ opened = {} /\ delivered = <<>> /\ acked = {}

Delivered(i) == \E n \in DOMAIN delivered : delivered[n] = i

Emit(t) ==
  /\ emitted' = Append(emitted, t)
  /\ UNCHANGED <<opened, delivered, acked>>

Open(t) ==
  /\ \E i \in DOMAIN emitted : emitted[i] = t
  /\ opened' = opened \cup {t}
  /\ UNCHANGED <<emitted, delivered, acked>>

Deliver(i) ==
  /\ emitted[i] \in opened
  /\ ~Delivered(i)
  /\ delivered' = Append(delivered, i)
  /\ UNCHANGED <<emitted, opened, acked>>

Ack(i) ==
  /\ Delivered(i)
  /\ acked' = acked \cup {i}
  /\ UNCHANGED <<emitted, opened, delivered>>

\* Acknowledgements may be forgotten: the events are then offered again.
Forget(I) ==
  /\ acked' = acked \ I
  /\ UNCHANGED <<emitted, opened, delivered>>

Next ==
  \/ \E t \in Tasks : Emit(t) \/ Open(t)
  \/ \E i \in DOMAIN emitted : Deliver(i) \/ Ack(i)
  \/ \E I \in SUBSET DOMAIN emitted : Forget(I)

Spec == Init /\ [][Next]_vars
=============================================================================
