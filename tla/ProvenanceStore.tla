---------------------------- MODULE ProvenanceStore ----------------------------
(***************************************************************************)
(* The provenance-service as the projection uses it: which tasks have a    *)
(* provenance record, and the state-transition rows in the order of their  *)
(* insertion.  A row is the outbox event it came from, whose transition it *)
(* repeats.  A request first looks for what it is about to insert; the     *)
(* primary key and the unique source_event_id refuse a second insertion.   *)
(***************************************************************************)
EXTENDS Naturals, Sequences

VARIABLES
  opened,      \* tasks with a provenance record
  history      \* source events of the state-transition rows

provenanceVars == <<opened, history>>

ProvenanceInit == opened = {} /\ history = <<>>

Recorded(event) == \E n \in DOMAIN history : history[n] = event

InsertProvenance(task) ==
  /\ opened' = opened \cup {task}
  /\ UNCHANGED history

InsertTransition(event) ==
  /\ history' = Append(history, event)
  /\ UNCHANGED opened
=============================================================================
