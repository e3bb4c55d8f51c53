----------------------------- MODULE MemoryService -----------------------------
(***************************************************************************)
(* The memory-service that the context-memory-service, the outbox and the  *)
(* provenance-service replace: one store, in which the row of a task and   *)
(* the entry of its state history are written in one transaction.  It is   *)
(* what the split store still promises its writers.                        *)
(*                                                                         *)
(* A request reads the row in one statement and writes, in a later one,    *)
(* the columns that differ from what it read.  Artifacts, delegations and  *)
(* the names and reasons of an entry are left out.                         *)
(***************************************************************************)
EXTENDS Sequences, Dict

CONSTANTS
  Tasks,       \* task identifiers
  Writers,     \* threads serving state patches
  NewRows,     \* the rows tasks may be created with
  Patches      \* the patches callers may send: always a status, others optional

VARIABLES
  tasks,       \* the row of each task
  history,     \* the entries of task_state_history, oldest first
  patching     \* what each thread inside update_task_state has read

vars == <<tasks, history, patching>>

Entry(task, from, to) == [task |-> task, from |-> from, to |-> to]

Init == tasks = Empty /\ history = <<>> /\ patching = Empty

Differs(row, patch) == {c \in DOMAIN patch : patch[c] # row[c]}

CreateTask(task, row) ==
  /\ task \notin DOMAIN tasks
  /\ tasks' = Put(tasks, task, row)
  /\ history' = Append(history, Entry(task, "none", row["status"]))
  /\ UNCHANGED patching

\* get_task, and the refusal of a patch that changes nothing.
ReadTask(w, task, patch) ==
  /\ w \notin DOMAIN patching
  /\ task \in DOMAIN tasks
  /\ Differs(tasks[task], patch) # {}
  /\ patching' = Put(patching, w,
                     [task |-> task, patch |-> patch, row |-> tasks[task]])
  /\ UNCHANGED <<tasks, history>>

UpdateTaskState(w) ==
  /\ w \in DOMAIN patching
  /\ LET h == patching[w] IN
       /\ tasks' = [tasks EXCEPT ![h.task] =
            [c \in DOMAIN @ |->
               IF c \in Differs(h.row, h.patch) THEN h.patch[c] ELSE @[c]]]
       /\ history' = Append(history,
            Entry(h.task, h.row["status"], h.patch["status"]))
  /\ patching' = Drop(patching, w)

Next ==
  \/ \E task \in Tasks, row \in NewRows : CreateTask(task, row)
  \/ \E w \in Writers, task \in Tasks, patch \in Patches : ReadTask(w, task, patch)
  \/ \E w \in Writers : UpdateTaskState(w)

Spec == Init /\ [][Next]_vars
=============================================================================
