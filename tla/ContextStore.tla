----------------------------- MODULE ContextStore -----------------------------
(***************************************************************************)
(* The context-memory-service: the current row of every task and the       *)
(* outbox of lifecycle events.  A row and its event are written in one     *)
(* transaction, but a request reads in one statement and writes in a later *)
(* one, under READ COMMITTED and without row locks, and an UPDATE carries  *)
(* only the columns whose value differs from the value that was read.      *)
(*                                                                         *)
(* An event is its position in the outbox, the order of commits.  Claims   *)
(* follow another order, that of created_at: the time at which the         *)
(* transaction of the event started, which the database keeps exactly, so  *)
(* no two are equal.  The payload of an event keeps its task, the status   *)
(* it left and the row it announces.  Names, reasons and metadata are left *)
(* out, but for one thing: a request's text may be longer than the column  *)
(* of the history it will be copied to, which the JSON payload of an event *)
(* does not notice.  Attempt counts are left out.                          *)
(***************************************************************************)
EXTENDS Naturals, Sequences, FiniteSets, Dict

CONSTANTS
  Tasks,       \* task identifiers
  Writers,     \* threads serving state patches
  Values,      \* values of the three columns
  NewRows,     \* the rows tasks may be created with
  Patches,     \* the patches callers may send: always a status, others optional
  Fits,        \* the text of a request fits the history: values that occur
  Dispatchers, \* dispatch runs that may be in progress at once
  Limit,       \* how many events one claim may return
  MaxEvents    \* bound on the transactions that add an event to the outbox

Columns == {"status", "approval_status", "beneficiary_status"}
Row == [Columns -> Values]
NoStatus == "none"     \* from_status of a creation

ASSUME RowsAssumption ==
  /\ NewRows \subseteq Row
  /\ \A p \in Patches :
       /\ "status" \in DOMAIN p /\ DOMAIN p \subseteq Columns
       /\ \A c \in DOMAIN p : p[c] \in Values
  /\ NoStatus \notin Values
  /\ Fits \subseteq BOOLEAN
ASSUME LimitAssumption == Limit \in Nat \ {0} /\ MaxEvents \in Nat

VARIABLES
  tasks,       \* the row of each task
  outbox,      \* the outbox events, in the order of their commits
  clock,       \* how many writing transactions have started: the time
  patching,    \* what each thread inside update_task_state has read
  claiming     \* what each claim in progress has read

contextVars == <<tasks, outbox, clock, patching, claiming>>

Event ==
  [task: Tasks, from: Values \cup {NoStatus}, row: Row, fits: BOOLEAN,
   stamp: Nat,                              \* created_at
   status: {"pending", "in_progress", "completed", "failed"},
   lease: {"none", "live", "expired"}]      \* claimed_at against the lease

\* A claim remembers, for each event it selected, if it will write the status.
ContextTypeOK ==
  /\ IsDict(tasks, Tasks, Row)
  /\ outbox \in Seq(Event)
  /\ clock \in Nat
  /\ IsDict(patching, Writers, [task: Tasks, patch: Patches, row: Row, stamp: Nat])
  /\ DOMAIN claiming \subseteq Dispatchers
  /\ \A d \in DOMAIN claiming :
       /\ DOMAIN claiming[d] \subseteq DOMAIN outbox
       /\ claiming[d] \in [DOMAIN claiming[d] -> BOOLEAN]

ContextInit ==
  /\ tasks = Empty
  /\ outbox = <<>>
  /\ clock = 0
  /\ patching = Empty
  /\ claiming = Empty
-----------------------------------------------------------------------------
NewEvent(task, from, row, fits, stamp) ==
  [task |-> task, from |-> from, row |-> row, fits |-> fits, stamp |-> stamp,
   status |-> "pending", lease |-> "none"]

\* The row a patch announces, and the columns its UPDATE carries.
RawPatch(row, patch) == patch
UnpatchedApproval(row, patch) ==
  [c \in Columns |-> IF c = "status" THEN patch[c] ELSE row[c]]
Merged(row, patch) ==
  [c \in Columns |-> IF c \in DOMAIN patch THEN patch[c] ELSE row[c]]
Patched(row, patch) == DOMAIN patch
Changed(row, patch) == {c \in DOMAIN patch : patch[c] # row[c]}

\* A transaction that will add an event starts.
Begin ==
  /\ clock < MaxEvents
  /\ clock' = clock + 1

\* create_task: the row and its event in one transaction.
CreateTask(task, row, fits) ==
  /\ Begin
  /\ task \notin DOMAIN tasks
  /\ tasks' = Put(tasks, task, row)
  /\ outbox' = Append(outbox, NewEvent(task, NoStatus, row, fits, clock'))
  /\ UNCHANGED <<patching, claiming>>

\* update_task_state, first statement: the transaction starts and the row is read;
\* a patch that changes nothing is refused.
PatchRead(w, task, patch) ==
  /\ Begin
  /\ w \notin DOMAIN patching
  /\ task \in DOMAIN tasks
  /\ Changed(tasks[task], patch) # {}
  /\ patching' = Put(patching, w, [task |-> task, patch |-> patch,
                                   row |-> tasks[task], stamp |-> clock'])
  /\ UNCHANGED <<tasks, outbox, claiming>>

\* update_task_state, commit: changed columns and the event, in one transaction.
PatchCommit(w, fits) ==
  /\ w \in DOMAIN patching
  /\ LET h == patching[w]
         written == Changed(h.row, h.patch)
     IN /\ tasks' = [tasks EXCEPT ![h.task] =
                       [c \in Columns |-> IF c \in written THEN h.patch[c]
                                                           ELSE @[c]]]
        /\ outbox' = Append(outbox, NewEvent(h.task, h.row["status"],
                                             Merged(h.row, h.patch), fits, h.stamp))
  /\ patching' = Drop(patching, w)
  /\ UNCHANGED <<clock, claiming>>
-----------------------------------------------------------------------------
ClaimableOnce(e) == e.status \in {"pending", "failed"}
Claimable(e) ==
  \/ e.status \in {"pending", "failed"}
  \/ e.status = "in_progress" /\ e.lease = "expired"

\* The claimable events with the earliest created_at, as many as the limit allows.
Due ==
  LET claimable == {i \in DOMAIN outbox : Claimable(outbox[i])}
      earlier(i) == {j \in claimable : outbox[j].stamp < outbox[i].stamp}
  IN {i \in claimable : Cardinality(earlier(i)) < Limit}

\* claim_outbox_events, first statement: the due events are read, unlocked.
ClaimRead(d) ==
  /\ d \notin DOMAIN claiming
  /\ Due # {}
  /\ claiming' = Put(claiming, d,
                     [i \in Due |-> outbox[i].status # "in_progress"])
  /\ UNCHANGED <<tasks, outbox, clock, patching>>

\* claim_outbox_events, commit: the lease of each event starts anew; the status
\* is written unless it was in_progress already when it was read.
ClaimCommit(d) ==
  /\ d \in DOMAIN claiming
  /\ outbox' = [i \in DOMAIN outbox |->
       IF i \notin DOMAIN claiming[d] THEN outbox[i]
       ELSE [outbox[i] EXCEPT
               !.status = IF claiming[d][i] THEN "in_progress" ELSE @,
               !.lease = "live"]]
  /\ claiming' = Drop(claiming, d)
  /\ UNCHANGED <<tasks, clock, patching>>

\* A claim request that dies before its commit.
ClaimAbort(d) ==
  /\ d \in DOMAIN claiming
  /\ claiming' = Drop(claiming, d)
  /\ UNCHANGED <<tasks, outbox, clock, patching>>

\* lease_seconds go by without an answer.
LeaseExpires(i) ==
  /\ i \in DOMAIN outbox
  /\ outbox[i].status = "in_progress" /\ outbox[i].lease = "live"
  /\ outbox' = [outbox EXCEPT ![i].lease = "expired"]
  /\ UNCHANGED <<tasks, clock, patching, claiming>>
-----------------------------------------------------------------------------
\* complete_outbox_event and fail_outbox_event: the columns that differ from
\* what the event holds now, and the later write of the columns that differed.
ToComplete(i) == IF outbox[i].status = "completed" THEN {} ELSE {"status"}
ToFail(i) ==
  (IF outbox[i].status = "failed" THEN {} ELSE {"status"})
    \cup (IF outbox[i].lease = "none" THEN {} ELSE {"lease"})

WriteCompleted(i) ==
  /\ outbox' = [outbox EXCEPT ![i].status = "completed"]
  /\ UNCHANGED <<tasks, clock, patching, claiming>>

WriteFailed(i, columns) ==
  /\ outbox' = [outbox EXCEPT
       ![i].status = IF "status" \in columns THEN "failed" ELSE @,
       ![i].lease = IF "lease" \in columns THEN "none" ELSE @]
  /\ UNCHANGED <<tasks, clock, patching, claiming>>
=============================================================================
