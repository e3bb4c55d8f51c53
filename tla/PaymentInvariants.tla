-------------------------- MODULE PaymentInvariants --------------------------
(***************************************************************************)
(* The inductive invariants of the payment sagas: what the position of a   *)
(* handler, awaited or not, says of the stores.                            *)
(***************************************************************************)
EXTENDS PaymentWorkflow

(***************************************************************************)
(* For any number of handlers.  All of it stays true because accepted      *)
(* orders, artifacts and the log of the rail only grow.                    *)
(***************************************************************************)
Artifacted(p, artifact) == p \in DOMAIN records /\ artifact \in records[p].artifacts
Answered(p, st) == Released(p, {o \in Outcomes : StatusOf(o) = st})

\* What a row says of payment p is so: the row of its task, or a copy read earlier.
RowBacked(p, row) ==
  /\ row.status = "awaiting_approval" => Artifacted(p, <<"record_request", Nothing>>)
  /\ row.status \in {"released", "settlement_pending"} =>
       Answered(p, "settlement_pending")
  /\ row.status = "pending_reconcile" => Answered(p, "pending_reconcile")
  /\ row.beneficiary = "approved" => RailVerdict[p] = "validated"

\* The calls of a start once the rail has judged, those of a resume once the
\* worker has checked the task, and once the approval is recorded.
Judged ==
  {"finish_validation", "record_validation", "validated", "queue_approval",
   "request_approval", "record_request", "awaiting_approval", "exception", "failed"}
Endorsed ==
  {"approved", "release", "record_result", "released", "settlement_pending",
   "pending_reconcile", "failed", "validated"}
Checked == Endorsed \cup {"complete_approval", "record_approval"}

StartBacked(h) ==
  /\ h.call \in {"instruct", "create", "queue_validation", "validate"} \cup Judged
  /\ h.call \in Judged => h.result = RailVerdict[h.payment]
  /\ h.call = "awaiting_approval" =>
       Artifacted(h.payment, <<"record_request", Nothing>>)
  /\ \/ h.call = "instruct"
     \/ h.call = "create" /\ h.phase = "send"
     \/ h.payment \in DOMAIN tasks

ResumeBacked(h) ==
  /\ h.call \in {"record_decision", "read_row", "read_records"} \cup Checked
  /\ h.req \in Approvals /\ h.payment \in DOMAIN tasks
  /\ orders[h.payment].rail \in RailScope /\ ~ReadOnly
  /\ orders[h.payment].amount < HighRiskThreshold
  /\ h.req.scoped /\ (h.req.mode = "dry_run" => DryRunAllowed)
  /\ RailVerdict[h.payment] = "validated"
  /\ h.call = "record_decision"
       \/ Artifacted(h.payment, <<"record_decision", Nothing>>)
  /\ h.call \in Checked => Artifacted(h.payment, <<"record_request", Nothing>>)
  /\ h.call \in Endorsed => Artifacted(h.payment, <<"record_approval", h.req.by>>)
  /\ h.call = "release" /\ h.phase = "commit" =>
       (h.req.mode = "dry_run" => GatewayDryRun)
  /\ \/ h.result = Nothing
     \/ h.result \in PaymentStatus /\ Answered(h.payment, h.result)
  /\ h.call \in {"released", "settlement_pending"} => h.result = "settlement_pending"
  /\ h.call = "pending_reconcile" => h.result = "pending_reconcile"

HandlerBacked(h) ==
  /\ h.payment \in DOMAIN orders
  /\ RowBacked(h.payment, h.row)
  /\ h.phase \in {"claim", "project"} => h.call \in Patches \cup {"create"}
  /\ h.op = "start" => StartBacked(h)
  /\ h.op = "resume" => ResumeBacked(h)

TasksBacked ==
  \A p \in DOMAIN tasks : p \in DOMAIN orders /\ RowBacked(p, tasks[p])
HandlersBacked == \A t \in DOMAIN handlers : HandlerBacked(handlers[t])
LogBacked ==
  /\ \A k \in DOMAIN keys : \E i \in DOMAIN railLog : railLog[i] = keys[k]
  /\ \A i \in DOMAIN railLog : railLog[i].payment \in DOMAIN orders \cap DOMAIN records

SagaInv == TypeOK /\ TasksBacked /\ HandlersBacked /\ LogBacked /\ ReleaseLicensed
-----------------------------------------------------------------------------
(***************************************************************************)
(* For any number of handlers, too: an intake has its payment for itself   *)
(* until the task waits for its approval.                                  *)
(***************************************************************************)
Writing(h) == h.phase \in {"send", "commit"}

\* A start that has not reached its end.
Starting(h) ==
  h.op = "start" /\ (h.call \in {"awaiting_approval", "exception", "failed"} => Writing(h))

\* The status of the task at each of its positions.
StatusAtStart(h) ==
  IF h.call = "instruct" \/ (h.call = "create" /\ Writing(h)) THEN Nothing
  ELSE IF \/ h.call \in {"queue_approval", "request_approval", "record_request",
                         "awaiting_approval"}
          \/ h.call = "validated" /\ ~Writing(h)
       THEN "validated"
  ELSE "received"

Fresh(h) ==
  /\ Status(h.payment) = StatusAtStart(h)
  /\ h.call \in {"validated", "queue_approval", "request_approval", "record_request",
                 "awaiting_approval"} => h.result = "validated"
  /\ h.call \in {"record_request", "awaiting_approval"} =>
       h.payment \in DOMAIN records /\ records[h.payment].approval = "pending"
  /\ h.call \in Patches /\ h.phase = "commit" =>
       h.payment \in DOMAIN tasks /\ h.base = tasks[h.payment]

StartsFresh == \A t \in DOMAIN handlers : Starting(handlers[t]) => Fresh(handlers[t])
StartsAlone ==
  \A t, u \in DOMAIN handlers :
    t # u /\ handlers[t].payment = handlers[u].payment => ~Starting(handlers[t])

\* A task that waits for its approval has all that its resume looks at.
WaitingRecorded ==
  \A p \in DOMAIN tasks :
    tasks[p].status = "awaiting_approval" =>
      /\ p \in DOMAIN records
      /\ records[p].approval \in {"pending", "completed"}
      /\ <<"record_request", Nothing>> \in records[p].artifacts
      /\ tasks[p].beneficiary = "approved"

\* A resume works for a beneficiary that was approved, and stays so.
ResumesApproved ==
  \A t \in DOMAIN handlers :
    LET h == handlers[t]
    IN h.op = "resume" =>
         /\ h.row.beneficiary = "approved"
         /\ h.payment \in DOMAIN tasks /\ tasks[h.payment].beneficiary = "approved"

\* Only what was ordered is approved.
SpentIsOrdered == \A p \in DOMAIN records : ApprovalSpent(p) => p \in DOMAIN orders

\* A resume that read another status than awaiting_approval before its commit is
\* not the first to commit: the task does not wait any more.
ApprovalsLast ==
  \A t \in DOMAIN handlers :
    LET h == handlers[t]
    IN h.op = "resume" /\ h.call = "approved" /\ h.phase = "commit"
         /\ h.base.status # "awaiting_approval"
       => Status(h.payment) # "awaiting_approval"

\* Until the first fault all handlers are awaited, and every creation is projected,
\* held by a dispatch run, or about to be claimed by the one that follows it.
CreationsTaken ==
  /\ \A t \in DOMAIN handlers :
       handlers[t].phase # "project" => handlers[t].claimed = {}
  /\ faults = 0 =>
       /\ \A t \in DOMAIN handlers : handlers[t].awaited
       /\ \A p \in DOMAIN tasks \ DOMAIN records : \E t \in DOMAIN handlers :
            \/ p \in handlers[t].claimed
            \/ At(t, "create", "claim") /\ handlers[t].payment = p

\* Until then, too, a task that still waits although its approval was given has the
\* resume that took the approval at work on it.
SpentIsTaken ==
  faults = 0 =>
    \A p \in DOMAIN tasks :
      tasks[p].status = "awaiting_approval" /\ ApprovalSpent(p) =>
        \E t \in DOMAIN handlers : Approving(t, p)

IntakeInv ==
  /\ StartsFresh /\ StartsAlone /\ WaitingRecorded /\ SpentIsOrdered
  /\ ResumesApproved /\ ApprovalsLast /\ CreationsTaken /\ SpentIsTaken
-----------------------------------------------------------------------------
(***************************************************************************)
(* For one handler at work at a time for each payment, beside the calls    *)
(* that handlers before it left behind.                                    *)
(***************************************************************************)
\* A resume that is about to complete the approval or has done so.
Spending(h) ==
  /\ h.op = "resume"
  /\ h.call \in Checked
  /\ h.call \in {"complete_approval", "record_approval"} => h.awaited

Unreleased(p) == ~Released(p, Outcomes)

\* The status of the task at each position of a resume.
StatusAtResume(h) ==
  IF \/ h.call \in {"complete_approval", "record_approval"}
     \/ h.call = "approved" /\ Writing(h)
  THEN {"awaiting_approval"}
  ELSE IF \/ h.call \in {"approved", "release", "record_result"}
          \/ h.call \in {"released", "failed", "pending_reconcile"} /\ Writing(h)
       THEN {"approved"}
  ELSE IF h.call = "released" \/ (h.call = "settlement_pending" /\ Writing(h))
       THEN {"released"}
  ELSE {"settlement_pending", "failed", "pending_reconcile"}

StartInPlace(h) ==
  ~ApprovalSpent(h.payment) /\ Status(h.payment) = StatusAtStart(h)

ResumeMayFollow(h) ==
  \/ ApprovalSpent(h.payment)
  \/ Status(h.payment) = "awaiting_approval" /\ Unreleased(h.payment)

SpendingInPlace(h) ==
  /\ h.call # "complete_approval" => ApprovalSpent(h.payment)
  /\ Status(h.payment) \in StatusAtResume(h)
  /\ h.call \in {"complete_approval", "record_approval", "approved", "release"} =>
       Unreleased(h.payment)
  /\ h.call \in {"record_result", "released", "failed", "pending_reconcile"} =>
       h.result \in {"settlement_pending", "failed", "pending_reconcile"}
  /\ h.call = "failed" => h.result = "failed"
  /\ h.call # "validated"

InPlace(h) ==
  /\ Starting(h) => StartInPlace(h)
  /\ h.op = "resume" => ResumeMayFollow(h)
  /\ Spending(h) => SpendingInPlace(h)
  /\ h.call \in Patches /\ h.phase = "commit" =>
       h.payment \in DOMAIN tasks /\ h.base = tasks[h.payment]

AllInPlace == \A t \in DOMAIN handlers : InPlace(handlers[t])

\* A starting handler has its payment for itself, and spending ones share none.
Alone ==
  \A t, u \in DOMAIN handlers :
    t # u /\ handlers[t].payment = handlers[u].payment =>
      ~Starting(handlers[t]) /\ ~(Spending(handlers[t]) /\ Spending(handlers[u]))

\* No two handlers are at work at once for one payment; calls that were given up may
\* be on their way beside the one that is.
OneAtATime ==
  \A t, u \in DOMAIN handlers :
    /\ handlers[t].awaited /\ handlers[u].awaited
    /\ handlers[t].payment = handlers[u].payment
    => t = u

PaymentsInOrder ==
  /\ \A p \in Payments : ApprovalSpent(p) \/ Unreleased(p)
  /\ \A p \in DOMAIN tasks :
       tasks[p].status \in {"approved", "released", "settlement_pending"} =>
         tasks[p].approval = "approved"

SerialInv ==
  /\ AllInPlace /\ Alone /\ OneAtATime /\ PaymentsInOrder
  /\ OneReleasePerPayment /\ FailedMeansUnreleased
=============================================================================
