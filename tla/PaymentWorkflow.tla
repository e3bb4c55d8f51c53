---------------------------- MODULE PaymentWorkflow ----------------------------
(***************************************************************************)
(* The payment sagas: the orchestrator-api evaluates the policy and hands  *)
(* an intake or a resume to the workflow-worker, whose handler then calls, *)
(* one after the other, the capability gateway and the memory services.    *)
(* Nothing spans two calls: a handler works on what it read earlier,       *)
(* handlers interleave, and a handler that gives up on a call leaves what  *)
(* it did before in place and the call itself on its way.                  *)
(*                                                                         *)
(* The stores are reduced to what the sagas see of them: CapabilityGateway *)
(* and EventConsumer model them in full.  A payment stands for its task.   *)
(* A delegation's response is written together with its status; envelopes, *)
(* reasons and metadata are left out.  Of the outbox only the creations    *)
(* count here: they open the records of a task.  The reads that end a call *)
(* of the memory services change nothing and are left out, their failure   *)
(* being that of the next call.                                            *)
(***************************************************************************)
EXTENDS Naturals, Sequences, FiniteSets, Dict, Policy

CONSTANTS
  Payments,        \* payments, each with its task
  Handlers,        \* handlers of the worker and the calls they left behind
  MaxAwaited,      \* how many handlers may be at work at once
  Orders,          \* the intakes callers may send
  Approvals,       \* the resumes callers may send
  GatewayKeys,     \* the keys long enough for the gateway's request schema
  GatewayDryRun,   \* dry_run_supported of the gateway's release capability
  RailVerdict,     \* the rail's verdict on the beneficiary of each payment
  RailOutcome,     \* the rail's answer to a release, per payment and key
  AmbiguousStatus, \* control_plane.ambiguous_response_action
  MaxFaults        \* bound on timeouts, errors, crashes and gateway restarts

Keys == {req.key : req \in Approvals}
Releasers == {req.by : req \in Approvals}
PaymentStatus ==
  {"received", "validated", "awaiting_approval", "approved", "released",
   "settlement_pending", "settled", "failed", "cancelled",
   "pending_reconcile", "exception"}
Outcomes == {"success", "reject", "ambiguous"}
Verdicts == {"validated", "rejected", "needs_review"}

ASSUME WorkflowAssumption ==
  /\ Orders \subseteq [rail: Rails, amount: Nat]
  /\ \A req \in Approvals :
       req.mode \in {"dry_run", "execute"} /\ req.scoped \in BOOLEAN
  /\ RailVerdict \in [Payments -> Verdicts]
  /\ RailOutcome \in [Payments \X Keys -> Outcomes]
  /\ AmbiguousStatus \in PaymentStatus /\ GatewayDryRun \in BOOLEAN
  /\ MaxAwaited \in Nat /\ MaxFaults \in Nat

VARIABLES
  orders,       \* the accepted intake of each payment
  tasks,        \* context store: the row of each task
  records,      \* provenance store: delegations and artifacts of each task
  instructed,   \* gateway: the payments it has a record of
  keys,         \* gateway: the release remembered under each key
  railLog,      \* history: the releases the rail performed
  handlers,     \* the handlers of the worker
  faults        \* number of faults so far

vars == <<orders, tasks, records, instructed, keys, railLog, handlers, faults>>
-----------------------------------------------------------------------------
Beneficiary(verdict) == IF verdict = "validated" THEN "approved" ELSE verdict

\* The payment status of the rail's answer, as the gateway reports it.
StatusIsOutcome(outcome) == outcome
StatusOf(outcome) ==
  CASE outcome = "success"   -> "settlement_pending"
    [] outcome = "reject"    -> "failed"
    [] outcome = "ambiguous" -> AmbiguousStatus

\* The calls of a handler, by name; a state patch is named for its status.
Patches ==
  {"validated", "awaiting_approval", "exception", "failed", "approved",
   "released", "settlement_pending", "pending_reconcile"}
DelegationCalls ==
  {"queue_validation", "finish_validation",
   "queue_approval", "request_approval", "complete_approval"}
ArtifactCalls ==
  {"record_validation", "record_request",
   "record_decision", "record_approval", "record_result"}
Calls ==
  Patches \cup DelegationCalls \cup ArtifactCalls \cup
    {"instruct", "create", "validate", "read_row", "read_records", "release"}

StartCalls ==
  [instruct |-> "create", create |-> "queue_validation",
   queue_validation |-> "validate", validate |-> "finish_validation",
   finish_validation |-> "record_validation", validated |-> "queue_approval",
   queue_approval |-> "request_approval", request_approval |-> "record_request",
   record_request |-> "awaiting_approval"]
ReleaseThenApprove ==
  [record_decision |-> "read_row", read_row |-> "read_records",
   read_records |-> "release", release |-> "complete_approval",
   complete_approval |-> "record_approval", record_approval |-> "approved",
   approved |-> "record_result", released |-> "settlement_pending"]
ResumeCalls ==
  [record_decision |-> "read_row", read_row |-> "read_records",
   read_records |-> "complete_approval", complete_approval |-> "record_approval",
   record_approval |-> "approved", approved |-> "release",
   release |-> "record_result", released |-> "settlement_pending"]

\* The patch that follows the validation or the release, from its result.
ReleasedUnlessFailed(result) ==
  CASE result = "validated"    -> "validated"
    [] result = "needs_review" -> "exception"
    [] result \in {"rejected", "failed"} -> "failed"
    [] OTHER -> "released"
AmbiguousFails(result) ==
  CASE result = "validated"          -> "validated"
    [] result = "needs_review"       -> "exception"
    [] result = "settlement_pending" -> "released"
    [] OTHER                         -> "failed"
FirstPatch(result) ==
  CASE result = "validated"          -> "validated"
    [] result = "needs_review"       -> "exception"
    [] result = "settlement_pending" -> "released"
    [] result = "pending_reconcile"  -> "pending_reconcile"
    [] OTHER                         -> "failed"

Done == "done"
Following(h) ==
  IF h.call \in {"record_validation", "record_result"} THEN FirstPatch(h.result)
  ELSE IF h.op = "start" /\ h.call \in DOMAIN StartCalls THEN StartCalls[h.call]
  ELSE IF h.op = "resume" /\ h.call \in DOMAIN ResumeCalls THEN ResumeCalls[h.call]
  ELSE Done
-----------------------------------------------------------------------------
Row ==
  [status: PaymentStatus,
   beneficiary: {"unknown", "approved", "rejected", "needs_review"},
   approval: {"pending", "approved"}]
NewRow == [status |-> "received", beneficiary |-> "unknown", approval |-> "pending"]

Nothing == "none"
DelegationStatus == {Nothing, "queued", "pending", "completed"}
Artifact == ArtifactCalls \X (Releasers \cup Keys \cup {Nothing})
Records ==
  [validation: DelegationStatus, approval: DelegationStatus,
   artifacts: SUBSET Artifact]
NewRecords == [validation |-> Nothing, approval |-> Nothing, artifacts |-> {}]

\* phase: the call is about to be served, or read and about to commit, or it is
\* committed and the outbox is about to be claimed, or projected.
Handler ==
  [op: {"start", "resume"}, payment: Payments,
   req: Orders \cup Approvals,
   call: Calls, phase: {"send", "commit", "claim", "project"},
   awaited: BOOLEAN,             \* the worker still waits for the call
   row: Row,                     \* the task as the worker read it
   base: Row,                    \* the row its state patch read before the commit
   claimed: SUBSET Payments,     \* the created events its dispatch run holds
   result: Verdicts \cup PaymentStatus \cup {Nothing}]
Submission == [payment: Payments, req: Approvals, outcome: Outcomes]

TypeOK ==
  /\ IsDict(orders, Payments, Orders)
  /\ IsDict(tasks, Payments, Row)
  /\ IsDict(records, Payments, Records)
  /\ instructed \subseteq Payments
  /\ IsDict(keys, Keys, Submission)
  /\ railLog \in Seq(Submission)
  /\ IsDict(handlers, Handlers, Handler)
  /\ faults \in Nat

Init ==
  /\ orders = Empty
  /\ tasks = Empty
  /\ records = Empty
  /\ instructed = {}
  /\ keys = Empty
  /\ railLog = <<>>
  /\ handlers = Empty
  /\ faults = 0
-----------------------------------------------------------------------------
At(t, call, phase) ==
  t \in DOMAIN handlers /\ handlers[t].call = call /\ handlers[t].phase = phase

\* The call of t is answered and h is what its handler knows now: it makes the
\* next call, unless there is none or the answer reaches nobody.
Answer(t, h) ==
  \/ /\ h.awaited /\ Following(h) # Done
     /\ handlers' = Put(handlers, t, [h EXCEPT !.call = Following(h),
                                               !.phase = "send",
                                               !.claimed = {}])
  \/ /\ ~h.awaited \/ Following(h) = Done
     /\ handlers' = Drop(handlers, t)

\* The call of t is answered with an error, which ends its handler.
Refuse(t) == handlers' = Drop(handlers, t)

MayBegin(t) ==
  /\ t \notin DOMAIN handlers
  /\ Cardinality({u \in DOMAIN handlers : handlers[u].awaited}) < MaxAwaited

NewHandler(op, p, req, call, row) ==
  [op |-> op, payment |-> p, req |-> req, call |-> call, phase |-> "send",
   awaited |-> TRUE, row |-> row, base |-> NewRow, claimed |-> {}, result |-> Nothing]

\* create_domestic_payment_task: only a denial stops the intake.  The payment is
\* one the gateway has never named before.
BeginStart(t, p, order) ==
  /\ MayBegin(t)
  /\ IntakeDecision(order) # "deny"
  /\ p \notin DOMAIN orders
  /\ orders' = Put(orders, p, order)
  /\ handlers' = Put(handlers, t, NewHandler("start", p, order, "instruct", NewRow))
  /\ UNCHANGED <<tasks, records, instructed, keys, railLog, faults>>

\* resume_task: the policy decides on the task as it is read now.
BeginResume(t, p, req) ==
  /\ MayBegin(t)
  /\ p \in DOMAIN tasks
  /\ ReleaseDecision(orders[p], tasks[p], req) = "allow"
  /\ handlers' = Put(handlers, t,
                     NewHandler("resume", p, req, "record_decision", tasks[p]))
  /\ UNCHANGED <<orders, tasks, records, instructed, keys, railLog, faults>>
-----------------------------------------------------------------------------
\* Calls of the gateway.
Instruct(t) ==
  /\ At(t, "instruct", "send")
  /\ instructed' = instructed \cup {handlers[t].payment}
  /\ Answer(t, handlers[t])
  /\ UNCHANGED <<orders, tasks, records, keys, railLog, faults>>

Validate(t) ==
  /\ At(t, "validate", "send")
  /\ LET h == handlers[t] IN
       \/ h.payment \notin instructed /\ Refuse(t)
       \/ /\ h.payment \in instructed
          /\ Answer(t, [h EXCEPT !.result = RailVerdict[h.payment]])
  /\ UNCHANGED <<orders, tasks, records, instructed, keys, railLog, faults>>

\* The gateway refuses what it does not know, what its schema or the capability
\* does not allow, and a key used for another request.
Unacceptable(h) ==
  \/ h.payment \notin instructed
  \/ h.req.key \notin GatewayKeys
  \/ h.req.mode = "dry_run" /\ ~GatewayDryRun
SameRelease(h, prior) ==
  /\ h.payment = prior.payment
  /\ h.req.by = prior.req.by /\ h.req.mode = prior.req.mode

ReleaseLookup(t) ==
  /\ At(t, "release", "send")
  /\ LET h == handlers[t]
         known == h.req.key \in DOMAIN keys
     IN \/ Unacceptable(h) /\ Refuse(t)
        \/ ~Unacceptable(h) /\ known /\ ~SameRelease(h, keys[h.req.key]) /\ Refuse(t)
        \/ /\ ~Unacceptable(h) /\ known /\ SameRelease(h, keys[h.req.key])
           /\ Answer(t, [h EXCEPT !.result = StatusOf(keys[h.req.key].outcome)])
        \/ /\ ~Unacceptable(h) /\ ~known
           /\ handlers' = [handlers EXCEPT ![t].phase = "commit"]
  /\ UNCHANGED <<orders, tasks, records, instructed, keys, railLog, faults>>

ReleaseSubmit(t) ==
  /\ At(t, "release", "commit")
  /\ LET h == handlers[t]
         outcome == RailOutcome[<<h.payment, h.req.key>>]
         s == [payment |-> h.payment, req |-> h.req, outcome |-> outcome]
     IN /\ railLog' = Append(railLog, s)
        /\ keys' = Put(keys, h.req.key, s)
        /\ Answer(t, [h EXCEPT !.result = StatusOf(outcome)])
  /\ UNCHANGED <<orders, tasks, records, instructed, faults>>
-----------------------------------------------------------------------------
\* Calls of the context store.  A write is followed by a dispatch run.
CommittedUndispatched(t) == Answer(t, handlers[t])
Committed(t) ==
  \/ /\ handlers[t].awaited
     /\ handlers' = [handlers EXCEPT ![t].phase = "claim"]
  \/ ~handlers[t].awaited /\ Refuse(t)

CreateTask(t) ==
  /\ At(t, "create", "send")
  /\ tasks' = Put(tasks, handlers[t].payment, NewRow)
  /\ Committed(t)
  /\ UNCHANGED <<orders, records, instructed, keys, railLog, faults>>

\* The row a state patch of handler h asks for.
UnapprovedPatch(h) ==
  [status |-> h.call,
   beneficiary |-> IF h.op = "start" THEN Beneficiary(h.result)
                                     ELSE h.row.beneficiary,
   approval |-> "pending"]
Patch(h) ==
  [status |-> h.call,
   beneficiary |-> IF h.op = "start" THEN Beneficiary(h.result)
                                     ELSE h.row.beneficiary,
   approval |-> IF h.op = "start" THEN "pending" ELSE "approved"]

SettledOnceApproved(row, patch) == row = patch \/ row.approval = "approved"
NoStateChange(row, patch) == row = patch

PatchRead(t) ==
  /\ \E call \in Patches : At(t, call, "send")
  /\ LET h == handlers[t]
         row == tasks[h.payment]
     IN \/ NoStateChange(row, Patch(h)) /\ Refuse(t)
        \/ /\ ~NoStateChange(row, Patch(h))
           /\ handlers' = [handlers EXCEPT ![t].phase = "commit", ![t].base = row]
  /\ UNCHANGED <<orders, tasks, records, instructed, keys, railLog, faults>>

\* Only the columns that differ from the row that was read are written.
PatchCommit(t) ==
  /\ \E call \in Patches : At(t, call, "commit")
  /\ LET h == handlers[t]
         patch == Patch(h)
     IN tasks' = [tasks EXCEPT ![h.payment] =
          [c \in DOMAIN @ |-> IF patch[c] # h.base[c] THEN patch[c] ELSE @[c]]]
  /\ Committed(t)
  /\ UNCHANGED <<orders, records, instructed, keys, railLog, faults>>

ReadRow(t) ==
  /\ At(t, "read_row", "send")
  /\ Answer(t, [handlers[t] EXCEPT !.row = tasks[handlers[t].payment]])
  /\ UNCHANGED <<orders, tasks, records, instructed, keys, railLog, faults>>

\* The dispatch run claims the creations nobody has claimed or projected.
Claim(t) ==
  /\ t \in DOMAIN handlers /\ handlers[t].phase = "claim"
  /\ LET held == UNION {handlers[u].claimed : u \in DOMAIN handlers}
     IN handlers' = [handlers EXCEPT ![t].phase = "project",
          ![t].claimed = DOMAIN tasks \ (DOMAIN records \cup held)]
  /\ UNCHANGED <<orders, tasks, records, instructed, keys, railLog, faults>>

Fault == faults < MaxFaults /\ faults' = faults + 1

\* It projects them, or reports failures, which the worker does not look at.
Project(t) ==
  /\ t \in DOMAIN handlers /\ handlers[t].phase = "project"
  /\ LET claimed == handlers[t].claimed IN
       \/ /\ records' = [p \in DOMAIN records \cup claimed |->
                           IF p \in DOMAIN records THEN records[p] ELSE NewRecords]
          /\ UNCHANGED faults
       \/ claimed # {} /\ UNCHANGED records /\ Fault
  /\ Answer(t, handlers[t])
  /\ UNCHANGED <<orders, tasks, instructed, keys, railLog>>
-----------------------------------------------------------------------------
\* Calls of the provenance store.
Recorded(h) ==
  IF h.call = "record_approval" THEN <<h.call, h.req.by>>
  ELSE IF h.call = "record_result" THEN <<h.call, h.req.key>>
  ELSE <<h.call, Nothing>>

NeverPending(rec, h) ==
  CASE h.call = "queue_validation"  -> [rec EXCEPT !.validation = "queued"]
    [] h.call = "finish_validation" -> [rec EXCEPT !.validation = "completed"]
    [] h.call = "complete_approval" -> [rec EXCEPT !.approval = "completed"]
    [] h.call \in {"queue_approval", "request_approval"} ->
         [rec EXCEPT !.approval = "queued"]
    [] h.call \in ArtifactCalls ->
         [rec EXCEPT !.artifacts = @ \cup {Recorded(h)}]
Written(rec, h) ==
  CASE h.call = "queue_validation"  -> [rec EXCEPT !.validation = "queued"]
    [] h.call = "finish_validation" -> [rec EXCEPT !.validation = "completed"]
    [] h.call = "queue_approval"    -> [rec EXCEPT !.approval = "queued"]
    [] h.call = "request_approval"  -> [rec EXCEPT !.approval = "pending"]
    [] h.call = "complete_approval" -> [rec EXCEPT !.approval = "completed"]
    [] h.call \in ArtifactCalls ->
         [rec EXCEPT !.artifacts = @ \cup {Recorded(h)}]

\* A delegation or an artifact is refused while the task has no record.
WriteRecord(t) ==
  /\ \E call \in DelegationCalls \cup ArtifactCalls : At(t, call, "send")
  /\ LET h == handlers[t] IN
       \/ h.payment \notin DOMAIN records /\ Refuse(t) /\ UNCHANGED records
       \/ /\ h.payment \in DOMAIN records
          /\ records' = [records EXCEPT ![h.payment] = Written(@, h)]
          /\ Answer(t, h)
  /\ UNCHANGED <<orders, tasks, instructed, keys, railLog, faults>>

\* The second half of get_task, and what the worker checks before it goes on.
AwaitingApproval(h) ==
  h.row.status = "awaiting_approval" /\ h.payment \in DOMAIN records
Resumable(h) ==
  /\ h.row.status = "awaiting_approval"
  /\ h.payment \in DOMAIN records /\ records[h.payment].approval = "pending"

ReadRecords(t) ==
  /\ At(t, "read_records", "send")
  /\ \/ Resumable(handlers[t]) /\ Answer(t, handlers[t])
     \/ ~Resumable(handlers[t]) /\ Refuse(t)
  /\ UNCHANGED <<orders, tasks, records, instructed, keys, railLog, faults>>
-----------------------------------------------------------------------------
\* The worker gives up on a call (a timeout, a lost answer) or dies: its handler
\* is over, the call is still on its way.
Abandon(t) ==
  /\ Fault
  /\ t \in DOMAIN handlers /\ handlers[t].awaited
  /\ handlers' = [handlers EXCEPT ![t].awaited = FALSE]
  /\ UNCHANGED <<orders, tasks, records, instructed, keys, railLog>>

\* An abandoned call never takes effect.
Lost(t) ==
  /\ t \in DOMAIN handlers /\ ~handlers[t].awaited
  /\ Refuse(t)
  /\ UNCHANGED <<orders, tasks, records, instructed, keys, railLog, faults>>

\* The gateway starts again without records and keys; a release it was about to
\* submit is gone.
GatewayRestart ==
  /\ Fault
  /\ instructed' = {}
  /\ keys' = Empty
  /\ handlers' = [t \in {u \in DOMAIN handlers : ~At(u, "release", "commit")} |->
                    handlers[t]]
  /\ UNCHANGED <<orders, tasks, records, railLog>>

Serve(t) ==
  \/ Instruct(t) \/ CreateTask(t) \/ Validate(t)
  \/ PatchRead(t) \/ PatchCommit(t) \/ Claim(t) \/ Project(t)
  \/ WriteRecord(t) \/ ReadRow(t) \/ ReadRecords(t)
  \/ ReleaseLookup(t) \/ ReleaseSubmit(t)

Next ==
  \/ \E t \in Handlers :
       \/ \E p \in Payments, order \in Orders : BeginStart(t, p, order)
       \/ \E p \in Payments, req \in Approvals : BeginResume(t, p, req)
       \/ Serve(t)
       \/ Abandon(t)
       \/ Lost(t)
  \/ GatewayRestart

Spec == Init /\ [][Next]_vars

\* The services serve the calls that reach them.
FairSpec == Spec /\ \A t \in Handlers : WF_vars(Serve(t))
-----------------------------------------------------------------------------
(***************************************************************************)
(* Properties.                                                             *)
(***************************************************************************)
\* The rail performed a release of p with one of these outcomes.
Released(p, outcomes) ==
  \E i \in DOMAIN railLog :
    railLog[i].payment = p /\ railLog[i].outcome \in outcomes

\* No release reaches the rail but one the policy allows, for a beneficiary the
\* rail validated, after the policy decision and the approval of this releaser
\* were recorded: no crash, lost call or concurrent handler gets around a check.
ReleaseLicensed ==
  \A i \in DOMAIN railLog :
    LET s == railLog[i]
        order == orders[s.payment]
    IN /\ order.rail \in RailScope /\ ~ReadOnly
       /\ order.amount < HighRiskThreshold
       /\ s.req.scoped /\ (s.req.mode = "dry_run" => DryRunAllowed /\ GatewayDryRun)
       /\ RailVerdict[s.payment] = "validated"
       /\ {<<"record_decision", Nothing>>, <<"record_request", Nothing>>,
           <<"record_approval", s.req.by>>} \subseteq records[s.payment].artifacts

\* What a task says of its release happened: an accepted release is one the rail
\* accepted, and a reconciliation is due only to an ambiguous answer.
StatusBacked ==
  \A p \in DOMAIN tasks :
    /\ tasks[p].status \in {"released", "settlement_pending"} =>
         Released(p, {"success"})
    /\ tasks[p].status = "pending_reconcile" => Released(p, {"ambiguous"})

\* Handler t has completed the approval of p and is about to say so of its task.
Approving(t, p) ==
  LET h == handlers[t]
  IN /\ h.op = "resume" /\ h.payment = p /\ h.awaited
     /\ \/ h.call = "record_approval"
        \/ h.call = "approved" /\ h.phase \in {"send", "commit"}

\* A task that waits for approval can be approved, with its request recorded: its
\* delegation is pending, or it is completed and the resume that took it is still
\* at work on the task.  Only a fault, a worker that dies or gives up in between,
\* leaves a task waiting for an approval that nobody can give.
AwaitingIsReady ==
  \A p \in DOMAIN tasks :
    tasks[p].status = "awaiting_approval" =>
      /\ p \in DOMAIN records
      /\ <<"record_request", Nothing>> \in records[p].artifacts
      /\ tasks[p].beneficiary = "approved"
      /\ \/ records[p].approval = "pending"
         \/ /\ records[p].approval = "completed"
            /\ faults > 0 \/ \E t \in DOMAIN handlers : Approving(t, p)

\* The records of a task are open when its intake first writes to them: until the
\* first fault only another handler's dispatch run, which holds the creation and has
\* yet to project it, can bring an intake to a 404.
IntakeFindsRecords ==
  faults = 0 =>
    \A t \in DOMAIN handlers :
      LET p == handlers[t].payment
      IN handlers[t].call = "queue_validation" /\ p \notin DOMAIN records =>
           \E u \in DOMAIN handlers \ {t} : p \in handlers[u].claimed

\* The rail performs at most one release per payment.
OneReleasePerPayment ==
  \A i, j \in DOMAIN railLog : railLog[i].payment = railLog[j].payment => i = j

\* A payment given up as failed has not been released, nor may it have been.
FailedMeansUnreleased ==
  \A p \in DOMAIN tasks :
    tasks[p].status \in {"failed", "exception"} =>
      ~Released(p, {"success", "ambiguous"})

\* The rail performs a release only while its task says that it is approved.
ReleaseNeedsApproval ==
  [][\A t \in Handlers :
       ReleaseSubmit(t) =>
         LET row == tasks[handlers[t].payment]
         IN row.status = "approved" /\ row.approval = "approved"]_vars

Status(p) == IF p \in DOMAIN tasks THEN tasks[p].status ELSE Nothing
Concluded == {"settlement_pending", "pending_reconcile", "failed"}

\* The gateway may refuse the key of one who approved p: its schema does, or the
\* key is taken by another release.
KeyRefused(p) ==
  \E req \in Approvals :
    /\ p \in DOMAIN records
    /\ <<"record_approval", req.by>> \in records[p].artifacts
    /\ \/ req.key \notin GatewayKeys
       \/ req.key \in DOMAIN keys /\ keys[req.key].payment # p

\* An approval is spent before the release is asked for: its delegation can be
\* completed only once.  Unless something fails, its payment is concluded, or the
\* gateway refused its key; then it is left for good, but never with a release of
\* which its task says nothing.
ApprovalSpent(p) == p \in DOMAIN records /\ records[p].approval = "completed"
EventuallyConcluded ==
  \A p \in Payments :
    ApprovalSpent(p) ~>
      \/ faults > 0
      \/ Status(p) \in Concluded
      \/ KeyRefused(p) /\ [](Status(p) = "approved" /\ ~Released(p, Outcomes))

Life == INSTANCE PaymentLife WITH
  status    <- [p \in Payments |-> Status(p)],
  submitted <- [i \in DOMAIN railLog |->
                  [payment |-> railLog[i].payment, outcome |-> railLog[i].outcome]]

\* With one handler at work at a time, whatever calls handlers that were given up
\* left behind, every payment lives the life it should: no status is skipped or
\* taken back, the rail is asked once, after the approval and for a task there
\* is, and the task says what the rail answered.
ImplementsPaymentLife == Life!Spec

\* A release whose answer was lost is ambiguous: once nobody works on the payment
\* any more its task says how the release ended, or that it must be reconciled.
UnknownIsReconciled ==
  \A p \in DOMAIN tasks :
    /\ \E i \in DOMAIN railLog : railLog[i].payment = p
    /\ \A t \in DOMAIN handlers : handlers[t].payment # p
    => tasks[p].status \in Concluded
=============================================================================
