-------------------------- MODULE CapabilityGateway --------------------------
(***************************************************************************)
(* The capability gateway: the only component that talks to the payment    *)
(* rail.  It keeps two dictionaries in process memory (gateway records by  *)
(* payment, idempotency records by key) and serves requests on a pool of   *)
(* threads, so the check of the idempotency key, the call of the rail and  *)
(* the two writes that follow are separate steps that interleave with the  *)
(* steps of the other threads.  A restart loses both dictionaries.         *)
(*                                                                         *)
(* The key is abstract (a model value): the schema refuses a shorter one   *)
(* than eight characters before the handler runs.  The fingerprint is the  *)
(* request itself: it hashes every field of it.  Timestamps, explanations  *)
(* and trace identifiers are left out.                                     *)
(***************************************************************************)
EXTENDS Naturals, Sequences, Dict

CONSTANTS
  Payments,         \* payment identifiers; each comes with one task identifier
  Keys,             \* idempotency keys the request schema accepts
  Releasers,        \* values of released_by
  Threads,          \* threads that serve requests
  Requests,         \* the release requests callers may send
  Rails,            \* values of rail
  RailScope,        \* environment.rail_scope of the control-plane document
  RailVerdict,      \* the mock rail's verdicts on the beneficiaries callers
                    \* name when they validate each payment
  RailOutcome,      \* the mock rail's deterministic answer per payment and key
  AmbiguousStatus,  \* control_plane.ambiguous_response_action
  DryRunSupported,  \* dry_run_supported of the release capability
  MaxRestarts       \* bound on process restarts

PaymentStatus ==
  {"received", "validated", "awaiting_approval", "approved", "released",
   "settlement_pending", "settled", "failed", "cancelled",
   "pending_reconcile", "exception"}
Outcomes == {"success", "reject", "ambiguous"}
Verdicts == {"validated", "rejected", "needs_review"}

\* task: the payment whose task identifier the caller sent
ReleaseRequest ==
  [payment: Payments, task: Payments, key: Keys, releasedBy: Releasers,
   mode: {"dry_run", "execute"}]

\* outcome of an answer that has none, and of a handler that has none yet
NoOutcome == "none"

ASSUME RequestsAssumption == Requests \subseteq ReleaseRequest
ASSUME RailAssumption ==
  /\ RailVerdict \in [Payments -> SUBSET Verdicts]
  /\ RailOutcome \in [Payments \X Keys -> Outcomes]
  /\ AmbiguousStatus \in PaymentStatus
  /\ RailScope \subseteq Rails
ASSUME BoundAssumption == MaxRestarts \in Nat /\ DryRunSupported \in BOOLEAN

VARIABLES
  records,      \* the store's record of each payment it knows
  keys,         \* the store's idempotency record of each key it knows
  created,      \* identifiers ever generated (they are random, never reused)
  releasing,    \* threads inside release_approved_payment
  validating,   \* threads inside validate_beneficiary
  answered,     \* history: the answer the last step sent to a release, if any
  railLog,      \* history: the releases the rail was asked to perform
  epoch         \* number of restarts so far

vars == <<records, keys, created, releasing, validating, answered, railLog,
          epoch>>
-----------------------------------------------------------------------------
GatewayRecord ==
  [status: PaymentStatus,
   beneficiary: {"unknown", "approved", "rejected", "needs_review"},
   approval: {"pending", "approved"}]
IdempotencyRecord == [req: Requests, outcome: Outcomes]
ReleaseHandler ==
  [pc: {"lookup", "submit"}, req: Requests, rec: GatewayRecord,
   outcome: {NoOutcome}]
  \cup
  [pc: {"store", "remember"}, req: Requests, rec: GatewayRecord,
   outcome: Outcomes]
ValidateHandler == [payment: Payments, rec: GatewayRecord]
Answer ==
  [req: Requests, outcome: Outcomes \cup {NoOutcome},
   result: {"not_found", "dry_run_unsupported", "duplicate_request",
            "replayed", "released"}]
Submission == [req: Requests, by: Threads, outcome: Outcomes, epoch: Nat]

TypeOK ==
  /\ IsDict(records, Payments, GatewayRecord)
  /\ IsDict(keys, Keys, IdempotencyRecord)
  /\ created \subseteq Payments
  /\ IsDict(releasing, Threads, ReleaseHandler)
  /\ IsDict(validating, Threads, ValidateHandler)
  /\ answered \subseteq Answer
  /\ railLog \in Seq(Submission)
  /\ epoch \in Nat

Init ==
  /\ records = Empty
  /\ keys = Empty
  /\ created = {}
  /\ releasing = Empty
  /\ validating = Empty
  /\ answered = {}
  /\ railLog = <<>>
  /\ epoch = 0
-----------------------------------------------------------------------------
Idle(t) == t \notin DOMAIN releasing \cup DOMAIN validating

\* A lookup succeeds when the record exists and carries the caller's task.
Matches(payment, task) == payment \in DOMAIN records /\ task = payment

\* The payment status of the rail's answer.
StatusIsOutcome(outcome) == outcome
StatusOf(outcome) ==
  CASE outcome = "success"   -> "settlement_pending"
    [] outcome = "reject"    -> "failed"
    [] outcome = "ambiguous" -> AmbiguousStatus

\* The record after the rail's verdict on the beneficiary.
ApprovingRecord(rec, verdict) ==
  [rec EXCEPT !.status = "validated", !.approval = "approved"]
ValidatedRecord(rec, verdict) ==
  [rec EXCEPT
     !.status = IF verdict = "validated" THEN "validated" ELSE "exception",
     !.beneficiary = IF verdict = "validated" THEN "approved" ELSE verdict]

\* A payment identifier nobody has seen: twelve random hexadecimal digits.
UnusedInMemory(p) == p \notin DOMAIN records
Fresh(p) == p \notin created

\* The check of the idempotency key: is there a record, is it of this request?
RememberedUnlessAmbiguous(k) ==
  k \in DOMAIN keys /\ keys[k].outcome # "ambiguous"
Remembered(k) == k \in DOMAIN keys
SamePayment(r, prior) == r.payment = prior.payment
SameFingerprint(r, prior) == r = prior
-----------------------------------------------------------------------------
CreateInstruction(p, rail) ==
  /\ rail \in RailScope
  /\ Fresh(p)
  /\ created' = created \cup {p}
  /\ records' = Put(records, p, [status |-> "received",
                                 beneficiary |-> "unknown",
                                 approval |-> "pending"])
  /\ answered' = {}
  /\ UNCHANGED <<keys, releasing, validating, railLog, epoch>>

\* Validation reads the record first and writes a modified copy of it later.
ValidateRead(t, p, task) ==
  /\ Idle(t)
  /\ Matches(p, task)
  /\ validating' = Put(validating, t, [payment |-> p, rec |-> records[p]])
  /\ answered' = {}
  /\ UNCHANGED <<records, keys, created, releasing, railLog, epoch>>

ValidateStore(t) ==
  /\ t \in DOMAIN validating
  /\ LET h == validating[t] IN
       \E verdict \in RailVerdict[h.payment] :
         records' = Put(records, h.payment, ValidatedRecord(h.rec, verdict))
  /\ validating' = Drop(validating, t)
  /\ answered' = {}
  /\ UNCHANGED <<keys, created, releasing, railLog, epoch>>
-----------------------------------------------------------------------------
\* The handler of thread t answers request r and is done.
Reply(t, r, result, outcome) ==
  /\ answered' = {[req |-> r, result |-> result, outcome |-> outcome]}
  /\ releasing' = Drop(releasing, t)

ReleaseRefuse(t, r, result) ==
  /\ Reply(t, r, result, NoOutcome)
  /\ UNCHANGED <<records, keys, created, validating, railLog, epoch>>

\* release_approved_payment: the record is read, the mode is checked.
ReleaseBegin(t, r) ==
  /\ Idle(t)
  /\ \/ /\ ~Matches(r.payment, r.task)
        /\ ReleaseRefuse(t, r, "not_found")
     \/ /\ Matches(r.payment, r.task)
        /\ r.mode = "dry_run" /\ ~DryRunSupported
        /\ ReleaseRefuse(t, r, "dry_run_unsupported")
     \/ /\ Matches(r.payment, r.task)
        /\ r.mode = "dry_run" => DryRunSupported
        /\ releasing' = Put(releasing, t, [pc |-> "lookup", req |-> r,
                                           rec |-> records[r.payment],
                                           outcome |-> NoOutcome])
        /\ answered' = {}
        /\ UNCHANGED <<records, keys, created, validating, railLog, epoch>>

At(t, pc) == t \in DOMAIN releasing /\ releasing[t].pc = pc
Goto(t, pc) == releasing' = [releasing EXCEPT ![t].pc = pc]

\* The idempotency check: replay, refuse another request, or go on.
ReleaseLookup(t) ==
  /\ At(t, "lookup")
  /\ LET r == releasing[t].req IN
       \/ /\ ~Remembered(r.key)
          /\ Goto(t, "submit")
          /\ answered' = {}
       \/ /\ Remembered(r.key)
          /\ ~SameFingerprint(r, keys[r.key].req)
          /\ Reply(t, r, "duplicate_request", NoOutcome)
       \/ /\ Remembered(r.key)
          /\ SameFingerprint(r, keys[r.key].req)
          /\ Reply(t, r, "replayed", keys[r.key].outcome)
  /\ UNCHANGED <<records, keys, created, validating, railLog, epoch>>

\* The rail performs the release: the effect that cannot be undone.
ReleaseSubmit(t) ==
  /\ At(t, "submit")
  /\ LET r == releasing[t].req
         o == RailOutcome[<<r.payment, r.key>>]
     IN /\ railLog' = Append(railLog, [req |-> r, by |-> t, outcome |-> o,
                                       epoch |-> epoch])
        /\ releasing' = [releasing EXCEPT ![t].pc = "store",
                                          ![t].outcome = o]
  /\ answered' = {}
  /\ UNCHANGED <<records, keys, created, validating, epoch>>

\* The record is replaced by a modified copy of the one read at the start.
ReleaseStore(t) ==
  /\ At(t, "store")
  /\ LET h == releasing[t] IN
       records' = Put(records, h.req.payment,
                      [h.rec EXCEPT !.status = StatusOf(h.outcome),
                                    !.approval = "approved"])
  /\ Goto(t, "remember")
  /\ answered' = {}
  /\ UNCHANGED <<keys, created, validating, railLog, epoch>>

\* The answer is remembered under the key and sent.
ReleaseRemember(t) ==
  /\ At(t, "remember")
  /\ LET h == releasing[t] IN
       /\ keys' = Put(keys, h.req.key, [req |-> h.req, outcome |-> h.outcome])
       /\ Reply(t, h.req, "released", h.outcome)
  /\ UNCHANGED <<records, created, validating, railLog, epoch>>

\* The process stops and starts again: everything in memory is gone, and the
\* callers of the requests it was serving get no answer.
Restart ==
  /\ epoch < MaxRestarts
  /\ epoch' = epoch + 1
  /\ records' = Empty
  /\ keys' = Empty
  /\ releasing' = Empty
  /\ validating' = Empty
  /\ answered' = {}
  /\ UNCHANGED <<created, railLog>>

Next ==
  \/ \E p \in Payments, rail \in Rails : CreateInstruction(p, rail)
  \/ \E t \in Threads :
       \/ \E p \in Payments, task \in Payments : ValidateRead(t, p, task)
       \/ ValidateStore(t)
       \/ \E r \in Requests : ReleaseBegin(t, r)
       \/ ReleaseLookup(t)
       \/ ReleaseSubmit(t)
       \/ ReleaseStore(t)
       \/ ReleaseRemember(t)
  \/ Restart

Spec == Init /\ [][Next]_vars
-----------------------------------------------------------------------------
(***************************************************************************)
(* Properties.                                                             *)
(***************************************************************************)
\* The rail was asked, in this incarnation, for exactly r and answered outcome.
Submitted(r, outcome) ==
  \E i \in DOMAIN railLog :
    railLog[i].req = r /\ railLog[i].outcome = outcome /\ railLog[i].epoch = epoch

\* A record of p, or a handler's copy of it, claims no more than the rail did.
Backed(p, rec) ==
  rec.approval = "approved" =>
    \E i \in DOMAIN railLog :
      /\ railLog[i].req.payment = p
      /\ railLog[i].epoch = epoch
      /\ rec.status \in {StatusOf(railLog[i].outcome), "validated", "exception"}

\* A caller told that its release was performed, now or as a replay, was told
\* the outcome of a submission of exactly its own request since the last
\* restart: neither a race nor a replay hands out another request's outcome.
AnswerBacked ==
  \A a \in answered :
    a.result \in {"released", "replayed"} => Submitted(a.req, a.outcome)

\* The gateway's own record never claims more than the rail did: an approved
\* record stands for a submission of that payment, and a status only a release
\* can give is the status of that submission's outcome.
ApprovedOnlyAfterRail == \A p \in DOMAIN records : Backed(p, records[p])

\* A restart forgets the keys, so it could let a retry reach the rail again; it
\* forgets the payments with them, so no payment submitted before a restart is
\* submitted after it.
RestartNeverRepeats ==
  \A i, j \in DOMAIN railLog :
    railLog[i].req.payment = railLog[j].req.payment =>
      railLog[i].epoch = railLog[j].epoch

\* Between restarts a thread submits a key at most once: whatever the other
\* threads do, a second submission can only come from a handler that ran
\* concurrently with the first one.
ThreadSubmitsKeyOnce ==
  \A i, j \in DOMAIN railLog :
    /\ railLog[i].by = railLog[j].by
    /\ railLog[i].epoch = railLog[j].epoch
    /\ railLog[i].req.key = railLog[j].req.key
    => i = j

\* What the documentation promises: between restarts the rail is asked at most
\* once per idempotency key.  True when requests are served one at a time.
AtMostOncePerKey ==
  \A i, j \in DOMAIN railLog :
    /\ railLog[i].epoch = railLog[j].epoch
    /\ railLog[i].req.key = railLog[j].req.key
    => i = j

\* The section between the check of a key and its record is critical, per key: no two
\* requests with the same key are in it at once.
KeysApart ==
  \A s, t \in DOMAIN releasing :
    /\ releasing[s].pc # "lookup" /\ releasing[t].pc # "lookup"
    /\ releasing[s].req.key = releasing[t].req.key
    => s = t

\* That section is the only race: as long as requests with the same key do not meet
\* in it, the promise holds for any number of threads, whatever else interleaves.
AtMostOnceIfApart == []KeysApart => []AtMostOncePerKey

\* The key is bound from the moment the rail is asked, which is before the
\* idempotency record exists.
BoundKeys ==
  LET inFlight == {t \in DOMAIN releasing :
                     releasing[t].pc \in {"store", "remember"}}
  IN [k \in DOMAIN keys \cup {releasing[t].req.key : t \in inFlight} |->
        IF k \in DOMAIN keys THEN keys[k].req
        ELSE (CHOOSE r \in {releasing[t].req : t \in inFlight} : r.key = k)]

Abstract == INSTANCE IdempotentRelease WITH
  opened  <- created,
  open    <- DOMAIN records,
  bound   <- BoundKeys,
  effects <- [i \in DOMAIN railLog |-> railLog[i].req]

\* Served one at a time, release requests get what IdempotentRelease promises:
\* lookup, rail call and the two writes amount to one atomic release.
ImplementsIdempotentRelease == Abstract!Spec
-----------------------------------------------------------------------------
(***************************************************************************)
(* The inductive invariant behind these properties.                        *)
(***************************************************************************)
\* Handlers work on payments the store knows, with copies as good as its records.
HandlersKnown ==
  /\ DOMAIN records \subseteq created
  /\ \A t \in DOMAIN releasing :
       /\ releasing[t].req.payment \in DOMAIN records
       /\ Backed(releasing[t].req.payment, releasing[t].rec)
  /\ \A t \in DOMAIN validating :
       /\ validating[t].payment \in DOMAIN records
       /\ Backed(validating[t].payment, validating[t].rec)

\* What a restart left in the log concerns payments that are closed for good.
OldPaymentsClosed ==
  \A i \in DOMAIN railLog :
    /\ railLog[i].req.payment \in created
    /\ railLog[i].epoch <= epoch
    /\ railLog[i].epoch # epoch => railLog[i].req.payment \notin DOMAIN records

PastRail(t) == t \in DOMAIN releasing /\ releasing[t].pc \in {"store", "remember"}

\* Every outcome held under a key or by a handler came from the rail.
OutcomesBacked ==
  /\ \A k \in DOMAIN keys :
       keys[k].req.key = k /\ Submitted(keys[k].req, keys[k].outcome)
  /\ \A t \in DOMAIN releasing :
       PastRail(t) => Submitted(releasing[t].req, releasing[t].outcome)

\* A submission of this incarnation is remembered under its key, or the thread
\* that made it is about to do so; and a thread about to submit has not yet.
SubmissionsKnown ==
  \A i \in DOMAIN railLog :
    railLog[i].epoch = epoch =>
      /\ \/ railLog[i].req.key \in DOMAIN keys
         \/ /\ PastRail(railLog[i].by)
            /\ releasing[railLog[i].by].req.key = railLog[i].req.key
      /\ \A t \in DOMAIN releasing :
           releasing[t].pc = "submit" /\ releasing[t].req.key = railLog[i].req.key
             => railLog[i].by # t

\* The inductive invariant: with the properties above, every request in a handler
\* still concerns a payment the store knows, every outcome held in memory came
\* from the rail, and every submission is remembered or about to be.
GatewayInv ==
  /\ TypeOK
  /\ HandlersKnown
  /\ OldPaymentsClosed
  /\ OutcomesBacked
  /\ SubmissionsKnown
  /\ AnswerBacked
  /\ ApprovedOnlyAfterRail
  /\ RestartNeverRepeats
  /\ ThreadSubmitsKeyOnce
=============================================================================
