----------------------- MODULE CapabilityGatewayProofs -----------------------
(***************************************************************************)
(* TLAPS proofs about CapabilityGateway, for every set of payments, keys,  *)
(* threads and requests, every rail and any number of restarts.            *)
(***************************************************************************)
EXTENDS CapabilityGateway, DictTheorems

USE DEF Outcomes, NoOutcome, Verdicts, Fresh, Remembered, SameFingerprint,
        ValidatedRecord

\* A request has the fields of ReleaseRequest.
LEMMA RequestFields ==
  ASSUME NEW r \in Requests
  PROVE  /\ r.payment \in Payments
         /\ r.key \in Keys
  BY RequestsAssumption DEF ReleaseRequest

\* The rail answers with one of its outcomes, and each gives a payment status.
LEMMA RailFacts ==
  /\ \A r \in Requests : RailOutcome[<<r.payment, r.key>>] \in Outcomes
  /\ \A o \in Outcomes : StatusOf(o) \in PaymentStatus
  <1>1. ASSUME NEW r \in Requests
        PROVE  RailOutcome[<<r.payment, r.key>>] \in Outcomes
    BY RequestFields, RailAssumption
  <1>2. ASSUME NEW o \in Outcomes
        PROVE  StatusOf(o) \in PaymentStatus
    BY RailAssumption DEF StatusOf, PaymentStatus
  <1>3. QED
    BY <1>1, <1>2

\* What a step of ReleaseBegin, ReleaseLookup or ReleaseRemember that answers
\* does to the handlers and to the answers.
LEMMA ReplyTypeOK ==
  ASSUME TypeOK, NEW t \in Threads, NEW r \in Requests,
         NEW result \in {"not_found", "dry_run_unsupported",
                         "duplicate_request", "replayed", "released"},
         NEW outcome \in Outcomes \cup {NoOutcome},
         Reply(t, r, result, outcome)
  PROVE  /\ IsDict(releasing', Threads, ReleaseHandler)
         /\ answered' \subseteq Answer
  BY DropDict DEF TypeOK, Reply, Answer

\* Every variable keeps its type.
LEMMA TypeCorrect == TypeOK /\ [Next]_vars => TypeOK'
  <1> SUFFICES ASSUME TypeOK, [Next]_vars
               PROVE  TypeOK'
    OBVIOUS
  <1>1. ASSUME NEW p \in Payments, NEW rail \in Rails, CreateInstruction(p, rail)
        PROVE  TypeOK'
    <2> DEFINE rec == [status |-> "received", beneficiary |-> "unknown",
                       approval |-> "pending"]
    <2>1. rec \in GatewayRecord
      BY DEF GatewayRecord, PaymentStatus
    <2>2. IsDict(records', Payments, GatewayRecord)
      BY <1>1, <2>1, PutDict DEF TypeOK, CreateInstruction
    <2>3. QED
      BY <1>1, <2>2 DEF TypeOK, CreateInstruction
  <1>2. ASSUME NEW t \in Threads, NEW p \in Payments, NEW task \in Payments,
               ValidateRead(t, p, task)
        PROVE  TypeOK'
    <2>1. [payment |-> p, rec |-> records[p]] \in ValidateHandler
      BY <1>2, DictValue DEF TypeOK, ValidateRead, Matches, ValidateHandler
    <2>2. IsDict(validating', Threads, ValidateHandler)
      BY <1>2, <2>1, PutDict DEF TypeOK, ValidateRead
    <2>3. QED
      BY <1>2, <2>2 DEF TypeOK, ValidateRead
  <1>3. ASSUME NEW t \in Threads, ValidateStore(t)
        PROVE  TypeOK'
    <2> DEFINE h == validating[t]
    <2>1. h \in ValidateHandler
      BY <1>3, DictValue DEF TypeOK, ValidateStore
    <2>2. h.payment \in Payments /\ h.rec \in GatewayRecord
      BY <2>1 DEF ValidateHandler
    <2>3. PICK verdict \in RailVerdict[h.payment] :
            records' = Put(records, h.payment, ValidatedRecord(h.rec, verdict))
      BY <1>3 DEF ValidateStore
    <2>4. verdict \in Verdicts
      BY <2>2, RailAssumption
    <2>5. ValidatedRecord(h.rec, verdict) \in GatewayRecord
      BY <2>2, <2>4 DEF GatewayRecord, PaymentStatus
    <2>6. IsDict(records', Payments, GatewayRecord)
      BY <2>2, <2>3, <2>5, PutDict DEF TypeOK
    <2>7. IsDict(validating', Threads, ValidateHandler)
      BY <1>3, DropDict DEF TypeOK, ValidateStore
    <2>8. QED
      BY <1>3, <2>6, <2>7 DEF TypeOK, ValidateStore
  <1>4. ASSUME NEW t \in Threads, NEW r \in Requests, ReleaseBegin(t, r)
        PROVE  TypeOK'
    <2>1. CASE ReleaseRefuse(t, r, "not_found")
      BY <2>1, ReplyTypeOK DEF TypeOK, ReleaseRefuse
    <2>2. CASE ReleaseRefuse(t, r, "dry_run_unsupported")
      BY <2>2, ReplyTypeOK DEF TypeOK, ReleaseRefuse
    <2>3. CASE /\ Matches(r.payment, r.task)
               /\ releasing' = Put(releasing, t,
                                   [pc |-> "lookup", req |-> r,
                                    rec |-> records[r.payment],
                                    outcome |-> NoOutcome])
               /\ answered' = {}
               /\ UNCHANGED <<records, keys, created, validating, railLog, epoch>>
      <3>1. records[r.payment] \in GatewayRecord
        BY <2>3, DictValue DEF TypeOK, Matches
      <3>2. [pc |-> "lookup", req |-> r, rec |-> records[r.payment],
             outcome |-> NoOutcome] \in ReleaseHandler
        BY <3>1 DEF ReleaseHandler
      <3>3. IsDict(releasing', Threads, ReleaseHandler)
        BY <2>3, <3>2, PutDict DEF TypeOK
      <3>4. QED
        BY <2>3, <3>3 DEF TypeOK
    <2>4. QED
      BY <1>4, <2>1, <2>2, <2>3 DEF ReleaseBegin
  <1>5. ASSUME NEW t \in Threads,
               \/ ReleaseLookup(t) \/ ReleaseSubmit(t)
               \/ ReleaseStore(t) \/ ReleaseRemember(t)
        PROVE  TypeOK'
    <2> DEFINE h == releasing[t]
    <2>1. t \in DOMAIN releasing /\ h \in ReleaseHandler
      BY <1>5, DictValue
      DEF TypeOK, At, ReleaseLookup, ReleaseSubmit, ReleaseStore, ReleaseRemember
    <2>2. /\ h.req \in Requests /\ h.rec \in GatewayRecord
          /\ h.outcome \in Outcomes \cup {NoOutcome}
          /\ h.req.key \in Keys /\ h.req.payment \in Payments
      BY <2>1, RequestFields DEF ReleaseHandler
    <2>3. CASE ReleaseLookup(t)
      <3>1. CASE Goto(t, "submit") /\ answered' = {}
        <4>1. [h EXCEPT !.pc = "submit"] \in ReleaseHandler
          BY <2>1, <2>3 DEF ReleaseHandler, ReleaseLookup, At
        <4>2. IsDict(releasing', Threads, ReleaseHandler)
          BY <2>1, <3>1, <4>1 DEF TypeOK, IsDict, Goto
        <4>3. QED
          BY <2>3, <3>1, <4>2 DEF TypeOK, ReleaseLookup
      <3>2. CASE Reply(t, h.req, "duplicate_request", NoOutcome)
        BY <2>2, <2>3, <3>2, ReplyTypeOK DEF TypeOK, ReleaseLookup
      <3>3. CASE /\ h.req.key \in DOMAIN keys
                 /\ Reply(t, h.req, "replayed", keys[h.req.key].outcome)
        <4>1. keys[h.req.key] \in IdempotencyRecord
          BY <3>3 DEF TypeOK, IsDict
        <4>2. keys[h.req.key].outcome \in Outcomes
          BY <4>1 DEF IdempotencyRecord
        <4>3. QED
          BY <2>2, <2>3, <3>3, <4>2, ReplyTypeOK DEF TypeOK, ReleaseLookup
      <3>4. QED
        BY <2>3, <3>1, <3>2, <3>3 DEF ReleaseLookup
    <2>4. CASE ReleaseSubmit(t)
      <3> DEFINE o == RailOutcome[<<h.req.payment, h.req.key>>]
                 entry == [req |-> h.req, by |-> t, outcome |-> o,
                           epoch |-> epoch]
      <3>1. o \in Outcomes
        BY <2>2, RailFacts
      <3>2. entry \in Submission
        BY <2>2, <3>1 DEF Submission, TypeOK
      <3>3. railLog' \in Seq(Submission)
        BY <2>4, <3>2 DEF TypeOK, ReleaseSubmit
      <3>4. [h EXCEPT !.pc = "store", !.outcome = o] \in ReleaseHandler
        BY <2>1, <3>1 DEF ReleaseHandler
      <3>5. IsDict(releasing', Threads, ReleaseHandler)
        BY <2>1, <2>4, <3>4 DEF TypeOK, IsDict, ReleaseSubmit
      <3>6. QED
        BY <2>4, <3>3, <3>5 DEF TypeOK, ReleaseSubmit
    <2>5. CASE ReleaseStore(t)
      <3>1. StatusOf(h.outcome) \in PaymentStatus
        BY <2>1, <2>5, RailFacts DEF ReleaseHandler, ReleaseStore, At
      <3>2. [h.rec EXCEPT !.status = StatusOf(h.outcome),
                          !.approval = "approved"] \in GatewayRecord
        BY <2>2, <3>1 DEF GatewayRecord
      <3>3. IsDict(records', Payments, GatewayRecord)
        BY <2>2, <2>5, <3>2, PutDict DEF TypeOK, ReleaseStore
      <3>4. [h EXCEPT !.pc = "remember"] \in ReleaseHandler
        BY <2>1, <2>5 DEF ReleaseHandler, ReleaseStore, At
      <3>5. IsDict(releasing', Threads, ReleaseHandler)
        BY <2>1, <2>5, <3>4 DEF TypeOK, IsDict, ReleaseStore, Goto
      <3>6. QED
        BY <2>5, <3>3, <3>5 DEF TypeOK, ReleaseStore
    <2>6. CASE ReleaseRemember(t)
      <3>1. h.outcome \in Outcomes
        BY <2>1, <2>6 DEF ReleaseHandler, ReleaseRemember, At
      <3>2. [req |-> h.req, outcome |-> h.outcome] \in IdempotencyRecord
        BY <2>2, <3>1 DEF IdempotencyRecord
      <3>3. IsDict(keys', Keys, IdempotencyRecord)
        BY <2>2, <2>6, <3>2, PutDict DEF TypeOK, ReleaseRemember
      <3>4. QED
        BY <2>2, <2>6, <3>3, ReplyTypeOK DEF TypeOK, ReleaseRemember
    <2>7. QED
      BY <1>5, <2>3, <2>4, <2>5, <2>6
  <1>6. CASE Restart
    BY <1>6, EmptyDict DEF TypeOK, Restart
  <1>7. CASE UNCHANGED vars
    BY <1>7 DEF TypeOK, vars
  <1>8. QED
    BY <1>1, <1>2, <1>3, <1>4, <1>5, <1>6, <1>7 DEF Next
-----------------------------------------------------------------------------
\* The log only grows, and only ReleaseSubmit makes it grow.
LEMMA LogStep ==
  ASSUME TypeOK, [Next]_vars
  PROVE  \/ railLog' = railLog
         \/ \E t \in Threads : ReleaseSubmit(t)
  BY DEF Next, vars, CreateInstruction, ValidateRead, ValidateStore,
         ReleaseBegin, ReleaseRefuse, ReleaseLookup, ReleaseStore,
         ReleaseRemember, Restart

\* Entry n is the one that thread t adds to the log.
Appends(n, t) ==
  LET r == releasing[t].req
  IN /\ DOMAIN railLog' = DOMAIN railLog \cup {n}
     /\ n \notin DOMAIN railLog
     /\ \A i \in DOMAIN railLog : railLog'[i] = railLog[i]
     /\ railLog'[n].req = r
     /\ railLog'[n].by = t
     /\ railLog'[n].epoch = epoch
     /\ railLog'[n].outcome = RailOutcome[<<r.payment, r.key>>]

\* A submission adds one entry to the log and keeps the others in place.
LEMMA LogAppend ==
  ASSUME TypeOK, NEW t \in Threads, ReleaseSubmit(t)
  PROVE  \E n : Appends(n, t)
  <1> WITNESS Len(railLog) + 1
  <1> QED
    BY DEF TypeOK, ReleaseSubmit, Appends

\* What the rail was asked in this incarnation stays asked: Submitted and Backed
\* survive every step that is not a restart.
LEMMA EvidenceStays ==
  ASSUME TypeOK, [Next]_vars, epoch' = epoch
  PROVE  /\ \A r, o : Submitted(r, o) => Submitted(r, o)'
         /\ \A p, rec : Backed(p, rec) => Backed(p, rec)'
  <1>1. /\ DOMAIN railLog \subseteq DOMAIN railLog'
        /\ \A i \in DOMAIN railLog : railLog'[i] = railLog[i]
    BY LogStep, LogAppend DEF Appends
  <1>2. QED
    BY <1>1 DEF Submitted, Backed

\* The handlers that Reply leaves are as they were.
LEMMA ReplyHandlers ==
  ASSUME NEW t, NEW r, NEW result, NEW outcome, Reply(t, r, result, outcome)
  PROVE  /\ DOMAIN releasing' = DOMAIN releasing \ {t}
         /\ \A u \in DOMAIN releasing' : releasing'[u] = releasing[u]
  BY  DEF Drop, Reply

\* Records only appear until the next restart.
LEMMA RecordsStay ==
  ASSUME TypeOK, [Next]_vars, epoch' = epoch
  PROVE  DOMAIN records \subseteq DOMAIN records' /\ created \subseteq created'
  <1>1. CASE Restart
    BY <1>1 DEF Restart, TypeOK
  <1>2. CASE ~Restart
    BY <1>2 DEF Put, Next, vars, CreateInstruction, ValidateRead, ValidateStore,
        ReleaseBegin, ReleaseRefuse, ReleaseLookup, ReleaseSubmit,
        ReleaseStore, ReleaseRemember
  <1>3. QED
    BY <1>1, <1>2

\* Handlers keep working on known payments, with copies the rail backs, and so
\* the records they store are backed.
LEMMA HandlersKnownStep ==
  ASSUME GatewayInv, [Next]_vars
  PROVE  HandlersKnown' /\ ApprovedOnlyAfterRail'
  <1> USE DEF GatewayInv
  <1>0. CASE Restart
    BY <1>0, EmptyDict DEF Restart, HandlersKnown, ApprovedOnlyAfterRail
  <1>1. SUFFICES ASSUME epoch' = epoch, ~Restart
                 PROVE  HandlersKnown' /\ ApprovedOnlyAfterRail'
    BY <1>0 DEF Next, vars, CreateInstruction, ValidateRead, ValidateStore,
                ReleaseBegin, ReleaseRefuse, ReleaseLookup, ReleaseSubmit,
                ReleaseStore, ReleaseRemember
  <1>2. /\ \A p, rec : Backed(p, rec) => Backed(p, rec)'
        /\ DOMAIN records \subseteq DOMAIN records'
        /\ created \subseteq created'
    BY <1>1, EvidenceStays, RecordsStay
  <1>3. ASSUME NEW p \in Payments, NEW rail \in Rails, CreateInstruction(p, rail)
        PROVE  HandlersKnown' /\ ApprovedOnlyAfterRail'
    <2>1. /\ DOMAIN records' = DOMAIN records \cup {p}
          /\ \A q \in DOMAIN records : q # p => records'[q] = records[q]
          /\ records'[p].approval = "pending"
          /\ UNCHANGED <<releasing, validating>>
          /\ created' = created \cup {p}
      BY <1>3 DEF Put, CreateInstruction
    <2>2. \A q, rec : rec.approval = "pending" => Backed(q, rec)'
      BY DEF Backed
    <2>3. QED
      BY <1>2, <2>1, <2>2 DEF HandlersKnown, ApprovedOnlyAfterRail
  <1>4. ASSUME NEW t \in Threads, NEW p \in Payments, NEW task \in Payments,
               ValidateRead(t, p, task)
        PROVE  HandlersKnown' /\ ApprovedOnlyAfterRail'
    <2>1. /\ DOMAIN validating' = DOMAIN validating \cup {t}
          /\ validating'[t] = [payment |-> p, rec |-> records[p]]
          /\ \A u \in DOMAIN validating : u # t => validating'[u] = validating[u]
          /\ p \in DOMAIN records
          /\ UNCHANGED <<records, created, releasing>>
      BY <1>4 DEF Put, ValidateRead, Matches
    <2>2. QED
      BY <1>2, <2>1 DEF HandlersKnown, ApprovedOnlyAfterRail
  <1>5. ASSUME NEW t \in Threads, ValidateStore(t)
        PROVE  HandlersKnown' /\ ApprovedOnlyAfterRail'
    <2> DEFINE h == validating[t]
               rec == records'[h.payment]
    <2>1. /\ DOMAIN records' = DOMAIN records \cup {h.payment}
          /\ \A q \in DOMAIN records : q # h.payment => records'[q] = records[q]
          /\ DOMAIN validating' \subseteq DOMAIN validating
          /\ \A u \in DOMAIN validating' : validating'[u] = validating[u]
          /\ UNCHANGED <<created, releasing>>
      BY <1>5 DEF Put, Drop, ValidateStore
    <2>2. /\ t \in DOMAIN validating /\ h.rec \in GatewayRecord
          /\ h.payment \in DOMAIN records /\ Backed(h.payment, h.rec)
      BY <1>5 DEF ValidateStore, HandlersKnown, TypeOK, IsDict, ValidateHandler
    <2>3. /\ rec.approval = h.rec.approval
          /\ rec.status \in {"validated", "exception"}
      BY <1>5, <2>2 DEF Put, ValidateStore, GatewayRecord
    <2>4. \A q, new : q = h.payment /\ new = rec => Backed(q, new)'
      <3>1. Backed(h.payment, h.rec) => \A q, new :
              /\ q = h.payment /\ new.approval = h.rec.approval
              /\ new.status \in {"validated", "exception"}
              => Backed(q, new)
        BY DEF Backed
      <3>2. QED
        BY <1>2, <2>2, <2>3, <3>1
    <2>5. QED
      BY <1>2, <2>1, <2>2, <2>4 DEF HandlersKnown, ApprovedOnlyAfterRail
  <1>6. ASSUME NEW t \in Threads, NEW r \in Requests, ReleaseBegin(t, r)
        PROVE  HandlersKnown' /\ ApprovedOnlyAfterRail'
    <2>1. UNCHANGED <<records, created, validating>>
      BY <1>6 DEF ReleaseBegin, ReleaseRefuse
    <2>2. \A u \in DOMAIN releasing' :
            \/ u \in DOMAIN releasing /\ releasing'[u] = releasing[u]
            \/ /\ r.payment \in DOMAIN records
               /\ releasing'[u].req = r
               /\ releasing'[u].rec = records[r.payment]
      <3>1. CASE \/ ReleaseRefuse(t, r, "not_found")
                 \/ ReleaseRefuse(t, r, "dry_run_unsupported")
        BY <3>1, ReplyHandlers DEF ReleaseRefuse
      <3>2. CASE ~ \/ ReleaseRefuse(t, r, "not_found")
                   \/ ReleaseRefuse(t, r, "dry_run_unsupported")
        BY <1>6, <3>2 DEF ReleaseBegin, Put, Matches
      <3>3. QED
        BY <3>1, <3>2
    <2>3. QED
      BY <1>2, <2>1, <2>2 DEF HandlersKnown, ApprovedOnlyAfterRail
  <1>7. ASSUME NEW t \in Threads,
               ReleaseLookup(t) \/ ReleaseSubmit(t) \/ ReleaseRemember(t)
        PROVE  HandlersKnown' /\ ApprovedOnlyAfterRail'
    <2>1. UNCHANGED <<records, created, validating>>
      BY <1>7 DEF ReleaseLookup, ReleaseSubmit, ReleaseRemember
    <2>2. \A u \in DOMAIN releasing' :
            /\ u \in DOMAIN releasing
            /\ releasing'[u].req = releasing[u].req
            /\ releasing'[u].rec = releasing[u].rec
      <3>1. CASE ReleaseLookup(t)
        <4>1. CASE Goto(t, "submit")
          BY <3>1, <4>1 DEF Goto, ReleaseLookup, At, TypeOK, IsDict, ReleaseHandler
        <4>2. CASE ~Goto(t, "submit")
          BY <3>1, <4>2, ReplyHandlers DEF ReleaseLookup
        <4>3. QED
          BY <4>1, <4>2
      <3>2. CASE ReleaseSubmit(t)
        BY <3>2 DEF ReleaseSubmit, At, TypeOK, IsDict, ReleaseHandler
      <3>3. CASE ReleaseRemember(t)
        BY <3>3, ReplyHandlers DEF ReleaseRemember
      <3>4. QED
        BY <1>7, <3>1, <3>2, <3>3
    <2>3. QED
      BY <1>2, <2>1, <2>2 DEF HandlersKnown, ApprovedOnlyAfterRail
  <1>8. ASSUME NEW t \in Threads, ReleaseStore(t)
        PROVE  HandlersKnown' /\ ApprovedOnlyAfterRail'
    <2> DEFINE h == releasing[t]
               p == h.req.payment
               rec == records'[p]
    <2>1. /\ t \in DOMAIN releasing /\ h \in ReleaseHandler
          /\ h.pc = "store" /\ p \in DOMAIN records
      BY <1>8, DictValue DEF ReleaseStore, At, HandlersKnown, TypeOK
    <2>2. PICK i \in DOMAIN railLog :
            /\ railLog[i].req = h.req
            /\ railLog[i].outcome = h.outcome
            /\ railLog[i].epoch = epoch
      BY <2>1 DEF OutcomesBacked, PastRail, Submitted
    <2>3. rec.status = StatusOf(h.outcome)
      BY <1>8, <2>1 DEF Put, ReleaseStore, ReleaseHandler, GatewayRecord
    <2>4. \A q, new : q = p /\ new = rec => Backed(q, new)'
      <3>1. \A q, new : q = p /\ new.status = StatusOf(h.outcome) => Backed(q, new)
        BY <2>2 DEF Backed
      <3>2. QED
        BY <1>2, <2>3, <3>1
    <2>5. /\ DOMAIN records' = DOMAIN records \cup {p}
          /\ \A q \in DOMAIN records : q # p => records'[q] = records[q]
          /\ UNCHANGED <<created, validating>>
      BY <1>8 DEF Put, ReleaseStore
    <2>6. \A u \in DOMAIN releasing' :
            /\ u \in DOMAIN releasing
            /\ releasing'[u].req = releasing[u].req
            /\ releasing'[u].rec = releasing[u].rec
      BY <1>8 DEF ReleaseStore, Goto, At, TypeOK, IsDict, ReleaseHandler
    <2>7. QED
      BY <1>2, <2>1, <2>4, <2>5, <2>6 DEF HandlersKnown, ApprovedOnlyAfterRail
  <1>9. CASE UNCHANGED vars
    BY <1>2, <1>9 DEF vars, HandlersKnown, ApprovedOnlyAfterRail
  <1>10. QED
    BY <1>1, <1>3, <1>4, <1>5, <1>6, <1>7, <1>8, <1>9 DEF Next

\* A payment submitted before a restart is never known again, so it is never
\* submitted again.
LEMMA OldPaymentsClosedStep ==
  ASSUME GatewayInv, [Next]_vars
  PROVE  OldPaymentsClosed' /\ RestartNeverRepeats'
  <1>1. TypeOK /\ HandlersKnown /\ OldPaymentsClosed /\ RestartNeverRepeats
    BY DEF GatewayInv
  <1>2. ASSUME NEW t \in Threads, ReleaseSubmit(t)
        PROVE  OldPaymentsClosed' /\ RestartNeverRepeats'
    <2>1. /\ releasing[t].req.payment \in DOMAIN records
          /\ DOMAIN records \subseteq created
      BY <1>1, <1>2 DEF ReleaseSubmit, At, HandlersKnown
    <2>2. UNCHANGED <<records, created, epoch>>
      BY <1>2 DEF ReleaseSubmit
    <2> DEFINE p == releasing[t].req.payment
    <2>3. PICK n : Appends(n, t)
      BY <1>1, <1>2, LogAppend
    <2>4. OldPaymentsClosed'
      BY <1>1, <2>1, <2>2, <2>3 DEF Appends, OldPaymentsClosed, TypeOK
    <2>5. \A i \in DOMAIN railLog : railLog[i].req.payment = p =>
                                     railLog[i].epoch = epoch
      BY <1>1, <2>1 DEF OldPaymentsClosed
    <2>6. RestartNeverRepeats'
      BY <1>1, <2>3, <2>5 DEF Appends, RestartNeverRepeats
    <2>7. QED
      BY <2>4, <2>6
  <1>3. CASE Restart
    <2>1. DOMAIN records' = {} /\ UNCHANGED <<created, railLog>>
      BY <1>3 DEF Restart, Empty
    <2>2. epoch' \in Nat /\ epoch <= epoch'
      BY <1>1, <1>3 DEF Restart, TypeOK
    <2>3. \A i \in DOMAIN railLog : railLog[i].epoch \in Nat
      <3>1. \A i \in DOMAIN railLog : railLog[i] \in Submission
        BY <1>1 DEF TypeOK
      <3>2. QED
        BY <3>1 DEF Submission
    <2>4. QED
      BY <1>1, <2>1, <2>2, <2>3 DEF OldPaymentsClosed, RestartNeverRepeats, TypeOK
  <1>4. ASSUME NEW p \in Payments, NEW rail \in Rails, CreateInstruction(p, rail)
        PROVE  OldPaymentsClosed' /\ RestartNeverRepeats'
    <2>1. /\ DOMAIN records' = DOMAIN records \cup {p}
          /\ p \notin created
          /\ created \subseteq created'
          /\ UNCHANGED <<railLog, epoch>>
      BY <1>4 DEF CreateInstruction, Put
    <2>2. QED
      BY <1>1, <2>1 DEF OldPaymentsClosed, RestartNeverRepeats
  <1>5. CASE /\ DOMAIN records' = DOMAIN records
             /\ UNCHANGED <<created, railLog, epoch>>
    BY <1>1, <1>5 DEF OldPaymentsClosed, RestartNeverRepeats
  <1>6. ASSUME NEW t \in Threads, ValidateStore(t) \/ ReleaseStore(t)
        PROVE  /\ DOMAIN records' = DOMAIN records
               /\ UNCHANGED <<created, railLog, epoch>>
    BY <1>1, <1>6 DEF ValidateStore, ReleaseStore, At, Put, HandlersKnown
  <1>7. QED
    BY <1>2, <1>3, <1>4, <1>5, <1>6
    DEF Next, vars, ValidateRead, ReleaseBegin, ReleaseRefuse, ReleaseLookup,
        ReleaseRemember

\* Every outcome that is held, and so every outcome that is answered, is that of
\* a submission of the same request.
LEMMA OutcomesBackedStep ==
  ASSUME GatewayInv, [Next]_vars
  PROVE  OutcomesBacked' /\ AnswerBacked'
  <1>1. TypeOK /\ OutcomesBacked /\ AnswerBacked
    BY DEF GatewayInv
  <1>2. CASE Restart
    BY <1>2 DEF Restart, Empty, OutcomesBacked, AnswerBacked, PastRail
  <1>3. ASSUME epoch' = epoch
        PROVE  \A r, o : Submitted(r, o) => Submitted(r, o)'
    BY <1>1, <1>3, EvidenceStays
  <1>4. CASE /\ UNCHANGED <<keys, releasing, epoch>>
             /\ answered' = {} \/ answered' = answered
    BY <1>1, <1>3, <1>4 DEF OutcomesBacked, AnswerBacked, PastRail
  <1>5. ASSUME NEW t \in Threads, NEW r \in Requests, ReleaseBegin(t, r)
        PROVE  OutcomesBacked' /\ AnswerBacked'
    <2>1. UNCHANGED <<keys, epoch>>
      BY <1>5 DEF ReleaseBegin, ReleaseRefuse
    <2>2. /\ \A a \in answered' : a.result \notin {"released", "replayed"}
          /\ \A u \in DOMAIN releasing' :
               \/ u \in DOMAIN releasing /\ releasing'[u] = releasing[u]
               \/ releasing'[u].pc = "lookup"
      <3>1. CASE \/ ReleaseRefuse(t, r, "not_found")
                 \/ ReleaseRefuse(t, r, "dry_run_unsupported")
        <4>1. \A u \in DOMAIN releasing' :
                u \in DOMAIN releasing /\ releasing'[u] = releasing[u]
          BY <3>1, ReplyHandlers DEF ReleaseRefuse
        <4>2. \A a \in answered' : a.result \in {"not_found", "dry_run_unsupported"}
          BY <3>1 DEF ReleaseRefuse, Reply
        <4>3. QED
          BY <4>1, <4>2
      <3>2. CASE ~ \/ ReleaseRefuse(t, r, "not_found")
                   \/ ReleaseRefuse(t, r, "dry_run_unsupported")
        BY <1>5, <3>2 DEF ReleaseBegin, Put
      <3>3. QED
        BY <3>1, <3>2
    <2>3. QED
      BY <1>1, <1>3, <2>1, <2>2 DEF OutcomesBacked, AnswerBacked, PastRail
  <1>6. ASSUME NEW t \in Threads, ReleaseLookup(t)
        PROVE  OutcomesBacked' /\ AnswerBacked'
    <2>1. UNCHANGED <<keys, epoch>>
      BY <1>6 DEF ReleaseLookup
    <2>2. \A u \in DOMAIN releasing' :
            /\ u \in DOMAIN releasing
            /\ releasing'[u] = releasing[u] \/ releasing'[u].pc = "submit"
      <3>1. CASE Goto(t, "submit")
        BY <1>1, <1>6, <3>1
        DEF Goto, ReleaseLookup, At, TypeOK, IsDict, ReleaseHandler
      <3>2. CASE ~Goto(t, "submit")
        BY <1>6, <3>2, ReplyHandlers DEF ReleaseLookup
      <3>3. QED
        BY <3>1, <3>2
    <2>3. \A a \in answered' :
            a.result \in {"released", "replayed"} =>
              \E k \in DOMAIN keys : /\ a.req = keys[k].req
                                    /\ a.outcome = keys[k].outcome
      BY <1>6 DEF ReleaseLookup, Reply
    <2>4. QED
      BY <1>1, <1>3, <2>1, <2>2, <2>3 DEF OutcomesBacked, AnswerBacked, PastRail
  <1>7. ASSUME NEW t \in Threads, ReleaseSubmit(t)
        PROVE  OutcomesBacked' /\ AnswerBacked'
    <2> DEFINE h == releasing[t]
               o == RailOutcome[<<h.req.payment, h.req.key>>]
    <2>1. /\ UNCHANGED <<keys, epoch>>
          /\ answered' = {}
      BY <1>7 DEF ReleaseSubmit
    <2>2. /\ DOMAIN releasing' = DOMAIN releasing
          /\ t \in DOMAIN releasing
          /\ \A u \in DOMAIN releasing : u # t => releasing'[u] = releasing[u]
          /\ releasing'[t].req = h.req
          /\ releasing'[t].outcome = o
      BY <1>1, <1>7 DEF ReleaseSubmit, At, TypeOK, IsDict, ReleaseHandler
    <2>3. \A q, x : q = h.req /\ x = o => Submitted(q, x)'
      <3>1. PICK n : Appends(n, t)
        BY <1>1, <1>7, LogAppend
      <3>2. QED
        BY <2>1, <3>1 DEF Appends, Submitted
    <2>4. QED
      BY <1>1, <1>3, <2>1, <2>2, <2>3 DEF OutcomesBacked, AnswerBacked, PastRail
  <1>8. ASSUME NEW t \in Threads, ReleaseStore(t)
        PROVE  OutcomesBacked' /\ AnswerBacked'
    <2>1. UNCHANGED <<keys, epoch>> /\ answered' = {}
      BY <1>8 DEF ReleaseStore
    <2>2. /\ DOMAIN releasing' = DOMAIN releasing
          /\ \A u \in DOMAIN releasing :
               /\ releasing'[u].req = releasing[u].req
               /\ releasing'[u].outcome = releasing[u].outcome
               /\ PastRail(u)' => PastRail(u)
      BY <1>1, <1>8
      DEF ReleaseStore, Goto, At, TypeOK, IsDict, ReleaseHandler, PastRail
    <2>3. QED
      BY <1>1, <1>3, <2>1, <2>2 DEF OutcomesBacked, AnswerBacked, PastRail
  <1>9. ASSUME NEW t \in Threads, ReleaseRemember(t)
        PROVE  OutcomesBacked' /\ AnswerBacked'
    <2> DEFINE h == releasing[t]
    <2>1. /\ Submitted(h.req, h.outcome)
          /\ epoch' = epoch
      BY <1>1, <1>9 DEF ReleaseRemember, At, OutcomesBacked, PastRail
    <2>2. /\ DOMAIN keys' = DOMAIN keys \cup {h.req.key}
          /\ \A k \in DOMAIN keys : k # h.req.key => keys'[k] = keys[k]
          /\ keys'[h.req.key] = [req |-> h.req, outcome |-> h.outcome]
          /\ answered' = {[req |-> h.req, result |-> "released",
                           outcome |-> h.outcome]}
      BY <1>9 DEF ReleaseRemember, Reply, Put
    <2>3. \A u \in DOMAIN releasing' :
            u \in DOMAIN releasing /\ releasing'[u] = releasing[u]
      BY <1>9, ReplyHandlers DEF ReleaseRemember
    <2>4. QED
      BY <1>1, <1>3, <2>1, <2>2, <2>3 DEF OutcomesBacked, AnswerBacked, PastRail
  <1>10. QED
    BY <1>2, <1>4, <1>5, <1>6, <1>7, <1>8, <1>9
    DEF Next, vars, CreateInstruction, ValidateRead, ValidateStore

\* A key that was submitted is remembered, or the thread that submitted it is
\* about to remember it: that thread cannot be about to submit it again.
LEMMA SubmissionsKnownStep ==
  ASSUME GatewayInv, [Next]_vars
  PROVE  SubmissionsKnown' /\ ThreadSubmitsKeyOnce'
  <1>1. TypeOK /\ SubmissionsKnown /\ ThreadSubmitsKeyOnce
    BY DEF GatewayInv
  <1>2. CASE Restart
    <2>1. \A i \in DOMAIN railLog : railLog[i].epoch # epoch + 1
      BY <1>1 DEF GatewayInv, OldPaymentsClosed, TypeOK
    <2>2. QED
      BY <1>1, <1>2, <2>1 DEF Restart, SubmissionsKnown, ThreadSubmitsKeyOnce
  <1>3. CASE /\ UNCHANGED <<keys, railLog, epoch>>
             /\ \A u \in DOMAIN releasing : PastRail(u) =>
                  u \in DOMAIN releasing' /\ PastRail(u)'
                  /\ releasing'[u].req = releasing[u].req
             /\ \A u \in DOMAIN releasing' : releasing'[u].pc = "submit" =>
                  u \in DOMAIN releasing /\ releasing'[u] = releasing[u]
    BY <1>1, <1>3 DEF SubmissionsKnown, ThreadSubmitsKeyOnce, PastRail
  <1>4. ASSUME NEW t \in Threads, NEW r \in Requests, ReleaseBegin(t, r)
        PROVE  SubmissionsKnown' /\ ThreadSubmitsKeyOnce'
    <2>1. CASE \/ ReleaseRefuse(t, r, "not_found")
               \/ ReleaseRefuse(t, r, "dry_run_unsupported")
      <3>1. \A u \in DOMAIN releasing' :
              u \in DOMAIN releasing /\ releasing'[u] = releasing[u]
        BY <2>1, ReplyHandlers DEF ReleaseRefuse
      <3>2. DOMAIN releasing' = DOMAIN releasing
        BY <1>4, <2>1, ReplyHandlers DEF ReleaseBegin, Idle, ReleaseRefuse
      <3>3. QED
        BY <1>3, <2>1, <3>1, <3>2 DEF ReleaseRefuse, PastRail
    <2>2. CASE ~ \/ ReleaseRefuse(t, r, "not_found")
                 \/ ReleaseRefuse(t, r, "dry_run_unsupported")
      BY <1>3, <1>4, <2>2 DEF ReleaseBegin, Put, Idle, PastRail
    <2>3. QED
      BY <2>1, <2>2
  <1>5. ASSUME NEW t \in Threads, ReleaseLookup(t)
        PROVE  SubmissionsKnown' /\ ThreadSubmitsKeyOnce'
    <2> DEFINE k == releasing[t].req.key
    <2>1. UNCHANGED <<keys, railLog, epoch>> /\ ~PastRail(t)
      BY <1>5 DEF ReleaseLookup, At, PastRail
    <2>2. CASE k \notin DOMAIN keys /\ Goto(t, "submit")
      <3>1. /\ DOMAIN releasing' = DOMAIN releasing
            /\ \A u \in DOMAIN releasing : u # t => releasing'[u] = releasing[u]
            /\ releasing'[t].pc = "submit"
            /\ releasing'[t].req = releasing[t].req
        BY <1>1, <1>5, <2>2
        DEF ReleaseLookup, Goto, At, TypeOK, IsDict, ReleaseHandler
      <3>2. \A i \in DOMAIN railLog :
              railLog[i].epoch = epoch /\ railLog[i].req.key = k => railLog[i].by # t
        BY <1>1, <2>1, <2>2 DEF SubmissionsKnown
      <3>3. QED
        BY <1>1, <2>1, <3>1, <3>2 DEF SubmissionsKnown, ThreadSubmitsKeyOnce, PastRail
    <2>3. CASE ~(k \notin DOMAIN keys /\ Goto(t, "submit"))
      <3>1. /\ DOMAIN releasing' = DOMAIN releasing \ {t}
            /\ \A u \in DOMAIN releasing' : releasing'[u] = releasing[u]
        BY <1>5, <2>3, ReplyHandlers DEF ReleaseLookup
      <3>2. QED
        BY <1>3, <2>1, <3>1 DEF PastRail
    <2>4. QED
      BY <2>2, <2>3
  <1>6. ASSUME NEW t \in Threads, ReleaseSubmit(t)
        PROVE  SubmissionsKnown' /\ ThreadSubmitsKeyOnce'
    <2> DEFINE r == releasing[t].req
    <2>1. PICK n : Appends(n, t)
      BY <1>1, <1>6, LogAppend
    <2>2. UNCHANGED <<keys, epoch>>
      BY <1>6 DEF ReleaseSubmit
    <2>3. /\ t \in DOMAIN releasing
          /\ releasing[t].pc = "submit"
          /\ DOMAIN releasing' = DOMAIN releasing
          /\ \A u \in DOMAIN releasing : u # t => releasing'[u] = releasing[u]
          /\ releasing'[t].pc = "store"
          /\ releasing'[t].req = r
      BY <1>1, <1>6 DEF ReleaseSubmit, At, TypeOK, IsDict, ReleaseHandler
    <2>4. \A i \in DOMAIN railLog :
            railLog[i].epoch = epoch /\ railLog[i].req.key = r.key => railLog[i].by # t
      BY <1>1, <2>3 DEF SubmissionsKnown
    <2>5. SubmissionsKnown'
      BY <1>1, <2>1, <2>2, <2>3 DEF Appends, SubmissionsKnown, PastRail
    <2>6. ThreadSubmitsKeyOnce'
      BY <1>1, <2>1, <2>4 DEF Appends, ThreadSubmitsKeyOnce
    <2>7. QED
      BY <2>5, <2>6
  <1>7. ASSUME NEW t \in Threads, ReleaseStore(t)
        PROVE  SubmissionsKnown' /\ ThreadSubmitsKeyOnce'
    <2>1. /\ UNCHANGED <<keys, railLog, epoch>>
          /\ DOMAIN releasing' = DOMAIN releasing
          /\ \A u \in DOMAIN releasing : u # t => releasing'[u] = releasing[u]
          /\ releasing'[t].pc = "remember"
          /\ releasing'[t].req = releasing[t].req
      BY <1>1, <1>7 DEF ReleaseStore, Goto, At, TypeOK, IsDict, ReleaseHandler
    <2>2. QED
      BY <1>3, <2>1 DEF PastRail
  <1>8. ASSUME NEW t \in Threads, ReleaseRemember(t)
        PROVE  SubmissionsKnown' /\ ThreadSubmitsKeyOnce'
    <2>1. /\ UNCHANGED <<railLog, epoch>>
          /\ DOMAIN keys' = DOMAIN keys \cup {releasing[t].req.key}
      BY <1>8 DEF ReleaseRemember, Put
    <2>2. /\ DOMAIN releasing' = DOMAIN releasing \ {t}
          /\ \A u \in DOMAIN releasing' : releasing'[u] = releasing[u]
      BY <1>8, ReplyHandlers DEF ReleaseRemember
    <2>3. QED
      BY <1>1, <2>1, <2>2 DEF SubmissionsKnown, ThreadSubmitsKeyOnce, PastRail
  <1>9. CASE UNCHANGED <<keys, railLog, epoch, releasing>>
    BY <1>3, <1>9 DEF PastRail
  <1>10. QED
    BY <1>2, <1>4, <1>5, <1>6, <1>7, <1>8, <1>9
    DEF Next, vars, CreateInstruction, ValidateRead, ValidateStore
-----------------------------------------------------------------------------
\* The inductive invariant holds throughout.
THEOREM GatewayInvariance == Spec => []GatewayInv
  <1>1. Init => GatewayInv
    BY EmptyDict
    DEF Init, GatewayInv, TypeOK, HandlersKnown, OldPaymentsClosed,
        OutcomesBacked, SubmissionsKnown, AnswerBacked, ApprovedOnlyAfterRail,
        RestartNeverRepeats, ThreadSubmitsKeyOnce, BoundAssumption
  <1>2. GatewayInv /\ [Next]_vars => GatewayInv'
    <2> SUFFICES ASSUME GatewayInv, [Next]_vars
                 PROVE  GatewayInv'
      OBVIOUS
    <2>1. TypeOK'
      BY TypeCorrect DEF GatewayInv
    <2>2. QED
      BY <2>1, HandlersKnownStep, OldPaymentsClosedStep, OutcomesBackedStep,
         SubmissionsKnownStep
      DEF GatewayInv
  <1>3. QED
    BY <1>1, <1>2, PTL DEF Spec

\* Records, keys and the positions of threads keep their types.
THEOREM GatewayTypes == Spec => []TypeOK
  BY GatewayInvariance, PTL DEF GatewayInv

\* Whatever the interleaving of release requests, validations and restarts, an
\* answer carries the outcome of a submission of the very request it answers.
THEOREM AnswersAreBacked == Spec => []AnswerBacked
  BY GatewayInvariance, PTL DEF GatewayInv

\* No gateway record claims an approval or a release the rail has not seen.
THEOREM RecordsAreBacked == Spec => []ApprovedOnlyAfterRail
  BY GatewayInvariance, PTL DEF GatewayInv

\* Losing the idempotency records in a restart cannot repeat a release.
THEOREM RestartSafety == Spec => []RestartNeverRepeats
  BY GatewayInvariance, PTL DEF GatewayInv

\* No thread submits a key twice between restarts.
THEOREM ThreadIdempotence == Spec => []ThreadSubmitsKeyOnce
  BY GatewayInvariance, PTL DEF GatewayInv
-----------------------------------------------------------------------------
(***************************************************************************)
(* What holds as long as requests with the same key do not meet between    *)
(* the check of the key and its record: the rail is asked once per key,    *)
(* and every step is a step of IdempotentRelease or changes nothing it     *)
(* sees, for any number of threads.                                        *)
(***************************************************************************)
\* A request past the idempotency check uses a key that is not remembered.
StillUnbound ==
  \A t \in DOMAIN releasing :
    releasing[t].pc # "lookup" => releasing[t].req.key \notin DOMAIN keys

\* What the idempotency check does to the handler that makes it.
LEMMA LookupEffect ==
  ASSUME GatewayInv, NEW t \in Threads, ReleaseLookup(t)
  PROVE  /\ t \in DOMAIN releasing /\ ~PastRail(t)
         /\ \A u \in DOMAIN releasing' \ {t} :
              u \in DOMAIN releasing /\ releasing'[u] = releasing[u]
         /\ DOMAIN releasing \subseteq DOMAIN releasing' \cup {t}
         /\ t \in DOMAIN releasing' =>
              /\ releasing'[t].pc = "submit" /\ releasing'[t].req = releasing[t].req
              /\ releasing[t].req.key \notin DOMAIN keys
  <1> DEFINE k == releasing[t].req.key
  <1>1. t \in DOMAIN releasing /\ releasing[t].pc = "lookup"
    BY DEF ReleaseLookup, At
  <1>2. releasing[t] \in ReleaseHandler
    BY <1>1 DEF GatewayInv, TypeOK, IsDict
  <1>3. CASE k \notin DOMAIN keys /\ Goto(t, "submit")
    BY <1>1, <1>2, <1>3 DEF Goto, PastRail, ReleaseHandler
  <1>4. CASE \E result, outcome : Reply(t, releasing[t].req, result, outcome)
    BY <1>1, <1>4, ReplyHandlers DEF PastRail
  <1>5. QED
    BY <1>3, <1>4 DEF ReleaseLookup

\* What the first step of a release does to its handler.
LEMMA BeginEffect ==
  ASSUME NEW t \in Threads, NEW r \in Requests, ReleaseBegin(t, r)
  PROVE  /\ t \notin DOMAIN releasing
         /\ \A u \in DOMAIN releasing' \ {t} :
              u \in DOMAIN releasing /\ releasing'[u] = releasing[u]
         /\ DOMAIN releasing \subseteq DOMAIN releasing'
         /\ t \in DOMAIN releasing' => releasing'[t].pc = "lookup"
  <1>1. t \notin DOMAIN releasing
    BY DEF ReleaseBegin, Idle
  <1>2. CASE \E result : ReleaseRefuse(t, r, result)
    BY <1>1, <1>2, ReplyHandlers DEF ReleaseRefuse
  <1>3. CASE releasing' = Put(releasing, t, [pc |-> "lookup", req |-> r,
                                             rec |-> records[r.payment],
                                             outcome |-> NoOutcome])
    BY <1>1, <1>3 DEF Put
  <1>4. QED
    BY <1>2, <1>3 DEF ReleaseBegin

\* What a step that goes on with a release does to its handler.
LEMMA GoesOn ==
  ASSUME GatewayInv, NEW t \in Threads, ReleaseSubmit(t) \/ ReleaseStore(t)
  PROVE  /\ t \in DOMAIN releasing /\ DOMAIN releasing' = DOMAIN releasing
         /\ \A u \in DOMAIN releasing : u # t => releasing'[u] = releasing[u]
         /\ releasing'[t].req = releasing[t].req
         /\ ReleaseSubmit(t) => releasing[t].pc = "submit" /\ releasing'[t].pc = "store"
         /\ ReleaseStore(t) => releasing[t].pc = "store" /\ releasing'[t].pc = "remember"
  <1>1. t \in DOMAIN releasing /\ releasing[t] \in ReleaseHandler
    BY DEF ReleaseSubmit, ReleaseStore, At, GatewayInv, TypeOK, IsDict
  <1>2. DOMAIN releasing[t] = {"pc", "req", "rec", "outcome"}
    BY <1>1 DEF ReleaseHandler
  <1>3. CASE ReleaseSubmit(t)
    BY <1>1, <1>2, <1>3 DEF ReleaseSubmit, ReleaseStore, At
  <1>4. CASE ReleaseStore(t)
    BY <1>1, <1>2, <1>4 DEF ReleaseSubmit, ReleaseStore, At, Goto
  <1>5. QED
    BY <1>3, <1>4

\* What the last step of a release does.
LEMMA RememberEffect ==
  ASSUME NEW t \in Threads, ReleaseRemember(t)
  PROVE  /\ t \in DOMAIN releasing /\ releasing[t].pc = "remember"
         /\ DOMAIN releasing' = DOMAIN releasing \ {t}
         /\ \A u \in DOMAIN releasing' : releasing'[u] = releasing[u]
         /\ DOMAIN keys' = DOMAIN keys \cup {releasing[t].req.key}
         /\ keys'[releasing[t].req.key].req = releasing[t].req
         /\ \A k \in DOMAIN keys : k # releasing[t].req.key => keys'[k] = keys[k]
  BY ReplyHandlers DEF ReleaseRemember, At, Put

\* Nobody remembers a key while another request is about to use it.
LEMMA StillUnboundStep ==
  ASSUME GatewayInv, KeysApart, StillUnbound, [Next]_vars
  PROVE  StillUnbound'
  <1>1. ASSUME NEW t \in Threads, NEW r \in Requests, ReleaseBegin(t, r)
        PROVE  StillUnbound'
    <2>1. keys' = keys
      BY <1>1 DEF ReleaseBegin, ReleaseRefuse
    <2>2. QED
      BY <1>1, <2>1, BeginEffect DEF StillUnbound
  <1>2. ASSUME NEW t \in Threads, ReleaseLookup(t)
        PROVE  StillUnbound'
    <2>1. keys' = keys
      BY <1>2 DEF ReleaseLookup
    <2>2. QED
      BY <1>2, <2>1, LookupEffect DEF StillUnbound
  <1>3. ASSUME NEW t \in Threads, ReleaseSubmit(t) \/ ReleaseStore(t)
        PROVE  StillUnbound'
    <2>1. keys' = keys
      BY <1>3 DEF ReleaseSubmit, ReleaseStore
    <2>2. releasing[t].pc # "lookup"
      BY <1>3, GoesOn
    <2>3. QED
      BY <1>3, <2>1, <2>2, GoesOn DEF StillUnbound
  <1>4. ASSUME NEW t \in Threads, ReleaseRemember(t)
        PROVE  StillUnbound'
    <2>1. t \in DOMAIN releasing /\ releasing[t].pc # "lookup"
      BY <1>4, RememberEffect
    <2>2. ASSUME NEW u \in DOMAIN releasing', releasing'[u].pc # "lookup"
          PROVE  releasing'[u].req.key \notin DOMAIN keys'
      <3>1. u \in DOMAIN releasing /\ u # t /\ releasing'[u] = releasing[u]
        BY <1>4, RememberEffect
      <3>2. releasing[u].req.key \notin DOMAIN keys
        BY <2>2, <3>1 DEF StillUnbound
      <3>3. releasing[u].req.key # releasing[t].req.key
        BY <2>1, <2>2, <3>1 DEF KeysApart
      <3>4. DOMAIN keys' = DOMAIN keys \cup {releasing[t].req.key}
        BY <1>4, RememberEffect
      <3>5. QED
        BY <3>1, <3>2, <3>3, <3>4
    <2>3. QED
      BY <2>2 DEF StillUnbound
  <1>5. CASE Restart
    BY <1>5 DEF Restart, StillUnbound, Empty
  <1>6. CASE UNCHANGED <<keys, releasing>>
    BY <1>6 DEF StillUnbound
  <1>7. QED
    BY <1>1, <1>2, <1>3, <1>4, <1>5, <1>6
    DEF Next, vars, CreateInstruction, ValidateRead, ValidateStore

\* The first submission of a key is remembered, or its thread is about to: a second
\* one would come from a request that met it.
LEMMA AtMostOnceStep ==
  ASSUME GatewayInv, KeysApart, StillUnbound, AtMostOncePerKey, [Next]_vars
  PROVE  AtMostOncePerKey'
  <1>1. ASSUME NEW t \in Threads, ReleaseSubmit(t)
        PROVE  AtMostOncePerKey'
    <2> DEFINE r == releasing[t].req
    <2>1. PICK n : Appends(n, t)
      BY <1>1, LogAppend DEF GatewayInv
    <2>2. epoch' = epoch /\ t \in DOMAIN releasing /\ releasing[t].pc = "submit"
      BY <1>1, GoesOn DEF ReleaseSubmit
    <2>3. r.key \notin DOMAIN keys
      BY <2>2 DEF StillUnbound
    <2>4. \A i \in DOMAIN railLog :
            ~(railLog[i].epoch = epoch /\ railLog[i].req.key = r.key)
      <3> SUFFICES ASSUME NEW i \in DOMAIN railLog, railLog[i].epoch = epoch,
                          railLog[i].req.key = r.key
                   PROVE  FALSE
        OBVIOUS
      <3>1. /\ PastRail(railLog[i].by)
            /\ releasing[railLog[i].by].req.key = r.key
        BY <2>3 DEF GatewayInv, SubmissionsKnown
      <3>2. railLog[i].by = t
        BY <2>2, <3>1 DEF PastRail, KeysApart
      <3>3. QED
        BY <2>2, <3>1, <3>2 DEF PastRail
    <2>5. QED
      BY <2>1, <2>2, <2>4 DEF Appends, AtMostOncePerKey
  <1>2. CASE UNCHANGED railLog
    BY <1>2 DEF AtMostOncePerKey
  <1>3. QED
    BY <1>1, <1>2
    DEF Next, vars, CreateInstruction, ValidateRead, ValidateStore, ReleaseBegin,
        ReleaseRefuse, ReleaseLookup, ReleaseStore, ReleaseRemember, Restart

\* Without two requests of one key between check and record, no key reaches the rail
\* twice between restarts, for any number of threads; a run finds the double release
\* when two requests do meet there.
THEOREM OncePerKeyIfApart == Spec => AtMostOnceIfApart
  <1> DEFINE I == StillUnbound /\ AtMostOncePerKey
  <1>1. Init => I
    BY DEF Init, Empty, StillUnbound, AtMostOncePerKey
  <1>2. GatewayInv /\ KeysApart /\ I /\ [Next]_vars => I'
    BY StillUnboundStep, AtMostOnceStep
  <1>3. I => AtMostOncePerKey
    OBVIOUS
  <1> HIDE DEF I
  <1>4. QED
    BY <1>1, <1>2, <1>3, GatewayInvariance, PTL DEF Spec, AtMostOnceIfApart
-----------------------------------------------------------------------------
(***************************************************************************)
(* The refinement.                                                         *)
(***************************************************************************)
InFlight(handlers) ==
  {t \in DOMAIN handlers : handlers[t].pc \in {"store", "remember"}}

\* BoundKeys, as a function of the store and the handlers.
BoundOf(ks, handlers) ==
  [k \in DOMAIN ks \cup {handlers[t].req.key : t \in InFlight(handlers)} |->
     IF k \in DOMAIN ks THEN ks[k].req
     ELSE (CHOOSE r \in {handlers[t].req : t \in InFlight(handlers)} : r.key = k)]

\* What characterises it when no two requests in flight have the same key.
IsBound(b, ks, handlers) ==
  /\ b = [k \in DOMAIN b |-> b[k]]
  /\ DOMAIN b = DOMAIN ks \cup {handlers[t].req.key : t \in InFlight(handlers)}
  /\ \A k \in DOMAIN ks : b[k] = ks[k].req
  /\ \A t \in InFlight(handlers) : b[handlers[t].req.key] = handlers[t].req

LEMMA BoundOfIsBound ==
  ASSUME NEW ks, NEW handlers,
         \A s, t \in InFlight(handlers) :
           handlers[s].req.key = handlers[t].req.key => s = t,
         \A t \in InFlight(handlers) : handlers[t].req.key \notin DOMAIN ks
  PROVE  IsBound(BoundOf(ks, handlers), ks, handlers)
  <1> DEFINE b == BoundOf(ks, handlers)
             reqs == {handlers[t].req : t \in InFlight(handlers)}
  <1>1. /\ b = [k \in DOMAIN b |-> b[k]]
        /\ DOMAIN b = DOMAIN ks \cup {handlers[t].req.key : t \in InFlight(handlers)}
        /\ \A k \in DOMAIN ks : b[k] = ks[k].req
    BY DEF BoundOf
  <1>2. ASSUME NEW t \in InFlight(handlers)
        PROVE  b[handlers[t].req.key] = handlers[t].req
    <2> DEFINE k == handlers[t].req.key
    <2>1. b[k] = (CHOOSE r \in reqs : r.key = k)
      BY DEF BoundOf
    <2>2. \A r \in reqs : r.key = k => r = handlers[t].req
      OBVIOUS
    <2>3. handlers[t].req \in reqs /\ handlers[t].req.key = k
      OBVIOUS
    <2> HIDE DEF reqs, k
    <2>4. (CHOOSE r \in reqs : r.key = k) = handlers[t].req
      BY <2>2, <2>3
    <2>5. QED
      BY <2>1, <2>4 DEF k
  <1>3. QED
    BY <1>1, <1>2 DEF IsBound

LEMMA BoundUnique ==
  ASSUME NEW ks, NEW handlers, NEW b, NEW c,
         IsBound(b, ks, handlers), IsBound(c, ks, handlers)
  PROVE  b = c
  <1>1. DOMAIN b = DOMAIN c /\ \A k \in DOMAIN b : b[k] = c[k]
    BY DEF IsBound
  <1>2. [k \in DOMAIN b |-> b[k]] = [k \in DOMAIN c |-> c[k]]
    BY <1>1
  <1>3. QED
    BY <1>2 DEF IsBound

LEMMA BoundNow ==
  ASSUME KeysApart, StillUnbound
  PROVE  IsBound(BoundKeys, keys, releasing)
  <1>1. BoundKeys = BoundOf(keys, releasing)
    BY DEF BoundKeys, BoundOf, InFlight
  <1>2. QED
    BY <1>1, BoundOfIsBound DEF KeysApart, StillUnbound, InFlight

LEMMA BoundNext ==
  ASSUME KeysApart', StillUnbound'
  PROVE  IsBound(BoundKeys', keys', releasing')
  <1>1. BoundKeys' = BoundOf(keys', releasing')
    BY DEF BoundKeys, BoundOf, InFlight
  <1>2. /\ \A s, t \in InFlight(releasing') :
             releasing'[s].req.key = releasing'[t].req.key => s = t
        /\ \A t \in InFlight(releasing') : releasing'[t].req.key \notin DOMAIN keys'
    BY DEF KeysApart, StillUnbound, InFlight
  <1>3. QED
    BY <1>1, <1>2, BoundOfIsBound

\* A state and the next one between which the theorem is about a step.
Apart == GatewayInv /\ KeysApart /\ KeysApart' /\ StillUnbound /\ StillUnbound'

\* Bound keys stay when the store and the handlers past the rail do.
LEMMA BoundStays ==
  ASSUME Apart, keys' = keys, InFlight(releasing') = InFlight(releasing),
         \A t \in InFlight(releasing) : releasing'[t].req = releasing[t].req
  PROVE  BoundKeys' = BoundKeys
  <1>1. IsBound(BoundKeys, keys, releasing) /\ IsBound(BoundKeys', keys', releasing')
    BY BoundNow, BoundNext DEF Apart
  <1>2. IsBound(BoundKeys, keys', releasing')
    BY <1>1 DEF IsBound
  <1>3. QED
    BY <1>1, <1>2, BoundUnique

Performed == [i \in DOMAIN railLog |-> railLog[i].req]

\* A submission performs the request and binds its key.
LEMMA SubmitPerforms ==
  ASSUME Apart, NEW t \in Threads, ReleaseSubmit(t)
  PROVE  \E r \in Requests : Abstract!Perform(r)
  <1> DEFINE r == releasing[t].req
  <1>1. /\ t \in DOMAIN releasing /\ releasing[t].pc = "submit"
        /\ DOMAIN releasing' = DOMAIN releasing /\ releasing'[t].pc = "store"
        /\ \A u \in DOMAIN releasing : u # t => releasing'[u] = releasing[u]
        /\ releasing'[t].req = r /\ UNCHANGED <<records, keys, created>>
    BY GoesOn DEF ReleaseSubmit, Apart
  <1>2. r \in Requests
    BY <1>1 DEF Apart, GatewayInv, TypeOK, IsDict, ReleaseHandler
  <1>3. /\ r.payment \in DOMAIN records /\ r.key \notin DOMAIN keys
        /\ \A s \in InFlight(releasing) : releasing[s].req.key # r.key
    BY <1>1 DEF Apart, GatewayInv, HandlersKnown, StillUnbound, KeysApart, InFlight
  <1>4. /\ InFlight(releasing') = InFlight(releasing) \cup {t}
        /\ t \notin InFlight(releasing)
        /\ \A s \in InFlight(releasing) : releasing'[s] = releasing[s]
    BY <1>1 DEF InFlight
  <1>5. IsBound(BoundKeys, keys, releasing) /\ IsBound(BoundKeys', keys', releasing')
    BY BoundNow, BoundNext DEF Apart
  <1>6. r.key \notin DOMAIN BoundKeys
    BY <1>3, <1>5 DEF IsBound
  <1>7. BoundKeys' = Abstract!Put(BoundKeys, r.key, r)
    <2> DEFINE c == Abstract!Put(BoundKeys, r.key, r)
    <2>1. /\ DOMAIN c = DOMAIN BoundKeys \cup {r.key} /\ c[r.key] = r
          /\ \A k \in DOMAIN BoundKeys : k # r.key => c[k] = BoundKeys[k]
          /\ c = [k \in DOMAIN c |-> c[k]]
      BY DEF Abstract!Put
    <2> HIDE DEF c, r
    <2>2. DOMAIN c = DOMAIN keys' \cup {releasing'[s].req.key : s \in InFlight(releasing')}
      <3>1. {releasing'[s].req.key : s \in InFlight(releasing')} =
              {releasing[s].req.key : s \in InFlight(releasing)} \cup {r.key}
        BY <1>1, <1>4
      <3>2. QED
        BY <1>1, <1>5, <2>1, <3>1 DEF IsBound
    <2>3. \A k \in DOMAIN keys' : c[k] = keys'[k].req
      BY <1>1, <1>3, <1>5, <2>1 DEF IsBound
    <2>4. \A s \in InFlight(releasing') : c[releasing'[s].req.key] = releasing'[s].req
      <3>1. ASSUME NEW s \in InFlight(releasing)
            PROVE  c[releasing'[s].req.key] = releasing'[s].req
        BY <1>3, <1>4, <1>5, <2>1 DEF IsBound
      <3>2. c[releasing'[t].req.key] = releasing'[t].req
        BY <1>1, <2>1
      <3>3. QED
        BY <1>4, <3>1, <3>2
    <2>5. IsBound(c, keys', releasing')
      BY <2>1, <2>2, <2>3, <2>4 DEF IsBound
    <2>6. QED
      BY <1>5, <2>5, BoundUnique DEF c
  <1>8. Performed' = Append(Performed, r)
    <2>1. railLog \in Seq(Submission)
      BY DEF Apart, GatewayInv, TypeOK
    <2>2. PICK e : e.req = r /\ railLog' = Append(railLog, e)
      BY DEF ReleaseSubmit
    <2>3. Len(railLog) \in Nat /\ DOMAIN railLog = 1 .. Len(railLog)
      BY <2>1
    <2>4. /\ DOMAIN railLog' = 1 .. (Len(railLog) + 1)
          /\ \A i \in 1 .. Len(railLog) : railLog'[i] = railLog[i]
          /\ railLog'[Len(railLog) + 1] = e
      BY <2>1, <2>2
    <2> HIDE DEF r
    <2>5. Performed = [i \in 1 .. Len(railLog) |-> railLog[i].req]
      BY <2>3 DEF Performed
    <2>6. Performed' = [i \in 1 .. (Len(railLog) + 1) |-> railLog'[i].req]
      BY <2>4 DEF Performed
    <2>7. Append(Performed, r) =
            [i \in 1 .. (Len(railLog) + 1) |->
               IF i = Len(railLog) + 1 THEN r ELSE Performed[i]]
      BY <2>3, <2>5
    <2>8. \A i \in 1 .. (Len(railLog) + 1) :
            i # Len(railLog) + 1 => i \in 1 .. Len(railLog)
      BY <2>3
    <2>9. QED
      BY <2>2, <2>4, <2>5, <2>6, <2>7, <2>8
  <1> HIDE DEF r
  <1>9. QED
    BY <1>1, <1>2, <1>3, <1>6, <1>7, <1>8 DEF Abstract!Perform, Performed

\* The write-backs of the record and of the key change nothing that is seen.
LEMMA StoreStutters ==
  ASSUME Apart, NEW t \in Threads, ReleaseStore(t) \/ ReleaseRemember(t)
  PROVE  UNCHANGED Abstract!vars
  <1> DEFINE r == releasing[t].req
  <1>1. t \in DOMAIN releasing /\ UNCHANGED <<created, railLog>>
    BY DEF ReleaseStore, ReleaseRemember, At
  <1>2. CASE ReleaseStore(t)
    <2>1. keys' = keys /\ DOMAIN records' = DOMAIN records
      BY <1>1, <1>2 DEF ReleaseStore, Put, Apart, GatewayInv, HandlersKnown
    <2>2. /\ InFlight(releasing') = InFlight(releasing)
          /\ \A s \in InFlight(releasing) : releasing'[s].req = releasing[s].req
      BY <1>2, GoesOn DEF InFlight, Apart
    <2>3. BoundKeys' = BoundKeys
      BY <2>1, <2>2, BoundStays
    <2>4. QED
      BY <1>1, <2>1, <2>3 DEF Abstract!vars
  <1>3. CASE ReleaseRemember(t)
    <2>1. /\ InFlight(releasing) = InFlight(releasing') \cup {t}
          /\ \A s \in InFlight(releasing') : releasing'[s] = releasing[s]
      BY <1>3, RememberEffect DEF InFlight
    <2>2. IsBound(BoundKeys, keys, releasing) /\ IsBound(BoundKeys', keys', releasing')
      BY BoundNow, BoundNext DEF Apart
    <2>3. DOMAIN keys' = DOMAIN keys \cup {r.key}
      BY <1>3, RememberEffect
    <2>4. {releasing[s].req.key : s \in InFlight(releasing)} =
            {releasing'[s].req.key : s \in InFlight(releasing')} \cup {r.key}
      BY <2>1
    <2>5. \A k \in DOMAIN keys' : BoundKeys[k] = keys'[k].req
      <3>1. BoundKeys[r.key] = keys'[r.key].req
        <4>1. t \in InFlight(releasing)
          BY <2>1
        <4>2. BoundKeys[releasing[t].req.key] = releasing[t].req
          BY <2>2, <4>1 DEF IsBound
        <4>3. QED
          BY <1>3, <4>2, RememberEffect
      <3>2. \A k \in DOMAIN keys : k # r.key => BoundKeys[k] = keys'[k].req
        BY <1>3, <2>2, RememberEffect DEF IsBound
      <3>3. QED
        BY <2>3, <3>1, <3>2
    <2>6. IsBound(BoundKeys, keys', releasing')
      <3>1. DOMAIN BoundKeys =
              DOMAIN keys' \cup {releasing'[s].req.key : s \in InFlight(releasing')}
        BY <2>2, <2>3, <2>4 DEF IsBound
      <3>2. \A s \in InFlight(releasing') :
              BoundKeys[releasing'[s].req.key] = releasing'[s].req
        BY <2>1, <2>2 DEF IsBound
      <3>3. QED
        BY <2>2, <2>5, <3>1, <3>2 DEF IsBound
    <2>7. BoundKeys' = BoundKeys
      BY <2>2, <2>6, BoundUnique
    <2>8. QED
      BY <1>1, <1>3, <2>7 DEF ReleaseRemember, Abstract!vars
  <1>4. QED
    BY <1>2, <1>3

\* What begins a handler, or ends one before the rail is asked, is not seen.
LEMMA BeginStutters ==
  ASSUME Apart, NEW t \in Threads,
         ReleaseLookup(t) \/ \E r \in Requests : ReleaseBegin(t, r)
  PROVE  UNCHANGED Abstract!vars
  <1>1. UNCHANGED <<created, railLog, keys, records>>
    BY DEF ReleaseLookup, ReleaseBegin, ReleaseRefuse
  <1>2. /\ InFlight(releasing') = InFlight(releasing)
        /\ \A s \in InFlight(releasing) : releasing'[s].req = releasing[s].req
    BY LookupEffect, BeginEffect DEF InFlight, PastRail, Apart
  <1>3. BoundKeys' = BoundKeys
    BY <1>1, <1>2, BoundStays
  <1>4. QED
    BY <1>1, <1>3 DEF Abstract!vars

LEMMA GatewayPerforms ==
  ASSUME Apart, [Next]_vars
  PROVE  [Abstract!Next]_(Abstract!vars)
  <1>1. ASSUME NEW p \in Payments, NEW rail \in Rails, CreateInstruction(p, rail)
        PROVE  Abstract!Open(p)
    BY <1>1 DEF CreateInstruction, Put, BoundKeys, Abstract!Open
  <1>2. ASSUME NEW t \in Threads, ValidateStore(t)
        PROVE  UNCHANGED Abstract!vars
    <2>1. validating[t].payment \in DOMAIN records
      BY <1>2 DEF ValidateStore, Apart, GatewayInv, HandlersKnown
    <2>2. QED
      BY <1>2, <2>1 DEF ValidateStore, Put, BoundKeys, Abstract!vars
  <1>3. CASE Restart
    <2>1. InFlight(releasing') = {} /\ DOMAIN keys' = {}
      BY <1>3 DEF Restart, Empty, InFlight
    <2>2. BoundKeys' = Abstract!Empty
      BY <2>1 DEF BoundKeys, InFlight, Abstract!Empty
    <2>3. QED
      BY <1>3, <2>2 DEF Restart, Empty, Abstract!Forget, Abstract!Next
  <1>4. CASE UNCHANGED <<records, keys, created, releasing, railLog>>
    BY <1>4 DEF BoundKeys, Abstract!vars
  <1>5. QED
    BY <1>1, <1>2, <1>3, <1>4, SubmitPerforms, StoreStutters, BeginStutters
    DEF Next, vars, ValidateRead, Abstract!Next

\* As long as requests with the same key do not meet between check and record, any
\* number of threads release like one that looks the key up, asks the rail and
\* remembers the answer in a single step.
THEOREM RefinementIfApart == Spec /\ []KeysApart => ImplementsIdempotentRelease
  <1>1. Init => StillUnbound /\ Abstract!Init
    <2> SUFFICES ASSUME Init
                 PROVE  StillUnbound /\ Abstract!Init
      OBVIOUS
    <2>1. BoundKeys = Abstract!Empty
      BY DEF Init, Empty, BoundKeys, Abstract!Empty
    <2>2. QED
      BY <2>1 DEF Init, Empty, StillUnbound, Abstract!Init
  <1>2. GatewayInv /\ KeysApart /\ StillUnbound /\ [Next]_vars => StillUnbound'
    BY StillUnboundStep
  <1>3. /\ GatewayInv /\ KeysApart /\ KeysApart' /\ StillUnbound /\ StillUnbound'
        /\ [Next]_vars
        => [Abstract!Next]_(Abstract!vars)
    BY GatewayPerforms DEF Apart
  <1>4. QED
    BY <1>1, <1>2, <1>3, GatewayInvariance, PTL
    DEF Spec, ImplementsIdempotentRelease, Abstract!Spec
=============================================================================
