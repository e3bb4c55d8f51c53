-------------------------- MODULE PaymentIntakeProofs --------------------------
(***************************************************************************)
(* TLAPS proof, for any number of handlers, of the invariant of intakes    *)
(* and approvals: an intake has its payment for itself until its task      *)
(* waits, a waiting task can be approved unless a fault stopped the resume *)
(* that took its approval, and only another handler's dispatch run keeps   *)
(* the records of a task from its intake.                                  *)
(***************************************************************************)
EXTENDS PaymentWorkflowProofs

\* Of the handlers, only t changes or goes.
Moved(t) ==
  /\ DOMAIN handlers' \subseteq DOMAIN handlers
  /\ \A u \in DOMAIN handlers' : u # t => handlers'[u] = handlers[u]

\* What an answer or a refusal does to the handlers.
LEMMA AnswerMoves ==
  ASSUME NEW t \in DOMAIN handlers, NEW h \in Handler, Answer(t, h)
  PROVE  /\ Moved(t)
         /\ t \in DOMAIN handlers' =>
              h.awaited /\ Following(h) # Done /\ handlers'[t] = Sent(h)
  <1>1. CASE h.awaited /\ Following(h) # Done /\ handlers' = Put(handlers, t, Sent(h))
    BY <1>1 DEF Put, Moved
  <1>2. CASE handlers' = Drop(handlers, t)
    BY <1>2 DEF Drop, Moved
  <1>3. QED
    BY <1>1, <1>2 DEF Answer, Sent

LEMMA RefuseMoves ==
  ASSUME NEW t, Refuse(t)
  PROVE  Moved(t) /\ t \notin DOMAIN handlers'
  BY DEF Refuse, Drop, Moved

\* What a committed write does to its handler.
LEMMA CommittedMoves ==
  ASSUME NEW t \in DOMAIN handlers, handlers[t] \in Handler, Committed(t)
  PROVE  /\ Moved(t)
         /\ t \in DOMAIN handlers' => handlers'[t] = [handlers[t] EXCEPT !.phase = "claim"]
  <1>1. CASE handlers' = [handlers EXCEPT ![t].phase = "claim"]
    BY <1>1 DEF Moved
  <1>2. CASE Refuse(t)
    BY <1>2, RefuseMoves
  <1>3. QED
    BY <1>1, <1>2 DEF Committed

\* The next call of a start that was answered finds its task as the last one left it.
LEMMA StartAdvances ==
  ASSUME NEW h \in Handler, h.op = "start", Following(h) # Done,
         h.call \in Patches \cup {"create"} => h.phase = "project",
         h.call \in {"instruct", "create", "queue_validation", "validate"} \cup Judged,
         h.result \in Verdicts \/ h.call # "record_validation"
  PROVE  /\ Starting(h) /\ ~Spending(Sent(h))
         /\ StatusAtStart(Sent(h)) = StatusAtStart(h)
  <1> DEFINE g == Sent(h)
  <1>1. g.op = "start" /\ g.call = Following(h) /\ g.phase = "send"
    BY DEF Sent, Handler
  <1>2. h.call \notin {"awaiting_approval", "exception", "failed"}
    BY DEF Following, StartCalls
  <1>3. Starting(h) /\ ~Spending(g)
    BY <1>1, <1>2 DEF Starting, Spending
  <1>4. CASE h.call = "record_validation"
    <2>1. g.call \in {"validated", "exception", "failed"}
      BY <1>1, <1>4 DEF Following, FirstPatch, Verdicts
    <2>2. QED
      BY <1>1, <1>3, <1>4, <2>1 DEF StatusAtStart, Writing
  <1>5. CASE h.call \in {"instruct", "create", "queue_validation", "validate",
                         "finish_validation", "validated", "queue_approval",
                         "request_approval", "record_request"}
    <2>1. /\ h.call = "instruct" => g.call = "create"
          /\ h.call = "create" => g.call = "queue_validation"
          /\ h.call = "queue_validation" => g.call = "validate"
          /\ h.call = "validate" => g.call = "finish_validation"
          /\ h.call = "finish_validation" => g.call = "record_validation"
          /\ h.call = "validated" => g.call = "queue_approval"
          /\ h.call = "queue_approval" => g.call = "request_approval"
          /\ h.call = "request_approval" => g.call = "record_request"
          /\ h.call = "record_request" => g.call = "awaiting_approval"
      BY <1>1 DEF Following, StartCalls
    <2>2. h.call \in {"create", "validated"} => h.phase = "project"
      BY DEF Patches
    <2>3. QED
      BY <1>1, <1>3, <1>5, <2>1, <2>2 DEF StatusAtStart, Writing
  <1>6. QED
    BY <1>2, <1>4, <1>5 DEF Judged

-----------------------------------------------------------------------------
\* Nothing that an intake of q looks at changes.
SameIntake(q) ==
  /\ q \in DOMAIN tasks' <=> q \in DOMAIN tasks
  /\ q \in DOMAIN tasks => tasks'[q] = tasks[q]
  /\ q \in DOMAIN records =>
       q \in DOMAIN records' /\ records'[q].approval = records[q].approval

\* Only t changes or goes, and it starts only what it was starting.
OnlyMoves(t) ==
  /\ Moved(t)
  /\ t \in DOMAIN handlers' =>
       /\ handlers'[t].payment = handlers[t].payment
       /\ Starting(handlers'[t]) => Starting(handlers[t])

LEMMA FreshStays ==
  ASSUME NEW h, SameIntake(h.payment), Fresh(h)
  PROVE  Fresh(h)'
  <1>1. Status(h.payment)' = Status(h.payment)
    BY DEF SameIntake, Status
  <1>2. QED
    BY <1>1 DEF Fresh, SameIntake

\* A step of handler t that touches no other payment keeps the intakes fresh.
LEMMA IntakeStays ==
  ASSUME StartsFresh, StartsAlone, NEW t, OnlyMoves(t),
         \A q : (t \in DOMAIN handlers /\ q = handlers[t].payment) \/ SameIntake(q),
         t \in DOMAIN handlers' /\ Starting(handlers'[t]) => Fresh(handlers[t])'
  PROVE  StartsFresh' /\ StartsAlone'
  <1>1. StartsAlone'
    <2>1. ASSUME NEW u \in DOMAIN handlers', NEW v \in DOMAIN handlers', u # v,
                 handlers'[u].payment = handlers'[v].payment
          PROVE  ~Starting(handlers'[u])
      BY <2>1 DEF StartsAlone, OnlyMoves, Moved
    <2>2. QED
      BY <2>1 DEF StartsAlone, Starting, Writing
  <1>2. ASSUME NEW u \in DOMAIN handlers', Starting(handlers'[u]), u # t
        PROVE  Fresh(handlers[u])'
    <2>1. PICK k : k = handlers[u] /\ k = handlers'[u]
      BY <1>2 DEF OnlyMoves, Moved
    <2>2. u \in DOMAIN handlers /\ Starting(k) /\ Fresh(k)
      BY <1>2, <2>1 DEF StartsFresh, OnlyMoves, Moved
    <2>3. SameIntake(k.payment)
      <3>1. ~(t \in DOMAIN handlers /\ k.payment = handlers[t].payment)
        BY <1>2, <2>1, <2>2 DEF StartsAlone
      <3>2. QED
        BY <3>1
    <2>4. Fresh(k)'
      BY <2>2, <2>3, FreshStays
    <2>5. QED
      BY <2>1, <2>4
  <1>3. StartsFresh'
    <2>1. ASSUME NEW u \in DOMAIN handlers', Starting(handlers'[u])
          PROVE  Fresh(handlers[u])'
      BY <1>2, <2>1
    <2>2. QED
      BY <2>1 DEF StartsFresh, Starting, Writing
  <1>4. QED
    BY <1>1, <1>3

\* A task still waits for an approval it can be given, if so does the one that changes.
LEMMA ReadyChanges ==
  ASSUME SagaInv', IntakeInv, NEW p, \A q : q = p \/ SameIntake(q),
         p \in DOMAIN tasks' /\ tasks'[p].status = "awaiting_approval" =>
           /\ p \in DOMAIN records'
           /\ records'[p].approval \in {"pending", "completed"}
           /\ tasks'[p].beneficiary = "approved"
  PROVE  WaitingRecorded'
  <1>1. ASSUME NEW q \in DOMAIN tasks', tasks'[q].status = "awaiting_approval"
        PROVE  /\ q \in DOMAIN records'
               /\ records'[q].approval \in {"pending", "completed"}
               /\ <<"record_request", Nothing>> \in records'[q].artifacts
               /\ tasks'[q].beneficiary = "approved"
    <2>1. <<"record_request", Nothing>> \in records'[q].artifacts
      BY <1>1 DEF SagaInv, TasksBacked, RowBacked, Artifacted
    <2>2. CASE q = p
      BY <1>1, <2>1, <2>2
    <2>3. CASE SameIntake(q)
      BY <1>1, <2>1, <2>3 DEF IntakeInv, WaitingRecorded, SameIntake
    <2>4. QED
      BY <2>2, <2>3
  <1>2. QED
    BY <1>1 DEF WaitingRecorded

\* A step that leaves the tasks and the approvals as they are.
LEMMA ReadyStays ==
  ASSUME SagaInv', IntakeInv, \A q : SameIntake(q)
  PROVE  WaitingRecorded'
  <1>1. ASSUME NEW p, p \in DOMAIN tasks', tasks'[p].status = "awaiting_approval"
        PROVE  /\ p \in DOMAIN records'
               /\ records'[p].approval \in {"pending", "completed"}
               /\ tasks'[p].beneficiary = "approved"
    BY <1>1 DEF IntakeInv, WaitingRecorded, SameIntake
  <1>2. QED
    BY <1>1, ReadyChanges

\* A start that was answered is fresh for its next call.
LEMMA SentFresh ==
  ASSUME NEW h \in Handler, HandlerBacked(h)', Fresh(h)', h.op = "start",
         Following(h) # Done,
         h.call \in Patches \cup {"create"} => h.phase = "project",
         h.call = "request_approval" =>
           h.payment \in DOMAIN records' /\ records'[h.payment].approval = "pending"
  PROVE  Starting(h) /\ Fresh(Sent(h))'
  <1>0. PICK g : g = Sent(h)
    OBVIOUS
  <1>1. /\ g.op = "start" /\ g.phase = "send" /\ g.payment = h.payment
        /\ g.result = h.result /\ g.call = Following(h)
    BY <1>0 DEF Sent, Handler
  <1>2. /\ h.call \in {"instruct", "create", "queue_validation", "validate"} \cup Judged
        /\ h.result \in Verdicts \/ h.call # "record_validation"
    BY HandlerFields, WorkflowAssumption DEF HandlerBacked, StartBacked, Judged
  <1>3. Starting(h) /\ StatusAtStart(g) = StatusAtStart(h)
    BY <1>0, <1>2, StartAdvances
  <1>4. Status(g.payment)' = StatusAtStart(g)
    BY <1>1, <1>3 DEF Fresh
  <1>5. CASE h.call = "record_validation"
    <2>1. /\ g.call \in {"validated", "exception", "failed"}
          /\ g.call = "validated" => h.result = "validated"
      BY <1>1, <1>2, <1>5 DEF Following, FirstPatch, Verdicts
    <2>2. Fresh(g)'
      BY <1>1, <1>4, <2>1 DEF Fresh
    <2>3. QED
      BY <1>0, <1>3, <2>2
  <1>6. CASE h.call # "record_validation"
    <2>1. /\ g.call \in {"validated", "queue_approval", "request_approval",
                         "record_request", "awaiting_approval"} =>
               h.call \in {"validated", "queue_approval", "request_approval",
                          "record_request", "awaiting_approval"}
          /\ g.call = "record_request" => h.call = "request_approval"
          /\ g.call = "awaiting_approval" => h.call = "record_request"
      BY <1>1, <1>2, <1>6 DEF Following, StartCalls, Judged
    <2>2. Fresh(g)'
      BY <1>1, <1>4, <2>1 DEF Fresh
    <2>3. QED
      BY <1>0, <1>3, <2>2
  <1>7. QED
    BY <1>5, <1>6

\* h is handler t with what it has learned from the answer.
LEMMA IntakeAnswer ==
  ASSUME NEW t \in DOMAIN handlers, NEW h \in Handler, HandlerBacked(h)', Answer(t, h),
         h.payment = handlers[t].payment, h.op = handlers[t].op,
         h.op = "start" /\ Following(h) # Done =>
           /\ Fresh(h)'
           /\ Starting(h) => Starting(handlers[t])
           /\ h.call \in Patches \cup {"create"} => h.phase = "project"
           /\ h.call = "request_approval" =>
                h.payment \in DOMAIN records' /\ records'[h.payment].approval = "pending"
  PROVE  /\ OnlyMoves(t)
         /\ t \in DOMAIN handlers' /\ Starting(handlers'[t]) => Fresh(handlers[t])'
  <1>1. Moved(t) /\ (t \in DOMAIN handlers' => Following(h) # Done /\ handlers'[t] = Sent(h))
    BY AnswerMoves
  <1>2. Sent(h).payment = h.payment /\ Sent(h).op = h.op
    BY DEF Sent, Handler
  <1>3. CASE h.op = "start" /\ Following(h) # Done
    <2>1. Starting(h) /\ Fresh(Sent(h))'
      BY <1>3, SentFresh
    <2>2. QED
      BY <1>1, <1>2, <1>3, <2>1 DEF OnlyMoves
  <1>4. CASE ~(h.op = "start" /\ Following(h) # Done)
    BY <1>1, <1>2, <1>4 DEF OnlyMoves, Starting
  <1>5. QED
    BY <1>3, <1>4

LEMMA IntakeRefusal ==
  ASSUME NEW t, Refuse(t)
  PROVE  OnlyMoves(t) /\ t \notin DOMAIN handlers'
  BY RefuseMoves DEF OnlyMoves

\* A step that leaves the tasks and the approvals as they are.
LEMMA IntakeQuiet ==
  ASSUME SagaInv, SagaInv', IntakeInv, UNCHANGED tasks, \A q : SameIntake(q),
         NEW t, OnlyMoves(t),
         t \in DOMAIN handlers' /\ Starting(handlers'[t]) => Fresh(handlers[t])'
  PROVE  StartsFresh' /\ StartsAlone' /\ WaitingRecorded'
  BY IntakeStays, ReadyStays DEF IntakeInv

\* Handler t moves on without an answer, as g.
LEMMA IntakeMove ==
  ASSUME SagaInv, SagaInv', IntakeInv, UNCHANGED <<tasks, records>>,
         NEW t \in DOMAIN handlers, NEW g, handlers' = [handlers EXCEPT ![t] = g],
         g.payment = handlers[t].payment,
         Starting(g) => Starting(handlers[t]) /\ Fresh(g)
  PROVE  StartsFresh' /\ StartsAlone' /\ WaitingRecorded'
  <1>1. \A q : SameIntake(q)
    BY DEF SameIntake
  <1>2. OnlyMoves(t) /\ handlers'[t] = g
    BY DEF OnlyMoves, Moved
  <1>3. Starting(g) => Fresh(g)'
    BY <1>1, FreshStays
  <1>4. t \in DOMAIN handlers' /\ Starting(handlers'[t]) => Fresh(handlers[t])'
    BY <1>2, <1>3
  <1>5. QED
    BY <1>1, <1>2, <1>4, IntakeQuiet
-----------------------------------------------------------------------------
\* What the position of handler t says, and that of a start.
LEMMA IntakePosition ==
  ASSUME SagaInv, IntakeInv, NEW t \in DOMAIN handlers, NEW h, h = handlers[t]
  PROVE  /\ h \in Handler /\ HandlerBacked(h) /\ (Starting(h) => Fresh(h))
         /\ h.op = "start" /\ h.call \notin {"awaiting_approval", "exception", "failed"} =>
              Starting(h) /\ Fresh(h)
  BY Position DEF IntakeInv, StartsFresh, Starting

\* A start makes no further call once it is past its end.
LEMMA StillStarting ==
  ASSUME NEW h \in Handler, h.op = "start", Following(h) # Done
  PROVE  Starting(h)
  BY DEF Following, StartCalls, Starting

LEMMA QuietAnswerIntake ==
  ASSUME SagaInv, SagaInv', IntakeInv, UNCHANGED <<orders, tasks, records, railLog>>,
         NEW t \in DOMAIN handlers, NEW h \in Handler, HandlerBacked(h), Answer(t, h),
         h.payment = handlers[t].payment, h.op = handlers[t].op,
         h.op = "start" /\ Following(h) # Done =>
           /\ Fresh(h) /\ h.call # "request_approval"
           /\ Starting(h) => Starting(handlers[t])
           /\ h.call \in Patches \cup {"create"} => h.phase = "project"
  PROVE  StartsFresh' /\ StartsAlone' /\ WaitingRecorded'
  <1>1. \A q : SameIntake(q)
    BY DEF SameIntake
  <1>2. HandlerBacked(h)'
    <2>1. Grows
      BY DEF Grows
    <2>2. QED
      BY <2>1, PositionStays
  <1>3. Fresh(h) => Fresh(h)'
    BY <1>1, FreshStays
  <1>4. /\ OnlyMoves(t)
        /\ t \in DOMAIN handlers' /\ Starting(handlers'[t]) => Fresh(handlers[t])'
    BY <1>2, <1>3, IntakeAnswer
  <1>5. QED
    BY <1>1, <1>4, IntakeQuiet

LEMMA QuietRefusalIntake ==
  ASSUME SagaInv, SagaInv', IntakeInv, UNCHANGED <<tasks, records>>, NEW t, Refuse(t)
  PROVE  StartsFresh' /\ StartsAlone' /\ WaitingRecorded'
  <1>1. \A q : SameIntake(q)
    BY DEF SameIntake
  <1>2. QED
    BY <1>1, IntakeRefusal, IntakeQuiet

LEMMA InstructIntake ==
  ASSUME SagaInv, SagaInv', IntakeInv, NEW t \in Handlers, Instruct(t)
  PROVE  StartsFresh' /\ StartsAlone' /\ WaitingRecorded'
  <1> DEFINE h == handlers[t]
  <1>1. t \in DOMAIN handlers /\ h.call = "instruct" /\ Answer(t, h)
    BY DEF Instruct, At
  <1>2. h \in Handler /\ HandlerBacked(h) /\ (h.op = "start" => Fresh(h))
    BY <1>1, IntakePosition
  <1>3. QED
    BY <1>1, <1>2, QuietAnswerIntake DEF Instruct, Patches

LEMMA ValidateIntake ==
  ASSUME SagaInv, SagaInv', IntakeInv, NEW t \in Handlers, Validate(t)
  PROVE  StartsFresh' /\ StartsAlone' /\ WaitingRecorded'
  <1> DEFINE h == handlers[t]
             g == [h EXCEPT !.result = RailVerdict[h.payment]]
  <1>1. t \in DOMAIN handlers /\ h.call = "validate"
    BY DEF Validate, At
  <1>2. h \in Handler /\ HandlerBacked(h) /\ (h.op = "start" => Starting(h) /\ Fresh(h))
    BY <1>1, IntakePosition
  <1>3. CASE Refuse(t)
    BY <1>3, QuietRefusalIntake DEF Validate
  <1>4. CASE Answer(t, g)
    <2>1. h.op = "start"
      BY <1>1, <1>2, HandlerFields DEF HandlerBacked, ResumeBacked, Checked, Endorsed
    <2>2. g \in Handler /\ HandlerBacked(g)
      <3>1. RailVerdict[h.payment] \in Verdicts
        BY <1>2, HandlerFields, WorkflowAssumption
      <3>2. QED
        BY <1>1, <1>2, <2>1, <3>1 DEF Handler, HandlerBacked, StartBacked, Judged
    <2>3. /\ g.payment = h.payment /\ g.op = h.op /\ g.call = "validate"
          /\ g.phase = h.phase
      BY <1>1, <1>2 DEF Handler
    <2>4. Fresh(g)
      BY <1>1, <1>2, <2>1, <2>3 DEF Fresh, StatusAtStart, Writing, Patches
    <2>5. QED
      BY <1>1, <1>2, <1>4, <2>1, <2>2, <2>3, <2>4, QuietAnswerIntake
      DEF Validate, Patches
  <1>5. QED
    BY <1>3, <1>4 DEF Validate

\* The calls of a resume start nothing.
LEMMA ReadRowIntake ==
  ASSUME SagaInv, SagaInv', IntakeInv, NEW t \in Handlers, ReadRow(t)
  PROVE  StartsFresh' /\ StartsAlone' /\ WaitingRecorded'
  <1> DEFINE h == handlers[t]
             g == [h EXCEPT !.row = tasks[h.payment]]
  <1>1. t \in DOMAIN handlers /\ h.call = "read_row" /\ h.phase = "send" /\ Answer(t, g)
    BY DEF ReadRow, At
  <1>2. h \in Handler /\ HandlerBacked(h)
    BY <1>1, Position
  <1>3. h.op = "resume" /\ h.payment \in DOMAIN tasks
    BY <1>1, <1>2, HandlerFields DEF HandlerBacked, StartBacked, ResumeBacked, Judged
  <1>4. g = [h EXCEPT !.row = tasks[h.payment], !.phase = "send"]
    BY <1>1, <1>2 DEF Handler
  <1>5. g \in Handler /\ HandlerBacked(g)
    BY <1>1, <1>3, <1>4, RowRead
  <1>6. g.payment = h.payment /\ g.op = h.op
    BY <1>2 DEF Handler
  <1>7. QED
    BY <1>1, <1>3, <1>5, <1>6, QuietAnswerIntake DEF ReadRow

LEMMA ReadRecordsIntake ==
  ASSUME SagaInv, SagaInv', IntakeInv, NEW t \in Handlers, ReadRecords(t)
  PROVE  StartsFresh' /\ StartsAlone' /\ WaitingRecorded'
  <1> DEFINE h == handlers[t]
  <1>1. t \in DOMAIN handlers /\ h.call = "read_records"
    BY DEF ReadRecords, At
  <1>2. h \in Handler /\ HandlerBacked(h)
    BY <1>1, Position
  <1>3. h.op = "resume"
    BY <1>1, <1>2, HandlerFields DEF HandlerBacked, StartBacked, Judged
  <1>4. CASE Refuse(t)
    BY <1>4, QuietRefusalIntake DEF ReadRecords
  <1>5. CASE Answer(t, h)
    BY <1>1, <1>2, <1>3, <1>5, QuietAnswerIntake DEF ReadRecords
  <1>6. QED
    BY <1>4, <1>5 DEF ReadRecords

LEMMA ReleaseLookupIntake ==
  ASSUME SagaInv, SagaInv', IntakeInv, NEW t \in Handlers, ReleaseLookup(t)
  PROVE  StartsFresh' /\ StartsAlone' /\ WaitingRecorded'
  <1> DEFINE h == handlers[t]
             g == [h EXCEPT !.phase = "commit"]
             r == [h EXCEPT !.result = StatusOf(keys[h.req.key].outcome)]
  <1>1. t \in DOMAIN handlers /\ h.call = "release"
    BY DEF ReleaseLookup, At
  <1>2. h \in Handler /\ HandlerBacked(h)
    BY <1>1, Position
  <1>3. h.op = "resume"
    BY <1>1, <1>2, HandlerFields DEF HandlerBacked, StartBacked, Judged
  <1>4. \A q : SameIntake(q)
    BY DEF SameIntake, ReleaseLookup
  <1>5. CASE Refuse(t)
    BY <1>4, <1>5, QuietRefusalIntake DEF ReleaseLookup
  <1>6. CASE Answer(t, r)
    <2>1. PICK k : k = r
      OBVIOUS
    <2>2. k.payment = h.payment /\ k.op = "resume"
      BY <1>2, <1>3, <2>1 DEF Handler
    <2>3. Sent(k).payment = k.payment /\ Sent(k).op = "resume"
      BY <1>2, <2>1, <2>2 DEF Sent, Handler
    <2>4. \/ handlers' = Drop(handlers, t)
          \/ handlers' = Put(handlers, t, Sent(k))
      BY <1>6, <2>1 DEF Answer, Sent
    <2>5. OnlyMoves(t) /\ (t \in DOMAIN handlers' => ~Starting(handlers'[t]))
      BY <1>1, <2>2, <2>3, <2>4 DEF OnlyMoves, Moved, Put, Drop, Starting
    <2>6. QED
      BY <1>4, <2>5, IntakeQuiet DEF ReleaseLookup
  <1>7. CASE handlers' = [handlers EXCEPT ![t].phase = "commit"]
    <2>1. handlers' = [handlers EXCEPT ![t] = g]
      BY <1>1, <1>2, <1>7 DEF Handler
    <2>2. g.payment = h.payment /\ g.op = "resume"
      BY <1>2, <1>3 DEF Handler
    <2>3. QED
      BY <1>1, <2>1, <2>2, IntakeMove DEF ReleaseLookup, Starting
  <1>8. QED
    BY <1>5, <1>6, <1>7 DEF ReleaseLookup

LEMMA ReleaseSubmitIntake ==
  ASSUME SagaInv, SagaInv', IntakeInv, NEW t \in Handlers, ReleaseSubmit(t)
  PROVE  StartsFresh' /\ StartsAlone' /\ WaitingRecorded'
  <1> DEFINE h == handlers[t]
  <1>1. t \in DOMAIN handlers /\ h.call = "release"
    BY DEF ReleaseSubmit, At
  <1>2. h \in Handler /\ HandlerBacked(h)
    BY <1>1, Position
  <1>3. h.op = "resume"
    BY <1>1, <1>2, HandlerFields DEF HandlerBacked, StartBacked, Judged
  <1>4. \A q : SameIntake(q)
    BY DEF SameIntake, ReleaseSubmit
  <1>5. PICK k : /\ k = [h EXCEPT !.result =
                          StatusOf(RailOutcome[<<h.payment, h.req.key>>])]
                 /\ Answer(t, k)
    BY DEF ReleaseSubmit
  <1>6. k.payment = h.payment /\ k.op = "resume"
    BY <1>2, <1>3, <1>5 DEF Handler
  <1>7. Sent(k).payment = k.payment /\ Sent(k).op = "resume"
    BY <1>2, <1>5, <1>6 DEF Sent, Handler
  <1>8. \/ handlers' = Drop(handlers, t)
        \/ handlers' = Put(handlers, t, Sent(k))
    BY <1>5 DEF Answer, Sent
  <1>9. OnlyMoves(t) /\ (t \in DOMAIN handlers' => ~Starting(handlers'[t]))
    BY <1>1, <1>6, <1>7, <1>8 DEF OnlyMoves, Moved, Put, Drop, Starting
  <1>10. QED
    BY <1>4, <1>9, IntakeQuiet DEF ReleaseSubmit

LEMMA PatchReadIntake ==
  ASSUME SagaInv, SagaInv', IntakeInv, NEW t \in Handlers, PatchRead(t)
  PROVE  StartsFresh' /\ StartsAlone' /\ WaitingRecorded'
  <1> DEFINE h == handlers[t]
             row == tasks[h.payment]
             g == [h EXCEPT !.base = row, !.phase = "commit"]
  <1>1. t \in DOMAIN handlers /\ h.call \in Patches /\ h.phase = "send"
    BY DEF PatchRead, At
  <1>2. h \in Handler /\ HandlerBacked(h) /\ (Starting(h) => Fresh(h))
    BY <1>1, IntakePosition
  <1>3. h.payment \in DOMAIN tasks
    BY <1>1, <1>2, HandlerFields
    DEF HandlerBacked, StartBacked, ResumeBacked, Judged, Patches
  <1>4. CASE Refuse(t)
    BY <1>4, QuietRefusalIntake DEF PatchRead
  <1>5. CASE handlers' = [handlers EXCEPT ![t].phase = "commit", ![t].base = row]
    <2>1. handlers' = [handlers EXCEPT ![t] = g]
      BY <1>1, <1>2, <1>5 DEF Handler
    <2>2. /\ g.op = h.op /\ g.call = h.call /\ g.payment = h.payment
          /\ g.result = h.result /\ g.phase = "commit" /\ g.base = row
      BY <1>2 DEF Handler
    <2>3. Starting(g) => Starting(h) /\ Fresh(g)
      BY <1>1, <1>2, <1>3, <2>2 DEF Starting, Fresh, StatusAtStart, Writing
    <2>4. QED
      BY <1>1, <2>1, <2>2, <2>3, IntakeMove DEF PatchRead
  <1>6. QED
    BY <1>4, <1>5 DEF PatchRead

\* The dispatch run and a handler that is given up change no position.
LEMMA AsideFresh ==
  ASSUME NEW h \in Handler,
         NEW g, \/ g = [h EXCEPT !.awaited = FALSE]
                \/ \E claimed : /\ h.phase = "claim"
                                /\ g = [h EXCEPT !.phase = "project", !.claimed = claimed]
  PROVE  /\ g.payment = h.payment
         /\ Starting(g) => Starting(h) /\ (Fresh(h) => Fresh(g))
  <1>1. /\ g.op = h.op /\ g.call = h.call /\ g.payment = h.payment
        /\ g.result = h.result /\ g.base = h.base
        /\ g.phase = h.phase \/ (h.phase = "claim" /\ g.phase = "project")
    BY DEF Handler
  <1>2. QED
    BY <1>1 DEF Starting, Fresh, StatusAtStart, Writing

LEMMA ClaimIntake ==
  ASSUME SagaInv, SagaInv', IntakeInv, NEW t \in Handlers, Claim(t)
  PROVE  StartsFresh' /\ StartsAlone' /\ WaitingRecorded'
  <1> DEFINE h == handlers[t]
             claimed == DOMAIN tasks \ (DOMAIN records \cup
                          UNION {handlers[u].claimed : u \in DOMAIN handlers})
             g == [h EXCEPT !.phase = "project", !.claimed = claimed]
  <1>1. t \in DOMAIN handlers /\ h.phase = "claim"
    BY DEF Claim
  <1>2. h \in Handler /\ (Starting(h) => Fresh(h))
    BY <1>1, IntakePosition
  <1>3. handlers' = [handlers EXCEPT ![t] = g]
    BY <1>1, <1>2 DEF Claim, Handler
  <1>4. g.payment = h.payment /\ (Starting(g) => Starting(h) /\ Fresh(g))
    <2>1. \E c : h.phase = "claim" /\ g = [h EXCEPT !.phase = "project", !.claimed = c]
      BY <1>1
    <2>2. QED
      BY <1>2, <2>1, AsideFresh
  <1>5. QED
    BY <1>1, <1>3, <1>4, IntakeMove DEF Claim

LEMMA AbandonIntake ==
  ASSUME SagaInv, SagaInv', IntakeInv, NEW t \in Handlers, Abandon(t)
  PROVE  StartsFresh' /\ StartsAlone' /\ WaitingRecorded'
  <1> DEFINE h == handlers[t]
             g == [h EXCEPT !.awaited = FALSE]
  <1>1. t \in DOMAIN handlers
    BY DEF Abandon
  <1>2. h \in Handler /\ (Starting(h) => Fresh(h))
    BY <1>1, IntakePosition
  <1>3. handlers' = [handlers EXCEPT ![t] = g]
    BY <1>1, <1>2 DEF Abandon, Handler
  <1>4. g.payment = h.payment /\ (Starting(g) => Starting(h) /\ Fresh(g))
    BY <1>2, AsideFresh
  <1>5. QED
    BY <1>1, <1>3, <1>4, IntakeMove DEF Abandon

LEMMA ProjectIntake ==
  ASSUME SagaInv, SagaInv', IntakeInv, NEW t \in Handlers, Project(t)
  PROVE  StartsFresh' /\ StartsAlone' /\ WaitingRecorded'
  <1>1. PICK h : h = handlers[t]
    OBVIOUS
  <1>2. t \in DOMAIN handlers /\ h.phase = "project" /\ Answer(t, h)
    BY <1>1 DEF Project
  <1>3. h \in Handler /\ HandlerBacked(h) /\ (Starting(h) => Fresh(h))
    BY <1>1, <1>2, IntakePosition
  <1>4. h.call # "request_approval"
    BY <1>2, <1>3 DEF HandlerBacked, Patches
  <1>5. \A q : SameIntake(q)
    BY DEF SameIntake, Project
  <1>6. HandlerBacked(h)'
    <2>1. Grows
      BY DEF Grows, Project
    <2>2. QED
      BY <1>3, <2>1, PositionStays
  <1>7. h.op = "start" /\ Following(h) # Done => Fresh(h)'
    <2>1. Fresh(h) => Fresh(h)'
      BY <1>5, FreshStays
    <2>2. QED
      BY <1>3, <2>1, StillStarting
  <1>8. /\ OnlyMoves(t)
        /\ t \in DOMAIN handlers' /\ Starting(handlers'[t]) => Fresh(handlers[t])'
    BY <1>1, <1>2, <1>3, <1>4, <1>6, <1>7, IntakeAnswer
  <1>9. QED
    BY <1>5, <1>8, IntakeQuiet DEF Project

LEMMA GatewayRestartIntake ==
  ASSUME SagaInv, SagaInv', IntakeInv, GatewayRestart
  PROVE  StartsFresh' /\ StartsAlone' /\ WaitingRecorded'
  <1>1. \A q : SameIntake(q)
    BY DEF GatewayRestart, SameIntake
  <1>2. /\ DOMAIN handlers' \subseteq DOMAIN handlers
        /\ \A u \in DOMAIN handlers' : handlers'[u] = handlers[u]
    BY DEF GatewayRestart
  <1>3. OnlyMoves(0)
    BY <1>2 DEF OnlyMoves, Moved
  <1>4. 0 \in DOMAIN handlers' /\ Starting(handlers'[0]) => Fresh(handlers[0])'
    <2>1. PICK k : k = handlers[0]
      OBVIOUS
    <2>2. 0 \in DOMAIN handlers' => handlers'[0] = k
      BY <1>2, <2>1
    <2>3. 0 \in DOMAIN handlers' /\ Starting(k) => Fresh(k)
      BY <1>2, <2>1 DEF IntakeInv, StartsFresh
    <2>4. Fresh(k) => Fresh(k)'
      BY <1>1, FreshStays
    <2>5. QED
      BY <2>2, <2>3, <2>4
  <1>5. QED
    BY <1>1, <1>3, <1>4, IntakeQuiet DEF GatewayRestart
-----------------------------------------------------------------------------
\* The steps that change what an intake looks at, all of one payment.
LEMMA CreateTaskIntake ==
  ASSUME SagaInv, SagaInv', IntakeInv, NEW t \in Handlers, CreateTask(t)
  PROVE  StartsFresh' /\ StartsAlone' /\ WaitingRecorded'
  <1>1. PICK h : h = handlers[t]
    OBVIOUS
  <1>2. PICK g : g = [h EXCEPT !.phase = "claim"]
    OBVIOUS
  <1>3. t \in DOMAIN handlers /\ h.call = "create" /\ h.phase = "send"
    BY <1>1 DEF CreateTask, At
  <1>4. h \in Handler /\ HandlerBacked(h)
    BY <1>1, <1>3, Position
  <1>5. h.op = "start" /\ Starting(h)
    BY <1>3, <1>4, HandlerFields
    DEF HandlerBacked, ResumeBacked, Checked, Endorsed, Starting
  <1>6. /\ UNCHANGED records
        /\ DOMAIN tasks' = DOMAIN tasks \cup {h.payment}
        /\ tasks'[h.payment] = NewRow
        /\ \A p \in DOMAIN tasks : p # h.payment => tasks'[p] = tasks[p]
    BY <1>1 DEF CreateTask, Put
  <1>7. \A q : q = h.payment \/ SameIntake(q)
    BY <1>6 DEF SameIntake
  <1>8. Moved(t) /\ (t \in DOMAIN handlers' => handlers'[t] = g)
    BY <1>1, <1>2, <1>3, <1>4, CommittedMoves DEF CreateTask
  <1>9. g.op = "start" /\ g.call = "create" /\ g.phase = "claim" /\ g.payment = h.payment
    BY <1>2, <1>3, <1>4, <1>5 DEF Handler
  <1>10. Fresh(g)'
    BY <1>6, <1>9 DEF Fresh, Status, StatusAtStart, Writing, NewRow, Patches
  <1>11. OnlyMoves(t) /\ (t \in DOMAIN handlers' => Fresh(handlers[t])')
    BY <1>1, <1>5, <1>8, <1>9, <1>10 DEF OnlyMoves
  <1>12. StartsFresh' /\ StartsAlone'
    BY <1>1, <1>3, <1>7, <1>11, IntakeStays DEF IntakeInv
  <1>13. WaitingRecorded'
    BY <1>6, <1>7, ReadyChanges DEF NewRow
  <1>14. QED
    BY <1>12, <1>13

LEMMA PatchCommitIntake ==
  ASSUME SagaInv, SagaInv', IntakeInv, NEW t \in Handlers, PatchCommit(t)
  PROVE  StartsFresh' /\ StartsAlone' /\ WaitingRecorded'
  <1>1. PICK h : h = handlers[t]
    OBVIOUS
  <1>2. PICK g : g = [h EXCEPT !.phase = "claim"]
    OBVIOUS
  <1>3. PICK p : p = h.payment
    OBVIOUS
  <1>4. t \in DOMAIN handlers /\ h.call \in Patches /\ h.phase = "commit"
    BY <1>1 DEF PatchCommit, At
  <1>5. h \in Handler /\ HandlerBacked(h) /\ (Starting(h) => Fresh(h))
    BY <1>1, <1>4, IntakePosition
  <1>6. p \in DOMAIN tasks
    BY <1>3, <1>4, <1>5, HandlerFields
    DEF HandlerBacked, StartBacked, ResumeBacked, Judged, Patches
  <1>7. Patch(h) \in Row /\ tasks[p] \in Row /\ h.base \in Row
    BY <1>3, <1>4, <1>5, <1>6, PatchBacked, RowOfTask, HandlerFields
  <1>8. /\ UNCHANGED records
        /\ tasks' = [tasks EXCEPT ![p] =
                       [c \in DOMAIN tasks[p] |->
                          IF Patch(h)[c] # h.base[c] THEN Patch(h)[c] ELSE tasks[p][c]]]
    BY <1>1, <1>3 DEF PatchCommit
  <1>9. \A q : q = h.payment \/ SameIntake(q)
    BY <1>3, <1>8 DEF SameIntake
  <1>10. Moved(t) /\ (t \in DOMAIN handlers' => handlers'[t] = g)
    BY <1>1, <1>2, <1>4, <1>5, CommittedMoves DEF PatchCommit
  <1>11. /\ g.op = h.op /\ g.call = h.call /\ g.phase = "claim" /\ g.payment = p
         /\ g.result = h.result
    BY <1>2, <1>3, <1>4, <1>5 DEF Handler
  <1>12. /\ p \in DOMAIN tasks'
         /\ tasks'[p].status \in {h.call, tasks[p].status}
         /\ tasks'[p].beneficiary = IF Patch(h).beneficiary # h.base.beneficiary
                                    THEN Patch(h).beneficiary ELSE tasks[p].beneficiary
    BY <1>6, <1>7, <1>8 DEF Row, Patch
  <1>13. CASE h.op = "start"
    <2>1. Starting(h) /\ Fresh(h) /\ h.base = tasks[p]
      BY <1>3, <1>4, <1>5, <1>13 DEF Starting, Writing, Fresh
    <2>2. h.call \in {"validated", "awaiting_approval", "exception", "failed"}
      BY <1>4, <1>5, <1>13 DEF HandlerBacked, StartBacked, Judged, Patches
    <2>3. tasks'[p].status = h.call /\ tasks'[p].beneficiary = Beneficiary(h.result)
      BY <1>6, <1>7, <1>8, <1>13, <2>1 DEF Row, Patch
    <2>4. Starting(g) => Fresh(g)'
      <3>1. Starting(g) => h.call = "validated"
        BY <1>11, <2>2 DEF Starting, Writing
      <3>2. h.call = "validated" => Fresh(g)'
        BY <1>11, <1>12, <2>1, <2>3 DEF Fresh, Status, StatusAtStart, Writing
      <3>3. QED
        BY <3>1, <3>2
    <2>5. OnlyMoves(t) /\ (t \in DOMAIN handlers' /\ Starting(handlers'[t]) =>
                             Fresh(handlers[t])')
      BY <1>1, <1>3, <1>10, <1>11, <2>1, <2>4 DEF OnlyMoves
    <2>6. StartsFresh' /\ StartsAlone'
      BY <1>1, <1>4, <1>9, <2>5, IntakeStays DEF IntakeInv
    <2>7. tasks'[p].status = "awaiting_approval" =>
            /\ p \in DOMAIN records' /\ records'[p].approval = "pending"
            /\ tasks'[p].beneficiary = "approved"
      BY <1>3, <1>8, <2>1, <2>3 DEF Fresh, Beneficiary
    <2>8. WaitingRecorded'
      BY <1>3, <1>9, <2>7, ReadyChanges
    <2>9. QED
      BY <2>6, <2>8
  <1>14. CASE h.op = "resume"
    <2>1. h.call # "awaiting_approval"
      BY <1>4, <1>5, <1>14 DEF HandlerBacked, ResumeBacked, Checked, Endorsed
    <2>2. tasks'[p].beneficiary = "approved"
      BY <1>1, <1>3, <1>4, <1>12, <1>14 DEF Patch, IntakeInv, ResumesApproved
    <2>3. tasks'[p].status = "awaiting_approval" =>
            /\ p \in DOMAIN records' /\ records'[p].approval \in {"pending", "completed"}
            /\ tasks'[p].beneficiary = "approved"
      BY <1>6, <1>8, <1>12, <2>1, <2>2 DEF IntakeInv, WaitingRecorded
    <2>4. WaitingRecorded'
      BY <1>3, <1>9, <2>3, ReadyChanges
    <2>5. OnlyMoves(t) /\ (t \in DOMAIN handlers' => ~Starting(handlers'[t]))
      BY <1>1, <1>3, <1>10, <1>11, <1>14 DEF OnlyMoves, Starting
    <2>6. StartsFresh' /\ StartsAlone'
      BY <1>1, <1>4, <1>9, <2>5, IntakeStays DEF IntakeInv
    <2>7. QED
      BY <2>4, <2>6
  <1>15. QED
    BY <1>5, <1>13, <1>14, HandlerFields

LEMMA WriteRecordIntake ==
  ASSUME SagaInv, SagaInv', IntakeInv, NEW t \in Handlers, WriteRecord(t)
  PROVE  StartsFresh' /\ StartsAlone' /\ WaitingRecorded'
  <1>1. PICK h : h = handlers[t]
    OBVIOUS
  <1>2. PICK p : p = h.payment
    OBVIOUS
  <1>3. /\ t \in DOMAIN handlers /\ h.phase = "send"
        /\ h.call \in DelegationCalls \cup ArtifactCalls /\ UNCHANGED tasks
    BY <1>1 DEF WriteRecord, At
  <1>4. h \in Handler /\ HandlerBacked(h) /\ (Starting(h) => Fresh(h))
    BY <1>1, <1>3, IntakePosition
  <1>5. CASE Refuse(t) /\ UNCHANGED records
    BY <1>3, <1>5, QuietRefusalIntake
  <1>6. CASE /\ p \in DOMAIN records
             /\ records' = [records EXCEPT ![p] = Written(@, h)]
             /\ Answer(t, h)
    <2>1. records[p] \in Records
      BY <1>6, DictValue DEF SagaInv, TypeOK
    <2>2. /\ records'[p] = Written(records[p], h) /\ DOMAIN records' = DOMAIN records
          /\ \A q \in DOMAIN records : q # p => records'[q] = records[q]
      BY <1>6
    <2>3. \A q : q = p \/ SameIntake(q)
      BY <1>3, <2>2 DEF SameIntake
    <2>4. HandlerBacked(h)'
      <3>1. records[p].artifacts \subseteq records'[p].artifacts
        BY <1>3, <1>4, <2>1, <2>2, WrittenFacts
      <3>2. Grows
        BY <2>2, <3>1 DEF Grows, WriteRecord
      <3>3. QED
        BY <1>4, <3>2, PositionStays
    <2>5. /\ h.call \in {"queue_approval", "request_approval"} =>
               records'[p].approval \in {"queued", "pending"}
          /\ h.call = "request_approval" => records'[p].approval = "pending"
          /\ h.call = "complete_approval" => records'[p].approval = "completed"
          /\ h.call \notin {"queue_approval", "request_approval", "complete_approval"} =>
               records'[p].approval = records[p].approval
      BY <1>3, <2>1, <2>2 DEF Written, Records, DelegationCalls, ArtifactCalls
    <2>6. h.call \in {"queue_approval", "request_approval"} => Starting(h)
      BY <1>4, HandlerFields DEF HandlerBacked, ResumeBacked, Checked, Endorsed, Starting
    <2>7. h.op = "start" /\ Following(h) # Done => Fresh(h)'
      <3>1. SUFFICES ASSUME h.op = "start", Following(h) # Done
                     PROVE  Fresh(h)'
        OBVIOUS
      <3>2. Fresh(h)
        BY <1>4, <3>1, StillStarting
      <3>3. Status(h.payment)' = Status(h.payment)
        BY <1>3 DEF Status
      <3>4. h.call \notin Patches
        BY <1>3 DEF DelegationCalls, ArtifactCalls, Patches
      <3>5. h.call \in {"record_request", "awaiting_approval"} =>
              records'[p].approval = "pending"
        BY <1>2, <2>5, <3>2 DEF Fresh
      <3>6. QED
        BY <1>2, <1>6, <2>2, <3>2, <3>3, <3>4, <3>5 DEF Fresh
    <2>8. h.call \notin Patches \cup {"create"}
      BY <1>3 DEF DelegationCalls, ArtifactCalls, Patches
    <2>9. /\ OnlyMoves(t)
          /\ t \in DOMAIN handlers' /\ Starting(handlers'[t]) => Fresh(handlers[t])'
      BY <1>1, <1>2, <1>3, <1>4, <1>6, <2>2, <2>4, <2>5, <2>7, <2>8, IntakeAnswer
    <2>10. StartsFresh' /\ StartsAlone'
      BY <1>1, <1>2, <1>3, <2>3, <2>9, IntakeStays DEF IntakeInv
    <2>11. p \in DOMAIN tasks' /\ tasks'[p].status = "awaiting_approval" =>
             /\ p \in DOMAIN records' /\ records'[p].approval \in {"pending", "completed"}
             /\ tasks'[p].beneficiary = "approved"
      <3>1. SUFFICES ASSUME p \in DOMAIN tasks, tasks[p].status = "awaiting_approval"
                     PROVE  /\ records'[p].approval \in {"pending", "completed"}
                            /\ tasks[p].beneficiary = "approved"
        BY <1>3, <1>6, <2>2
      <3>2. /\ records[p].approval \in {"pending", "completed"}
            /\ tasks[p].beneficiary = "approved"
        BY <3>1 DEF IntakeInv, WaitingRecorded
      <3>3. ~(Starting(h) /\ h.call \in {"queue_approval", "request_approval"})
        BY <1>2, <1>4, <3>1 DEF Fresh, Status, StatusAtStart
      <3>4. QED
        BY <2>5, <2>6, <3>2, <3>3
    <2>12. WaitingRecorded'
      BY <2>3, <2>11, ReadyChanges
    <2>13. QED
      BY <2>10, <2>12
  <1>7. QED
    BY <1>1, <1>2, <1>5, <1>6 DEF WriteRecord
-----------------------------------------------------------------------------
\* Only what was ordered is approved.
LEMMA SpentStep == SagaInv /\ SpentIsOrdered /\ [Next]_vars => SpentIsOrdered'
  <1> SUFFICES ASSUME SagaInv, SpentIsOrdered, [Next]_vars
               PROVE  SpentIsOrdered'
    OBVIOUS
  <1>1. DOMAIN orders \subseteq DOMAIN orders'
    BY DEF Next, vars, BeginStart, BeginResume, Serve, Abandon, Lost, GatewayRestart,
           Instruct, CreateTask, Validate, PatchRead, PatchCommit, Claim, Project,
           WriteRecord, ReadRow, ReadRecords, ReleaseLookup, ReleaseSubmit, Put
  <1>2. CASE UNCHANGED records
    BY <1>1, <1>2 DEF SpentIsOrdered, ApprovalSpent
  <1>3. ASSUME NEW t \in Handlers, Project(t)
        PROVE  SpentIsOrdered'
    <2>1. \A p : ApprovalSpent(p)' <=> ApprovalSpent(p)
      BY <1>3 DEF ApprovalSpent, Project, NewRecords, Nothing
    <2>2. QED
      BY <1>1, <2>1 DEF SpentIsOrdered, ApprovalSpent
  <1>4. ASSUME NEW t \in Handlers, WriteRecord(t)
        PROVE  SpentIsOrdered'
    <2>1. t \in DOMAIN handlers
      BY <1>4 DEF WriteRecord, At
    <2>2. handlers[t].payment \in DOMAIN orders
      BY <2>1, Position DEF HandlerBacked
    <2>3. DOMAIN records' = DOMAIN records
          /\ \A p \in DOMAIN records : p # handlers[t].payment => records'[p] = records[p]
      BY <1>4 DEF WriteRecord
    <2>4. QED
      BY <1>1, <2>2, <2>3 DEF SpentIsOrdered, ApprovalSpent
  <1>5. QED
    BY <1>2, <1>3, <1>4
    DEF Next, vars, BeginStart, BeginResume, Serve, Abandon, Lost, GatewayRestart,
        Instruct, CreateTask, Validate, PatchRead, PatchCommit, Claim, ReadRow,
        ReadRecords, ReleaseLookup, ReleaseSubmit
-----------------------------------------------------------------------------
\* An intake begins with a payment nobody has named, a resume with one that waits.
LEMMA IntakeBegins ==
  ASSUME SagaInv, SagaInv', IntakeInv, UNCHANGED <<tasks, records>>,
         NEW t, NEW g, t \notin DOMAIN handlers, handlers' = Put(handlers, t, g),
         Starting(g) => Fresh(g),
         \A u \in DOMAIN handlers :
           handlers[u].payment = g.payment => ~Starting(g) /\ ~Starting(handlers[u])
  PROVE  StartsFresh' /\ StartsAlone' /\ WaitingRecorded'
  <1>1. \A q : SameIntake(q)
    BY DEF SameIntake
  <1>2. /\ DOMAIN handlers' = DOMAIN handlers \cup {t} /\ handlers'[t] = g
        /\ \A u \in DOMAIN handlers : handlers'[u] = handlers[u]
    BY DEF Put
  <1>3. StartsAlone'
    <2>1. ASSUME NEW u \in DOMAIN handlers', NEW v \in DOMAIN handlers', u # v,
                 handlers'[u].payment = handlers'[v].payment
          PROVE  ~Starting(handlers'[u])
      BY <1>2, <2>1 DEF IntakeInv, StartsAlone
    <2>2. QED
      BY <2>1 DEF StartsAlone, Starting, Writing
  <1>4. StartsFresh'
    <2>1. ASSUME NEW u \in DOMAIN handlers', Starting(handlers'[u])
          PROVE  Fresh(handlers[u])'
      <3>1. PICK k : k = handlers'[u]
        OBVIOUS
      <3>2. Fresh(k)
        BY <1>2, <2>1, <3>1 DEF IntakeInv, StartsFresh
      <3>3. Fresh(k)'
        BY <1>1, <3>2, FreshStays
      <3>4. QED
        BY <3>1, <3>3
    <2>2. QED
      BY <2>1 DEF StartsFresh, Starting, Writing
  <1>5. QED
    BY <1>1, <1>3, <1>4, ReadyStays

LEMMA BeginStartIntake ==
  ASSUME SagaInv, SagaInv', IntakeInv, NEW t \in Handlers, NEW p \in Payments,
         NEW order \in Orders, BeginStart(t, p, order)
  PROVE  StartsFresh' /\ StartsAlone' /\ WaitingRecorded'
  <1>1. PICK g : g = NewHandler("start", p, order, "instruct", NewRow)
    OBVIOUS
  <1>2. /\ t \notin DOMAIN handlers /\ handlers' = Put(handlers, t, g)
        /\ p \notin DOMAIN orders /\ UNCHANGED <<tasks, records>>
    BY <1>1 DEF BeginStart, MayBegin
  <1>3. p \notin DOMAIN tasks
    BY <1>2 DEF SagaInv, TasksBacked
  <1>4. \A u \in DOMAIN handlers : handlers[u].payment # p
    BY <1>2, Position DEF HandlerBacked
  <1>5. g.call = "instruct" /\ g.payment = p
    BY <1>1 DEF NewHandler
  <1>6. Fresh(g)
    BY <1>3, <1>5 DEF Fresh, Status, StatusAtStart, Patches
  <1>7. QED
    BY <1>2, <1>4, <1>5, <1>6, IntakeBegins

LEMMA BeginResumeIntake ==
  ASSUME SagaInv, SagaInv', IntakeInv, NEW t \in Handlers, NEW p \in Payments,
         NEW req \in Approvals, BeginResume(t, p, req)
  PROVE  StartsFresh' /\ StartsAlone' /\ WaitingRecorded'
  <1>1. PICK g : g = NewHandler("resume", p, req, "record_decision", tasks[p])
    OBVIOUS
  <1>2. /\ t \notin DOMAIN handlers /\ handlers' = Put(handlers, t, g)
        /\ p \in DOMAIN tasks /\ UNCHANGED <<tasks, records>>
    BY <1>1 DEF BeginResume, MayBegin
  <1>3. Status(p) = "awaiting_approval"
    <2>1. ReleaseDecision(orders[p], tasks[p], req) = "allow"
      BY DEF BeginResume
    <2>2. tasks[p].status = "awaiting_approval"
      BY <2>1 DEF ReleaseDecision, Refusal
    <2>3. QED
      BY <1>2, <2>2 DEF Status
  <1>4. ~Starting(g) /\ g.payment = p
    BY <1>1 DEF NewHandler, Starting
  <1>5. ASSUME NEW u \in DOMAIN handlers, handlers[u].payment = p
        PROVE  ~Starting(handlers[u])
    <2>1. StatusAtStart(handlers[u]) # "awaiting_approval"
      BY DEF StatusAtStart, Nothing
    <2>2. QED
      BY <1>3, <1>5, <2>1 DEF IntakeInv, StartsFresh, Fresh
  <1>6. QED
    BY <1>2, <1>4, <1>5, IntakeBegins
-----------------------------------------------------------------------------
(***************************************************************************)
(* What a served call makes of its own handler, and what it leaves of the  *)
(* task another handler works on.                                          *)
(***************************************************************************)
Course(t) ==
  /\ t \in DOMAIN handlers /\ Moved(t)
  /\ t \in DOMAIN handlers' =>
       LET h == handlers[t]
           g == handlers'[t]
       IN /\ g.op = h.op /\ g.payment = h.payment /\ g.awaited = h.awaited
          /\ g.row \in {h.row, tasks[h.payment]}
          /\ \/ g.phase = "send" /\ g.claimed = {}
             \/ /\ g.phase = "commit" /\ h.phase = "send" /\ g.call = h.call
                /\ g.claimed = h.claimed
                /\ h.call \in Patches => g.base = tasks[h.payment]
             \/ /\ g.phase = "claim" /\ h.phase \in {"send", "commit"} /\ g.call = h.call
                /\ g.claimed = h.claimed
             \/ g.phase = "project" /\ Claim(t)

LEMMA AnswerCourse ==
  ASSUME NEW t \in DOMAIN handlers, NEW h \in Handler, h = handlers[t], NEW k, Answer(t, k),
         \/ k = h
         \/ k = [h EXCEPT !.row = tasks[h.payment]]
         \/ \E x : k = [h EXCEPT !.result = x]
  PROVE  Course(t)
  <1>1. PICK g : g = [k EXCEPT !.call = Following(k), !.phase = "send", !.claimed = {}]
    OBVIOUS
  <1>2. /\ g.op = h.op /\ g.payment = h.payment /\ g.awaited = h.awaited
        /\ g.row \in {h.row, tasks[h.payment]} /\ g.phase = "send" /\ g.claimed = {}
    BY <1>1 DEF Handler
  <1>3. handlers' = Put(handlers, t, g) \/ handlers' = Drop(handlers, t)
    BY <1>1 DEF Answer
  <1>4. QED
    BY <1>2, <1>3 DEF Course, Moved, Put, Drop

LEMMA RefuseCourse ==
  ASSUME NEW t \in DOMAIN handlers, Refuse(t)
  PROVE  Course(t)
  BY DEF Course, Moved, Refuse, Drop

LEMMA CommittedCourse ==
  ASSUME NEW t \in DOMAIN handlers, NEW h \in Handler, h = handlers[t],
         h.phase \in {"send", "commit"}, Committed(t)
  PROVE  Course(t)
  <1>1. CASE Refuse(t)
    BY <1>1, RefuseCourse
  <1>2. CASE handlers' = [handlers EXCEPT ![t].phase = "claim"]
    <2>1. PICK g : g = [h EXCEPT !.phase = "claim"]
      OBVIOUS
    <2>2. /\ g.op = h.op /\ g.payment = h.payment /\ g.awaited = h.awaited
          /\ g.row = h.row /\ g.phase = "claim" /\ g.call = h.call /\ g.claimed = h.claimed
      BY <2>1 DEF Handler
    <2>3. /\ DOMAIN handlers' = DOMAIN handlers /\ handlers'[t] = g
          /\ \A u \in DOMAIN handlers : u # t => handlers'[u] = handlers[u]
      BY <1>2, <2>1
    <2>4. QED
      BY <2>2, <2>3 DEF Course, Moved
  <1>3. QED
    BY <1>1, <1>2 DEF Committed

LEMMA ServeCourse ==
  ASSUME SagaInv, NEW t \in Handlers, Serve(t)
  PROVE  Course(t)
  <1> DEFINE h == handlers[t]
  <1>1. t \in DOMAIN handlers
    BY DEF Serve, Instruct, CreateTask, Validate, PatchRead, PatchCommit, Claim, Project,
           WriteRecord, ReadRow, ReadRecords, ReleaseLookup, ReleaseSubmit, At
  <1>2. h \in Handler
    BY <1>1, Position
  <1>3. CASE Refuse(t) \/ Answer(t, h)
    BY <1>1, <1>2, <1>3, AnswerCourse, RefuseCourse
  <1>4. ASSUME NEW x, Answer(t, [h EXCEPT !.result = x])
        PROVE  Course(t)
    BY <1>1, <1>2, <1>4, AnswerCourse
  <1>5. CASE ReadRow(t)
    BY <1>1, <1>2, <1>5, AnswerCourse DEF ReadRow
  <1>6. CASE CreateTask(t) \/ PatchCommit(t)
    BY <1>1, <1>2, <1>6, CommittedCourse DEF CreateTask, PatchCommit, At
  <1>7. CASE PatchRead(t) /\ ~Refuse(t)
    <2>1. PICK g : g = [h EXCEPT !.base = tasks[h.payment], !.phase = "commit"]
      OBVIOUS
    <2>2. /\ g.op = h.op /\ g.payment = h.payment /\ g.awaited = h.awaited
          /\ g.row = h.row /\ g.phase = "commit" /\ g.call = h.call /\ g.claimed = h.claimed
          /\ g.base = tasks[h.payment]
      BY <1>2, <2>1 DEF Handler
    <2>3. h.phase = "send"
      BY <1>7 DEF PatchRead, At
    <2>4. handlers' = [handlers EXCEPT ![t].phase = "commit",
                                       ![t].base = tasks[h.payment]]
      BY <1>7 DEF PatchRead
    <2>5. handlers' = [handlers EXCEPT ![t] = g]
      BY <1>1, <1>2, <2>1, <2>4 DEF Handler
    <2>6. QED
      BY <1>1, <2>2, <2>3, <2>5 DEF Course, Moved
  <1>8. CASE Claim(t)
    <2>1. PICK c : handlers' = [handlers EXCEPT ![t].phase = "project", ![t].claimed = c]
      BY <1>8 DEF Claim
    <2>2. PICK g : g = [h EXCEPT !.phase = "project", !.claimed = c]
      OBVIOUS
    <2>3. /\ g.op = h.op /\ g.payment = h.payment /\ g.awaited = h.awaited
          /\ g.row = h.row /\ g.phase = "project"
      BY <1>2, <2>2 DEF Handler
    <2>4. handlers' = [handlers EXCEPT ![t] = g]
      BY <1>1, <1>2, <2>1, <2>2 DEF Handler
    <2>5. QED
      BY <1>1, <1>8, <2>3, <2>4 DEF Course, Moved
  <1>9. CASE ReleaseLookup(t) /\ handlers' = [handlers EXCEPT ![t].phase = "commit"]
    <2>1. PICK g : g = [h EXCEPT !.phase = "commit"]
      OBVIOUS
    <2>2. /\ g.op = h.op /\ g.payment = h.payment /\ g.awaited = h.awaited
          /\ g.row = h.row /\ g.phase = "commit" /\ g.call = h.call /\ g.claimed = h.claimed
      BY <1>2, <2>1 DEF Handler
    <2>3. h.phase = "send" /\ h.call \notin Patches
      BY <1>9 DEF ReleaseLookup, At, Patches
    <2>4. handlers' = [handlers EXCEPT ![t] = g]
      BY <1>1, <1>2, <1>9, <2>1 DEF Handler
    <2>5. QED
      BY <1>1, <2>2, <2>3, <2>4 DEF Course, Moved
  <1>10. QED
    <2>1. CASE Validate(t) \/ ReleaseLookup(t) \/ ReleaseSubmit(t)
      BY <1>3, <1>4, <1>9, <2>1 DEF Validate, ReleaseLookup, ReleaseSubmit
    <2>2. CASE Instruct(t) \/ Project(t) \/ WriteRecord(t) \/ ReadRecords(t)
      BY <1>3, <2>2 DEF Instruct, Project, WriteRecord, ReadRecords
    <2>3. QED
      BY <1>3, <1>5, <1>6, <1>7, <1>8, <2>1, <2>2 DEF Serve

\* The task of a resume: no step makes it wait again, or takes its beneficiary back.
LEMMA ResumedTask ==
  ASSUME SagaInv, IntakeInv, NEW t \in Handlers, Serve(t),
         NEW u \in DOMAIN handlers, handlers[u].op = "resume",
         NEW p, p = handlers[u].payment
  PROVE  /\ p \in DOMAIN tasks /\ p \in DOMAIN tasks'
         /\ tasks'[p].beneficiary = "approved"
         /\ tasks'[p].status = "awaiting_approval" => tasks[p].status = "awaiting_approval"
  <1>1. p \in DOMAIN tasks /\ tasks[p].beneficiary = "approved"
    BY DEF IntakeInv, ResumesApproved
  <1>2. PICK h : h = handlers[t]
    OBVIOUS
  <1>3. t \in DOMAIN handlers => h \in Handler /\ HandlerBacked(h)
    BY <1>2, Position
  <1>4. CASE CreateTask(t)
    <2>1. t \in DOMAIN handlers /\ h.call = "create" /\ h.phase = "send"
      BY <1>2, <1>4 DEF CreateTask, At
    <2>2. h.op = "start" /\ Starting(h)
      BY <1>3, <2>1, HandlerFields
      DEF HandlerBacked, ResumeBacked, Checked, Endorsed, Starting
    <2>3. h.payment # p
      BY <1>2, <2>1, <2>2 DEF IntakeInv, StartsAlone
    <2>4. p \in DOMAIN tasks' /\ tasks'[p] = tasks[p]
      BY <1>1, <1>2, <1>4, <2>3 DEF CreateTask, Put
    <2>5. QED
      BY <1>1, <2>4
  <1>5. CASE PatchCommit(t)
    <2>1. t \in DOMAIN handlers /\ h.call \in Patches /\ h.phase = "commit"
      BY <1>2, <1>5 DEF PatchCommit, At
    <2>2. tasks' = [tasks EXCEPT ![h.payment] =
                      [c \in DOMAIN tasks[h.payment] |->
                         IF Patch(h)[c] # h.base[c] THEN Patch(h)[c]
                                                    ELSE tasks[h.payment][c]]]
      BY <1>2, <1>5 DEF PatchCommit
    <2>3. CASE h.payment # p
      BY <1>1, <2>2, <2>3
    <2>4. CASE h.payment = p
      <3>1. ~Starting(h)
        BY <1>2, <2>1, <2>4 DEF IntakeInv, StartsAlone, Starting
      <3>2. h.op = "resume"
        BY <1>3, <2>1, <3>1, HandlerFields DEF Starting, Writing
      <3>3. h.call # "awaiting_approval" /\ h.row.beneficiary = "approved"
        BY <1>2, <1>3, <2>1, <3>2
        DEF HandlerBacked, ResumeBacked, Checked, Endorsed, IntakeInv, ResumesApproved
      <3>4. tasks[p] \in Row
        BY <1>1, RowOfTask
      <3>5. Patch(h).status = h.call /\ Patch(h).beneficiary = "approved"
        BY <3>2, <3>3 DEF Patch
      <3>6. /\ tasks'[p].status \in {h.call, tasks[p].status}
            /\ tasks'[p].beneficiary = "approved"
        BY <1>1, <2>2, <2>4, <3>4, <3>5 DEF Row
      <3>7. QED
        BY <1>1, <2>2, <3>3, <3>6
    <2>5. QED
      BY <2>3, <2>4
  <1>6. CASE UNCHANGED tasks
    BY <1>1, <1>6
  <1>7. QED
    BY <1>4, <1>5, <1>6
    DEF Serve, Instruct, Validate, PatchRead, Claim, Project, WriteRecord, ReadRow,
        ReadRecords, ReleaseLookup, ReleaseSubmit

-----------------------------------------------------------------------------
\* A resume keeps its beneficiary, and the first commit of an approval is the last.
LEMMA ResumesServe ==
  ASSUME SagaInv, IntakeInv, NEW t \in Handlers, Serve(t)
  PROVE  ResumesApproved' /\ ApprovalsLast'
  <1>1. Course(t)
    BY ServeCourse
  <1>2. ASSUME NEW u \in DOMAIN handlers', handlers'[u].op = "resume"
        PROVE  /\ u \in DOMAIN handlers /\ handlers[u].op = "resume"
               /\ handlers'[u].payment = handlers[u].payment
               /\ handlers'[u].row \in {handlers[u].row, tasks[handlers[u].payment]}
    BY <1>1, <1>2 DEF Course, Moved
  <1>3. ResumesApproved'
    <2>1. ASSUME NEW u \in DOMAIN handlers', handlers'[u].op = "resume"
          PROVE  /\ handlers'[u].row.beneficiary = "approved"
                 /\ handlers'[u].payment \in DOMAIN tasks'
                 /\ tasks'[handlers'[u].payment].beneficiary = "approved"
      BY <1>2, <2>1, ResumedTask DEF IntakeInv, ResumesApproved
    <2>2. QED
      BY <2>1 DEF ResumesApproved
  <1>4. ApprovalsLast'
    <2>1. ASSUME NEW u \in DOMAIN handlers', NEW g, g = handlers'[u],
                 g.op = "resume", g.call = "approved", g.phase = "commit",
                 g.base.status # "awaiting_approval"
          PROVE  Status(g.payment)' # "awaiting_approval"
      <3>1. /\ u \in DOMAIN handlers /\ handlers[u].op = "resume"
            /\ g.payment = handlers[u].payment
        BY <1>2, <2>1
      <3>2. Status(g.payment)' = "awaiting_approval" =>
              Status(g.payment) = "awaiting_approval"
        BY <3>1, ResumedTask DEF Status
      <3>3. Status(g.payment) # "awaiting_approval"
        <4>1. CASE u # t
          BY <1>1, <2>1, <3>1, <4>1 DEF Course, Moved, IntakeInv, ApprovalsLast
        <4>2. CASE u = t
          <5>1. g.base = tasks[g.payment]
            BY <1>1, <2>1, <3>1, <4>2 DEF Course, Patches
          <5>2. QED
            BY <2>1, <5>1 DEF Status, Nothing
        <4>3. QED
          BY <4>1, <4>2
      <3>4. QED
        BY <3>2, <3>3
    <2>2. QED
      BY <2>1 DEF ApprovalsLast, Status
  <1>5. QED
    BY <1>3, <1>4

\* A creation is claimed by the dispatch run that follows it, or by one before.
LEMMA CreationsServe ==
  ASSUME SagaInv, IntakeInv, NEW t \in Handlers, Serve(t)
  PROVE  CreationsTaken' /\ (faults' = 0 => faults = 0)
  <1>1. Course(t)
    BY ServeCourse
  <1>2. faults' = 0 => faults = 0
    BY DEF Serve, Instruct, CreateTask, Validate, PatchRead, PatchCommit, Claim, Project,
           WriteRecord, ReadRow, ReadRecords, ReleaseLookup, ReleaseSubmit, Fault,
           SagaInv, TypeOK
  <1>3. ASSUME NEW u \in DOMAIN handlers', handlers'[u].phase # "project"
        PROVE  handlers'[u].claimed = {}
    BY <1>1, <1>3 DEF Course, Moved, IntakeInv, CreationsTaken
  <1>4. ASSUME faults' = 0, NEW u \in DOMAIN handlers'
        PROVE  handlers'[u].awaited
    BY <1>1, <1>2, <1>4 DEF Course, Moved, IntakeInv, CreationsTaken
  <1>5. ASSUME faults' = 0, NEW p \in DOMAIN tasks', p \notin DOMAIN records'
        PROVE  \E u \in DOMAIN handlers' :
                 \/ p \in handlers'[u].claimed
                 \/ /\ handlers'[u].call = "create" /\ handlers'[u].phase = "claim"
                    /\ handlers'[u].payment = p
    <2>1. PICK h : h = handlers[t]
      OBVIOUS
    <2>2. h \in Handler /\ HandlerBacked(h) /\ h.awaited
      BY <1>1, <1>2, <1>5, <2>1, Position DEF Course, IntakeInv, CreationsTaken
    <2>3. p \notin DOMAIN records
      BY <1>5
      DEF Serve, Instruct, CreateTask, Validate, PatchRead, PatchCommit, Claim, Project,
          WriteRecord, ReadRow, ReadRecords, ReleaseLookup, ReleaseSubmit
    <2>4. CASE p \notin DOMAIN tasks
      <3>1. CreateTask(t) /\ p = h.payment
        BY <1>5, <2>1, <2>4
        DEF Serve, Instruct, CreateTask, Validate, PatchRead, PatchCommit, Claim, Project,
            WriteRecord, ReadRow, ReadRecords, ReleaseLookup, ReleaseSubmit, Put
      <3>2. handlers' = [handlers EXCEPT ![t].phase = "claim"] /\ h.call = "create"
        BY <2>1, <2>2, <3>1 DEF CreateTask, Committed, At
      <3>3. /\ t \in DOMAIN handlers'
            /\ handlers'[t] = [h EXCEPT !.phase = "claim"]
        BY <1>1, <2>1, <3>2 DEF Course
      <3>4. /\ handlers'[t].call = "create" /\ handlers'[t].phase = "claim"
            /\ handlers'[t].payment = p
        BY <2>2, <3>1, <3>2, <3>3 DEF Handler
      <3>5. QED
        BY <3>3, <3>4
    <2>5. CASE p \in DOMAIN tasks
      <3>1. PICK u \in DOMAIN handlers :
              \/ p \in handlers[u].claimed
              \/ At(u, "create", "claim") /\ handlers[u].payment = p
        BY <1>2, <1>5, <2>3, <2>5 DEF IntakeInv, CreationsTaken
      <3>2. CASE u \in DOMAIN handlers' /\ handlers'[u] = handlers[u]
        BY <3>1, <3>2 DEF At
      <3>3. CASE Claim(t)
        <4>1. PICK held : held = UNION {handlers[v].claimed : v \in DOMAIN handlers}
          OBVIOUS
        <4>2. CASE p \in held
          <5>1. PICK v \in DOMAIN handlers : p \in handlers[v].claimed
            BY <4>1, <4>2
          <5>2. v # t
            BY <3>3, <5>1 DEF Claim, IntakeInv, CreationsTaken
          <5>3. v \in DOMAIN handlers' /\ handlers'[v] = handlers[v]
            BY <3>3, <5>2 DEF Claim
          <5>4. QED
            BY <5>1, <5>3
        <4>3. CASE p \notin held
          <5>1. PICK c : /\ c = DOMAIN tasks \ (DOMAIN records \cup held)
                         /\ handlers' = [handlers EXCEPT ![t].phase = "project",
                                                         ![t].claimed = c]
            BY <3>3, <4>1 DEF Claim
          <5>2. /\ t \in DOMAIN handlers'
                /\ handlers'[t] = [h EXCEPT !.phase = "project", !.claimed = c]
            BY <1>1, <2>1, <2>2, <5>1 DEF Course, Handler
          <5>3. p \in handlers'[t].claimed
            BY <2>2, <2>3, <2>5, <4>3, <5>1, <5>2 DEF Handler
          <5>4. QED
            BY <5>2, <5>3
        <4>4. QED
          BY <4>2, <4>3
      <3>4. CASE Project(t)
        <4>1. DOMAIN records' = DOMAIN records \cup h.claimed
          BY <1>2, <1>5, <2>1, <3>4 DEF Project, Fault, SagaInv, TypeOK
        <4>2. h.phase = "project" /\ p \notin h.claimed
          BY <1>5, <2>1, <3>4, <4>1 DEF Project
        <4>3. u # t
          BY <2>1, <3>1, <4>2 DEF At
        <4>4. u \in DOMAIN handlers' /\ handlers'[u] = handlers[u]
          BY <3>4, <4>3 DEF Project, Answer, Put, Drop
        <4>5. QED
          BY <3>2, <4>4
      <3>5. CASE ~Claim(t) /\ ~Project(t)
        <4>1. h.phase \in {"send", "commit"}
          BY <2>1, <3>5
          DEF Serve, Instruct, CreateTask, Validate, PatchRead, PatchCommit, WriteRecord,
              ReadRow, ReadRecords, ReleaseLookup, ReleaseSubmit, At
        <4>2. u # t
          BY <2>1, <3>1, <4>1 DEF At, IntakeInv, CreationsTaken
        <4>3. u \in DOMAIN handlers' /\ handlers'[u] = handlers[u]
          BY <3>5, <4>2
          DEF Serve, Instruct, CreateTask, Validate, PatchRead, PatchCommit, WriteRecord,
              ReadRow, ReadRecords, ReleaseLookup, ReleaseSubmit, Committed, Answer, Refuse,
              Put, Drop
        <4>4. QED
          BY <3>2, <4>3
      <3>6. QED
        BY <3>3, <3>4, <3>5
    <2>6. QED
      BY <2>4, <2>5
  <1>6. CreationsTaken'
    BY <1>3, <1>4, <1>5 DEF CreationsTaken, At
  <1>7. QED
    BY <1>2, <1>6

\* A resume whose call of the way to the approval is answered is still on that way.
LEMMA ApprovingGoesOn ==
  ASSUME NEW t \in DOMAIN handlers, NEW h \in Handler, h = handlers[t], h.awaited,
         h.op = "resume", h.call \in {"complete_approval", "record_approval"}, Answer(t, h)
  PROVE  t \in DOMAIN handlers' /\ Approving(t, h.payment)'
  <1>1. Following(h) \in {"record_approval", "approved"}
    BY DEF Following, ResumeCalls
  <1>2. handlers' = Put(handlers, t, Sent(h))
    BY <1>1 DEF Answer, Done, Sent
  <1>3. /\ Sent(h).op = "resume" /\ Sent(h).payment = h.payment /\ Sent(h).awaited
        /\ Sent(h).call = Following(h) /\ Sent(h).phase = "send"
    BY DEF Sent, Handler
  <1>4. t \in DOMAIN handlers' /\ handlers'[t] = Sent(h)
    BY <1>2 DEF Put
  <1>5. QED
    BY <1>1, <1>3, <1>4 DEF Approving

\* Who has taken the approval of a task stays at work until the task is approved.
LEMMA SpentServe ==
  ASSUME SagaInv, IntakeInv, NEW t \in Handlers, Serve(t)
  PROVE  SpentIsTaken'
  <1>1. Course(t)
    BY ServeCourse
  <1>2. PICK h : h = handlers[t]
    OBVIOUS
  <1>3. h \in Handler /\ HandlerBacked(h) /\ (Starting(h) => Fresh(h))
    BY <1>1, <1>2, IntakePosition DEF Course
  <1>4. SUFFICES ASSUME faults' = 0, NEW p \in DOMAIN tasks',
                        tasks'[p].status = "awaiting_approval", ApprovalSpent(p)'
                 PROVE  \E u \in DOMAIN handlers' : Approving(u, p)'
    BY DEF SpentIsTaken, Approving
  <1>5. faults = 0 /\ h.awaited
    BY <1>1, <1>2, <1>4, CreationsServe DEF Course, IntakeInv, CreationsTaken
  <1>6. p \in DOMAIN tasks /\ tasks[p].status = "awaiting_approval"
    <2>1. CASE PatchCommit(t)
      <3>1. h.call \in Patches /\ h.phase = "commit"
        BY <1>2, <2>1 DEF PatchCommit, At
      <3>2. /\ UNCHANGED records
            /\ tasks' = [tasks EXCEPT ![h.payment] =
                          [c \in DOMAIN tasks[h.payment] |->
                             IF Patch(h)[c] # h.base[c] THEN Patch(h)[c]
                                                        ELSE tasks[h.payment][c]]]
        BY <1>2, <2>1 DEF PatchCommit
      <3>3. CASE h.payment # p
        BY <1>4, <3>2, <3>3
      <3>4. CASE h.payment = p /\ h.op = "resume"
        BY <1>1, <1>2, <1>4, <3>4, ResumedTask DEF Course
      <3>5. CASE h.payment = p /\ h.op = "start"
        <4>1. Fresh(h)
          BY <1>3, <3>1, <3>5 DEF Starting, Writing
        <4>2. p \in DOMAIN tasks /\ tasks[p] \in Row
          BY <3>1, <3>5, <4>1, RowOfTask DEF Fresh
        <4>3. tasks'[p].status \in {h.call, tasks[p].status}
          BY <3>2, <3>5, <4>2 DEF Row, Patch
        <4>4. h.call = "awaiting_approval" => records[p].approval = "pending"
          BY <3>5, <4>1 DEF Fresh
        <4>5. QED
          BY <1>4, <3>2, <4>2, <4>3, <4>4 DEF ApprovalSpent
      <3>6. QED
        BY <1>3, <3>3, <3>4, <3>5, HandlerFields
    <2>2. CASE CreateTask(t)
      BY <1>4, <2>2 DEF CreateTask, Put, NewRow
    <2>3. CASE UNCHANGED tasks
      BY <1>4, <2>3
    <2>4. QED
      BY <2>1, <2>2, <2>3
      DEF Serve, Instruct, Validate, PatchRead, Claim, Project, WriteRecord, ReadRow,
          ReadRecords, ReleaseLookup, ReleaseSubmit
  <1>7. p \in DOMAIN records
    BY <1>6 DEF IntakeInv, WaitingRecorded
  <1>8. CASE ~ApprovalSpent(p)
    <2>1. records'[p].approval = "completed" /\ records[p].approval # "completed"
      BY <1>4, <1>7, <1>8 DEF ApprovalSpent
    <2>2. WriteRecord(t)
      <3>1. ~Project(t)
        BY <1>7, <2>1 DEF Project
      <3>2. QED
        BY <2>1, <3>1
        DEF Serve, Instruct, CreateTask, Validate, PatchRead, PatchCommit, Claim, ReadRow,
            ReadRecords, ReleaseLookup, ReleaseSubmit
    <2>3. /\ records' = [records EXCEPT ![h.payment] = Written(@, h)]
          /\ h.call \in DelegationCalls \cup ArtifactCalls /\ Answer(t, h)
      BY <1>2, <2>1, <2>2 DEF WriteRecord, At
    <2>4. h.payment = p /\ records[p] \in Records
      BY <1>7, <2>1, <2>3, DictValue DEF SagaInv, TypeOK
    <2>5. h.call = "complete_approval"
      BY <1>7, <2>1, <2>3, <2>4 DEF Written, Records, DelegationCalls, ArtifactCalls
    <2>6. h.op = "resume"
      BY <1>3, <2>5, HandlerFields DEF HandlerBacked, StartBacked, Judged
    <2>7. QED
      BY <1>1, <1>2, <1>3, <1>5, <2>3, <2>4, <2>5, <2>6, ApprovingGoesOn DEF Course
  <1>9. CASE ApprovalSpent(p)
    <2>1. PICK u \in DOMAIN handlers : Approving(u, p)
      BY <1>5, <1>6, <1>9 DEF IntakeInv, SpentIsTaken
    <2>2. CASE u # t /\ u \in DOMAIN handlers'
      BY <1>1, <2>1, <2>2 DEF Course, Moved, Approving
    <2>3. CASE u # t /\ u \notin DOMAIN handlers'
      BY <2>1, <2>3
      DEF Serve, Instruct, CreateTask, Validate, PatchRead, PatchCommit, Claim, Project,
          WriteRecord, ReadRow, ReadRecords, ReleaseLookup, ReleaseSubmit, Committed,
          Answer, Refuse, Put, Drop
    <2>4. CASE u = t
      <3>1. h.op = "resume" /\ h.payment = p /\ h.awaited
        BY <1>2, <2>1, <2>4 DEF Approving
      <3>2. CASE h.call = "record_approval"
        <4>1. h.phase \notin {"claim", "project"}
          BY <1>3, <3>2 DEF HandlerBacked, Patches
        <4>2. WriteRecord(t)
          BY <1>2, <3>2, <4>1
          DEF Serve, Instruct, CreateTask, Validate, PatchRead, PatchCommit, Claim, Project,
              ReadRow, ReadRecords, ReleaseLookup, ReleaseSubmit, At, Patches
        <4>3. Answer(t, h)
          BY <1>2, <1>7, <3>1, <4>2 DEF WriteRecord
        <4>4. QED
          BY <1>1, <1>2, <1>3, <3>1, <3>2, <4>3, ApprovingGoesOn DEF Course
      <3>3. CASE h.call = "approved" /\ h.phase = "send"
        <4>1. PatchRead(t)
          BY <1>2, <3>3
          DEF Serve, Instruct, CreateTask, Validate, PatchCommit, Claim, Project, WriteRecord,
              ReadRow, ReadRecords, ReleaseLookup, ReleaseSubmit, At, Patches,
              DelegationCalls, ArtifactCalls
        <4>2. Patch(h) # tasks[p]
          BY <1>6, <3>3 DEF Patch
        <4>3. handlers' = [handlers EXCEPT ![t].phase = "commit", ![t].base = tasks[p]]
          BY <1>2, <3>1, <4>1, <4>2 DEF PatchRead, NoStateChange
        <4>4. PICK g : g = [h EXCEPT !.phase = "commit", !.base = tasks[p]]
          OBVIOUS
        <4>5. t \in DOMAIN handlers' /\ handlers'[t] = g
          BY <1>1, <1>2, <1>3, <4>3, <4>4 DEF Course, Handler
        <4>6. /\ g.op = "resume" /\ g.payment = p /\ g.awaited
              /\ g.call = "approved" /\ g.phase = "commit"
          BY <1>3, <3>1, <3>3, <4>4 DEF Handler
        <4>7. QED
          BY <4>5, <4>6 DEF Approving
      <3>4. CASE h.call = "approved" /\ h.phase = "commit"
        <4>1. PatchCommit(t)
          BY <1>2, <3>4
          DEF Serve, Instruct, CreateTask, Validate, PatchRead, Claim, Project, WriteRecord,
              ReadRow, ReadRecords, ReleaseLookup, ReleaseSubmit, At, Patches
        <4>2. h.base.status = "awaiting_approval"
          BY <1>1, <1>2, <1>6, <3>1, <3>4
          DEF Course, IntakeInv, ApprovalsLast, Status
        <4>3. tasks[p] \in Row
          BY <1>6, RowOfTask
        <4>4. tasks'[p].status = "approved"
          BY <1>2, <1>6, <3>1, <3>4, <4>1, <4>2, <4>3 DEF PatchCommit, Patch, Row
        <4>5. QED
          BY <1>4, <4>4
      <3>5. QED
        BY <1>2, <2>1, <2>4, <3>2, <3>3, <3>4 DEF Approving
    <2>5. QED
      BY <2>2, <2>3, <2>4
  <1>10. QED
    BY <1>8, <1>9
-----------------------------------------------------------------------------
\* The steps that serve no call.
LEMMA BeginUnderWay ==
  ASSUME SagaInv, IntakeInv, UNCHANGED <<tasks, records, faults>>, NEW t,
         NEW p \in Payments, NEW op, NEW req, NEW call, NEW row, NEW g,
         g = NewHandler(op, p, req, call, row),
         t \notin DOMAIN handlers, handlers' = Put(handlers, t, g),
         call \notin {"record_approval", "approved"},
         op = "resume" =>
           p \in DOMAIN tasks /\ row = tasks[p] /\ row.beneficiary = "approved"
  PROVE  ResumesApproved' /\ ApprovalsLast' /\ CreationsTaken' /\ SpentIsTaken'
  <1>1. /\ g.op = op /\ g.payment = p /\ g.call = call /\ g.phase = "send" /\ g.awaited
        /\ g.row = row /\ g.claimed = {}
    BY DEF NewHandler
  <1>2. /\ DOMAIN handlers' = DOMAIN handlers \cup {t} /\ handlers'[t] = g
        /\ \A u \in DOMAIN handlers : handlers'[u] = handlers[u]
    BY DEF Put
  <1>3. ResumesApproved'
    BY <1>1, <1>2 DEF IntakeInv, ResumesApproved
  <1>4. ApprovalsLast'
    <2>1. ASSUME NEW u \in DOMAIN handlers', NEW k, k = handlers'[u],
                 k.op = "resume", k.call = "approved", k.phase = "commit",
                 k.base.status # "awaiting_approval"
          PROVE  Status(k.payment)' # "awaiting_approval"
      BY <1>1, <1>2, <2>1 DEF IntakeInv, ApprovalsLast, Status
    <2>2. QED
      BY <2>1 DEF ApprovalsLast, Status
  <1>5. CreationsTaken'
    BY <1>1, <1>2 DEF IntakeInv, CreationsTaken, At
  <1>6. SpentIsTaken'
    BY <1>1, <1>2 DEF IntakeInv, SpentIsTaken, ApprovalSpent, Approving
  <1>7. QED
    BY <1>3, <1>4, <1>5, <1>6

LEMMA FaultUnderWay ==
  ASSUME SagaInv, IntakeInv, UNCHANGED <<tasks, records>>, Fault,
         DOMAIN handlers' \subseteq DOMAIN handlers,
         \A u \in DOMAIN handlers' :
           \/ handlers'[u] = handlers[u]
           \/ handlers'[u] = [handlers[u] EXCEPT !.awaited = FALSE]
  PROVE  ResumesApproved' /\ ApprovalsLast' /\ CreationsTaken' /\ SpentIsTaken'
  <1>1. faults' # 0
    BY DEF Fault, SagaInv, TypeOK
  <1>2. ASSUME NEW u \in DOMAIN handlers', NEW k, k = handlers'[u]
        PROVE  /\ u \in DOMAIN handlers
               /\ k.op = handlers[u].op /\ k.payment = handlers[u].payment
               /\ k.row = handlers[u].row /\ k.base = handlers[u].base
               /\ k.call = handlers[u].call /\ k.phase = handlers[u].phase
               /\ k.claimed = handlers[u].claimed
    BY <1>2, Position DEF Handler
  <1>3. ResumesApproved'
    BY <1>2 DEF IntakeInv, ResumesApproved
  <1>4. ApprovalsLast'
    BY <1>2 DEF IntakeInv, ApprovalsLast, Status
  <1>5. CreationsTaken' /\ SpentIsTaken'
    BY <1>1, <1>2 DEF IntakeInv, CreationsTaken, SpentIsTaken
  <1>6. QED
    BY <1>3, <1>4, <1>5

LEMMA UnderWayStep ==
  ASSUME SagaInv, IntakeInv, [Next]_vars
  PROVE  ResumesApproved' /\ ApprovalsLast' /\ CreationsTaken' /\ SpentIsTaken'
  <1> DEFINE Goal == ResumesApproved' /\ ApprovalsLast' /\ CreationsTaken' /\ SpentIsTaken'
  <1>1. ASSUME NEW t \in Handlers, Serve(t)
        PROVE  Goal
    BY <1>1, ResumesServe, CreationsServe, SpentServe
  <1>2. ASSUME NEW t \in Handlers, NEW p \in Payments, NEW order \in Orders,
               BeginStart(t, p, order)
        PROVE  Goal
    BY <1>2, BeginUnderWay DEF BeginStart, MayBegin
  <1>3. ASSUME NEW t \in Handlers, NEW p \in Payments, NEW req \in Approvals,
               BeginResume(t, p, req)
        PROVE  Goal
    <2>1. tasks[p].beneficiary = "approved"
      <3>1. ReleaseDecision(orders[p], tasks[p], req) = "allow"
        BY <1>3 DEF BeginResume
      <3>2. QED
        BY <3>1 DEF ReleaseDecision, Refusal
    <2>2. QED
      BY <1>3, <2>1, BeginUnderWay DEF BeginResume, MayBegin
  <1>4. ASSUME NEW t \in Handlers, Abandon(t)
        PROVE  Goal
    BY <1>4, FaultUnderWay DEF Abandon
  <1>5. CASE GatewayRestart
    BY <1>5, FaultUnderWay DEF GatewayRestart
  <1>6. ASSUME NEW t \in Handlers, Lost(t)
        PROVE  Goal
    <2>1. /\ DOMAIN handlers' \subseteq DOMAIN handlers
          /\ \A u \in DOMAIN handlers' : handlers'[u] = handlers[u]
          /\ UNCHANGED <<tasks, records, faults>> /\ faults # 0
      BY <1>6 DEF Lost, Refuse, Drop, IntakeInv, CreationsTaken
    <2>2. ResumesApproved' /\ ApprovalsLast'
      BY <2>1 DEF IntakeInv, ResumesApproved, ApprovalsLast, Status
    <2>3. CreationsTaken' /\ SpentIsTaken'
      BY <2>1 DEF IntakeInv, CreationsTaken, SpentIsTaken
    <2>4. QED
      BY <2>2, <2>3
  <1>7. CASE UNCHANGED vars
    BY <1>7
    DEF vars, IntakeInv, ResumesApproved, ApprovalsLast, CreationsTaken, SpentIsTaken,
        ApprovalSpent, Approving, Status, At
  <1>8. QED
    BY <1>1, <1>2, <1>3, <1>4, <1>5, <1>6, <1>7 DEF Next
-----------------------------------------------------------------------------
LEMMA IntakeInit == Init => IntakeInv
  <1> SUFFICES ASSUME Init
               PROVE  IntakeInv
    OBVIOUS
  <1>1. DOMAIN tasks = {} /\ DOMAIN handlers = {} /\ DOMAIN records = {}
    BY EmptyDict DEF Init
  <1>2. QED
    BY <1>1
    DEF IntakeInv, StartsFresh, StartsAlone, WaitingRecorded, SpentIsOrdered,
        ResumesApproved, ApprovalsLast, CreationsTaken, SpentIsTaken

LEMMA IntakeStep == SagaInv /\ IntakeInv /\ [Next]_vars => IntakeInv'
  <1> SUFFICES ASSUME SagaInv, IntakeInv, [Next]_vars
               PROVE  IntakeInv'
    OBVIOUS
  <1>1. SagaInv' /\ SpentIsOrdered'
    BY SagaStep, SpentStep DEF IntakeInv
  <1> DEFINE Goal == StartsFresh' /\ StartsAlone' /\ WaitingRecorded'
  <1>2. ASSUME NEW t \in Handlers, Serve(t)
        PROVE  Goal
    BY <1>1, <1>2, InstructIntake, CreateTaskIntake, ValidateIntake, PatchReadIntake,
       PatchCommitIntake, ClaimIntake, ProjectIntake, WriteRecordIntake, ReadRowIntake,
       ReadRecordsIntake, ReleaseLookupIntake, ReleaseSubmitIntake DEF Serve
  <1>3. ASSUME NEW t \in Handlers, Lost(t)
        PROVE  Goal
    BY <1>1, <1>3, QuietRefusalIntake DEF Lost
  <1>4. ASSUME UNCHANGED vars
        PROVE  Goal
    <2>1. StartsFresh' /\ StartsAlone'
      BY <1>4
      DEF vars, IntakeInv, StartsFresh, StartsAlone, Fresh, Status, Starting, Writing
    <2>2. WaitingRecorded'
      BY <1>4 DEF vars, IntakeInv, WaitingRecorded
    <2>3. QED
      BY <2>1, <2>2
  <1>5. Goal
    BY <1>1, <1>2, <1>3, <1>4, BeginStartIntake, BeginResumeIntake, AbandonIntake,
       GatewayRestartIntake DEF Next
  <1>6. QED
    BY <1>1, <1>5, UnderWayStep DEF IntakeInv

\* Every intake has its payment for itself until its task waits for approval; until
\* the first fault its creation is held by a dispatch run until it is projected, and
\* who has completed an approval is at work on the task until the task says so.
THEOREM IntakeInvariance == Spec => []IntakeInv
  <1>1. Init => SagaInv /\ IntakeInv
    BY SagaInit, IntakeInit
  <1>2. SagaInv /\ IntakeInv /\ [Next]_vars => (SagaInv /\ IntakeInv)'
    BY SagaStep, IntakeStep
  <1>3. QED
    BY <1>1, <1>2, PTL DEF Spec

\* Nothing but a fault leaves a task waiting for an approval that nobody can give:
\* its delegation is pending, or the resume that completed it is still at work.
THEOREM EveryWaitingIsReady == Spec => []AwaitingIsReady
  <1>1. SagaInv /\ IntakeInv => AwaitingIsReady
    <2>1. SUFFICES ASSUME SagaInv, IntakeInv, NEW p \in DOMAIN tasks,
                          tasks[p].status = "awaiting_approval",
                          records[p].approval = "completed", p \in DOMAIN records
                   PROVE  faults > 0 \/ \E t \in DOMAIN handlers : Approving(t, p)
      BY DEF AwaitingIsReady, IntakeInv, WaitingRecorded
    <2>2. faults \in Nat
      BY <2>1 DEF SagaInv, TypeOK
    <2>3. CASE faults = 0
      BY <2>1, <2>3 DEF IntakeInv, SpentIsTaken, ApprovalSpent
    <2>4. QED
      BY <2>2, <2>3
  <1>2. QED
    BY <1>1, SagaInvariance, IntakeInvariance, PTL

\* Until the first fault, only the dispatch run of another handler, which holds the
\* creation, stands between an intake and the records of its task.
THEOREM EveryIntakeFindsRecords == Spec => []IntakeFindsRecords
  <1>1. SagaInv /\ IntakeInv => IntakeFindsRecords
    <2>1. SUFFICES ASSUME SagaInv, IntakeInv, faults = 0, NEW t \in DOMAIN handlers,
                          NEW h, h = handlers[t], h.call = "queue_validation",
                          h.payment \notin DOMAIN records
                   PROVE  \E u \in DOMAIN handlers \ {t} : h.payment \in handlers[u].claimed
      BY DEF IntakeFindsRecords
    <2>2. h \in Handler /\ HandlerBacked(h)
      BY <2>1, Position
    <2>3. h.op = "start" /\ h.payment \in DOMAIN tasks
      BY <2>1, <2>2, HandlerFields
      DEF HandlerBacked, StartBacked, ResumeBacked, Checked, Endorsed, Judged
    <2>4. h.phase # "project"
      BY <2>1, <2>2 DEF HandlerBacked, Patches
    <2>5. PICK u \in DOMAIN handlers :
            \/ h.payment \in handlers[u].claimed
            \/ At(u, "create", "claim") /\ handlers[u].payment = h.payment
      BY <2>1, <2>3 DEF IntakeInv, CreationsTaken
    <2>6. Starting(h)
      BY <2>1, <2>3 DEF Starting
    <2>7. ~(At(u, "create", "claim") /\ handlers[u].payment = h.payment)
      BY <2>1, <2>6 DEF At, IntakeInv, StartsAlone
    <2>8. u # t
      BY <2>1, <2>4, <2>5, <2>7 DEF IntakeInv, CreationsTaken
    <2>9. QED
      BY <2>5, <2>7, <2>8
  <1>2. QED
    BY <1>1, SagaInvariance, IntakeInvariance, PTL
=============================================================================
