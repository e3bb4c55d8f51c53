--------------------------- MODULE PaymentLifeProofs ---------------------------
(***************************************************************************)
(* TLAPS proofs about the payment sagas with one handler at work at a time *)
(* for each payment, whatever calls the handlers before it left behind and *)
(* whatever is done meanwhile for other payments: every payment is         *)
(* released at most once and lives the life it should.                     *)
(***************************************************************************)
EXTENDS PaymentIntakeProofs

\* An ambiguous answer must be reconciled (the setting as it is delivered).
Reconciling == AmbiguousStatus = "pending_reconcile"

\* Nothing changes for the payment q but its handlers.
Same(q) ==
  /\ q \in DOMAIN tasks' <=> q \in DOMAIN tasks
  /\ q \in DOMAIN tasks => tasks'[q] = tasks[q]
  /\ ApprovalSpent(q)' <=> ApprovalSpent(q)
  /\ \A outcomes : Released(q, outcomes)' <=> Released(q, outcomes)

\* Only what h did before is what g does.
Follows(h, g) ==
  /\ g.payment = h.payment /\ (g.awaited => h.awaited)
  /\ Starting(g) => Starting(h)
  /\ Spending(g) => Spending(h)

LEMMA SameInPlace ==
  ASSUME NEW h, Same(h.payment), InPlace(h)
  PROVE  InPlace(h)'
  <1>1. Status(h.payment)' = Status(h.payment)
    BY DEF Same, Status
  <1>2. Unreleased(h.payment)' <=> Unreleased(h.payment)
    BY DEF Same, Unreleased
  <1>3. StartInPlace(h)' <=> StartInPlace(h)
    BY <1>1 DEF Same, StartInPlace
  <1>4. ResumeMayFollow(h)' <=> ResumeMayFollow(h)
    BY <1>1, <1>2 DEF Same, ResumeMayFollow
  <1>5. SpendingInPlace(h)' <=> SpendingInPlace(h)
    BY <1>1, <1>2 DEF Same, SpendingInPlace
  <1>6. QED
    BY <1>3, <1>4, <1>5 DEF InPlace, Same

\* No handler gets into the way of another one.
LEMMA AloneStays ==
  ASSUME Alone, OneAtATime, NEW t, Moved(t),
         t \in DOMAIN handlers' => Follows(handlers[t], handlers'[t])
  PROVE  Alone' /\ OneAtATime'
  <1>1. ASSUME NEW u \in DOMAIN handlers'
        PROVE  u \in DOMAIN handlers /\ Follows(handlers[u], handlers'[u])
    BY <1>1 DEF Moved, Follows
  <1>2. Alone'
    BY <1>1 DEF Alone, Follows
  <1>3. OneAtATime'
    BY <1>1 DEF OneAtATime, Follows
  <1>4. QED
    BY <1>2, <1>3

LEMMA AllStayInPlace ==
  ASSUME AllInPlace, NEW t, Moved(t),
         \A u \in DOMAIN handlers : u # t => Same(handlers[u].payment),
         t \in DOMAIN handlers' => InPlace(handlers[t])'
  PROVE  AllInPlace'
  <1>1. ASSUME NEW u \in DOMAIN handlers', u # t
        PROVE  InPlace(handlers[u])'
    <2>1. PICK k : k = handlers[u] /\ k = handlers'[u]
      BY <1>1 DEF Moved
    <2>2. InPlace(k) /\ Same(k.payment)
      BY <1>1, <2>1 DEF AllInPlace, Moved
    <2>3. InPlace(k)'
      BY <2>2, SameInPlace
    <2>4. QED
      BY <2>1, <2>3
  <1>2. QED
    BY <1>1 DEF AllInPlace
-----------------------------------------------------------------------------
\* The next call of a resume that was answered finds its task as the last one left it.
LEMMA ResumeAdvances ==
  ASSUME NEW h \in Handler, h.op = "resume", Following(h) # Done, h.awaited,
         h.call \in Patches => h.phase = "project",
         h.call \in {"record_decision", "read_row", "read_records"} \cup Checked,
         Spending(h) /\ h.call # "release" => SpendingInPlace(h)',
         h.call = "read_records" =>
           Status(h.payment)' = "awaiting_approval" /\ Unreleased(h.payment)',
         h.call \notin {"record_decision", "read_row", "read_records"} =>
           ApprovalSpent(h.payment)',
         h.call = "release" =>
           /\ Status(h.payment)' = "approved"
           /\ h.result \in {"settlement_pending", "failed", "pending_reconcile"}
  PROVE  /\ Spending(Sent(h)) => SpendingInPlace(Sent(h))'
         /\ Spending(Sent(h)) => h.call = "read_records" \/ Spending(h)
         /\ ~Starting(Sent(h))
  <1> DEFINE done == {"settlement_pending", "failed", "pending_reconcile"}
  <1>0. PICK g : g = Sent(h)
    OBVIOUS
  <1>1. /\ g.op = "resume" /\ g.call = Following(h) /\ g.phase = "send"
        /\ g.payment = h.payment /\ g.result = h.result /\ g.awaited
    BY <1>0 DEF Sent, Handler
  <1>2. ~Starting(g)
    BY <1>1 DEF Starting
  <1>3. h.call \notin {"settlement_pending", "failed", "pending_reconcile", "validated"}
    BY DEF Following, ResumeCalls
  <1>4. CASE h.call \in {"record_decision", "read_row"}
    <2>1. g.call \in {"read_row", "read_records"}
      BY <1>1, <1>4 DEF Following, ResumeCalls
    <2>2. ~Spending(g)
      BY <2>1 DEF Spending, Checked, Endorsed
    <2>3. QED
      BY <1>0, <1>2, <2>2
  <1>5. CASE h.call = "read_records"
    <2>1. g.call = "complete_approval"
      BY <1>1, <1>5 DEF Following, ResumeCalls
    <2>2. SpendingInPlace(g)'
      BY <1>1, <1>5, <2>1 DEF SpendingInPlace, StatusAtResume
    <2>3. QED
      BY <1>0, <1>2, <1>5, <2>2
  <1>6. CASE h.call \in {"complete_approval", "record_approval", "approved", "released"}
    <2>1. Spending(h) /\ SpendingInPlace(h)' /\ ApprovalSpent(h.payment)'
      BY <1>6 DEF Spending, Checked, Endorsed
    <2>2. /\ h.call = "complete_approval" => g.call = "record_approval"
          /\ h.call = "record_approval" => g.call = "approved"
          /\ h.call = "approved" => g.call = "release" /\ h.phase = "project"
          /\ h.call = "released" => g.call = "settlement_pending" /\ h.phase = "project"
      BY <1>1 DEF Following, ResumeCalls, Patches
    <2>3. Status(g.payment)' \in StatusAtResume(g)
      <3>1. Status(h.payment)' \in StatusAtResume(h)
        BY <2>1 DEF SpendingInPlace
      <3>2. StatusAtResume(g) = StatusAtResume(h)
        BY <1>1, <1>6, <2>2 DEF StatusAtResume, Writing
      <3>3. QED
        BY <1>1, <3>1, <3>2
    <2>4. SpendingInPlace(g)'
      BY <1>1, <1>6, <2>1, <2>2, <2>3 DEF SpendingInPlace
    <2>5. QED
      BY <1>0, <1>2, <2>1, <2>4
  <1>7. CASE h.call = "release"
    <2>1. g.call = "record_result" /\ Spending(h) /\ ApprovalSpent(h.payment)'
      BY <1>1, <1>7 DEF Following, ResumeCalls, Spending, Checked, Endorsed
    <2>2. SpendingInPlace(g)'
      BY <1>1, <1>7, <2>1 DEF SpendingInPlace, StatusAtResume
    <2>3. QED
      BY <1>0, <1>2, <2>1, <2>2
  <1>8. CASE h.call = "record_result"
    <2>1. Spending(h) /\ SpendingInPlace(h)' /\ ApprovalSpent(h.payment)'
      BY <1>8 DEF Spending, Checked, Endorsed
    <2>2. h.result \in done /\ Status(h.payment)' = "approved"
      BY <1>8, <2>1 DEF SpendingInPlace, StatusAtResume
    <2>3. /\ g.call \in {"released", "failed", "pending_reconcile"}
          /\ g.call = "failed" => g.result = "failed"
      BY <1>1, <1>8, <2>2 DEF Following, FirstPatch
    <2>4. SpendingInPlace(g)'
      BY <1>1, <2>1, <2>2, <2>3 DEF SpendingInPlace, StatusAtResume, Writing
    <2>5. QED
      BY <1>0, <1>2, <2>1, <2>4
  <1>9. QED
    BY <1>3, <1>4, <1>5, <1>6, <1>7, <1>8 DEF Checked, Endorsed

\* A handler that was answered is in place for its next call.
LEMMA SentInPlace ==
  ASSUME NEW h \in Handler, HandlerBacked(h)', InPlace(h)', h.call # "release",
         h.awaited, Following(h) # Done,
         h.call \in Patches \cup {"create"} => h.phase = "project",
         h.call = "read_records" => ~ApprovalSpent(h.payment)',
         h.call = "complete_approval" => ApprovalSpent(h.payment)'
  PROVE  /\ InPlace(Sent(h))'
         /\ h.call # "read_records" => Follows(h, Sent(h))
  <1>0. PICK g : g = Sent(h)
    OBVIOUS
  <1>1. /\ g.op = h.op /\ g.phase = "send" /\ g.payment = h.payment
        /\ g.result = h.result /\ g.awaited
    BY <1>0 DEF Sent, Handler
  <1>2. CASE h.op = "start"
    <2>1. /\ h.call \in {"instruct", "create", "queue_validation", "validate"} \cup Judged
          /\ h.result \in Verdicts \/ h.call # "record_validation"
      BY <1>2, HandlerFields, WorkflowAssumption DEF HandlerBacked, StartBacked, Judged
    <2>2. Starting(h) /\ ~Spending(g) /\ StatusAtStart(g) = StatusAtStart(h)
      BY <1>0, <1>2, <2>1, StartAdvances
    <2>3. StartInPlace(g)'
      BY <1>1, <2>2 DEF InPlace, StartInPlace
    <2>4. InPlace(g)' /\ Follows(h, g)
      BY <1>1, <1>2, <2>2, <2>3 DEF InPlace, Follows
    <2>5. QED
      BY <1>0, <2>4
  <1>3. CASE h.op = "resume"
    <2>1. ResumeBacked(h)' /\ ResumeMayFollow(h)'
      BY <1>3 DEF HandlerBacked, InPlace
    <2>2. /\ h.call \in {"record_decision", "read_row", "read_records"} \cup Checked
          /\ Spending(h) => SpendingInPlace(h)'
          /\ h.call \in Checked => Spending(h)
      BY <1>3, <2>1 DEF ResumeBacked, InPlace, Spending
    <2>3. h.call = "read_records" =>
            Status(h.payment)' = "awaiting_approval" /\ Unreleased(h.payment)'
      BY <2>1 DEF ResumeMayFollow
    <2>4. h.call \notin {"record_decision", "read_row", "read_records"} =>
            ApprovalSpent(h.payment)'
      BY <2>2 DEF SpendingInPlace
    <2>5. /\ Spending(g) => SpendingInPlace(g)'
          /\ Spending(g) => h.call = "read_records" \/ Spending(h)
          /\ ~Starting(g)
      BY <1>0, <1>3, <2>2, <2>3, <2>4, ResumeAdvances
    <2>6. ResumeMayFollow(g)'
      BY <1>1, <2>1 DEF ResumeMayFollow
    <2>7. InPlace(g)' /\ (h.call # "read_records" => Follows(h, g))
      BY <1>1, <2>5, <2>6 DEF InPlace, Follows
    <2>8. QED
      BY <1>0, <2>7
  <1>4. QED
    BY <1>2, <1>3, HandlerFields
-----------------------------------------------------------------------------
\* A step that leaves tasks, approvals and the log of the rail as they are.
LEMMA PaymentsStay ==
  ASSUME PaymentsInOrder, OneReleasePerPayment, FailedMeansUnreleased,
         UNCHANGED <<tasks, railLog>>, \A p : ApprovalSpent(p)' <=> ApprovalSpent(p)
  PROVE  /\ PaymentsInOrder' /\ OneReleasePerPayment' /\ FailedMeansUnreleased'
         /\ \A p : Same(p)
  BY DEF PaymentsInOrder, OneReleasePerPayment, FailedMeansUnreleased, Unreleased,
         Released, Same

LEMMA SerialStays ==
  ASSUME SerialInv, NEW t, Moved(t), UNCHANGED <<tasks, railLog>>,
         \A p : ApprovalSpent(p)' <=> ApprovalSpent(p),
         t \in DOMAIN handlers' =>
           Follows(handlers[t], handlers'[t]) /\ InPlace(handlers[t])'
  PROVE  SerialInv'
  <1>1. \A p : Same(p)
    BY PaymentsStay DEF SerialInv
  <1>2. AllInPlace'
    BY <1>1, AllStayInPlace DEF SerialInv
  <1>3. Alone' /\ OneAtATime'
    BY AloneStays DEF SerialInv
  <1>4. QED
    BY <1>2, <1>3, PaymentsStay DEF SerialInv

LEMMA SerialRefusal ==
  ASSUME SerialInv, NEW t, Refuse(t), UNCHANGED <<tasks, railLog>>,
         \A p : ApprovalSpent(p)' <=> ApprovalSpent(p)
  PROVE  SerialInv'
  BY RefuseMoves, SerialStays

\* h is handler t with what it has learned from the answer.
LEMMA SerialAnswer ==
  ASSUME SerialInv, UNCHANGED <<tasks, railLog>>,
         \A p : ApprovalSpent(p)' <=> ApprovalSpent(p),
         NEW t \in DOMAIN handlers, NEW h \in Handler, HandlerBacked(h)', InPlace(h),
         Answer(t, h), Follows(handlers[t], h),
         h.call \notin {"release", "read_records"},
         h.call = "complete_approval" => ApprovalSpent(h.payment),
         h.call \in Patches \cup {"create"} => h.phase = "project"
  PROVE  SerialInv'
  <1>1. Same(h.payment)
    BY PaymentsStay DEF SerialInv
  <1>2. InPlace(h)'
    BY <1>1, SameInPlace
  <1>3. h.awaited /\ Following(h) # Done => InPlace(Sent(h))' /\ Follows(h, Sent(h))
    BY <1>2, SentInPlace
  <1>4. Follows(h, Sent(h)) => Follows(handlers[t], Sent(h))
    BY DEF Follows
  <1>5. t \in DOMAIN handlers' =>
          Follows(handlers[t], handlers'[t]) /\ InPlace(handlers[t])'
    <2>1. SUFFICES ASSUME t \in DOMAIN handlers'
                   PROVE  Follows(handlers[t], handlers'[t]) /\ InPlace(handlers[t])'
      OBVIOUS
    <2>2. h.awaited /\ Following(h) # Done /\ handlers'[t] = Sent(h)
      BY <2>1, AnswerMoves
    <2>3. InPlace(Sent(h))' => InPlace(handlers[t])'
      BY <2>2
    <2>4. QED
      BY <1>3, <1>4, <2>2, <2>3
  <1>6. QED
    BY <1>5, AnswerMoves, SerialStays

\* Handler t moves on without an answer, as g.
LEMMA SerialMove ==
  ASSUME SerialInv, UNCHANGED <<tasks, railLog>>,
         \A p : ApprovalSpent(p)' <=> ApprovalSpent(p),
         NEW t \in DOMAIN handlers, NEW g, handlers' = [handlers EXCEPT ![t] = g],
         Follows(handlers[t], g), InPlace(g)
  PROVE  SerialInv'
  <1>1. Moved(t) /\ handlers'[t] = g
    BY DEF Moved
  <1>2. Same(g.payment)
    BY PaymentsStay DEF SerialInv
  <1>3. InPlace(g)'
    BY <1>2, SameInPlace
  <1>4. InPlace(handlers[t])'
    BY <1>1, <1>3
  <1>5. QED
    BY <1>1, <1>4, SerialStays

\* A step that answers handler t, with what h has learned, and changes no store.
LEMMA SerialQuietAnswer ==
  ASSUME SagaInv, SerialInv, UNCHANGED <<orders, tasks, records, railLog>>,
         NEW t \in DOMAIN handlers, NEW h \in Handler, HandlerBacked(h), InPlace(h),
         Answer(t, h), Follows(handlers[t], h),
         h.call \notin {"release", "read_records", "complete_approval"},
         h.call \in Patches \cup {"create"} => h.phase = "project"
  PROVE  SerialInv'
  <1>1. Grows
    BY DEF Grows
  <1>2. HandlerBacked(h)'
    BY <1>1, PositionStays
  <1>3. \A p : ApprovalSpent(p)' <=> ApprovalSpent(p)
    BY DEF ApprovalSpent
  <1>4. QED
    BY <1>2, <1>3, SerialAnswer

LEMMA InstructInOrder ==
  ASSUME SagaInv, SerialInv, NEW t \in Handlers, Instruct(t)
  PROVE  SerialInv'
  <1>1. t \in DOMAIN handlers /\ handlers[t].call = "instruct"
    BY DEF Instruct, At
  <1>2. InPlace(handlers[t]) /\ Follows(handlers[t], handlers[t])
    BY <1>1 DEF SerialInv, AllInPlace, Follows
  <1>3. QED
    BY <1>1, <1>2, Position, SerialQuietAnswer DEF Instruct, Patches

LEMMA ValidateInOrder ==
  ASSUME SagaInv, SerialInv, NEW t \in Handlers, Validate(t)
  PROVE  SerialInv'
  <1> DEFINE h == handlers[t]
             g == [h EXCEPT !.result = RailVerdict[h.payment]]
  <1>1. t \in DOMAIN handlers /\ h.call = "validate"
    BY DEF Validate, At
  <1>2. h \in Handler /\ HandlerBacked(h) /\ InPlace(h)
    BY <1>1, Position DEF SerialInv, AllInPlace
  <1>3. CASE Refuse(t)
    BY <1>3, SerialRefusal DEF Validate, ApprovalSpent
  <1>4. CASE Answer(t, g)
    <2>1. h.op = "start"
      BY <1>1, <1>2, HandlerFields DEF HandlerBacked, ResumeBacked, Checked, Endorsed
    <2>2. g \in Handler /\ HandlerBacked(g)
      <3>1. RailVerdict[h.payment] \in Verdicts
        BY <1>2, HandlerFields, WorkflowAssumption
      <3>2. QED
        BY <1>1, <1>2, <2>1, <3>1 DEF Handler, HandlerBacked, StartBacked, Judged
    <2>3. InPlace(g) /\ Follows(h, g)
      BY <1>1, <1>2, <2>1
      DEF Handler, InPlace, Follows, Starting, Spending, StartInPlace, StatusAtStart,
          Writing, Patches
    <2>4. g.call = "validate"
      BY <1>1, <1>2 DEF Handler
    <2>5. QED
      BY <1>1, <1>4, <2>2, <2>3, <2>4, SerialQuietAnswer DEF Validate, Patches
  <1>5. QED
    BY <1>3, <1>4 DEF Validate

LEMMA ReadRowInOrder ==
  ASSUME SagaInv, SerialInv, NEW t \in Handlers, ReadRow(t)
  PROVE  SerialInv'
  <1> DEFINE h == handlers[t]
             g == [h EXCEPT !.row = tasks[h.payment]]
  <1>1. t \in DOMAIN handlers /\ h.call = "read_row" /\ h.phase = "send" /\ Answer(t, g)
    BY DEF ReadRow, At
  <1>2. h \in Handler /\ HandlerBacked(h) /\ InPlace(h)
    BY <1>1, Position DEF SerialInv, AllInPlace
  <1>3. h.op = "resume" /\ h.payment \in DOMAIN tasks
    BY <1>1, <1>2, HandlerFields DEF HandlerBacked, StartBacked, ResumeBacked, Judged
  <1>4. g = [h EXCEPT !.row = tasks[h.payment], !.phase = "send"]
    BY <1>1, <1>2 DEF Handler
  <1>5. g \in Handler /\ HandlerBacked(g)
    BY <1>1, <1>3, <1>4, RowRead
  <1>6. InPlace(g) /\ Follows(h, g) /\ g.call = "read_row"
    BY <1>1, <1>2, <1>3
    DEF Handler, InPlace, Follows, Starting, Spending, ResumeMayFollow, Checked,
        Endorsed, Patches
  <1>7. QED
    BY <1>1, <1>5, <1>6, SerialQuietAnswer DEF ReadRow, Patches

LEMMA PatchReadInOrder ==
  ASSUME SagaInv, SerialInv, NEW t \in Handlers, PatchRead(t)
  PROVE  SerialInv'
  <1> DEFINE h == handlers[t]
             row == tasks[h.payment]
             g == [h EXCEPT !.base = row, !.phase = "commit"]
  <1>1. t \in DOMAIN handlers /\ h.call \in Patches /\ h.phase = "send"
    BY DEF PatchRead, At
  <1>2. h \in Handler /\ HandlerBacked(h) /\ InPlace(h)
    BY <1>1, Position DEF SerialInv, AllInPlace
  <1>3. h.payment \in DOMAIN tasks
    BY <1>1, <1>2, HandlerFields
    DEF HandlerBacked, StartBacked, ResumeBacked, Judged, Patches
  <1>4. CASE Refuse(t)
    BY <1>4, SerialRefusal DEF PatchRead, ApprovalSpent
  <1>5. CASE handlers' = [handlers EXCEPT ![t].phase = "commit", ![t].base = row]
    <2>1. handlers' = [handlers EXCEPT ![t] = g]
      BY <1>1, <1>2, <1>5 DEF Handler
    <2>2. /\ g.op = h.op /\ g.call = h.call /\ g.payment = h.payment
          /\ g.result = h.result /\ g.awaited = h.awaited
          /\ g.phase = "commit" /\ g.base = row
      BY <1>2 DEF Handler
    <2>3. Follows(h, g)
      BY <1>1, <2>2 DEF Follows, Starting, Spending, Writing
    <2>4. Starting(g) => StartInPlace(g)
      BY <1>1, <1>2, <2>2
      DEF InPlace, Starting, StartInPlace, StatusAtStart, Writing
    <2>5. Spending(g) => SpendingInPlace(g)
      BY <1>1, <1>2, <2>2
      DEF InPlace, Spending, SpendingInPlace, StatusAtResume, Writing
    <2>6. InPlace(g)
      BY <1>2, <1>3, <2>2, <2>4, <2>5 DEF InPlace, ResumeMayFollow
    <2>7. QED
      BY <1>1, <2>1, <2>3, <2>6, SerialMove DEF PatchRead, ApprovalSpent
  <1>6. QED
    BY <1>4, <1>5 DEF PatchRead

\* The dispatch run and a handler that is given up change no position.
LEMMA AsideInPlace ==
  ASSUME NEW h \in Handler, InPlace(h),
         NEW g, \/ g = [h EXCEPT !.awaited = FALSE]
                \/ \E claimed : /\ h.phase = "claim"
                                /\ g = [h EXCEPT !.phase = "project", !.claimed = claimed]
  PROVE  InPlace(g) /\ Follows(h, g)
  <1>1. /\ g.op = h.op /\ g.call = h.call /\ g.payment = h.payment
        /\ g.result = h.result /\ (g.awaited => h.awaited) /\ g.base = h.base
        /\ g.phase = h.phase \/ (h.phase = "claim" /\ g.phase = "project")
    BY DEF Handler
  <1>2. Follows(h, g) /\ (Writing(g) <=> Writing(h))
    BY <1>1 DEF Follows, Starting, Spending, Writing
  <1>3. Starting(g) => StartInPlace(g)
    BY <1>1, <1>2 DEF InPlace, Follows, StartInPlace, StatusAtStart
  <1>4. Spending(g) => SpendingInPlace(g)
    BY <1>1, <1>2 DEF InPlace, Follows, SpendingInPlace, StatusAtResume
  <1>5. QED
    BY <1>1, <1>2, <1>3, <1>4 DEF InPlace, ResumeMayFollow

LEMMA ClaimInOrder ==
  ASSUME SagaInv, SerialInv, NEW t \in Handlers, Claim(t)
  PROVE  SerialInv'
  <1> DEFINE h == handlers[t]
             claimed == DOMAIN tasks \ (DOMAIN records \cup
                          UNION {handlers[u].claimed : u \in DOMAIN handlers})
             g == [h EXCEPT !.phase = "project", !.claimed = claimed]
  <1>1. t \in DOMAIN handlers /\ h.phase = "claim"
    BY DEF Claim
  <1>2. h \in Handler /\ InPlace(h)
    BY <1>1, Position DEF SerialInv, AllInPlace
  <1>3. handlers' = [handlers EXCEPT ![t] = g]
    BY <1>1, <1>2 DEF Claim, Handler
  <1>4. InPlace(g) /\ Follows(h, g)
    BY <1>1, <1>2, AsideInPlace
  <1>5. QED
    BY <1>1, <1>3, <1>4, SerialMove DEF Claim, ApprovalSpent

LEMMA AbandonInOrder ==
  ASSUME SagaInv, SerialInv, NEW t \in Handlers, Abandon(t)
  PROVE  SerialInv'
  <1> DEFINE h == handlers[t]
             g == [h EXCEPT !.awaited = FALSE]
  <1>1. t \in DOMAIN handlers
    BY DEF Abandon
  <1>2. h \in Handler /\ InPlace(h)
    BY <1>1, Position DEF SerialInv, AllInPlace
  <1>3. handlers' = [handlers EXCEPT ![t] = g]
    BY <1>1, <1>2 DEF Abandon, Handler
  <1>4. InPlace(g) /\ Follows(h, g)
    BY <1>2, AsideInPlace
  <1>5. QED
    BY <1>1, <1>3, <1>4, SerialMove DEF Abandon, ApprovalSpent

LEMMA LostInOrder ==
  ASSUME SerialInv, NEW t \in Handlers, Lost(t)
  PROVE  SerialInv'
  BY SerialRefusal DEF Lost, ApprovalSpent

LEMMA ProjectInOrder ==
  ASSUME SagaInv, SerialInv, NEW t \in Handlers, Project(t)
  PROVE  SerialInv'
  <1>1. PICK h : h = handlers[t]
    OBVIOUS
  <1>2. t \in DOMAIN handlers /\ h.phase = "project" /\ Answer(t, h)
    BY <1>1 DEF Project
  <1>3. h \in Handler /\ HandlerBacked(h) /\ InPlace(h) /\ Follows(handlers[t], h)
    BY <1>1, <1>2, Position DEF SerialInv, AllInPlace, Follows
  <1>4. h.call \in Patches \cup {"create"}
    BY <1>2, <1>3 DEF HandlerBacked
  <1>5. Grows
    BY DEF Grows, Project
  <1>6. HandlerBacked(h)'
    BY <1>3, <1>5, PositionStays
  <1>7. \A p : ApprovalSpent(p)' <=> ApprovalSpent(p)
    BY DEF ApprovalSpent, Project, NewRecords, Nothing
  <1>8. h.call \notin {"release", "read_records", "complete_approval"}
    BY <1>4 DEF Patches
  <1>9. QED
    BY <1>2, <1>3, <1>6, <1>7, <1>8, SerialAnswer DEF Project

\* A release that nobody has performed is not under any key.
LEMMA UnreleasedIsUnknown ==
  ASSUME SagaInv, NEW k \in DOMAIN keys, Unreleased(keys[k].payment)
  PROVE  FALSE
  <1>1. PICK i \in DOMAIN railLog : railLog[i] = keys[k]
    BY DEF SagaInv, LogBacked
  <1>2. keys[k].outcome \in Outcomes
    <2>1. IsDict(keys, Keys, Submission)
      BY DEF SagaInv, TypeOK
    <2>2. keys[k] \in Submission
      BY <2>1, DictValue
    <2>3. QED
      BY <2>2 DEF Submission
  <1>3. QED
    BY <1>1, <1>2 DEF Unreleased, Released

LEMMA ReleaseLookupInOrder ==
  ASSUME SagaInv, SerialInv, NEW t \in Handlers, ReleaseLookup(t)
  PROVE  SerialInv'
  <1> DEFINE h == handlers[t]
             g == [h EXCEPT !.phase = "commit"]
  <1>1. t \in DOMAIN handlers /\ h.call = "release" /\ h.phase = "send"
    BY DEF ReleaseLookup, At
  <1>2. h \in Handler /\ HandlerBacked(h) /\ InPlace(h)
    BY <1>1, Position DEF SerialInv, AllInPlace
  <1>3. Spending(h) /\ SpendingInPlace(h) /\ Unreleased(h.payment)
    BY <1>1, <1>2, HandlerFields
    DEF HandlerBacked, StartBacked, Judged, InPlace, Spending, Checked, Endorsed,
        SpendingInPlace
  <1>4. CASE Refuse(t)
    BY <1>4, SerialRefusal DEF ReleaseLookup, ApprovalSpent
  <1>5. CASE h.req.key \in DOMAIN keys /\ SameRelease(h, keys[h.req.key])
    BY <1>3, <1>5, UnreleasedIsUnknown DEF SameRelease
  <1>6. CASE handlers' = [handlers EXCEPT ![t].phase = "commit"]
    <2>1. handlers' = [handlers EXCEPT ![t] = g]
      BY <1>1, <1>2, <1>6 DEF Handler
    <2>2. /\ g.op = h.op /\ g.call = "release" /\ g.payment = h.payment
          /\ g.result = h.result /\ g.awaited = h.awaited
      BY <1>1, <1>2 DEF Handler
    <2>3. Follows(h, g)
      BY <1>1, <2>2 DEF Follows, Starting, Spending
    <2>4. SpendingInPlace(g)
      BY <1>1, <1>3, <2>2 DEF SpendingInPlace, StatusAtResume
    <2>5. InPlace(g)
      BY <1>2, <1>3, <2>2, <2>4
      DEF InPlace, ResumeMayFollow, Starting, Spending, Patches
    <2>6. QED
      BY <1>1, <2>1, <2>3, <2>5, SerialMove DEF ReleaseLookup, ApprovalSpent
  <1>7. QED
    BY <1>4, <1>5, <1>6 DEF ReleaseLookup

LEMMA GatewayRestartInOrder ==
  ASSUME SagaInv, SerialInv, GatewayRestart
  PROVE  SerialInv'
  <1>1. Moved(0) /\ \A u \in DOMAIN handlers' : handlers'[u] = handlers[u]
    BY DEF GatewayRestart, Moved
  <1>2. \A p : ApprovalSpent(p)' <=> ApprovalSpent(p)
    BY DEF GatewayRestart, ApprovalSpent
  <1>3. UNCHANGED <<tasks, railLog>>
    BY DEF GatewayRestart
  <1>4. 0 \in DOMAIN handlers' =>
          Follows(handlers[0], handlers'[0]) /\ InPlace(handlers[0])'
    <2>1. SUFFICES ASSUME 0 \in DOMAIN handlers'
                   PROVE  Follows(handlers[0], handlers'[0]) /\ InPlace(handlers[0])'
      OBVIOUS
    <2>2. PICK h : h = handlers[0] /\ h = handlers'[0]
      BY <1>1, <2>1
    <2>3. InPlace(h) /\ Same(h.payment)
      BY <1>1, <1>2, <1>3, <2>1, <2>2, PaymentsStay DEF SerialInv, AllInPlace, Moved
    <2>4. InPlace(h)'
      BY <2>3, SameInPlace
    <2>5. QED
      BY <2>2, <2>4 DEF Follows
  <1>5. QED
    BY <1>1, <1>2, <1>3, <1>4, SerialStays

\* The one resume that takes the approval of a payment finds no other at it.
LEMMA ReadRecordsInOrder ==
  ASSUME SagaInv, SerialInv, NEW t \in Handlers, ReadRecords(t)
  PROVE  SerialInv'
  <1>1. PICK h : h = handlers[t]
    OBVIOUS
  <1>2. t \in DOMAIN handlers /\ h.call = "read_records" /\ h.phase = "send"
    BY <1>1 DEF ReadRecords, At
  <1>3. h \in Handler /\ HandlerBacked(h) /\ InPlace(h)
    BY <1>1, <1>2, Position DEF SerialInv, AllInPlace
  <1>4. UNCHANGED <<tasks, railLog>> /\ \A p : ApprovalSpent(p)' <=> ApprovalSpent(p)
    BY DEF ReadRecords, ApprovalSpent
  <1>5. CASE Refuse(t)
    BY <1>4, <1>5, SerialRefusal
  <1>6. CASE Resumable(h) /\ Answer(t, h)
    <2>1. ~ApprovalSpent(h.payment)
      BY <1>6 DEF Resumable, ApprovalSpent
    <2>2. \A p : Same(p)
      BY <1>4, PaymentsStay DEF SerialInv
    <2>3. Moved(t) /\ (t \in DOMAIN handlers' =>
            h.awaited /\ Following(h) # Done /\ handlers'[t] = Sent(h))
      BY <1>2, <1>3, <1>6, AnswerMoves
    <2>4. t \in DOMAIN handlers' => InPlace(Sent(h))'
      <3>1. SUFFICES ASSUME t \in DOMAIN handlers'
                     PROVE  InPlace(Sent(h))'
        OBVIOUS
      <3>2. HandlerBacked(h)'
        <4>1. Grows
          BY DEF Grows, ReadRecords
        <4>2. QED
          BY <1>3, <4>1, PositionStays
      <3>3. InPlace(h)'
        BY <1>3, <2>2, SameInPlace
      <3>4. ~ApprovalSpent(h.payment)'
        BY <1>4, <2>1
      <3>5. h.call \notin Patches \cup {"create"}
        BY <1>2 DEF Patches
      <3>6. QED
        BY <1>2, <1>3, <2>3, <3>1, <3>2, <3>3, <3>4, <3>5, SentInPlace
    <2>5. AllInPlace'
      <3>1. t \in DOMAIN handlers' => InPlace(handlers[t])'
        BY <2>3, <2>4
      <3>2. QED
        BY <2>2, <2>3, <3>1, AllStayInPlace DEF SerialInv
    <2>6. OneAtATime'
      <3>1. t \in DOMAIN handlers' => handlers[t].awaited
        BY <1>1, <2>3
      <3>2. \A u \in DOMAIN handlers' :
              /\ u \in DOMAIN handlers /\ handlers'[u].payment = handlers[u].payment
              /\ handlers'[u].awaited => handlers[u].awaited
        <4>1. Sent(h).payment = h.payment
          BY <1>3 DEF Sent, Handler
        <4>2. QED
          BY <1>1, <2>3, <3>1, <4>1 DEF Moved
      <3>3. QED
        BY <3>2 DEF OneAtATime, SerialInv
    <2>7. ASSUME NEW u \in DOMAIN handlers', u # t, t \in DOMAIN handlers',
                 handlers'[u].payment = handlers'[t].payment
          PROVE  ~Starting(handlers'[u]) /\ ~Starting(handlers'[t]) /\ ~Spending(handlers'[u])
      <3>1. PICK k : k = handlers[u] /\ k = handlers'[u] /\ u \in DOMAIN handlers
        BY <2>3, <2>7 DEF Moved
      <3>2. handlers'[t] = Sent(h) /\ h.awaited /\ k.payment = h.payment
        <4>1. handlers'[t] = Sent(h) /\ h.awaited
          BY <2>3, <2>7
        <4>2. Sent(h).payment = h.payment
          BY <1>3 DEF Sent, Handler
        <4>3. QED
          BY <2>7, <3>1, <4>1, <4>2
      <3>3. ~Starting(k)
        BY <1>1, <1>2, <2>7, <3>1, <3>2 DEF SerialInv, Alone
      <3>4. ~k.awaited
        BY <1>1, <1>2, <2>7, <3>1, <3>2 DEF SerialInv, OneAtATime
      <3>5. ~Spending(k)
        BY <2>1, <3>1, <3>2, <3>4
        DEF SerialInv, AllInPlace, InPlace, Spending, SpendingInPlace
      <3>6. ~Starting(Sent(h))
        BY <1>2, <1>3, HandlerFields
        DEF HandlerBacked, StartBacked, Judged, Starting, Sent, Handler
      <3>7. QED
        BY <3>1, <3>2, <3>3, <3>5, <3>6
    <2>8. Alone'
      <3>1. ASSUME NEW u \in DOMAIN handlers', NEW v \in DOMAIN handlers',
                   u # v, handlers'[u].payment = handlers'[v].payment
            PROVE  ~Starting(handlers'[u])
                   /\ ~(Spending(handlers'[u]) /\ Spending(handlers'[v]))
        <4>1. CASE u # t /\ v # t
          <5>1. /\ u \in DOMAIN handlers /\ handlers'[u] = handlers[u]
                /\ v \in DOMAIN handlers /\ handlers'[v] = handlers[v]
            BY <2>3, <4>1 DEF Moved
          <5>2. QED
            BY <3>1, <5>1 DEF SerialInv, Alone
        <4>2. CASE u = t \/ v = t
          BY <2>7, <3>1, <4>2
        <4>3. QED
          BY <4>1, <4>2
      <3>2. QED
        BY <3>1 DEF Alone, Starting, Spending, Writing
    <2>9. QED
      BY <1>4, <2>5, <2>6, <2>8, PaymentsStay DEF SerialInv
  <1>7. QED
    BY <1>1, <1>5, <1>6 DEF ReadRecords
-----------------------------------------------------------------------------
\* Steps that change what the stores say of one payment p: handler t, which is at
\* p, goes or is g afterwards.
LEMMA SerialChange ==
  ASSUME SerialInv, NEW t \in DOMAIN handlers, Moved(t),
         \A p : p # handlers[t].payment => Same(p),
         \A u \in DOMAIN handlers' :
           u # t /\ handlers[u].payment = handlers[t].payment => InPlace(handlers[u])',
         t \in DOMAIN handlers' =>
           Follows(handlers[t], handlers'[t]) /\ InPlace(handlers[t])',
         PaymentsInOrder', OneReleasePerPayment', FailedMeansUnreleased'
  PROVE  SerialInv'
  <1>1. Alone' /\ OneAtATime'
    BY AloneStays DEF SerialInv
  <1>2. ASSUME NEW u \in DOMAIN handlers', u # t
        PROVE  InPlace(handlers[u])'
    <2>1. PICK k : k = handlers[u] /\ k = handlers'[u]
      BY <1>2 DEF Moved
    <2>2. u \in DOMAIN handlers /\ InPlace(k)
      BY <1>2, <2>1 DEF SerialInv, AllInPlace, Moved
    <2>3. CASE k.payment # handlers[t].payment
      <3>1. Same(k.payment)
        BY <1>2, <2>1, <2>2, <2>3
      <3>2. InPlace(k)'
        BY <2>2, <3>1, SameInPlace
      <3>3. QED
        BY <2>1, <3>2
    <2>4. CASE k.payment = handlers[t].payment
      <3>1. InPlace(k)'
        BY <1>2, <2>1, <2>2, <2>4
      <3>2. QED
        BY <2>1, <3>1
    <2>5. QED
      BY <2>3, <2>4
  <1>3. AllInPlace'
    BY <1>2 DEF AllInPlace
  <1>4. QED
    BY <1>1, <1>3 DEF SerialInv

\* Spending an approval takes no handler that has begun to spend out of its place.
LEMMA ApprovedInPlace ==
  ASSUME NEW h, InPlace(h), ~Starting(h), UNCHANGED <<tasks, railLog>>,
         ApprovalSpent(h.payment) => ApprovalSpent(h.payment)'
  PROVE  InPlace(h)'
  <1>1. Status(h.payment)' = Status(h.payment)
    BY DEF Status
  <1>2. Unreleased(h.payment)' <=> Unreleased(h.payment)
    BY DEF Unreleased, Released
  <1>3. ResumeMayFollow(h) => ResumeMayFollow(h)'
    BY <1>1, <1>2 DEF ResumeMayFollow
  <1>4. SpendingInPlace(h) => SpendingInPlace(h)'
    BY <1>1, <1>2 DEF SpendingInPlace
  <1>5. QED
    BY <1>3, <1>4 DEF InPlace

LEMMA WriteRecordInOrder ==
  ASSUME SagaInv, SerialInv, NEW t \in Handlers, WriteRecord(t)
  PROVE  SerialInv'
  <1>1. PICK h : h = handlers[t]
    OBVIOUS
  <1>2. /\ t \in DOMAIN handlers /\ h.phase = "send"
        /\ h.call \in DelegationCalls \cup ArtifactCalls
    BY <1>1 DEF WriteRecord, At
  <1>3. h \in Handler /\ HandlerBacked(h) /\ InPlace(h)
    BY <1>1, <1>2, Position DEF SerialInv, AllInPlace
  <1>4. UNCHANGED <<orders, tasks, railLog>>
    BY DEF WriteRecord
  <1>5. h.call \notin Patches \cup {"create", "release", "read_records"}
    BY <1>2 DEF DelegationCalls, ArtifactCalls, Patches
  <1>6. CASE Refuse(t) /\ UNCHANGED records
    BY <1>4, <1>6, SerialRefusal DEF ApprovalSpent
  <1>7. CASE /\ h.payment \in DOMAIN records
             /\ records' = [records EXCEPT ![h.payment] = Written(@, h)]
             /\ Answer(t, h)
    <2>1. records[h.payment] \in Records
      BY <1>7, DictValue DEF SagaInv, TypeOK
    <2>2. /\ records'[h.payment] = Written(records[h.payment], h)
          /\ DOMAIN records' = DOMAIN records
          /\ \A p \in DOMAIN records : p # h.payment => records'[p] = records[p]
      BY <1>7
    <2>3. records[h.payment].artifacts \subseteq records'[h.payment].artifacts
      BY <1>2, <1>3, <2>1, <2>2, WrittenFacts
    <2>4. Grows
      BY <1>4, <2>2, <2>3 DEF Grows
    <2>5. HandlerBacked(h)'
      BY <1>3, <2>4, PositionStays
    <2>6. CASE h.call = "complete_approval"
      <3>1. ApprovalSpent(h.payment)' /\ ~Starting(h)
        <4>1. records'[h.payment].approval = "completed"
          BY <2>1, <2>2, <2>6 DEF Written, Records, ArtifactCalls
        <4>2. ~Starting(h)
          BY <1>3, <2>6, HandlerFields DEF HandlerBacked, StartBacked, Judged, Starting
        <4>3. QED
          BY <1>7, <2>2, <4>1, <4>2 DEF ApprovalSpent
      <3>2. \A p : ApprovalSpent(p) => ApprovalSpent(p)'
        BY <2>2, <3>1 DEF ApprovalSpent
      <3>3. \A p : p # h.payment => Same(p)
        BY <1>4, <2>2 DEF Same, ApprovalSpent, Released
      <3>4. InPlace(h)'
        BY <1>3, <1>4, <3>1, ApprovedInPlace
      <3>5. h.awaited /\ Following(h) # Done => InPlace(Sent(h))' /\ Follows(h, Sent(h))
        BY <1>3, <1>5, <2>5, <2>6, <3>1, <3>4, SentInPlace
      <3>6. Moved(t) /\ (t \in DOMAIN handlers' =>
              h.awaited /\ Following(h) # Done /\ handlers'[t] = Sent(h))
        BY <1>2, <1>3, <1>7, AnswerMoves
      <3>7. t \in DOMAIN handlers' =>
              Follows(handlers[t], handlers'[t]) /\ InPlace(handlers[t])'
        BY <1>1, <3>5, <3>6
      <3>8. ASSUME NEW u \in DOMAIN handlers', u # t,
                   handlers[u].payment = handlers[t].payment
            PROVE  InPlace(handlers[u])'
        <4>1. PICK k : k = handlers[u] /\ k = handlers'[u] /\ u \in DOMAIN handlers
          BY <3>6, <3>8 DEF Moved
        <4>2. InPlace(k) /\ ~Starting(k)
          BY <1>2, <3>8, <4>1 DEF SerialInv, AllInPlace, Alone
        <4>3. InPlace(k)'
          BY <1>4, <3>2, <4>2, ApprovedInPlace
        <4>4. QED
          BY <4>1, <4>3
      <3>9. PaymentsInOrder' /\ OneReleasePerPayment' /\ FailedMeansUnreleased'
        BY <1>4, <3>2
        DEF SerialInv, PaymentsInOrder, OneReleasePerPayment, FailedMeansUnreleased,
            Unreleased, Released
      <3>10. QED
        BY <1>1, <1>2, <3>3, <3>6, <3>7, <3>8, <3>9, SerialChange
    <2>7. CASE h.call # "complete_approval"
      <3>1. \A p : ApprovalSpent(p)' <=> ApprovalSpent(p)
        <4>1. CASE h.call \in {"queue_approval", "request_approval"}
          <5>1. Starting(h)
            BY <1>3, <4>1, HandlerFields
            DEF HandlerBacked, ResumeBacked, Checked, Endorsed, Starting
          <5>2. ~ApprovalSpent(h.payment)
            BY <1>3, <5>1 DEF InPlace, StartInPlace
          <5>3. records'[h.payment].approval \in {"queued", "pending"}
            BY <2>1, <2>2, <4>1 DEF Written, Records, ArtifactCalls
          <5>4. QED
            BY <2>2, <5>2, <5>3 DEF ApprovalSpent
        <4>2. CASE h.call \notin {"queue_approval", "request_approval"}
          <5>1. records'[h.payment].approval = records[h.payment].approval
            BY <1>2, <2>1, <2>2, <2>7, <4>2
            DEF Written, Records, DelegationCalls, ArtifactCalls
          <5>2. QED
            BY <2>2, <5>1 DEF ApprovalSpent
        <4>3. QED
          BY <4>1, <4>2
      <3>2. Follows(handlers[t], h)
        BY <1>1 DEF Follows
      <3>3. QED
        BY <1>2, <1>3, <1>4, <1>5, <1>7, <2>5, <2>7, <3>1, <3>2, SerialAnswer
    <2>8. QED
      BY <2>6, <2>7
  <1>8. QED
    BY <1>1, <1>6, <1>7 DEF WriteRecord

\* A handler that neither starts nor spends is in place once the approval is spent.
LEMMA IdleInPlace ==
  ASSUME NEW k \in Handler, HandlerBacked(k), ~Starting(k), ~Spending(k),
         ApprovalSpent(k.payment)'
  PROVE  InPlace(k)'
  <1>1. ~(k.call \in Patches /\ k.phase = "commit")
    <2>1. CASE k.op = "start"
      BY <2>1
      DEF HandlerBacked, StartBacked, Judged, Starting, Writing, Patches
    <2>2. CASE k.op = "resume"
      BY <2>2
      DEF HandlerBacked, ResumeBacked, Spending, Checked, Endorsed, Patches
    <2>3. QED
      BY <2>1, <2>2, HandlerFields
  <1>2. QED
    BY <1>1 DEF InPlace, ResumeMayFollow

LEMMA CreateTaskInOrder ==
  ASSUME SagaInv, SerialInv, NEW t \in Handlers, CreateTask(t)
  PROVE  SerialInv'
  <1>1. PICK h : h = handlers[t]
    OBVIOUS
  <1>2. PICK g : g = [h EXCEPT !.phase = "claim"]
    OBVIOUS
  <1>3. t \in DOMAIN handlers /\ h.call = "create" /\ h.phase = "send"
    BY <1>1 DEF CreateTask, At
  <1>4. h \in Handler /\ HandlerBacked(h) /\ InPlace(h)
    BY <1>1, <1>3, Position DEF SerialInv, AllInPlace
  <1>5. h.op = "start" /\ Starting(h)
    BY <1>3, <1>4, HandlerFields
    DEF HandlerBacked, ResumeBacked, Checked, Endorsed, Starting
  <1>6. ~ApprovalSpent(h.payment)
    BY <1>4, <1>5 DEF InPlace, StartInPlace
  <1>7. /\ UNCHANGED <<records, railLog>>
        /\ DOMAIN tasks' = DOMAIN tasks \cup {h.payment}
        /\ tasks'[h.payment] = NewRow
        /\ \A p \in DOMAIN tasks : p # h.payment => tasks'[p] = tasks[p]
    BY <1>1 DEF CreateTask, Put
  <1>8. \A p : p # h.payment => Same(p)
    BY <1>7 DEF Same, ApprovalSpent, Released
  <1>9. \A p : ApprovalSpent(p)' <=> ApprovalSpent(p)
    BY <1>7 DEF ApprovalSpent
  <1>10. Moved(t) /\ (t \in DOMAIN handlers' => handlers'[t] = g)
    BY <1>1, <1>2, <1>3, <1>4, CommittedMoves DEF CreateTask
  <1>11. /\ g.op = "start" /\ g.call = "create" /\ g.phase = "claim"
         /\ g.payment = h.payment /\ g.awaited = h.awaited
    BY <1>2, <1>3, <1>4, <1>5 DEF Handler
  <1>12. Follows(h, g)
    BY <1>5, <1>11 DEF Follows, Spending
  <1>13. InPlace(g)'
    <2>1. Status(g.payment)' = "received"
      BY <1>7, <1>11 DEF Status, NewRow
    <2>2. StartInPlace(g)'
      BY <1>6, <1>9, <1>11, <2>1 DEF StartInPlace, StatusAtStart, Writing
    <2>3. QED
      BY <1>11, <2>2 DEF InPlace, Spending, Patches
  <1>14. t \in DOMAIN handlers' =>
           Follows(handlers[t], handlers'[t]) /\ InPlace(handlers[t])'
    BY <1>1, <1>10, <1>12, <1>13
  <1>15. \A u \in DOMAIN handlers' :
           u # t => handlers[u].payment # handlers[t].payment
    BY <1>1, <1>3, <1>5, <1>10 DEF SerialInv, Alone, Moved
  <1>16. PaymentsInOrder' /\ OneReleasePerPayment' /\ FailedMeansUnreleased'
    <2>1. PaymentsInOrder'
      BY <1>7, <1>9
      DEF SerialInv, PaymentsInOrder, Unreleased, Released, NewRow
    <2>2. FailedMeansUnreleased'
      BY <1>7 DEF SerialInv, FailedMeansUnreleased, Released, NewRow
    <2>3. QED
      BY <1>7, <2>1, <2>2 DEF SerialInv, OneReleasePerPayment
  <1>17. QED
    BY <1>1, <1>3, <1>8, <1>10, <1>14, <1>15, <1>16, SerialChange

\* A state patch leaves exactly the row it asks for, and what it is allowed to say.
LEMMA PatchCommitFacts ==
  ASSUME SagaInv, SerialInv, NEW t \in Handlers, PatchCommit(t),
         NEW h, h = handlers[t]
  PROVE  /\ t \in DOMAIN handlers /\ h \in Handler /\ HandlerBacked(h) /\ InPlace(h)
         /\ h.call \in Patches /\ h.phase = "commit"
         /\ h.payment \in DOMAIN tasks
         /\ UNCHANGED <<orders, records, railLog>>
         /\ tasks' = [tasks EXCEPT ![h.payment] = Patch(h)]
         /\ Patch(h).status = h.call
         /\ h.op = "start" => Starting(h) /\ StartInPlace(h)
         /\ h.op = "resume" => Spending(h) /\ SpendingInPlace(h)
  <1>1. t \in DOMAIN handlers /\ h.call \in Patches /\ h.phase = "commit"
    BY DEF PatchCommit, At
  <1>2. h \in Handler /\ HandlerBacked(h) /\ InPlace(h)
    BY <1>1, Position DEF SerialInv, AllInPlace
  <1>3. h.payment \in DOMAIN tasks /\ h.base = tasks[h.payment]
    BY <1>1, <1>2 DEF InPlace
  <1>4. tasks' = [tasks EXCEPT ![h.payment] = Patch(h)]
    <2>1. Patch(h) \in Row /\ tasks[h.payment] \in Row
      BY <1>1, <1>2, <1>3, PatchBacked, RowOfTask
    <2>2. [c \in DOMAIN tasks[h.payment] |->
             IF Patch(h)[c] # h.base[c] THEN Patch(h)[c] ELSE tasks[h.payment][c]]
          = Patch(h)
      BY <1>3, <2>1 DEF Row
    <2>3. QED
      BY <1>3, <2>2 DEF PatchCommit
  <1>5. Patch(h).status = h.call
    BY DEF Patch
  <1>6. h.op = "start" => Starting(h) /\ StartInPlace(h)
    BY <1>1, <1>2 DEF Starting, Writing, InPlace
  <1>7. h.op = "resume" => Spending(h) /\ SpendingInPlace(h)
    BY <1>1, <1>2
    DEF HandlerBacked, ResumeBacked, InPlace, Spending, Checked, Endorsed, Patches
  <1>8. QED
    BY <1>1, <1>2, <1>3, <1>4, <1>5, <1>6, <1>7 DEF PatchCommit

\* The rail's answer to a release is the one the task can be told.
LEMMA AnswerIsOutcome ==
  ASSUME Reconciling, NEW outcome \in Outcomes
  PROVE  /\ StatusOf(outcome) = "settlement_pending" <=> outcome = "success"
         /\ StatusOf(outcome) = "failed" <=> outcome = "reject"
         /\ StatusOf(outcome) = "pending_reconcile" <=> outcome = "ambiguous"
  BY DEF Reconciling, StatusOf, Outcomes

\* A payment whose release the rail rejected has no other release.
LEMMA RejectedOnce ==
  ASSUME Reconciling, OneReleasePerPayment, NEW p, Answered(p, "failed")
  PROVE  ~Released(p, {"success", "ambiguous"})
  <1>1. {o \in Outcomes : StatusOf(o) = "failed"} \subseteq {"reject"}
    BY AnswerIsOutcome
  <1>2. PICK i \in DOMAIN railLog :
          railLog[i].payment = p /\ railLog[i].outcome = "reject"
    BY <1>1 DEF Answered, Released
  <1>3. ASSUME NEW j \in DOMAIN railLog, railLog[j].payment = p
        PROVE  railLog[j].outcome = "reject"
    BY <1>2, <1>3 DEF OneReleasePerPayment
  <1>4. QED
    BY <1>3 DEF Released

LEMMA PatchCommitInOrder ==
  ASSUME Reconciling, SagaInv, SerialInv, NEW t \in Handlers, PatchCommit(t)
  PROVE  SerialInv'
  <1>1. PICK h : h = handlers[t]
    OBVIOUS
  <1>2. PICK g : g = [h EXCEPT !.phase = "claim"]
    OBVIOUS
  <1> DEFINE p == h.payment
  <1>3. /\ t \in DOMAIN handlers /\ h \in Handler /\ HandlerBacked(h) /\ InPlace(h)
        /\ h.call \in Patches /\ h.phase = "commit" /\ p \in DOMAIN tasks
        /\ UNCHANGED <<orders, records, railLog>>
        /\ tasks' = [tasks EXCEPT ![p] = Patch(h)] /\ Patch(h).status = h.call
        /\ h.op = "start" => Starting(h) /\ StartInPlace(h)
        /\ h.op = "resume" => Spending(h) /\ SpendingInPlace(h)
    BY <1>1, PatchCommitFacts
  <1>4. \A q : q # p => Same(q)
    BY <1>3 DEF Same, ApprovalSpent, Released
  <1>5. \A q : ApprovalSpent(q)' <=> ApprovalSpent(q)
    BY <1>3 DEF ApprovalSpent
  <1>6. Moved(t) /\ (t \in DOMAIN handlers' => handlers'[t] = g)
    BY <1>1, <1>2, <1>3, CommittedMoves DEF PatchCommit
  <1>7. /\ g.op = h.op /\ g.call = h.call /\ g.phase = "claim" /\ g.payment = p
        /\ g.awaited = h.awaited /\ g.result = h.result
    BY <1>2, <1>3 DEF Handler
  <1>8. Status(g.payment)' = h.call /\ tasks'[p] = Patch(h) /\ DOMAIN tasks' = DOMAIN tasks
    BY <1>3, <1>7 DEF Status
  <1>9. CASE h.op = "start"
    <2>1. Starting(h) /\ StartInPlace(h) /\ ~ApprovalSpent(p)
      BY <1>3, <1>9 DEF StartInPlace
    <2>2. h.call \in {"validated", "awaiting_approval", "exception", "failed"}
      BY <1>3, <1>9 DEF HandlerBacked, StartBacked, Judged, Patches
    <2>3. Unreleased(p)
      BY <1>3, <2>1, HandlerFields DEF SerialInv, PaymentsInOrder
    <2>4. InPlace(g)' /\ Follows(h, g)
      <3>1. Follows(h, g)
        BY <1>7, <1>9, <2>1 DEF Follows, Spending
      <3>2. Starting(g) => g.call = "validated"
        BY <1>7, <2>2 DEF Starting, Writing
      <3>3. Starting(g) => StartInPlace(g)'
        BY <1>5, <1>7, <1>8, <2>1, <3>2 DEF StartInPlace, StatusAtStart, Writing
      <3>4. QED
        BY <1>7, <1>9, <3>1, <3>3 DEF InPlace, Spending
    <2>5. \A u \in DOMAIN handlers' :
            u # t => handlers[u].payment # handlers[t].payment
      BY <1>1, <1>3, <1>6, <2>1 DEF SerialInv, Alone, Moved
    <2>6. PaymentsInOrder' /\ FailedMeansUnreleased'
      <3>1. PaymentsInOrder'
        BY <1>3, <1>5, <1>8, <2>2 DEF SerialInv, PaymentsInOrder, Unreleased, Released
      <3>2. ~Released(p, {"success", "ambiguous"})
        BY <2>3 DEF Unreleased, Released, Outcomes
      <3>3. FailedMeansUnreleased'
        BY <1>3, <1>8, <3>2 DEF SerialInv, FailedMeansUnreleased, Released
      <3>4. QED
        BY <3>1, <3>3
    <2>7. QED
      BY <1>1, <1>3, <1>4, <1>6, <2>4, <2>5, <2>6, SerialChange
      DEF SerialInv, OneReleasePerPayment
  <1>10. CASE h.op = "resume"
    <2>1. Spending(h) /\ SpendingInPlace(h)
      BY <1>3, <1>10
    <2>2. h.call \in {"approved", "released", "settlement_pending",
                      "pending_reconcile", "failed"}
      BY <1>3, <1>10, <2>1
      DEF HandlerBacked, ResumeBacked, Checked, Endorsed, Patches, SpendingInPlace
    <2>3. ApprovalSpent(p)
      BY <2>1, <2>2 DEF SpendingInPlace
    <2>4. InPlace(g)' /\ Follows(h, g)
      <3>1. Follows(h, g)
        BY <1>7, <1>10, <2>1 DEF Follows, Starting
      <3>2. Status(g.payment)' \in StatusAtResume(g)
        BY <1>7, <1>8, <2>2 DEF StatusAtResume, Writing
      <3>3. Unreleased(p)' <=> Unreleased(p)
        BY <1>3 DEF Unreleased, Released
      <3>4. SpendingInPlace(g)'
        BY <1>5, <1>7, <2>1, <2>2, <2>3, <3>2, <3>3 DEF SpendingInPlace
      <3>5. QED
        BY <1>5, <1>7, <1>10, <2>3, <3>1, <3>4 DEF InPlace, Starting, ResumeMayFollow
    <2>5. ASSUME NEW u \in DOMAIN handlers', u # t,
                 handlers[u].payment = handlers[t].payment
          PROVE  InPlace(handlers[u])'
      <3>1. PICK k : k = handlers[u] /\ k = handlers'[u] /\ u \in DOMAIN handlers
        BY <1>6, <2>5 DEF Moved
      <3>2. k \in Handler /\ HandlerBacked(k) /\ k.payment = p
        BY <1>1, <2>5, <3>1, Position
      <3>3. ~Starting(k) /\ ~Spending(k)
        BY <1>1, <1>3, <2>1, <2>5, <3>1 DEF SerialInv, Alone
      <3>4. InPlace(k)'
        BY <1>5, <2>3, <3>2, <3>3, IdleInPlace
      <3>5. QED
        BY <3>1, <3>4
    <2>6. PaymentsInOrder' /\ FailedMeansUnreleased'
      <3>1. tasks'[p].approval = "approved"
        BY <1>8, <1>10 DEF Patch
      <3>2. PaymentsInOrder'
        BY <1>3, <1>5, <1>8, <3>1 DEF SerialInv, PaymentsInOrder, Unreleased, Released
      <3>3. h.call = "failed" => ~Released(p, {"success", "ambiguous"})
        BY <1>3, <1>10, <2>1, RejectedOnce
        DEF HandlerBacked, ResumeBacked, SpendingInPlace, SerialInv, Nothing
      <3>4. FailedMeansUnreleased'
        BY <1>3, <1>8, <2>2, <3>3 DEF SerialInv, FailedMeansUnreleased, Released
      <3>5. QED
        BY <3>2, <3>4
    <2>7. QED
      BY <1>1, <1>3, <1>4, <1>6, <2>4, <2>5, <2>6, SerialChange
      DEF SerialInv, OneReleasePerPayment
  <1>11. QED
    BY <1>3, <1>9, <1>10, HandlerFields

\* A release asked for finds its payment approved and unreleased.
LEMMA SubmitFacts ==
  ASSUME SagaInv, SerialInv, NEW t \in Handlers, ReleaseSubmit(t),
         NEW h, h = handlers[t]
  PROVE  /\ t \in DOMAIN handlers /\ h \in Handler /\ HandlerBacked(h)
         /\ h.call = "release" /\ h.op = "resume" /\ h.payment \in DOMAIN tasks
         /\ Spending(h) /\ ApprovalSpent(h.payment) /\ Unreleased(h.payment)
         /\ tasks[h.payment].status = "approved"
         /\ tasks[h.payment].approval = "approved"
         /\ \A i \in DOMAIN railLog : railLog[i].payment # h.payment
  <1>1. t \in DOMAIN handlers /\ h.call = "release"
    BY DEF ReleaseSubmit, At
  <1>2. h \in Handler /\ HandlerBacked(h) /\ InPlace(h)
    BY <1>1, Position DEF SerialInv, AllInPlace
  <1>3. h.op = "resume" /\ Spending(h) /\ h.payment \in DOMAIN tasks
    BY <1>1, <1>2, HandlerFields
    DEF HandlerBacked, StartBacked, ResumeBacked, Judged, Spending, Checked, Endorsed
  <1>4. ApprovalSpent(h.payment) /\ Unreleased(h.payment) /\ Status(h.payment) = "approved"
    BY <1>1, <1>2, <1>3 DEF InPlace, SpendingInPlace, StatusAtResume
  <1>5. tasks[h.payment].status = "approved" /\ tasks[h.payment].approval = "approved"
    BY <1>3, <1>4 DEF Status, SerialInv, PaymentsInOrder
  <1>6. \A i \in DOMAIN railLog : railLog[i].outcome \in Outcomes
    <2>1. railLog \in Seq(Submission)
      BY DEF SagaInv, TypeOK
    <2>2. \A i \in DOMAIN railLog : railLog[i] \in Submission
      BY <2>1
    <2>3. QED
      BY <2>2 DEF Submission
  <1>7. \A i \in DOMAIN railLog : railLog[i].payment # h.payment
    BY <1>4, <1>6 DEF Unreleased, Released
  <1>8. QED
    BY <1>1, <1>2, <1>3, <1>4, <1>5, <1>7

LEMMA ReleaseSubmitInOrder ==
  ASSUME Reconciling, SagaInv, SerialInv, NEW t \in Handlers, ReleaseSubmit(t)
  PROVE  SerialInv'
  <1>1. PICK h : h = handlers[t]
    OBVIOUS
  <1> DEFINE p == h.payment
             outcome == RailOutcome[<<p, h.req.key>>]
             s == [payment |-> p, req |-> h.req, outcome |-> outcome]
  <1>2. /\ t \in DOMAIN handlers /\ h \in Handler /\ HandlerBacked(h)
        /\ h.call = "release" /\ h.op = "resume" /\ p \in DOMAIN tasks
        /\ Spending(h) /\ ApprovalSpent(p) /\ Unreleased(p)
        /\ tasks[p].status = "approved" /\ tasks[p].approval = "approved"
        /\ \A i \in DOMAIN railLog : railLog[i].payment # p
    BY <1>1, SubmitFacts
  <1>3. PICK g : g = [h EXCEPT !.result = StatusOf(outcome)]
    OBVIOUS
  <1>4. /\ UNCHANGED <<orders, tasks, records>> /\ railLog' = Append(railLog, s)
        /\ Answer(t, g)
    BY <1>1, <1>3 DEF ReleaseSubmit
  <1>5. outcome \in Outcomes
    <2>1. h.req.key \in Keys /\ p \in Payments
      BY <1>2, HandlerFields DEF HandlerBacked, ResumeBacked, Keys
    <2>2. QED
      BY <2>1, WorkflowAssumption
  <1>6. /\ railLog' = railLog \o <<s>> /\ Len(railLog) \in Nat
        /\ DOMAIN railLog = 1..Len(railLog) /\ DOMAIN railLog' = 1..(Len(railLog) + 1)
        /\ \A i \in DOMAIN railLog : railLog'[i] = railLog[i]
        /\ railLog'[Len(railLog) + 1] = s
    <2>1. railLog \in Seq(Submission)
      BY DEF SagaInv, TypeOK
    <2>2. railLog' = Append(railLog, s)
      BY <1>4
    <2>3. QED
      BY <2>1, <2>2
  <1>7. \A q : q # p => Same(q)
    BY <1>4, <1>6 DEF Same, ApprovalSpent, Released
  <1>8. \A q : (ApprovalSpent(q)' <=> ApprovalSpent(q)) /\ Status(q)' = Status(q)
    BY <1>4 DEF ApprovalSpent, Status
  <1>9. /\ g \in Handler /\ g.op = "resume" /\ g.call = "release" /\ g.payment = p
        /\ g.awaited = h.awaited /\ g.result = StatusOf(outcome)
        /\ g.result \in {"settlement_pending", "failed", "pending_reconcile"}
    <2>1. StatusOf(outcome) \in {"settlement_pending", "failed", "pending_reconcile"}
      BY <1>5 DEF StatusOf, Outcomes, Reconciling
    <2>2. QED
      BY <1>2, <1>3, <2>1 DEF Handler, PaymentStatus
  <1>10. Moved(t) /\ (t \in DOMAIN handlers' =>
           g.awaited /\ Following(g) # Done /\ handlers'[t] = Sent(g))
    BY <1>2, <1>4, <1>9, AnswerMoves
  <1>11. t \in DOMAIN handlers' => InPlace(Sent(g))' /\ Follows(h, Sent(g))
    <2>1. SUFFICES ASSUME t \in DOMAIN handlers'
                   PROVE  InPlace(Sent(g))' /\ Follows(h, Sent(g))
      OBVIOUS
    <2>2. PICK k : k = Sent(g)
      OBVIOUS
    <2>3. Status(g.payment)' = "approved" /\ ApprovalSpent(g.payment)'
      BY <1>2, <1>8, <1>9 DEF Status
    <2>4. g.call \notin Patches \cup {"read_records"} /\ g.call \in Checked
      BY <1>9 DEF Patches, Checked, Endorsed
    <2>5. (Spending(k) => SpendingInPlace(k)') /\ ~Starting(k)
      BY <1>9, <1>10, <2>1, <2>2, <2>3, <2>4, ResumeAdvances
    <2>6. /\ k.op = "resume" /\ k.payment = p /\ k.phase = "send"
          /\ k.awaited = h.awaited
      BY <1>9, <2>2 DEF Sent, Handler
    <2>7. InPlace(k)'
      BY <1>9, <2>3, <2>5, <2>6 DEF InPlace, ResumeMayFollow
    <2>8. Follows(h, k)
      BY <1>2, <2>5, <2>6 DEF Follows
    <2>9. QED
      BY <2>2, <2>7, <2>8
  <1>12. t \in DOMAIN handlers' =>
           Follows(handlers[t], handlers'[t]) /\ InPlace(handlers[t])'
    BY <1>1, <1>10, <1>11
  <1>13. ASSUME NEW u \in DOMAIN handlers', u # t,
                handlers[u].payment = handlers[t].payment
         PROVE  InPlace(handlers[u])'
    <2>1. PICK k : k = handlers[u] /\ k = handlers'[u] /\ u \in DOMAIN handlers
      BY <1>10, <1>13 DEF Moved
    <2>2. k \in Handler /\ HandlerBacked(k) /\ k.payment = p
      BY <1>1, <1>13, <2>1, Position
    <2>3. ~Starting(k) /\ ~Spending(k)
      BY <1>1, <1>2, <1>13, <2>1 DEF SerialInv, Alone
    <2>4. InPlace(k)'
      BY <1>2, <1>8, <2>2, <2>3, IdleInPlace
    <2>5. QED
      BY <2>1, <2>4
  <1>14. PaymentsInOrder'
    <2>1. ASSUME NEW q \in Payments
          PROVE  ApprovalSpent(q)' \/ Unreleased(q)'
      <3>1. CASE q = p
        BY <1>2, <1>8, <3>1
      <3>2. CASE q # p
        <4>1. Unreleased(q)' <=> Unreleased(q)
          BY <1>7, <3>2 DEF Same, Unreleased
        <4>2. QED
          BY <1>8, <4>1 DEF SerialInv, PaymentsInOrder
      <3>3. QED
        BY <3>1, <3>2
    <2>2. QED
      BY <1>4, <2>1 DEF SerialInv, PaymentsInOrder
  <1>15. OneReleasePerPayment'
    <2>1. \A i \in DOMAIN railLog' : i \in DOMAIN railLog \/ i = Len(railLog) + 1
      BY <1>6
    <2>2. \A i \in DOMAIN railLog : railLog'[i].payment # s.payment
      BY <1>2, <1>6
    <2>3. QED
      BY <1>6, <2>1, <2>2 DEF SerialInv, OneReleasePerPayment
  <1>16. FailedMeansUnreleased'
    BY <1>2, <1>4, <1>7 DEF SerialInv, FailedMeansUnreleased, Same
  <1>17. QED
    BY <1>1, <1>2, <1>7, <1>10, <1>12, <1>13, <1>14, <1>15, <1>16, SerialChange
-----------------------------------------------------------------------------
\* A handler that begins takes nobody's place.
LEMMA SerialBegin ==
  ASSUME SerialInv, UNCHANGED <<tasks, records, railLog>>,
         NEW t, t \notin DOMAIN handlers, NEW g, handlers' = Put(handlers, t, g),
         OneAtATime',
         InPlace(g), ~Spending(g),
         \A u \in DOMAIN handlers :
           handlers[u].payment = g.payment => ~Starting(handlers[u]) /\ ~Starting(g)
  PROVE  SerialInv'
  <1>1. \A p : Same(p)
    BY DEF Same, ApprovalSpent, Released
  <1>2. /\ DOMAIN handlers' = DOMAIN handlers \cup {t} /\ handlers'[t] = g
        /\ \A u \in DOMAIN handlers : handlers'[u] = handlers[u]
    BY DEF Put
  <1>3. AllInPlace'
    <2>1. ASSUME NEW u \in DOMAIN handlers'
          PROVE  InPlace(handlers[u])'
      <3>1. PICK k : k = handlers'[u]
        OBVIOUS
      <3>2. InPlace(k)
        BY <1>2, <3>1 DEF SerialInv, AllInPlace
      <3>3. InPlace(k)'
        BY <1>1, <3>2, SameInPlace
      <3>4. QED
        BY <3>1, <3>3
    <2>2. QED
      BY <2>1 DEF AllInPlace
  <1>4. Alone'
    <2>1. ASSUME NEW u \in DOMAIN handlers', NEW v \in DOMAIN handlers',
                 u # v, handlers'[u].payment = handlers'[v].payment
          PROVE  ~Starting(handlers'[u])
                 /\ ~(Spending(handlers'[u]) /\ Spending(handlers'[v]))
      BY <1>2, <2>1 DEF SerialInv, Alone
    <2>2. QED
      BY <2>1 DEF Alone, Starting, Spending, Writing
  <1>6. PaymentsInOrder' /\ OneReleasePerPayment' /\ FailedMeansUnreleased'
    BY <1>1, PaymentsStay DEF SerialInv, Same
  <1>7. QED
    BY <1>3, <1>4, <1>6 DEF SerialInv

LEMMA BeginStartInOrder ==
  ASSUME SagaInv, SpentIsOrdered, SerialInv, OneAtATime', NEW t \in Handlers,
         NEW p \in Payments, NEW order \in Orders, BeginStart(t, p, order)
  PROVE  SerialInv'
  <1>1. PICK g : g = NewHandler("start", p, order, "instruct", NewRow)
    OBVIOUS
  <1>2. /\ t \notin DOMAIN handlers /\ handlers' = Put(handlers, t, g)
        /\ p \notin DOMAIN orders /\ UNCHANGED <<tasks, records, railLog>>
    BY <1>1 DEF BeginStart, MayBegin
  <1>4. p \notin DOMAIN tasks /\ ~ApprovalSpent(p)
    BY <1>2 DEF SagaInv, TasksBacked, SpentIsOrdered, ApprovalSpent
  <1>5. \A u \in DOMAIN handlers : handlers[u].payment # p
    BY <1>2, Position DEF HandlerBacked
  <1>6. g.op = "start" /\ g.call = "instruct" /\ g.payment = p
    BY <1>1 DEF NewHandler
  <1>7. StartInPlace(g)
    BY <1>4, <1>6 DEF StartInPlace, StatusAtStart, Status
  <1>8. InPlace(g) /\ ~Spending(g)
    BY <1>6, <1>7 DEF InPlace, Spending, Patches
  <1>9. QED
    BY <1>2, <1>5, <1>6, <1>8, SerialBegin

LEMMA BeginResumeInOrder ==
  ASSUME SagaInv, SerialInv, OneAtATime', NEW t \in Handlers, NEW p \in Payments,
         NEW req \in Approvals, BeginResume(t, p, req)
  PROVE  SerialInv'
  <1>1. PICK g : g = NewHandler("resume", p, req, "record_decision", tasks[p])
    OBVIOUS
  <1>2. /\ t \notin DOMAIN handlers /\ handlers' = Put(handlers, t, g)
        /\ p \in DOMAIN tasks /\ UNCHANGED <<tasks, records, railLog>>
    BY <1>1 DEF BeginResume, MayBegin
  <1>4. Status(p) = "awaiting_approval"
    <2>1. ReleaseDecision(orders[p], tasks[p], req) = "allow"
      BY DEF BeginResume
    <2>2. tasks[p].status = "awaiting_approval"
      BY <2>1 DEF ReleaseDecision, Refusal
    <2>3. QED
      BY <1>2, <2>2 DEF Status
  <1>5. /\ g.op = "resume" /\ g.call = "record_decision" /\ g.payment = p
    BY <1>1 DEF NewHandler
  <1>6. ~Starting(g) /\ ~Spending(g)
    BY <1>5 DEF Starting, Spending, Checked, Endorsed
  <1>7. ResumeMayFollow(g)
    BY <1>4, <1>5 DEF SerialInv, PaymentsInOrder, ResumeMayFollow
  <1>8. InPlace(g)
    BY <1>5, <1>6, <1>7 DEF InPlace, Patches
  <1>9. ASSUME NEW u \in DOMAIN handlers, handlers[u].payment = p
        PROVE  ~Starting(handlers[u])
    <2>1. StatusAtStart(handlers[u]) # "awaiting_approval"
      BY DEF StatusAtStart, Nothing
    <2>2. QED
      BY <1>4, <1>9, <2>1 DEF SerialInv, AllInPlace, InPlace, StartInPlace
  <1>10. QED
    BY <1>2, <1>5, <1>6, <1>8, <1>9, SerialBegin
-----------------------------------------------------------------------------
LEMMA SerialStep ==
  ASSUME Reconciling, SagaInv, SpentIsOrdered, SerialInv, [Next]_vars, OneAtATime'
  PROVE  SerialInv'
  <1>1. ASSUME NEW t \in Handlers, Serve(t)
        PROVE  SerialInv'
    BY <1>1, InstructInOrder, CreateTaskInOrder, ValidateInOrder, PatchReadInOrder,
       PatchCommitInOrder, ClaimInOrder, ProjectInOrder, WriteRecordInOrder,
       ReadRowInOrder, ReadRecordsInOrder, ReleaseLookupInOrder, ReleaseSubmitInOrder
    DEF Serve
  <1>2. CASE UNCHANGED vars
    <2>1. /\ \A p : ApprovalSpent(p)' <=> ApprovalSpent(p)
          /\ UNCHANGED <<tasks, railLog, handlers>>
      BY <1>2 DEF vars, ApprovalSpent
    <2>2. \A p : Same(p)
      BY <2>1, PaymentsStay DEF SerialInv
    <2>3. Moved(0)
      BY <2>1 DEF Moved
    <2>4. 0 \in DOMAIN handlers' =>
            Follows(handlers[0], handlers'[0]) /\ InPlace(handlers[0])'
      <3>1. PICK k : k = handlers[0] /\ k = handlers'[0]
        BY <2>1
      <3>2. 0 \in DOMAIN handlers' => InPlace(k)
        BY <2>1, <3>1 DEF SerialInv, AllInPlace
      <3>3. InPlace(k) => InPlace(k)'
        BY <2>2, SameInPlace
      <3>4. QED
        BY <3>1, <3>2, <3>3 DEF Follows
    <2>5. QED
      BY <2>1, <2>3, <2>4, SerialStays
  <1>3. QED
    BY <1>1, <1>2, BeginStartInOrder, BeginResumeInOrder, AbandonInOrder, LostInOrder,
       GatewayRestartInOrder DEF Next

LEMMA SerialInit == Init => SerialInv
  <1> SUFFICES ASSUME Init
               PROVE  SerialInv
    OBVIOUS
  <1>1. /\ DOMAIN tasks = {} /\ DOMAIN handlers = {} /\ DOMAIN records = {}
        /\ DOMAIN railLog = {}
    BY EmptyDict DEF Init
  <1>2. QED
    BY <1>1
    DEF SerialInv, AllInPlace, Alone, OneAtATime, PaymentsInOrder,
        OneReleasePerPayment, FailedMeansUnreleased, ApprovalSpent, Unreleased, Released

\* With one handler at work at a time for each payment, every handler, awaited or left
\* behind, is where its payment's status, approval and releases say.
THEOREM ApartInvariance ==
  ASSUME Reconciling
  PROVE  Spec /\ []OneAtATime => [](SagaInv /\ SerialInv)
  <1> DEFINE I == SagaInv /\ IntakeInv /\ SerialInv
  <1>1. Init => I
    BY SagaInit, IntakeInit, SerialInit
  <1>2. I /\ [Next]_vars /\ OneAtATime' => I'
    BY SagaStep, IntakeStep, SerialStep DEF IntakeInv
  <1>3. I => SagaInv /\ SerialInv
    OBVIOUS
  <1> HIDE DEF I
  <1>4. QED
    BY <1>1, <1>2, <1>3, PTL DEF Spec

\* Then the rail performs at most one release per payment: a second one needs two
\* handlers at work at once for the same payment, and neither crashes, lost calls nor
\* handlers of other payments lead there.
THEOREM ReleasedOnceIfApart ==
  ASSUME Reconciling
  PROVE  Spec /\ []OneAtATime => []OneReleasePerPayment
  <1>1. SerialInv => OneReleasePerPayment
    BY DEF SerialInv
  <1>2. QED
    BY <1>1, ApartInvariance, PTL

\* A payment that was given up has not been released.
THEOREM FailedIfApart ==
  ASSUME Reconciling
  PROVE  Spec /\ []OneAtATime => []FailedMeansUnreleased
  <1>1. SerialInv => FailedMeansUnreleased
    BY DEF SerialInv
  <1>2. QED
    BY <1>1, ApartInvariance, PTL

\* And the rail performs a release only while its task says that it is approved.
THEOREM ApprovedIfApart ==
  ASSUME Reconciling
  PROVE  Spec /\ []OneAtATime => ReleaseNeedsApproval
  <1>1. ASSUME SagaInv, SerialInv, [Next]_vars, NEW t \in Handlers, ReleaseSubmit(t)
        PROVE  /\ tasks[handlers[t].payment].status = "approved"
               /\ tasks[handlers[t].payment].approval = "approved"
    BY <1>1, SubmitFacts
  <1>2. SagaInv /\ SerialInv /\ [Next]_vars =>
          [\A t \in Handlers :
             ReleaseSubmit(t) =>
               LET row == tasks[handlers[t].payment]
               IN row.status = "approved" /\ row.approval = "approved"]_vars
    BY <1>1
  <1>3. QED
    BY <1>2, ApartInvariance, PTL DEF Spec, ReleaseNeedsApproval
-----------------------------------------------------------------------------
\* The log of the rail as the life of the payments sees it.
Told(s) == [payment |-> s.payment, outcome |-> s.outcome]
Submitted == [i \in DOMAIN railLog |-> Told(railLog[i])]
Statuses == [p \in Payments |-> Status(p)]

LEMMA ToldAppends ==
  ASSUME NEW log \in Seq(Submission), NEW s \in Submission
  PROVE  [i \in DOMAIN Append(log, s) |-> Told(Append(log, s)[i])]
           = Append([i \in DOMAIN log |-> Told(log[i])], Told(s))
  <1> DEFINE T == [payment : Payments, outcome : Outcomes]
             told == [i \in DOMAIN log |-> Told(log[i])]
             all == [i \in DOMAIN Append(log, s) |-> Told(Append(log, s)[i])]
  <1>1. /\ Len(log) \in Nat /\ DOMAIN log = 1..Len(log)
        /\ \A i \in DOMAIN log : log[i] \in Submission
    OBVIOUS
  <1>2. \A u \in Submission : Told(u) \in T
    BY DEF Told, Submission
  <1>3. told \in [1..Len(log) -> T]
    BY <1>1, <1>2
  <1>4. told \in Seq(T) /\ Len(told) = Len(log)
    BY <1>1, <1>3
  <1>5. /\ DOMAIN Append(log, s) = 1..(Len(log) + 1)
        /\ \A i \in 1..Len(log) : Append(log, s)[i] = log[i]
        /\ Append(log, s)[Len(log) + 1] = s
    BY <1>1
  <1>6. /\ DOMAIN Append(told, Told(s)) = 1..(Len(log) + 1)
        /\ \A i \in 1..Len(log) : Append(told, Told(s))[i] = told[i]
        /\ Append(told, Told(s))[Len(log) + 1] = Told(s)
    BY <1>2, <1>4
  <1>7. \A i \in 1..(Len(log) + 1) : all[i] = Append(told, Told(s))[i]
    <2>1. ASSUME NEW i \in 1..(Len(log) + 1)
          PROVE  all[i] = Append(told, Told(s))[i]
      <3>1. CASE i \in 1..Len(log)
        BY <1>1, <1>5, <1>6, <3>1
      <3>2. CASE i = Len(log) + 1
        BY <1>5, <1>6, <3>2
      <3>3. QED
        BY <1>1, <3>1, <3>2
    <2>2. QED
      BY <2>1
  <1>8. /\ all = [i \in 1..(Len(log) + 1) |-> all[i]]
        /\ Append(told, Told(s)) = [i \in 1..(Len(log) + 1) |-> Append(told, Told(s))[i]]
    <2>1. Append(told, Told(s)) \in Seq(T)
      BY <1>2, <1>4
    <2>2. QED
      BY <1>5, <1>6, <2>1
  <1>9. QED
    BY <1>7, <1>8

LEMMA LifeInit == Init => Life!Init
  <1> SUFFICES ASSUME Init
               PROVE  Life!Init
    OBVIOUS
  <1>1. Statuses = [p \in Payments |-> "none"]
    BY EmptyDict DEF Init, Statuses, Status, Nothing
  <1>2. Submitted = <<>>
    BY DEF Init, Submitted
  <1>3. QED
    BY <1>1, <1>2 DEF Life!Init, Statuses, Submitted, Told

\* A step that changes the status of one payment, and no release.
LEMMA StatusMoves ==
  ASSUME SagaInv, NEW p \in Payments, UNCHANGED railLog, p \in DOMAIN tasks',
         \A q : q # p => Status(q)' = Status(q)
  PROVE  /\ Statuses' = [Statuses EXCEPT ![p] = tasks'[p].status]
         /\ UNCHANGED Submitted
         /\ Statuses[p] = Status(p)
  BY DEF Statuses, Submitted, Told, Status

LEMMA CreateTaskAdvances ==
  ASSUME SagaInv, SerialInv, NEW t \in Handlers, CreateTask(t)
  PROVE  Life!Next
  <1> DEFINE h == handlers[t]
  <1>1. PICK p : p = h.payment
    OBVIOUS
  <1>2. t \in DOMAIN handlers /\ h.call = "create" /\ h.phase = "send"
    BY DEF CreateTask, At
  <1>3. h \in Handler /\ HandlerBacked(h) /\ InPlace(h) /\ p \in Payments
    BY <1>1, <1>2, Position, HandlerFields DEF SerialInv, AllInPlace
  <1>4. Status(p) = "none"
    BY <1>1, <1>2, <1>3, HandlerFields
    DEF HandlerBacked, ResumeBacked, Checked, Endorsed, InPlace, Starting, StartInPlace,
        StatusAtStart, Writing, Nothing
  <1>5. /\ UNCHANGED railLog /\ p \in DOMAIN tasks' /\ tasks'[p].status = "received"
        /\ \A q : q # p => Status(q)' = Status(q)
    BY <1>1 DEF CreateTask, Put, Status, NewRow
  <1>6. /\ Statuses' = [Statuses EXCEPT ![p] = "received"]
        /\ UNCHANGED Submitted /\ Statuses[p] = "none"
    BY <1>3, <1>4, <1>5, StatusMoves
  <1>7. Life!Advance(p)
    BY <1>6 DEF Life!Advance, Life!Steps, Statuses, Submitted, Told
  <1>8. QED
    BY <1>3, <1>7 DEF Life!Next

\* The answer a handler was given is one the rail gave.
LEMMA AnswerIsSubmitted ==
  ASSUME Reconciling, SagaInv, NEW p, NEW st, Answered(p, st)
  PROVE  \E outcome \in Life!Answers(p) : outcome \in Outcomes /\ StatusOf(outcome) = st
  <1>1. PICK i \in DOMAIN railLog :
          /\ railLog[i].payment = p
          /\ railLog[i].outcome \in {o \in Outcomes : StatusOf(o) = st}
    BY DEF Answered, Released
  <1>2. railLog[i].outcome \in Life!Answers(p)
    BY <1>1 DEF Life!Answers
  <1>3. QED
    BY <1>1, <1>2

LEMMA PatchCommitAdvances ==
  ASSUME Reconciling, SagaInv, SerialInv, NEW t \in Handlers, PatchCommit(t)
  PROVE  Life!Next
  <1>1. PICK h : h = handlers[t]
    OBVIOUS
  <1>2. PICK p : p = h.payment
    OBVIOUS
  <1>3. /\ t \in DOMAIN handlers /\ h \in Handler /\ HandlerBacked(h)
        /\ h.call \in Patches /\ h.phase = "commit" /\ p \in DOMAIN tasks
        /\ UNCHANGED railLog
        /\ tasks' = [tasks EXCEPT ![p] = Patch(h)] /\ Patch(h).status = h.call
        /\ h.op = "start" => Starting(h) /\ StartInPlace(h)
        /\ h.op = "resume" => Spending(h) /\ SpendingInPlace(h)
    BY <1>1, <1>2, PatchCommitFacts
  <1>4. p \in Payments /\ h.op \in {"start", "resume"}
    BY <1>2, <1>3, HandlerFields
  <1>5. /\ p \in DOMAIN tasks' /\ tasks'[p].status = h.call
        /\ \A q : q # p => Status(q)' = Status(q)
    BY <1>3 DEF Status
  <1>6. /\ Statuses' = [Statuses EXCEPT ![p] = h.call]
        /\ UNCHANGED Submitted /\ Statuses[p] = Status(p)
    BY <1>3, <1>4, <1>5, StatusMoves
  <1>7. CASE <<Status(p), h.call>> \in Life!Steps
    <2>1. Life!Advance(p)
      BY <1>6, <1>7 DEF Life!Advance, Statuses, Submitted, Told
    <2>2. QED
      BY <1>4, <2>1 DEF Life!Next
  <1>8. CASE h.op = "start"
    <2>1. h.call \in {"validated", "awaiting_approval", "exception", "failed"}
      BY <1>3, <1>8 DEF HandlerBacked, StartBacked, Judged, Patches
    <2>2. Status(p) = IF h.call = "awaiting_approval" THEN "validated" ELSE "received"
      BY <1>2, <1>3, <1>8, <2>1 DEF StartInPlace, StatusAtStart, Writing
    <2>3. QED
      BY <1>7, <2>1, <2>2 DEF Life!Steps
  <1>9. CASE h.op = "resume"
    <2>1. h.call \in {"approved", "released", "settlement_pending",
                      "pending_reconcile", "failed"}
      BY <1>3, <1>9
      DEF HandlerBacked, ResumeBacked, Checked, Endorsed, Patches, SpendingInPlace
    <2>2. Status(p) \in StatusAtResume(h)
      BY <1>2, <1>3, <1>9 DEF SpendingInPlace
    <2>3. CASE h.call \in {"approved", "settlement_pending"}
      BY <1>3, <1>7, <2>2, <2>3 DEF StatusAtResume, Writing, Life!Steps
    <2>4. CASE h.call \in {"released", "pending_reconcile", "failed"}
      <3>1. Status(p) = "approved"
        BY <1>3, <2>2, <2>4 DEF StatusAtResume, Writing
      <3>2. /\ h.result = IF h.call = "released" THEN "settlement_pending" ELSE h.call
            /\ Answered(p, h.result)
        BY <1>2, <1>3, <1>9, <2>4
        DEF HandlerBacked, ResumeBacked, SpendingInPlace, Nothing
      <3>3. PICK outcome \in Life!Answers(p) :
              outcome \in Outcomes /\ StatusOf(outcome) = h.result
        BY <3>2, AnswerIsSubmitted
      <3>4. Life!Conclusion[outcome] = h.call
        BY <2>4, <3>2, <3>3, AnswerIsOutcome DEF Life!Conclusion, Outcomes
      <3>5. Life!Conclude(p)
        BY <1>6, <3>1, <3>3, <3>4 DEF Life!Conclude, Statuses, Submitted, Told
      <3>6. QED
        BY <1>4, <3>5 DEF Life!Next
    <2>5. QED
      BY <2>1, <2>3, <2>4
  <1>10. QED
    BY <1>4, <1>8, <1>9

LEMMA ReleaseSubmits ==
  ASSUME SagaInv, SerialInv, NEW t \in Handlers, ReleaseSubmit(t)
  PROVE  Life!Next
  <1>1. PICK h : h = handlers[t]
    OBVIOUS
  <1>2. PICK p : p = h.payment
    OBVIOUS
  <1>3. PICK outcome : outcome = RailOutcome[<<p, h.req.key>>]
    OBVIOUS
  <1>4. PICK s : s = [payment |-> p, req |-> h.req, outcome |-> outcome]
    OBVIOUS
  <1>5. /\ h \in Handler /\ HandlerBacked(h) /\ h.op = "resume" /\ p \in DOMAIN tasks
        /\ tasks[p].status = "approved"
        /\ \A i \in DOMAIN railLog : railLog[i].payment # p
    BY <1>1, <1>2, SubmitFacts
  <1>6. /\ p \in Payments /\ h.req \in Approvals /\ h.req.key \in Keys
        /\ outcome \in Outcomes /\ s \in Submission
    <2>1. p \in Payments /\ h.req \in Approvals /\ h.req.key \in Keys
      BY <1>2, <1>5, HandlerFields DEF HandlerBacked, ResumeBacked, Keys
    <2>2. outcome \in Outcomes
      BY <1>3, <2>1, WorkflowAssumption
    <2>3. QED
      BY <1>4, <2>1, <2>2 DEF Submission
  <1>7. UNCHANGED tasks /\ railLog' = Append(railLog, s)
    BY <1>1, <1>2, <1>3, <1>4 DEF ReleaseSubmit
  <1>8. Submitted' = Append(Submitted, [payment |-> p, outcome |-> outcome])
    <2>1. railLog \in Seq(Submission)
      BY DEF SagaInv, TypeOK
    <2>2. Submitted' = Append(Submitted, Told(s))
      BY <1>6, <1>7, <2>1, ToldAppends DEF Submitted
    <2>3. QED
      BY <1>4, <2>2 DEF Told
  <1>9. UNCHANGED Statuses /\ Statuses[p] = "approved"
    BY <1>5, <1>6, <1>7 DEF Statuses, Status
  <1>10. Life!Answers(p) = {}
    BY <1>5 DEF Life!Answers
  <1>11. Life!Submit(p, outcome)
    BY <1>8, <1>9, <1>10 DEF Life!Submit, Statuses, Submitted, Told
  <1>12. QED
    BY <1>6, <1>11 DEF Life!Next

LEMMA LifeStep ==
  ASSUME Reconciling, SagaInv, SerialInv, [Next]_vars
  PROVE  [Life!Next]_(Life!vars)
  <1>1. CASE UNCHANGED <<tasks, railLog>>
    BY <1>1 DEF Life!vars, Status
  <1>2. QED
    BY <1>1, CreateTaskAdvances, PatchCommitAdvances, ReleaseSubmits
    DEF Next, vars, BeginStart, BeginResume, Serve, Abandon, Lost, GatewayRestart,
        Instruct, Validate, PatchRead, Claim, Project, WriteRecord, ReadRow,
        ReadRecords, ReleaseLookup

\* Every payment lives the life it should.
THEOREM LifeIfApart ==
  ASSUME Reconciling
  PROVE  Spec /\ []OneAtATime => ImplementsPaymentLife
  <1>1. Init => Life!Init
    BY LifeInit
  <1>2. SagaInv /\ SerialInv /\ [Next]_vars => [Life!Next]_(Life!vars)
    BY LifeStep
  <1>3. QED
    BY <1>1, <1>2, ApartInvariance, PTL DEF Spec, ImplementsPaymentLife, Life!Spec
=============================================================================
