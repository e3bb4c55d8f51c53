------------------------- MODULE PaymentWorkflowProofs -------------------------
(***************************************************************************)
(* TLAPS proofs about the payment sagas, for every number of payments,     *)
(* handlers, abandoned calls and faults, every policy and every rail.      *)
(***************************************************************************)
EXTENDS PaymentInvariants, DictTheorems

\* What only grows: accepted orders, tasks, artifacts and the log of the rail.
Grows ==
  /\ \A p \in DOMAIN orders : p \in DOMAIN orders' /\ orders'[p] = orders[p]
  /\ DOMAIN tasks \subseteq DOMAIN tasks'
  /\ \A p \in DOMAIN records :
       p \in DOMAIN records' /\ records[p].artifacts \subseteq records'[p].artifacts
  /\ \A i \in DOMAIN railLog : i \in DOMAIN railLog' /\ railLog'[i] = railLog[i]

\* The handler whose call is answered, as it makes the next one.
Sent(h) ==
  [h EXCEPT !.call = Following(h), !.phase = "send", !.claimed = {}]

\* What a call that was answered has brought about.
Effected(h) ==
  /\ h.call = "create" => h.payment \in DOMAIN tasks
  /\ h.call \in ArtifactCalls => Artifacted(h.payment, Recorded(h))
  /\ h.call = "validate" => h.result = RailVerdict[h.payment]
  /\ h.call = "read_records" => h.row.status = "awaiting_approval"

\* The fields of a handler.
LEMMA HandlerFields ==
  ASSUME NEW h \in Handler
  PROVE  /\ h.op \in {"start", "resume"} /\ h.payment \in Payments
         /\ h.req \in Orders \cup Approvals /\ h.call \in Calls
         /\ h.phase \in {"send", "commit", "claim", "project"}
         /\ h.awaited \in BOOLEAN /\ h.row \in Row /\ h.base \in Row /\ h.claimed \subseteq Payments
         /\ h.result \in Verdicts \cup PaymentStatus \cup {Nothing}
  BY DEF Handler

\* The next call of a handler is a call.
LEMMA FollowingIsCall ==
  ASSUME NEW h \in Handler, Following(h) # Done
  PROVE  Following(h) \in Calls
  <1>1. CASE h.call \in {"record_validation", "record_result"}
    <2>1. FirstPatch(h.result) \in Patches
      BY DEF FirstPatch, Patches
    <2>2. QED
      BY <1>1, <2>1 DEF Following, Calls
  <1>2. CASE h.call \notin {"record_validation", "record_result"}
    BY <1>2 DEF Following, Calls, Patches, DelegationCalls, ArtifactCalls,
                StartCalls, ResumeCalls
  <1>3. QED
    BY <1>1, <1>2

LEMMA SentType ==
  ASSUME NEW h \in Handler, Following(h) # Done
  PROVE  Sent(h) \in Handler
  BY FollowingIsCall, HandlerFields DEF Sent, Handler

\* What an answer does to the handlers.
LEMMA AnswerFacts ==
  ASSUME NEW t \in Handlers, NEW h \in Handler,
         IsDict(handlers, Handlers, Handler), Answer(t, h)
  PROVE  /\ IsDict(handlers', Handlers, Handler)
         /\ \A u \in DOMAIN handlers' :
              \/ u \in DOMAIN handlers /\ handlers'[u] = handlers[u]
              \/ Following(h) # Done /\ handlers'[u] = Sent(h)
  <1>1. CASE h.awaited /\ Following(h) # Done /\ handlers' = Put(handlers, t, Sent(h))
    <2>1. IsDict(handlers', Handlers, Handler)
      BY <1>1, SentType, PutDict
    <2>2. QED
      BY <1>1, <2>1 DEF Put
  <1>2. CASE handlers' = Drop(handlers, t)
    <2>1. IsDict(handlers', Handlers, Handler)
      BY <1>2, DropDict
    <2>2. QED
      BY <1>2, <2>1 DEF Drop
  <1>3. QED
    BY <1>1, <1>2 DEF Answer, Sent
-----------------------------------------------------------------------------
\* What a row says stays so.
LEMMA RowStays ==
  ASSUME Grows, NEW p, NEW row, RowBacked(p, row)
  PROVE  RowBacked(p, row)'
  <1>1. ASSUME NEW a, Artifacted(p, a)
        PROVE  Artifacted(p, a)'
    BY <1>1 DEF Grows, Artifacted
  <1>2. ASSUME NEW st, Answered(p, st)
        PROVE  Answered(p, st)'
    BY <1>2 DEF Grows, Answered, Released
  <1>3. QED
    BY <1>1, <1>2 DEF RowBacked

\* What the position of a handler says stays so.
LEMMA PositionStays ==
  ASSUME Grows, NEW h, HandlerBacked(h)
  PROVE  HandlerBacked(h)'
  <1>1. ASSUME NEW p, NEW a, Artifacted(p, a)
        PROVE  Artifacted(p, a)'
    BY <1>1 DEF Grows, Artifacted
  <1>2. ASSUME NEW p, NEW st, Answered(p, st)
        PROVE  Answered(p, st)'
    BY <1>2 DEF Grows, Answered, Released
  <1>3. /\ RowBacked(h.payment, h.row)'
        /\ h.payment \in DOMAIN orders' /\ orders'[h.payment] = orders[h.payment]
    BY RowStays DEF HandlerBacked, Grows
  <1>4. h.op = "start" => StartBacked(h)'
    BY <1>1 DEF HandlerBacked, StartBacked, Grows
  <1>5. h.op = "resume" => ResumeBacked(h)'
    BY <1>1, <1>2, <1>3 DEF HandlerBacked, ResumeBacked, Grows
  <1>6. QED
    BY <1>3, <1>4, <1>5 DEF HandlerBacked
-----------------------------------------------------------------------------
\* A start whose call has brought about its effect is in place for the next one.
LEMMA StartProceeds ==
  ASSUME NEW h \in Handler, HandlerBacked(h)', Effected(h)',
         h.op = "start", Following(h) # Done
  PROVE  StartBacked(Sent(h))'
  <1> DEFINE g == Sent(h)
  <1>1. /\ g.payment = h.payment /\ g.result = h.result /\ g.phase = "send"
        /\ g.call = Following(h)
    BY DEF Sent, Handler
  <1>2. /\ h.call \in {"instruct", "create", "queue_validation", "validate"} \cup Judged
        /\ h.call \in Judged => h.result = RailVerdict[h.payment]
        /\ RailVerdict[h.payment] \in Verdicts
    BY HandlerFields, WorkflowAssumption DEF HandlerBacked, StartBacked
  <1>3. CASE h.call = "record_validation"
    <2>1. Following(h) \in {"validated", "exception", "failed"}
      BY <1>2, <1>3 DEF Following, FirstPatch, Judged, Verdicts
    <2>2. QED
      BY <1>1, <1>2, <1>3, <2>1 DEF StartBacked, Judged, HandlerBacked
  <1>4. CASE h.call = "record_request"
    <2>1. Following(h) = "awaiting_approval"
      BY <1>4 DEF Following, StartCalls
    <2>2. Artifacted(h.payment, <<"record_request", Nothing>>)'
      BY <1>4 DEF Effected, ArtifactCalls, Recorded
    <2>3. QED
      BY <1>1, <1>2, <1>4, <2>1, <2>2 DEF StartBacked, Judged, HandlerBacked
  <1>5. CASE h.call \in {"instruct", "create", "queue_validation", "validate",
                         "finish_validation", "validated", "queue_approval",
                         "request_approval"}
    <2>1. /\ h.call = "instruct" => Following(h) = "create"
          /\ h.call = "create" => Following(h) = "queue_validation"
          /\ h.call = "queue_validation" => Following(h) = "validate"
          /\ h.call = "validate" => Following(h) = "finish_validation"
          /\ h.call = "finish_validation" => Following(h) = "record_validation"
          /\ h.call = "validated" => Following(h) = "queue_approval"
          /\ h.call = "queue_approval" => Following(h) = "request_approval"
          /\ h.call = "request_approval" => Following(h) = "record_request"
      BY DEF Following, StartCalls
    <2>2. QED
      BY <1>1, <1>2, <1>5, <2>1 DEF StartBacked, Judged, HandlerBacked, Effected
  <1>6. CASE h.call \in {"awaiting_approval", "exception", "failed"}
    BY <1>6 DEF Following, StartCalls
  <1>7. QED
    BY <1>2, <1>3, <1>4, <1>5, <1>6 DEF Judged

\* So is a resume.
LEMMA ResumeProceeds ==
  ASSUME NEW h \in Handler, HandlerBacked(h)', Effected(h)',
         h.op = "resume", Following(h) # Done
  PROVE  ResumeBacked(Sent(h))'
  <1> DEFINE g == Sent(h)
  <1>1. /\ g.payment = h.payment /\ g.result = h.result /\ g.phase = "send"
        /\ g.call = Following(h) /\ g.req = h.req
    BY DEF Sent, Handler
  <1>2. ResumeBacked(h)'
    BY DEF HandlerBacked
  <1>3. ASSUME g.call \in {"read_row", "read_records"} \cup Checked,
               h.call = "record_decision"
                 \/ Artifacted(h.payment, <<"record_decision", Nothing>>)',
               g.call \in Checked => Artifacted(h.payment, <<"record_request", Nothing>>)',
               g.call \in Endorsed => Artifacted(h.payment, <<"record_approval", h.req.by>>)',
               g.call \in {"released", "settlement_pending"} =>
                 h.result = "settlement_pending",
               g.call = "pending_reconcile" => h.result = "pending_reconcile"
        PROVE  ResumeBacked(g)'
    <2>1. Artifacted(h.payment, <<"record_decision", Nothing>>)'
      BY <1>2, <1>3 DEF Effected, ArtifactCalls, Recorded
    <2>2. QED
      BY <1>1, <1>2, <1>3, <2>1 DEF ResumeBacked
  <1>4. CASE h.call = "record_result"
    <2>1. /\ g.call \in {"validated", "released", "pending_reconcile", "failed"}
          /\ g.call = "released" => h.result = "settlement_pending"
          /\ g.call = "pending_reconcile" => h.result = "pending_reconcile"
      <3>1. h.result # "needs_review"
        BY <1>2 DEF ResumeBacked, PaymentStatus, Nothing
      <3>2. QED
        BY <1>1, <1>4, <3>1 DEF Following, FirstPatch
    <2>2. QED
      BY <1>2, <1>3, <1>4, <2>1 DEF ResumeBacked, Checked, Endorsed
  <1>5. CASE h.call \in {"record_decision", "read_row", "read_records",
                         "complete_approval", "record_approval", "approved",
                         "release", "released"}
    <2>1. /\ h.call = "record_decision" => g.call = "read_row"
          /\ h.call = "read_row" => g.call = "read_records"
          /\ h.call = "read_records" => g.call = "complete_approval"
          /\ h.call = "complete_approval" => g.call = "record_approval"
          /\ h.call = "record_approval" => g.call = "approved"
          /\ h.call = "approved" => g.call = "release"
          /\ h.call = "release" => g.call = "record_result"
          /\ h.call = "released" => g.call = "settlement_pending"
      BY <1>1 DEF Following, ResumeCalls
    <2>2. h.call = "read_records" =>
            Artifacted(h.payment, <<"record_request", Nothing>>)'
      BY DEF HandlerBacked, Effected, RowBacked
    <2>3. h.call = "record_approval" =>
            Artifacted(h.payment, <<"record_approval", h.req.by>>)'
      BY DEF Effected, ArtifactCalls, Recorded
    <2>4. QED
      BY <1>2, <1>3, <1>5, <2>1, <2>2, <2>3 DEF ResumeBacked, Checked, Endorsed
  <1>6. CASE h.call \in {"settlement_pending", "pending_reconcile", "failed", "validated"}
    BY <1>6 DEF Following, ResumeCalls
  <1>7. QED
    BY <1>2, <1>4, <1>5, <1>6 DEF ResumeBacked, Checked, Endorsed

LEMMA Proceeds ==
  ASSUME NEW h \in Handler, HandlerBacked(h)', Effected(h)', Following(h) # Done
  PROVE  HandlerBacked(Sent(h))'
  <1>1. /\ Sent(h).op = h.op /\ Sent(h).payment = h.payment /\ Sent(h).row = h.row
        /\ Sent(h).phase = "send"
    BY DEF Sent, Handler
  <1>2. QED
    BY <1>1, HandlerFields, StartProceeds, ResumeProceeds DEF HandlerBacked
-----------------------------------------------------------------------------
\* A step that leaves the rows of tasks, or the log, alone keeps what is said of
\* them.
LEMMA TasksKept ==
  ASSUME TasksBacked, Grows, UNCHANGED tasks
  PROVE  TasksBacked'
  <1>1. ASSUME NEW p \in DOMAIN tasks
        PROVE  p \in DOMAIN orders' /\ RowBacked(p, tasks[p])'
    <2>1. RowBacked(p, tasks[p])
      BY DEF TasksBacked
    <2>2. p \in DOMAIN orders'
      BY DEF TasksBacked, Grows
    <2>3. \A row : RowBacked(p, row) => RowBacked(p, row)'
      BY RowStays
    <2>4. QED
      BY <2>1, <2>2, <2>3 DEF RowBacked
  <1>2. QED
    BY <1>1 DEF TasksBacked

\* The request of a logged release, as the policy saw it, stays licensed.
Licensed(s) ==
  /\ orders[s.payment].rail \in RailScope /\ ~ReadOnly
  /\ orders[s.payment].amount < HighRiskThreshold
  /\ s.req.scoped /\ (s.req.mode = "dry_run" => DryRunAllowed /\ GatewayDryRun)
  /\ RailVerdict[s.payment] = "validated"
  /\ {<<"record_decision", Nothing>>, <<"record_request", Nothing>>,
      <<"record_approval", s.req.by>>} \subseteq records[s.payment].artifacts

LEMMA LicenceStays ==
  ASSUME Grows, NEW s, s.payment \in DOMAIN orders \cap DOMAIN records, Licensed(s)
  PROVE  Licensed(s)' /\ s.payment \in DOMAIN orders' \cap DOMAIN records'
  <1>1. /\ orders'[s.payment] = orders[s.payment]
        /\ s.payment \in DOMAIN orders' /\ s.payment \in DOMAIN records'
        /\ records[s.payment].artifacts \subseteq records'[s.payment].artifacts
    BY DEF Grows
  <1>2. QED
    BY <1>1 DEF Licensed

LEMMA LogKept ==
  ASSUME LogBacked, ReleaseLicensed, Grows, UNCHANGED railLog,
         \A k \in DOMAIN keys' : k \in DOMAIN keys /\ keys'[k] = keys[k]
  PROVE  LogBacked' /\ ReleaseLicensed'
  <1>1. ASSUME NEW i \in DOMAIN railLog
        PROVE  /\ Licensed(railLog[i])'
               /\ railLog[i].payment \in DOMAIN orders' \cap DOMAIN records'
    <2>1. Licensed(railLog[i]) /\ railLog[i].payment \in DOMAIN orders \cap DOMAIN records
      BY DEF LogBacked, ReleaseLicensed, Licensed
    <2>2. \A s : s.payment \in DOMAIN orders \cap DOMAIN records /\ Licensed(s) =>
            Licensed(s)' /\ s.payment \in DOMAIN orders' \cap DOMAIN records'
      BY LicenceStays
    <2>3. QED
      BY <2>1, <2>2 DEF Licensed
  <1>2. ReleaseLicensed'
    BY <1>1 DEF ReleaseLicensed, Licensed
  <1>3. QED
    BY <1>1, <1>2 DEF LogBacked
-----------------------------------------------------------------------------
\* Of the handlers, only the one that makes a step changes.
LEMMA OthersKept ==
  ASSUME HandlersBacked, Grows,
         \A u \in DOMAIN handlers' :
           \/ u \in DOMAIN handlers /\ handlers'[u] = handlers[u]
           \/ HandlerBacked(handlers[u])'
  PROVE  HandlersBacked'
  <1>1. \A h : HandlerBacked(h) => HandlerBacked(h)'
    BY PositionStays
  <1>2. ASSUME NEW u \in DOMAIN handlers'
        PROVE  HandlerBacked(handlers[u])'
    <2>1. CASE u \in DOMAIN handlers /\ handlers'[u] = handlers[u]
      <3>1. HandlerBacked(handlers[u])
        BY <2>1 DEF HandlersBacked
      <3>2. PICK h : h = handlers[u] /\ h = handlers'[u]
        BY <2>1
      <3>3. HandlerBacked(h)'
        BY <1>1, <3>1, <3>2
      <3>4. QED
        BY <3>2, <3>3
    <2>2. QED
      BY <2>1
  <1>3. QED
    BY <1>2 DEF HandlersBacked

LEMMA AnswerKept ==
  ASSUME IsDict(handlers, Handlers, Handler), HandlersBacked, Grows,
         NEW t \in Handlers, NEW h \in Handler,
         HandlerBacked(h)', Effected(h)', Answer(t, h)
  PROVE  IsDict(handlers', Handlers, Handler) /\ HandlersBacked'
  <1>1. Following(h) # Done => HandlerBacked(Sent(h))'
    BY Proceeds
  <1>2. QED
    BY <1>1, AnswerFacts, OthersKept

LEMMA RefuseKept ==
  ASSUME IsDict(handlers, Handlers, Handler), HandlersBacked, Grows,
         NEW t \in Handlers, Refuse(t)
  PROVE  IsDict(handlers', Handlers, Handler) /\ HandlersBacked'
  <1>1. IsDict(handlers', Handlers, Handler)
    BY DropDict DEF Refuse
  <1>2. \A u \in DOMAIN handlers' : u \in DOMAIN handlers /\ handlers'[u] = handlers[u]
    BY DEF Refuse, Drop
  <1>3. QED
    BY <1>1, <1>2, OthersKept

LEMMA MoveKept ==
  ASSUME IsDict(handlers, Handlers, Handler), HandlersBacked, Grows,
         NEW t \in Handlers, NEW g \in Handler, HandlerBacked(g)',
         \/ handlers' = Put(handlers, t, g)
         \/ t \in DOMAIN handlers /\ handlers' = [handlers EXCEPT ![t] = g]
  PROVE  IsDict(handlers', Handlers, Handler) /\ HandlersBacked'
  <1>1. IsDict(handlers', Handlers, Handler)
    <2>1. CASE handlers' = Put(handlers, t, g)
      BY <2>1, PutDict
    <2>2. CASE t \in DOMAIN handlers /\ handlers' = [handlers EXCEPT ![t] = g]
      BY <2>2 DEF IsDict
    <2>3. QED
      BY <2>1, <2>2
  <1>2. \A u \in DOMAIN handlers' :
          \/ u \in DOMAIN handlers /\ handlers'[u] = handlers[u]
          \/ handlers'[u] = g
    BY DEF Put
  <1>3. QED
    BY <1>1, <1>2, OthersKept
-----------------------------------------------------------------------------
\* A handler and what its position says.
LEMMA Position ==
  ASSUME SagaInv, NEW t \in DOMAIN handlers
  PROVE  /\ t \in Handlers /\ handlers[t] \in Handler
         /\ HandlerBacked(handlers[t])
         /\ IsDict(handlers, Handlers, Handler) /\ HandlersBacked
  BY DictValue DEF SagaInv, TypeOK, HandlersBacked

\* A step that changes nothing but a handler.
LEMMA QuietStep ==
  ASSUME SagaInv, UNCHANGED <<orders, tasks, records, keys, railLog>>,
         instructed' \subseteq Payments, faults' \in Nat
  PROVE  /\ Grows
         /\ IsDict(handlers', Handlers, Handler) /\ HandlersBacked' => SagaInv'
  <1>1. Grows
    BY DEF Grows
  <1>2. TasksBacked' /\ LogBacked' /\ ReleaseLicensed'
    BY <1>1, TasksKept, LogKept DEF SagaInv
  <1>3. QED
    BY <1>1, <1>2 DEF SagaInv, TypeOK

\* A step that answers, refuses or moves on the call of one handler, and changes
\* nothing else.
LEMMA QuietAnswer ==
  ASSUME SagaInv, UNCHANGED <<orders, tasks, records, keys, railLog>>,
         instructed' \subseteq Payments, faults' \in Nat,
         NEW t \in Handlers, NEW g \in Handler,
         HandlerBacked(g), Effected(g), Answer(t, g)
  PROVE  SagaInv'
  <1>1. Grows
    BY QuietStep
  <1>2. HandlerBacked(g)'
    BY <1>1, PositionStays
  <1>3. Effected(g)'
    BY DEF Effected, Artifacted
  <1>4. QED
    BY <1>1, <1>2, <1>3, AnswerKept, QuietStep DEF SagaInv, TypeOK

LEMMA QuietRefusal ==
  ASSUME SagaInv, UNCHANGED <<orders, tasks, records, keys, railLog>>,
         instructed' \subseteq Payments, faults' \in Nat,
         NEW t \in Handlers, Refuse(t)
  PROVE  SagaInv'
  BY RefuseKept, QuietStep DEF SagaInv, TypeOK

LEMMA QuietMove ==
  ASSUME SagaInv, UNCHANGED <<orders, tasks, records, keys, railLog>>,
         instructed' \subseteq Payments, faults' \in Nat,
         NEW t \in Handlers, NEW g \in Handler, HandlerBacked(g),
         \/ handlers' = Put(handlers, t, g)
         \/ t \in DOMAIN handlers /\ handlers' = [handlers EXCEPT ![t] = g]
  PROVE  SagaInv'
  BY PositionStays, MoveKept, QuietStep DEF SagaInv, TypeOK

\* What a row of a task says, and its type.
LEMMA RowOfTask ==
  ASSUME SagaInv, NEW p \in DOMAIN tasks
  PROVE  p \in Payments /\ tasks[p] \in Row /\ RowBacked(p, tasks[p])
         /\ p \in DOMAIN orders
  BY DictValue DEF SagaInv, TypeOK, TasksBacked

\* A handler that reads a row of its own payment, or whose patch does, stays in place.
LEMMA BaseRead ==
  ASSUME SagaInv, NEW t \in DOMAIN handlers,
         handlers[t].payment \in DOMAIN tasks, handlers[t].call # "release",
         NEW g, g = [handlers[t] EXCEPT !.phase = "commit",
                                        !.base = tasks[handlers[t].payment]]
  PROVE  g \in Handler /\ HandlerBacked(g)
  <1> DEFINE h == handlers[t]
  <1>1. h \in Handler /\ HandlerBacked(h)
    BY Position
  <1>2. tasks[h.payment] \in Row
    BY RowOfTask
  <1>3. /\ g.op = h.op /\ g.payment = h.payment /\ g.req = h.req /\ g.call = h.call
        /\ g.phase = "commit" /\ g.awaited = h.awaited /\ g.row = h.row
        /\ g.claimed = h.claimed /\ g.result = h.result
    BY <1>1 DEF Handler
  <1>4. g \in Handler
    BY <1>1, <1>2 DEF Handler
  <1>5. h.op = "start" => StartBacked(g)
    BY <1>1, <1>3 DEF HandlerBacked, StartBacked
  <1>6. h.op = "resume" => ResumeBacked(g)
    BY <1>1, <1>3 DEF HandlerBacked, ResumeBacked
  <1>7. QED
    BY <1>1, <1>3, <1>4, <1>5, <1>6 DEF HandlerBacked

LEMMA RowRead ==
  ASSUME SagaInv, NEW t \in DOMAIN handlers,
         handlers[t].payment \in DOMAIN tasks,
         NEW phase \in {"send", "commit"}, handlers[t].call # "release",
         NEW g, g = [handlers[t] EXCEPT !.row = tasks[handlers[t].payment],
                                        !.phase = phase]
  PROVE  g \in Handler /\ HandlerBacked(g)
  <1> DEFINE h == handlers[t]
             row == tasks[handlers[t].payment]
  <1>1. h \in Handler /\ HandlerBacked(h)
    BY Position
  <1>2. row \in Row /\ RowBacked(h.payment, row)
    BY RowOfTask
  <1>3. /\ g.op = h.op /\ g.payment = h.payment /\ g.req = h.req /\ g.call = h.call
        /\ g.phase = phase /\ g.awaited = h.awaited /\ g.row = row
        /\ g.claimed = h.claimed /\ g.result = h.result
    BY <1>1 DEF Handler
  <1>4. g \in Handler
    BY <1>1, <1>2 DEF Handler
  <1>5. h.op = "start" => StartBacked(g)
    BY <1>1, <1>3 DEF HandlerBacked, StartBacked
  <1>6. h.op = "resume" => ResumeBacked(g)
    BY <1>1, <1>3 DEF HandlerBacked, ResumeBacked
  <1>7. RowBacked(g.payment, g.row)
    BY <1>2, <1>3
  <1>8. QED
    BY <1>1, <1>3, <1>4, <1>5, <1>6, <1>7 DEF HandlerBacked

LEMMA ReadRowKeeps ==
  ASSUME SagaInv, NEW t \in Handlers, ReadRow(t)
  PROVE  SagaInv'
  <1> DEFINE h == handlers[t]
  <1>0. PICK g : g = [h EXCEPT !.row = tasks[h.payment]]
    OBVIOUS
  <1>1. t \in DOMAIN handlers /\ h.call = "read_row" /\ h.phase = "send"
    BY DEF ReadRow, At
  <1>2. h \in Handler /\ HandlerBacked(h)
    BY <1>1, Position
  <1>3. h.payment \in DOMAIN tasks
    BY <1>1, <1>2, HandlerFields DEF HandlerBacked, StartBacked, ResumeBacked, Judged
  <1>4. g = [h EXCEPT !.row = tasks[h.payment], !.phase = "send"]
    BY <1>0, <1>1, <1>2 DEF Handler
  <1>5. g \in Handler /\ HandlerBacked(g)
    BY <1>1, <1>3, <1>4, RowRead
  <1>6. Effected(g)
    BY <1>0, <1>1, <1>2 DEF Effected, ArtifactCalls, Handler
  <1>7. QED
    BY <1>0, <1>5, <1>6, QuietAnswer DEF ReadRow, SagaInv, TypeOK

LEMMA PatchReadKeeps ==
  ASSUME SagaInv, NEW t \in Handlers, PatchRead(t)
  PROVE  SagaInv'
  <1> DEFINE h == handlers[t]
             row == tasks[h.payment]
             g == [h EXCEPT !.phase = "commit", !.base = row]
  <1>1. t \in DOMAIN handlers /\ h.call \in Patches /\ h.phase = "send"
    BY DEF PatchRead, At
  <1>2. h \in Handler /\ HandlerBacked(h)
    BY <1>1, Position
  <1>3. h.payment \in DOMAIN tasks /\ h.call # "release"
    BY <1>1, <1>2, HandlerFields
    DEF HandlerBacked, StartBacked, ResumeBacked, Judged, Patches
  <1>4. CASE Refuse(t)
    BY <1>4, QuietRefusal DEF PatchRead, SagaInv, TypeOK
  <1>5. CASE handlers' = [handlers EXCEPT ![t].phase = "commit", ![t].base = row]
    <2>1. handlers' = [handlers EXCEPT ![t] = g]
      BY <1>1, <1>2, <1>5 DEF Handler
    <2>2. g \in Handler /\ HandlerBacked(g)
      BY <1>1, <1>3, BaseRead
    <2>3. QED
      BY <1>1, <2>1, <2>2, QuietMove DEF PatchRead, SagaInv, TypeOK
  <1>6. QED
    BY <1>4, <1>5 DEF PatchRead

LEMMA ReadRecordsKeeps ==
  ASSUME SagaInv, NEW t \in Handlers, ReadRecords(t)
  PROVE  SagaInv'
  <1> DEFINE h == handlers[t]
  <1>1. t \in DOMAIN handlers /\ h.call = "read_records"
    BY DEF ReadRecords, At
  <1>2. h \in Handler /\ HandlerBacked(h)
    BY <1>1, Position
  <1>3. CASE Refuse(t)
    BY <1>3, QuietRefusal DEF ReadRecords, SagaInv, TypeOK
  <1>4. CASE Resumable(h) /\ Answer(t, h)
    <2>1. Effected(h)
      BY <1>1, <1>4 DEF Effected, ArtifactCalls, Resumable
    <2>2. QED
      BY <1>2, <1>4, <2>1, QuietAnswer DEF ReadRecords, SagaInv, TypeOK
  <1>5. QED
    BY <1>3, <1>4 DEF ReadRecords
-----------------------------------------------------------------------------
\* The calls of the gateway that change no store.
LEMMA InstructKeeps ==
  ASSUME SagaInv, NEW t \in Handlers, Instruct(t)
  PROVE  SagaInv'
  <1> DEFINE h == handlers[t]
  <1>1. t \in DOMAIN handlers /\ h.call = "instruct"
    BY DEF Instruct, At
  <1>2. h \in Handler /\ HandlerBacked(h)
    BY <1>1, Position
  <1>3. Effected(h)
    BY <1>1 DEF Effected, ArtifactCalls
  <1>4. instructed' \subseteq Payments
    BY <1>2, HandlerFields DEF Instruct, SagaInv, TypeOK
  <1>5. QED
    BY <1>2, <1>3, <1>4, QuietAnswer DEF Instruct, SagaInv, TypeOK

LEMMA ValidateKeeps ==
  ASSUME SagaInv, NEW t \in Handlers, Validate(t)
  PROVE  SagaInv'
  <1> DEFINE h == handlers[t]
             g == [h EXCEPT !.result = RailVerdict[h.payment]]
  <1>1. t \in DOMAIN handlers /\ h.call = "validate"
    BY DEF Validate, At
  <1>2. h \in Handler /\ HandlerBacked(h)
    BY <1>1, Position
  <1>3. CASE Refuse(t)
    BY <1>3, QuietRefusal DEF Validate, SagaInv, TypeOK
  <1>4. CASE Answer(t, g)
    <2>1. g \in Handler
      BY <1>2, HandlerFields, WorkflowAssumption DEF Handler
    <2>2. /\ g.op = h.op /\ g.payment = h.payment /\ g.call = h.call
          /\ g.phase = h.phase /\ g.row = h.row /\ g.result = RailVerdict[h.payment]
      BY <1>2 DEF Handler
    <2>3. h.op = "start" /\ StartBacked(g)
      BY <1>1, <1>2, <2>2, HandlerFields
      DEF HandlerBacked, StartBacked, ResumeBacked, Checked, Endorsed
    <2>4. HandlerBacked(g) /\ Effected(g)
      BY <1>1, <1>2, <2>2, <2>3 DEF HandlerBacked, Effected, ArtifactCalls
    <2>5. QED
      BY <1>4, <2>1, <2>4, QuietAnswer DEF Validate, SagaInv, TypeOK
  <1>5. QED
    BY <1>3, <1>4 DEF Validate

\* A release that was remembered or performed gives its handler a backed result.
LEMMA ResultBacked ==
  ASSUME NEW h \in Handler, HandlerBacked(h)', h.call = "release",
         NEW outcome \in Outcomes, Released(h.payment, {outcome})',
         NEW g, g = [h EXCEPT !.result = StatusOf(outcome)]
  PROVE  g \in Handler /\ HandlerBacked(g)' /\ Effected(g)'
  <1>1. StatusOf(outcome) \in PaymentStatus
    BY WorkflowAssumption DEF StatusOf, Outcomes, PaymentStatus
  <1>2. g \in Handler
    BY <1>1 DEF Handler
  <1>3. /\ g.op = h.op /\ g.payment = h.payment /\ g.call = "release"
        /\ g.phase = h.phase /\ g.row = h.row /\ g.req = h.req
        /\ g.result = StatusOf(outcome)
    BY DEF Handler
  <1>4. Answered(g.payment, g.result)'
    BY <1>3 DEF Answered, Released
  <1>5. g.op = "resume" /\ ResumeBacked(g)'
    <2>1. h.op = "resume"
      BY HandlerFields DEF HandlerBacked, StartBacked, Judged
    <2>2. QED
      BY <1>1, <1>3, <1>4, <2>1 DEF HandlerBacked, ResumeBacked
  <1>6. QED
    BY <1>2, <1>3, <1>5 DEF HandlerBacked, Effected, ArtifactCalls

LEMMA ReleaseLookupKeeps ==
  ASSUME SagaInv, NEW t \in Handlers, ReleaseLookup(t)
  PROVE  SagaInv'
  <1> DEFINE h == handlers[t]
             known == h.req.key \in DOMAIN keys
  <1>1. t \in DOMAIN handlers /\ h.call = "release" /\ h.phase = "send"
    BY DEF ReleaseLookup, At
  <1>2. h \in Handler /\ HandlerBacked(h)
    BY <1>1, Position
  <1>3. CASE Refuse(t)
    BY <1>3, QuietRefusal DEF ReleaseLookup, SagaInv, TypeOK
  <1>4. CASE /\ known /\ SameRelease(h, keys[h.req.key])
             /\ Answer(t, [h EXCEPT !.result = StatusOf(keys[h.req.key].outcome)])
    <2>1. PICK i \in DOMAIN railLog : railLog[i] = keys[h.req.key]
      BY <1>4 DEF SagaInv, LogBacked
    <2>2. keys[h.req.key].outcome \in Outcomes
      <3>1. keys[h.req.key] \in Submission
        BY <1>4, DictValue DEF SagaInv, TypeOK
      <3>2. QED
        BY <3>1 DEF Submission
    <2>3. Grows
      BY QuietStep DEF ReleaseLookup, SagaInv, TypeOK
    <2>4. PICK k, o : k = h /\ o = keys[h.req.key].outcome
      OBVIOUS
    <2>5. HandlerBacked(k)' /\ Released(k.payment, {o})'
      BY <1>2, <1>4, <2>1, <2>3, <2>4, PositionStays
      DEF ReleaseLookup, SameRelease, Released
    <2>6. PICK g : g = [k EXCEPT !.result = StatusOf(o)]
      OBVIOUS
    <2>7. g \in Handler /\ HandlerBacked(g)' /\ Effected(g)'
      BY <1>1, <1>2, <2>2, <2>4, <2>5, <2>6, ResultBacked
    <2>8. IsDict(handlers', Handlers, Handler) /\ HandlersBacked'
      BY <1>4, <2>3, <2>4, <2>6, <2>7, AnswerKept DEF SagaInv, TypeOK
    <2>9. QED
      BY <2>8, QuietStep DEF ReleaseLookup, SagaInv, TypeOK
  <1>5. CASE ~Unacceptable(h) /\ handlers' = [handlers EXCEPT ![t].phase = "commit"]
    <2> DEFINE g == [h EXCEPT !.phase = "commit"]
    <2>1. g \in Handler /\ handlers' = [handlers EXCEPT ![t] = g]
      BY <1>1, <1>2, <1>5 DEF Handler
    <2>2. /\ g.op = h.op /\ g.payment = h.payment /\ g.call = "release"
          /\ g.phase = "commit" /\ g.row = h.row /\ g.req = h.req
          /\ g.result = h.result
      BY <1>1, <1>2 DEF Handler
    <2>3. h.op = "resume"
      BY <1>1, <1>2, HandlerFields DEF HandlerBacked, StartBacked, Judged
    <2>4. ResumeBacked(g)
      BY <1>1, <1>2, <1>5, <2>2, <2>3 DEF HandlerBacked, ResumeBacked, Unacceptable
    <2>5. HandlerBacked(g)
      BY <1>2, <2>2, <2>3, <2>4 DEF HandlerBacked
    <2>6. QED
      BY <1>1, <2>1, <2>5, QuietMove DEF ReleaseLookup, SagaInv, TypeOK
  <1>6. QED
    BY <1>3, <1>4, <1>5 DEF ReleaseLookup

\* The release that reaches the rail is licensed, and its answer is logged.
LEMMA ReleaseSubmitKeeps ==
  ASSUME SagaInv, NEW t \in Handlers, ReleaseSubmit(t)
  PROVE  SagaInv'
  <1> DEFINE h == handlers[t]
             outcome == RailOutcome[<<h.payment, h.req.key>>]
  <1>0. PICK s : s = [payment |-> h.payment, req |-> h.req, outcome |-> outcome]
    OBVIOUS
  <1>1. t \in DOMAIN handlers /\ h.call = "release" /\ h.phase = "commit"
    BY DEF ReleaseSubmit, At
  <1>2. h \in Handler /\ HandlerBacked(h) /\ h.payment \in Payments
    BY <1>1, Position, HandlerFields
  <1>3. h.op = "resume" /\ ResumeBacked(h)
    BY <1>1, <1>2, HandlerFields DEF HandlerBacked, StartBacked, Judged
  <1>4. h.req \in Approvals /\ h.req.key \in Keys /\ outcome \in Outcomes
    BY <1>2, <1>3, WorkflowAssumption DEF ResumeBacked, Keys
  <1>5. s \in Submission
    BY <1>0, <1>2, <1>4 DEF Submission
  <1>6. /\ railLog' = Append(railLog, s) /\ railLog \in Seq(Submission)
        /\ keys' = Put(keys, h.req.key, s)
        /\ Answer(t, [h EXCEPT !.result = StatusOf(outcome)])
        /\ UNCHANGED <<orders, tasks, records, instructed, faults>>
    BY <1>0 DEF ReleaseSubmit, SagaInv, TypeOK
  <1>7. /\ railLog' \in Seq(Submission)
        /\ DOMAIN railLog' = DOMAIN railLog \cup {Len(railLog) + 1}
        /\ \A i \in DOMAIN railLog : railLog'[i] = railLog[i]
        /\ railLog'[Len(railLog) + 1] = s
    BY <1>5, <1>6
  <1>8. Grows
    BY <1>6, <1>7 DEF Grows
  <1>9. Licensed(s) /\ s.payment \in DOMAIN orders \cap DOMAIN records
    BY <1>0, <1>1, <1>2, <1>3
    DEF Licensed, ResumeBacked, Artifacted, HandlerBacked, Checked, Endorsed
  <1>10. LogBacked' /\ ReleaseLicensed'
    <2>1. ASSUME NEW i \in DOMAIN railLog'
          PROVE  /\ Licensed(railLog[i])'
                 /\ railLog'[i].payment \in DOMAIN orders' \cap DOMAIN records'
      <3>1. ASSUME NEW r, r.payment \in DOMAIN orders \cap DOMAIN records, Licensed(r)
            PROVE  Licensed(r)' /\ r.payment \in DOMAIN orders' \cap DOMAIN records'
        BY <1>8, <3>1, LicenceStays
      <3>2. \A k \in DOMAIN railLog :
              /\ Licensed(railLog[k])
              /\ railLog[k].payment \in DOMAIN orders \cap DOMAIN records
        BY DEF SagaInv, LogBacked, ReleaseLicensed, Licensed
      <3>3. PICK r : r = railLog'[i]
        OBVIOUS
      <3>4. Licensed(r) /\ r.payment \in DOMAIN orders \cap DOMAIN records
        BY <1>7, <1>9, <3>2, <3>3
      <3>5. QED
        BY <3>1, <3>3, <3>4 DEF Licensed
    <2>2. ReleaseLicensed'
      BY <2>1 DEF ReleaseLicensed, Licensed
    <2>3. ASSUME NEW k \in DOMAIN keys'
          PROVE  \E i \in DOMAIN railLog' : railLog'[i] = keys'[k]
      <3>1. CASE k = h.req.key
        BY <1>6, <1>7, <3>1 DEF Put
      <3>2. CASE k # h.req.key
        BY <1>6, <1>7, <3>2 DEF Put, SagaInv, LogBacked
      <3>3. QED
        BY <3>1, <3>2
    <2>4. QED
      BY <2>1, <2>2, <2>3 DEF LogBacked
  <1>11. IsDict(handlers', Handlers, Handler) /\ HandlersBacked'
    <2>1. PICK k, o : k = h /\ o = outcome
      OBVIOUS
    <2>2. HandlerBacked(k)'
      BY <1>2, <1>8, <2>1, PositionStays
    <2>3. Released(k.payment, {o})'
      <3>1. s.payment = k.payment /\ s.outcome = o
        BY <1>0, <2>1
      <3>2. QED
        BY <1>7, <3>1 DEF Released
    <2>4. PICK g : g = [k EXCEPT !.result = StatusOf(o)]
      OBVIOUS
    <2>5. g \in Handler /\ HandlerBacked(g)' /\ Effected(g)'
      BY <1>1, <1>2, <1>4, <2>1, <2>2, <2>3, <2>4, ResultBacked
    <2>6. QED
      BY <1>6, <1>8, <2>1, <2>4, <2>5, AnswerKept DEF SagaInv, TypeOK
  <1>12. IsDict(keys', Keys, Submission)
    BY <1>4, <1>5, <1>6, PutDict DEF SagaInv, TypeOK
  <1>13. QED
    BY <1>6, <1>7, <1>8, <1>10, <1>11, <1>12, TasksKept DEF SagaInv, TypeOK
-----------------------------------------------------------------------------
\* A handler that is no longer awaited stays where it is; the bookkeeping of an
\* outbox run says nothing of its position.
LEMMA Aside ==
  ASSUME NEW h \in Handler, HandlerBacked(h),
         NEW g, \/ g = [h EXCEPT !.awaited = FALSE]
                \/ \E claimed \in SUBSET Payments :
                     /\ h.phase = "claim"
                     /\ g = [h EXCEPT !.phase = "project", !.claimed = claimed]
  PROVE  g \in Handler /\ HandlerBacked(g)
  <1>1. /\ g \in Handler
        /\ g.op = h.op /\ g.payment = h.payment /\ g.call = h.call
        /\ g.row = h.row /\ g.req = h.req /\ g.result = h.result
        /\ g.phase = h.phase \/ (h.phase = "claim" /\ g.phase = "project")
    <2>1. CASE g = [h EXCEPT !.awaited = FALSE]
      BY <2>1 DEF Handler
    <2>2. ASSUME NEW claimed \in SUBSET Payments, h.phase = "claim",
                 g = [h EXCEPT !.phase = "project", !.claimed = claimed]
          PROVE  <1>1
      BY <2>2 DEF Handler
    <2>3. QED
      BY <2>1, <2>2
  <1>2. h.op = "start" => StartBacked(g)
    BY <1>1 DEF HandlerBacked, StartBacked
  <1>3. h.op = "resume" => ResumeBacked(g)
    BY <1>1 DEF HandlerBacked, ResumeBacked
  <1>4. QED
    BY <1>1, <1>2, <1>3 DEF HandlerBacked

LEMMA AbandonKeeps ==
  ASSUME SagaInv, NEW t \in Handlers, Abandon(t)
  PROVE  SagaInv'
  <1> DEFINE h == handlers[t]
             g == [h EXCEPT !.awaited = FALSE]
  <1>1. t \in DOMAIN handlers /\ handlers' = [handlers EXCEPT ![t] = g]
    BY DEF Abandon
  <1>2. g \in Handler /\ HandlerBacked(g)
    BY <1>1, Position, Aside
  <1>3. faults' \in Nat
    BY DEF Abandon, Fault, SagaInv, TypeOK
  <1>4. QED
    BY <1>1, <1>2, <1>3, QuietMove DEF Abandon, SagaInv, TypeOK

LEMMA LostKeeps ==
  ASSUME SagaInv, NEW t \in Handlers, Lost(t)
  PROVE  SagaInv'
  BY QuietRefusal DEF Lost, SagaInv, TypeOK

LEMMA ClaimKeeps ==
  ASSUME SagaInv, NEW t \in Handlers, Claim(t)
  PROVE  SagaInv'
  <1> DEFINE h == handlers[t]
             claimed == DOMAIN tasks \ (DOMAIN records \cup
                          UNION {handlers[u].claimed : u \in DOMAIN handlers})
             g == [h EXCEPT !.phase = "project", !.claimed = claimed]
  <1>1. /\ t \in DOMAIN handlers /\ h.phase = "claim"
        /\ h \in Handler /\ HandlerBacked(h)
    BY Position DEF Claim
  <1>2. handlers' = [handlers EXCEPT ![t] = g]
    BY <1>1 DEF Claim, Handler
  <1>3. claimed \in SUBSET Payments
    BY DEF SagaInv, TypeOK, IsDict
  <1>4. g \in Handler /\ HandlerBacked(g)
    BY <1>1, <1>3, Aside
  <1>5. QED
    BY <1>1, <1>2, <1>4, QuietMove DEF Claim, SagaInv, TypeOK

\* A new handler starts in place.
LEMMA BeginResumeKeeps ==
  ASSUME SagaInv, NEW t \in Handlers, NEW p \in Payments, NEW req \in Approvals,
         BeginResume(t, p, req)
  PROVE  SagaInv'
  <1> DEFINE g == NewHandler("resume", p, req, "record_decision", tasks[p])
  <1>1. /\ p \in DOMAIN tasks /\ tasks[p] \in Row /\ RowBacked(p, tasks[p])
        /\ p \in DOMAIN orders
    BY RowOfTask DEF BeginResume
  <1>2. /\ orders[p].rail \in RailScope /\ ~ReadOnly /\ req.scoped
        /\ orders[p].amount < HighRiskThreshold
        /\ req.mode = "dry_run" => DryRunAllowed
        /\ tasks[p].beneficiary = "approved"
    <2>1. orders[p].amount \in Nat /\ HighRiskThreshold \in Nat
      BY <1>1, DictValue, WorkflowAssumption, PolicyAssumption DEF SagaInv, TypeOK
    <2>2. ReleaseDecision(orders[p], tasks[p], req) = "allow"
      BY DEF BeginResume
    <2>3. QED
      BY <2>1, <2>2 DEF ReleaseDecision, Refusal
  <1>3. g \in Handler
    BY <1>1 DEF NewHandler, NewRow, Handler, Row, PaymentStatus, Calls, ArtifactCalls
  <1>4. ResumeBacked(g)
    BY <1>1, <1>2 DEF NewHandler, ResumeBacked, RowBacked, Checked, Endorsed, Nothing
  <1>5. HandlerBacked(g)
    BY <1>1, <1>4 DEF NewHandler, HandlerBacked
  <1>6. handlers' = Put(handlers, t, g)
    BY DEF BeginResume
  <1>7. QED
    BY <1>3, <1>5, <1>6, QuietMove DEF BeginResume, SagaInv, TypeOK

LEMMA BeginStartKeeps ==
  ASSUME SagaInv, NEW t \in Handlers, NEW p \in Payments, NEW order \in Orders,
         BeginStart(t, p, order)
  PROVE  SagaInv'
  <1> DEFINE g == NewHandler("start", p, order, "instruct", NewRow)
  <1>1. /\ orders' = Put(orders, p, order) /\ handlers' = Put(handlers, t, g)
        /\ p \notin DOMAIN orders
        /\ UNCHANGED <<tasks, records, instructed, keys, railLog, faults>>
    BY DEF BeginStart
  <1>2. Grows /\ p \in DOMAIN orders'
    BY <1>1 DEF Grows, Put
  <1>3. g \in Handler
    BY DEF NewHandler, Handler, Calls, NewRow, Row, PaymentStatus
  <1>4. RowBacked(p, NewRow)' /\ StartBacked(g)'
    BY DEF NewHandler, StartBacked, Judged, RowBacked, NewRow
  <1>5. HandlerBacked(g)'
    BY <1>2, <1>4 DEF NewHandler, HandlerBacked
  <1>6. IsDict(handlers', Handlers, Handler) /\ HandlersBacked'
    BY <1>1, <1>2, <1>3, <1>5, MoveKept DEF SagaInv, TypeOK
  <1>7. IsDict(orders', Payments, Orders)
    BY <1>1, PutDict DEF SagaInv, TypeOK
  <1>8. TasksBacked' /\ LogBacked' /\ ReleaseLicensed'
    BY <1>1, <1>2, TasksKept, LogKept DEF SagaInv
  <1>9. QED
    BY <1>1, <1>6, <1>7, <1>8 DEF SagaInv, TypeOK
-----------------------------------------------------------------------------
\* What a handler announces in a patch is so.
LEMMA PatchBacked ==
  ASSUME NEW h \in Handler, HandlerBacked(h), h.call \in Patches
  PROVE  Patch(h) \in Row /\ RowBacked(h.payment, Patch(h))
  <1>1. /\ Patch(h).status = h.call
        /\ Patch(h).beneficiary = IF h.op = "start" THEN Beneficiary(h.result)
                                                    ELSE h.row.beneficiary
        /\ Patch(h).approval \in {"pending", "approved"}
    BY DEF Patch
  <1>2. h.row \in Row /\ RowBacked(h.payment, h.row) /\ h.call \in PaymentStatus
    BY HandlerFields DEF HandlerBacked, Patches, PaymentStatus
  <1>3. CASE h.op = "start"
    <2>1. h.call \in Judged /\ h.result = RailVerdict[h.payment] /\ h.result \in Verdicts
      BY <1>3, HandlerFields, WorkflowAssumption
      DEF HandlerBacked, StartBacked, Patches, Judged
    <2>2. Beneficiary(h.result) \in {"approved", "rejected", "needs_review"}
      BY <2>1 DEF Beneficiary, Verdicts
    <2>3. Patch(h) \in Row
      BY <1>2, <1>3, <2>2 DEF Patch, Row
    <2>4. Patch(h).beneficiary = "approved" => RailVerdict[h.payment] = "validated"
      BY <1>1, <1>3, <2>1 DEF Beneficiary, Verdicts
    <2>5. QED
      BY <1>1, <1>3, <2>1, <2>3, <2>4 DEF RowBacked, HandlerBacked, StartBacked, Judged
  <1>4. CASE h.op = "resume"
    <2>1. Patch(h) \in Row
      BY <1>2, <1>4 DEF Patch, Row
    <2>2. /\ h.call \in {"released", "settlement_pending"} =>
               Answered(h.payment, "settlement_pending")
          /\ h.call = "pending_reconcile" => Answered(h.payment, "pending_reconcile")
          /\ h.call # "awaiting_approval"
      BY <1>4 DEF HandlerBacked, ResumeBacked, Nothing, Checked, Endorsed
    <2>3. QED
      BY <1>1, <1>2, <1>4, <2>1, <2>2 DEF RowBacked
  <1>5. QED
    BY <1>3, <1>4, HandlerFields

\* A committed write leaves its handler to the outbox, or is the end of it.
LEMMA CommittedKept ==
  ASSUME IsDict(handlers, Handlers, Handler), HandlersBacked, Grows,
         NEW t \in Handlers, t \in DOMAIN handlers,
         handlers[t].call \in Patches \cup {"create"},
         handlers[t].payment \in DOMAIN tasks', Committed(t)
  PROVE  IsDict(handlers', Handlers, Handler) /\ HandlersBacked'
  <1>1. CASE Refuse(t)
    BY <1>1, RefuseKept
  <1>2. CASE handlers' = [handlers EXCEPT ![t].phase = "claim"]
    <2>1. PICK h : h = handlers[t]
      OBVIOUS
    <2>2. PICK g : g = [h EXCEPT !.phase = "claim"]
      OBVIOUS
    <2>3. h \in Handler /\ HandlerBacked(h)
      BY <2>1, DictValue DEF HandlersBacked
    <2>4. HandlerBacked(h)'
      BY <2>3, PositionStays
    <2>5. g \in Handler /\ handlers' = [handlers EXCEPT ![t] = g]
      BY <1>2, <2>1, <2>2, <2>3 DEF Handler
    <2>6. /\ g.op = h.op /\ g.payment = h.payment /\ g.call = h.call
          /\ g.row = h.row /\ g.req = h.req /\ g.result = h.result
          /\ h.call \in Patches \cup {"create"} /\ h.payment \in DOMAIN tasks'
      BY <2>1, <2>2, <2>3 DEF Handler
    <2>7. h.op = "start" => StartBacked(g)'
      BY <2>4, <2>6 DEF HandlerBacked, StartBacked
    <2>8. h.op = "resume" => ResumeBacked(g)'
      BY <2>4, <2>6 DEF HandlerBacked, ResumeBacked, Patches
    <2>9. HandlerBacked(g)'
      BY <2>4, <2>6, <2>7, <2>8 DEF HandlerBacked
    <2>10. QED
      BY <2>5, <2>9, MoveKept
  <1>3. QED
    BY <1>1, <1>2 DEF Committed

LEMMA CreateTaskKeeps ==
  ASSUME SagaInv, NEW t \in Handlers, CreateTask(t)
  PROVE  SagaInv'
  <1> DEFINE h == handlers[t]
  <1>1. /\ t \in DOMAIN handlers /\ h.call = "create"
        /\ tasks' = Put(tasks, h.payment, NewRow) /\ Committed(t)
        /\ UNCHANGED <<orders, records, instructed, keys, railLog, faults>>
    BY DEF CreateTask, At
  <1>2. /\ h \in Handler /\ HandlerBacked(h) /\ h.payment \in Payments
        /\ h.payment \in DOMAIN orders
    BY <1>1, Position, HandlerFields DEF HandlerBacked
  <1>3. Grows /\ h.payment \in DOMAIN tasks'
    BY <1>1 DEF Grows, Put
  <1>4. IsDict(handlers', Handlers, Handler) /\ HandlersBacked'
    BY <1>1, <1>3, CommittedKept DEF SagaInv, TypeOK
  <1>5. NewRow \in Row
    BY DEF NewRow, Row, PaymentStatus
  <1>6. IsDict(tasks', Payments, Row)
    BY <1>1, <1>2, <1>5, PutDict DEF SagaInv, TypeOK
  <1>7. TasksBacked'
    <2>1. ASSUME NEW p \in DOMAIN tasks'
          PROVE  p \in DOMAIN orders' /\ RowBacked(p, tasks[p])'
      <3>1. PICK row : row = tasks'[p]
        OBVIOUS
      <3>2. RowBacked(p, row) /\ p \in DOMAIN orders
        BY <1>1, <1>2, <3>1 DEF Put, NewRow, RowBacked, SagaInv, TasksBacked
      <3>3. RowBacked(p, row)'
        BY <1>3, <3>2, RowStays
      <3>4. QED
        BY <1>1, <3>1, <3>2, <3>3
    <2>2. QED
      BY <2>1 DEF TasksBacked
  <1>8. LogBacked' /\ ReleaseLicensed'
    BY <1>1, <1>3, LogKept DEF SagaInv
  <1>9. QED
    BY <1>1, <1>4, <1>6, <1>7, <1>8 DEF SagaInv, TypeOK

\* The columns of two rows that say what is so, mixed, say what is so.
LEMMA MixedRow ==
  ASSUME NEW p, NEW old \in Row, NEW patch \in Row, NEW read \in Row,
         RowBacked(p, old), RowBacked(p, patch),
         NEW row, row = [c \in DOMAIN old |->
                           IF patch[c] # read[c] THEN patch[c] ELSE old[c]]
  PROVE  row \in Row /\ RowBacked(p, row)
  <1>1. /\ DOMAIN old = {"status", "beneficiary", "approval"}
        /\ row = [status |-> row.status, beneficiary |-> row.beneficiary,
                  approval |-> row.approval]
        /\ row.status \in {old.status, patch.status}
        /\ row.beneficiary \in {old.beneficiary, patch.beneficiary}
        /\ row.approval \in {old.approval, patch.approval}
    BY DEF Row
  <1>2. row \in Row
    BY <1>1 DEF Row
  <1>3. QED
    BY <1>1, <1>2 DEF RowBacked

LEMMA PatchCommitKeeps ==
  ASSUME SagaInv, NEW t \in Handlers, PatchCommit(t)
  PROVE  SagaInv'
  <1> DEFINE h == handlers[t]
             patch == Patch(h)
  <1>1. /\ t \in DOMAIN handlers /\ h.call \in Patches /\ Committed(t)
        /\ tasks' = [tasks EXCEPT ![h.payment] =
             [c \in DOMAIN @ |-> IF patch[c] # h.base[c] THEN patch[c] ELSE @[c]]]
        /\ UNCHANGED <<orders, records, instructed, keys, railLog, faults>>
    BY DEF PatchCommit, At
  <1>2. h \in Handler /\ HandlerBacked(h) /\ h.base \in Row
    BY <1>1, Position, HandlerFields
  <1>3. h.payment \in DOMAIN tasks
    BY <1>1, <1>2, HandlerFields
    DEF HandlerBacked, StartBacked, ResumeBacked, Judged, Patches
  <1>4. Grows
    BY <1>1 DEF Grows
  <1>5. IsDict(handlers', Handlers, Handler) /\ HandlersBacked'
    BY <1>1, <1>3, <1>4, CommittedKept DEF SagaInv, TypeOK
  <1>6. patch \in Row /\ RowBacked(h.payment, patch)
    BY <1>1, <1>2, PatchBacked
  <1>7. tasks'[h.payment] \in Row /\ RowBacked(h.payment, tasks'[h.payment])
    <2>1. tasks[h.payment] \in Row /\ RowBacked(h.payment, tasks[h.payment])
      BY <1>3, RowOfTask
    <2>2. tasks'[h.payment] =
            [c \in DOMAIN tasks[h.payment] |->
               IF patch[c] # h.base[c] THEN patch[c] ELSE tasks[h.payment][c]]
      BY <1>1, <1>3
    <2>3. QED
      BY <1>2, <1>6, <2>1, <2>2, MixedRow
  <1>8. IsDict(tasks', Payments, Row)
    BY <1>1, <1>3, <1>7 DEF SagaInv, TypeOK, IsDict
  <1>9. TasksBacked'
    <2>1. ASSUME NEW p \in DOMAIN tasks'
          PROVE  p \in DOMAIN orders' /\ RowBacked(p, tasks[p])'
      <3>1. PICK row : row = tasks'[p]
        OBVIOUS
      <3>2. RowBacked(p, row) /\ p \in DOMAIN orders
        BY <1>1, <1>3, <1>7, <3>1, RowOfTask
      <3>3. RowBacked(p, row)'
        BY <1>4, <3>2, RowStays
      <3>4. QED
        BY <1>1, <3>1, <3>2, <3>3
    <2>2. QED
      BY <2>1 DEF TasksBacked
  <1>10. LogBacked' /\ ReleaseLicensed'
    BY <1>1, <1>4, LogKept DEF SagaInv
  <1>11. QED
    BY <1>1, <1>5, <1>8, <1>9, <1>10 DEF SagaInv, TypeOK
-----------------------------------------------------------------------------
LEMMA ProjectKeeps ==
  ASSUME SagaInv, NEW t \in Handlers, Project(t)
  PROVE  SagaInv'
  <1> DEFINE h == handlers[t]
  <1>1. t \in DOMAIN handlers /\ h.phase = "project" /\ Answer(t, h)
    BY DEF Project
  <1>2. h \in Handler /\ HandlerBacked(h) /\ h.claimed \subseteq Payments
    BY <1>1, Position, HandlerFields
  <1>3. Effected(h) /\ h.call \in Patches \cup {"create"}
    BY <1>1, <1>2
    DEF HandlerBacked, StartBacked, ResumeBacked, Effected, Judged, Checked,
        Endorsed, ArtifactCalls, Patches, Handler
  <1>4. CASE UNCHANGED records
    BY <1>1, <1>2, <1>3, <1>4, QuietAnswer DEF Project, Fault, SagaInv, TypeOK
  <1>5. CASE records' = [p \in DOMAIN records \cup h.claimed |->
                           IF p \in DOMAIN records THEN records[p] ELSE NewRecords]
    <2>1. Grows
      BY <1>5 DEF Grows, Project
    <2>2. NewRecords \in Records
      BY DEF NewRecords, Records, DelegationStatus
    <2>3. IsDict(records', Payments, Records)
      BY <1>2, <1>5, <2>2 DEF SagaInv, TypeOK, IsDict
    <2>4. PICK g : g = h
      OBVIOUS
    <2>5. HandlerBacked(g)'
      BY <1>2, <2>1, <2>4, PositionStays
    <2>6. Effected(g)'
      BY <1>3, <2>4 DEF Effected, ArtifactCalls, Patches, Project
    <2>7. IsDict(handlers', Handlers, Handler) /\ HandlersBacked'
      BY <1>1, <1>2, <2>1, <2>4, <2>5, <2>6, AnswerKept DEF SagaInv, TypeOK
    <2>8. TasksBacked' /\ LogBacked' /\ ReleaseLicensed'
      BY <2>1, TasksKept, LogKept DEF SagaInv, Project
    <2>9. faults' \in Nat
      BY DEF Project, Fault, SagaInv, TypeOK
    <2>10. QED
      BY <2>3, <2>7, <2>8, <2>9 DEF Project, SagaInv, TypeOK
  <1>6. QED
    BY <1>4, <1>5 DEF Project

\* What a write of the provenance store leaves in the records of a task.
LEMMA WrittenFacts ==
  ASSUME NEW h \in Handler, HandlerBacked(h), NEW rec \in Records,
         h.call \in DelegationCalls \cup ArtifactCalls
  PROVE  /\ Written(rec, h) \in Records
         /\ rec.artifacts \subseteq Written(rec, h).artifacts
         /\ h.call \in ArtifactCalls => Recorded(h) \in Written(rec, h).artifacts
  <1>1. /\ rec.validation \in DelegationStatus /\ rec.approval \in DelegationStatus
        /\ rec.artifacts \subseteq Artifact
        /\ rec = [validation |-> rec.validation, approval |-> rec.approval,
                  artifacts |-> rec.artifacts]
    BY DEF Records
  <1>2. CASE h.call \in ArtifactCalls
    <2>1. Recorded(h) \in Artifact
      <3>1. CASE h.call \in {"record_approval", "record_result"}
        <4>1. h.req \in Approvals
          BY <3>1, HandlerFields
          DEF HandlerBacked, StartBacked, ResumeBacked, Judged
        <4>2. h.req.by \in Releasers /\ h.req.key \in Keys
          BY <4>1 DEF Releasers, Keys
        <4>3. QED
          BY <1>2, <3>1, <4>2 DEF Recorded, Artifact
      <3>2. CASE h.call \notin {"record_approval", "record_result"}
        BY <1>2, <3>2 DEF Recorded, Artifact
      <3>3. QED
        BY <3>1, <3>2
    <2>2. Written(rec, h) = [rec EXCEPT !.artifacts = @ \cup {Recorded(h)}]
      BY <1>2 DEF Written, ArtifactCalls
    <2>3. QED
      BY <1>1, <2>1, <2>2 DEF Records
  <1>3. CASE h.call \in DelegationCalls
    <2>1. /\ h.call \notin ArtifactCalls
          /\ \/ Written(rec, h) = [rec EXCEPT !.validation = "queued"]
             \/ Written(rec, h) = [rec EXCEPT !.validation = "completed"]
             \/ Written(rec, h) = [rec EXCEPT !.approval = "queued"]
             \/ Written(rec, h) = [rec EXCEPT !.approval = "pending"]
             \/ Written(rec, h) = [rec EXCEPT !.approval = "completed"]
      BY <1>3 DEF Written, DelegationCalls, ArtifactCalls
    <2>2. QED
      BY <1>1, <2>1 DEF Records, DelegationStatus
  <1>4. QED
    BY <1>2, <1>3

LEMMA WriteRecordKeeps ==
  ASSUME SagaInv, NEW t \in Handlers, WriteRecord(t)
  PROVE  SagaInv'
  <1> DEFINE h == handlers[t]
  <1>1. t \in DOMAIN handlers /\ h.call \in DelegationCalls \cup ArtifactCalls
    BY DEF WriteRecord, At
  <1>2. h \in Handler /\ HandlerBacked(h)
    BY <1>1, Position
  <1>3. CASE Refuse(t) /\ UNCHANGED records
    BY <1>3, QuietRefusal DEF WriteRecord, SagaInv, TypeOK
  <1>4. CASE /\ h.payment \in DOMAIN records
             /\ records' = [records EXCEPT ![h.payment] = Written(@, h)]
             /\ Answer(t, h)
    <2>1. records[h.payment] \in Records
      BY <1>4, DictValue DEF SagaInv, TypeOK
    <2>2. /\ records'[h.payment] = Written(records[h.payment], h)
          /\ DOMAIN records' = DOMAIN records
          /\ \A p \in DOMAIN records : p # h.payment => records'[p] = records[p]
      BY <1>4
    <2>3. /\ records'[h.payment] \in Records
          /\ records[h.payment].artifacts \subseteq records'[h.payment].artifacts
          /\ h.call \in ArtifactCalls => Recorded(h) \in records'[h.payment].artifacts
      BY <1>1, <1>2, <2>1, <2>2, WrittenFacts
    <2>4. IsDict(records', Payments, Records)
      BY <1>4, <2>3 DEF SagaInv, TypeOK, IsDict
    <2>5. Grows
      BY <2>2, <2>3 DEF Grows, WriteRecord
    <2>6. PICK g : g = h
      OBVIOUS
    <2>7. HandlerBacked(g)'
      BY <1>2, <2>5, <2>6, PositionStays
    <2>8. Effected(g)'
      <3>1. g.call \in ArtifactCalls => Artifacted(g.payment, Recorded(g))'
        BY <1>4, <2>2, <2>3, <2>6 DEF Artifacted
      <3>2. g.call \notin {"create", "validate", "read_records"}
        BY <1>1, <2>6 DEF DelegationCalls, ArtifactCalls
      <3>3. QED
        BY <3>1, <3>2 DEF Effected
    <2>9. IsDict(handlers', Handlers, Handler) /\ HandlersBacked'
      BY <1>2, <1>4, <2>5, <2>6, <2>7, <2>8, AnswerKept DEF SagaInv, TypeOK
    <2>10. TasksBacked' /\ LogBacked' /\ ReleaseLicensed'
      BY <2>5, TasksKept, LogKept DEF SagaInv, WriteRecord
    <2>11. QED
      BY <2>4, <2>9, <2>10 DEF WriteRecord, SagaInv, TypeOK
  <1>5. QED
    BY <1>3, <1>4 DEF WriteRecord

LEMMA GatewayRestartKeeps ==
  ASSUME SagaInv, GatewayRestart
  PROVE  SagaInv'
  <1>1. /\ keys' = Empty /\ instructed' = {} /\ faults' \in Nat
        /\ handlers' = [u \in {v \in DOMAIN handlers : ~At(v, "release", "commit")} |->
                          handlers[u]]
        /\ UNCHANGED <<orders, tasks, records, railLog>>
    BY DEF GatewayRestart, Fault, SagaInv, TypeOK
  <1>2. Grows
    BY <1>1 DEF Grows
  <1>3. DOMAIN keys' = {} /\ IsDict(keys', Keys, Submission)
    BY <1>1, EmptyDict
  <1>4. IsDict(handlers', Handlers, Handler)
    BY <1>1 DEF SagaInv, TypeOK, IsDict
  <1>5. HandlersBacked'
    BY <1>1, <1>2, OthersKept DEF SagaInv
  <1>6. TasksBacked' /\ LogBacked' /\ ReleaseLicensed'
    BY <1>1, <1>2, <1>3, TasksKept, LogKept DEF SagaInv
  <1>7. QED
    BY <1>1, <1>3, <1>4, <1>5, <1>6 DEF SagaInv, TypeOK
-----------------------------------------------------------------------------
LEMMA SagaInit == Init => SagaInv
  <1> SUFFICES ASSUME Init
               PROVE  SagaInv
    OBVIOUS
  <1>1. TypeOK
    BY EmptyDict DEF Init, TypeOK
  <1>2. /\ DOMAIN tasks = {} /\ DOMAIN handlers = {} /\ DOMAIN keys = {}
        /\ DOMAIN railLog = {}
    BY EmptyDict DEF Init
  <1>3. QED
    BY <1>1, <1>2 DEF SagaInv, TasksBacked, HandlersBacked, LogBacked, ReleaseLicensed

LEMMA SagaStep == SagaInv /\ [Next]_vars => SagaInv'
  <1> SUFFICES ASSUME SagaInv, [Next]_vars
               PROVE  SagaInv'
    OBVIOUS
  <1>1. ASSUME NEW t \in Handlers, Serve(t)
        PROVE  SagaInv'
    BY <1>1, InstructKeeps, CreateTaskKeeps, ValidateKeeps, PatchReadKeeps,
       PatchCommitKeeps, ClaimKeeps, ProjectKeeps, WriteRecordKeeps, ReadRowKeeps,
       ReadRecordsKeeps, ReleaseLookupKeeps, ReleaseSubmitKeeps DEF Serve
  <1>2. CASE UNCHANGED vars
    <2>1. Grows
      BY <1>2, QuietStep DEF vars, SagaInv, TypeOK
    <2>2. IsDict(handlers', Handlers, Handler) /\ HandlersBacked'
      BY <1>2, <2>1, OthersKept DEF vars, SagaInv, TypeOK
    <2>3. QED
      BY <1>2, <2>2, QuietStep DEF vars, SagaInv, TypeOK
  <1>3. QED
    BY <1>1, <1>2, BeginStartKeeps, BeginResumeKeeps, AbandonKeeps, LostKeeps,
       GatewayRestartKeeps DEF Next

\* The invariant holds of every behaviour of the sagas.
THEOREM SagaInvariance == Spec => []SagaInv
  BY SagaInit, SagaStep, PTL DEF Spec

\* Every variable has its type.
THEOREM SagaTypes == Spec => []TypeOK
  <1>1. SagaInv => TypeOK
    BY DEF SagaInv
  <1>2. QED
    BY <1>1, SagaInvariance, PTL

\* No release reaches the rail that policy, validation, request and recorded
\* approval do not license.
THEOREM EveryReleaseLicensed == Spec => []ReleaseLicensed
  <1>1. SagaInv => ReleaseLicensed
    BY DEF SagaInv
  <1>2. QED
    BY <1>1, SagaInvariance, PTL

\* If an ambiguous answer of the rail is not taken for an acceptance, what a task
\* says of its release happened.
THEOREM EveryStatusBacked ==
  ASSUME AmbiguousStatus # "settlement_pending"
  PROVE  Spec => []StatusBacked
  <1>1. ASSUME SagaInv
        PROVE  StatusBacked
    <2>1. ASSUME NEW p \in DOMAIN tasks
          PROVE  /\ tasks[p].status \in {"released", "settlement_pending"} =>
                      Released(p, {"success"})
                 /\ tasks[p].status = "pending_reconcile" => Released(p, {"ambiguous"})
      <3>1. RowBacked(p, tasks[p])
        BY <1>1, RowOfTask
      <3>2. /\ {o \in Outcomes : StatusOf(o) = "settlement_pending"} \subseteq {"success"}
            /\ {o \in Outcomes : StatusOf(o) = "pending_reconcile"} \subseteq {"ambiguous"}
        BY DEF Outcomes, StatusOf
      <3>3. QED
        BY <3>1, <3>2 DEF RowBacked, Answered, Released
    <2>2. QED
      BY <2>1 DEF StatusBacked
  <1>2. QED
    BY <1>1, SagaInvariance, PTL
=============================================================================
