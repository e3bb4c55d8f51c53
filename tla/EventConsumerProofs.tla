-------------------------- MODULE EventConsumerProofs --------------------------
(***************************************************************************)
(* TLAPS proofs about EventConsumer, for every set of tasks, writers and   *)
(* dispatch runs, every claim limit, any number of events and any number   *)
(* of faults.                                                              *)
(***************************************************************************)
EXTENDS EventConsumer, DictTheorems, SequenceTheorems

USE DEF Columns, NoStatus, Merged, Changed, Claimable, Refused, Following,
        Conflicts

Kinds == {"ensure", "append", "complete", "fail"}

\* What each call finds missing is a set of columns of the call's type.
LEMMA MissingType ==
  ASSUME NEW call \in Call
  PROVE  Missing(call) \in SUBSET {"row", "status", "lease"}
  <1>1. call.kind \in Kinds
    BY DEF Call, Kinds
  <1>2. /\ ToComplete(call.event) \in SUBSET {"row", "status", "lease"}
        /\ ToFail(call.event) \in SUBSET {"row", "status", "lease"}
    BY DEF ToComplete, ToFail
  <1>3. CASE call.kind \in {"ensure", "append"}
    BY <1>3 DEF Missing
  <1>4. CASE call.kind \in {"complete", "fail"}
    BY <1>2, <1>4 DEF Missing
  <1>5. QED
    BY <1>1, <1>3, <1>4 DEF Kinds

\* A new call has the type of calls.
LEMMA NewCallType ==
  ASSUME NEW kind \in Kinds, NEW i \in Nat
  PROVE  /\ NewCall(kind, i) \in Call
         /\ NewCall(kind, i).kind = kind
         /\ NewCall(kind, i).event = i
         /\ NewCall(kind, i).writes = {}
  BY DEF NewCall, Call, Kinds

\* The positions of the outbox are natural numbers, its events have their type.
LEMMA OutboxFacts ==
  ASSUME TypeOK
  PROVE  /\ outbox \in Seq(Event) /\ Len(outbox) \in Nat
         /\ DOMAIN outbox = 1 .. Len(outbox)
         /\ \A i \in DOMAIN outbox : i \in Nat /\ outbox[i] \in Event
  BY DEF TypeOK, ContextTypeOK

\* A run and its call have their types.
LEMMA RunFacts ==
  ASSUME TypeOK, NEW d \in DOMAIN working
  PROVE  /\ d \in Dispatchers
         /\ working[d] \in Run
         /\ working[d].batch \in SUBSET Nat
         /\ working[d].call \in Call
         /\ working[d].call.event \in Nat
         /\ working[d].call.kind \in Kinds
  BY DEF TypeOK, IsDict, Run, Call, Kinds

\* An outbox that keeps its length and the type of its events is well typed.
LEMMA OutboxUpdate ==
  ASSUME TypeOK, NEW new, DOMAIN new = DOMAIN outbox,
         new = [i \in DOMAIN outbox |-> new[i]],
         \A i \in DOMAIN outbox : new[i] \in Event
  PROVE  new \in Seq(Event) /\ Len(new) = Len(outbox)
  <1>1. new \in [1 .. Len(outbox) -> Event]
    BY OutboxFacts
  <1>2. QED
    BY <1>1, OutboxFacts

\* An event keeps its type under a new status and a new lease.
LEMMA EventUpdate ==
  ASSUME NEW e \in Event,
         NEW status \in {"pending", "in_progress", "completed", "failed"},
         NEW lease \in {"none", "live", "expired"}
  PROVE  /\ [e EXCEPT !.status = status, !.lease = lease] \in Event
         /\ [e EXCEPT !.status = status] \in Event
         /\ [e EXCEPT !.lease = lease] \in Event
         /\ e.status \in {"pending", "in_progress", "completed", "failed"}
         /\ e.lease \in {"none", "live", "expired"}
  BY DEF Event

\* Turning to an event keeps the runs well typed.
LEMMA StartType ==
  ASSUME TypeOK, NEW d \in Dispatchers, NEW batch \in SUBSET Nat, Start(d, batch)
  PROVE  IsDict(working', Dispatchers, Run)
  <1>1. PICK i \in DOMAIN outbox :
          working' = Put(working, d,
            [batch |-> batch,
             call |-> NewCall(IF outbox[i].from = NoStatus THEN "ensure" ELSE "append", i)])
    BY DEF Start
  <1>2. NewCall(IF outbox[i].from = NoStatus THEN "ensure" ELSE "append", i) \in Call
    BY NewCallType, OutboxFacts DEF Kinds
  <1>3. QED
    BY <1>1, <1>2, PutDict DEF TypeOK, Run

\* A run keeps its type when it makes another call for the same event.
LEMMA CallChange ==
  ASSUME TypeOK, NEW d \in DOMAIN working, NEW call \in Call,
         working' = [working EXCEPT ![d].call = call]
  PROVE  IsDict(working', Dispatchers, Run)
  BY RunFacts DEF TypeOK, IsDict, Run

\* After an answer the runs are still well typed.
LEMMA AnswerType ==
  ASSUME TypeOK, NEW d \in DOMAIN working, Succeeds(d) \/ Errs(d)
  PROVE  IsDict(working', Dispatchers, Run)
  <1> DEFINE c == working[d].call
             rest == Left(c, working[d].batch)
  <1>1. /\ c \in Call /\ c.event \in Nat /\ d \in Dispatchers
        /\ rest \in SUBSET Nat
    BY RunFacts DEF Left
  <1>2. CASE working' = [working EXCEPT ![d].call =
                           NewCall(Following(c.kind), c.event)]
    <2>1. Following(c.kind) \in Kinds
      BY DEF Kinds
    <2>2. NewCall(Following(c.kind), c.event) \in Call
      BY <1>1, <2>1, NewCallType
    <2>3. QED
      BY <1>2, <2>2, CallChange
  <1>3. CASE working' = [working EXCEPT ![d].call = NewCall("fail", c.event)]
    BY <1>1, <1>3, CallChange, NewCallType DEF Kinds
  <1>4. CASE Start(d, rest)
    BY <1>1, <1>4, StartType
  <1>5. CASE working' = Drop(working, d)
    BY <1>5, DropDict DEF TypeOK
  <1>6. QED
    BY <1>2, <1>3, <1>4, <1>5 DEF Succeeds, Errs
-----------------------------------------------------------------------------
\* The event a patch or a creation writes has the type of events.
LEMMA NewEventType ==
  ASSUME NEW task \in Tasks, NEW from \in Values \cup {NoStatus}, NEW row \in Row,
         NEW fits \in BOOLEAN, NEW stamp \in Nat
  PROVE  NewEvent(task, from, row, fits, stamp) \in Event
  BY DEF NewEvent, Event

\* A new event leaves the ones before it as they were.
LEMMA AppendFacts ==
  ASSUME TypeOK, NEW e \in Event
  PROVE  /\ Append(outbox, e) \in Seq(Event)
         /\ DOMAIN outbox \subseteq DOMAIN Append(outbox, e)
         /\ \A i \in DOMAIN outbox : Append(outbox, e)[i] = outbox[i]
         /\ Append(outbox, e)[Len(outbox) + 1] = e
         /\ DOMAIN Append(outbox, e) = DOMAIN outbox \cup {Len(outbox) + 1}
  BY OutboxFacts

\* A commit of the stores on behalf of a call keeps them well typed.
LEMMA WriteType ==
  ASSUME TypeOK, NEW c \in Call, c.event \in DOMAIN outbox, Write(c)
  PROVE  /\ ContextTypeOK'
         /\ opened' \subseteq Tasks
         /\ history' \in Seq(Nat)
  <1>1. /\ outbox[c.event].task \in Tasks /\ c.event \in Nat
        /\ outbox \in Seq(Event)
    BY OutboxFacts DEF Event
  <1>2. CASE c.kind = "ensure" /\ InsertProvenance(TaskOf(c)) /\ UNCHANGED contextVars
    BY <1>1, <1>2 DEF TypeOK, ContextTypeOK, contextVars, InsertProvenance, TaskOf
  <1>3. CASE c.kind = "append" /\ InsertTransition(c.event) /\ UNCHANGED contextVars
    BY <1>1, <1>3 DEF TypeOK, ContextTypeOK, contextVars, InsertTransition
  <1>4. CASE c.kind = "complete" /\ WriteCompleted(c.event) /\ UNCHANGED provenanceVars
    <2>1. outbox' = [outbox EXCEPT ![c.event].status = "completed"]
      BY <1>4 DEF WriteCompleted
    <2>2. outbox' \in Seq(Event) /\ DOMAIN outbox' = DOMAIN outbox
      BY <1>1, <2>1, OutboxFacts, OutboxUpdate DEF Event
    <2>3. QED
      BY <1>4, <2>2 DEF TypeOK, ContextTypeOK, WriteCompleted, provenanceVars
  <1>5. CASE c.kind = "fail" /\ WriteFailed(c.event, c.writes) /\ UNCHANGED provenanceVars
    <2>1. outbox' \in Seq(Event) /\ DOMAIN outbox' = DOMAIN outbox
      <3>1. PICK e \in Event : e = outbox[c.event]
        BY OutboxFacts
      <3>2. PICK status, lease :
              /\ status = IF "status" \in c.writes THEN "failed" ELSE e.status
              /\ lease = IF "lease" \in c.writes THEN "none" ELSE e.lease
        OBVIOUS
      <3>3. outbox' = [outbox EXCEPT ![c.event] =
                         [e EXCEPT !.status = status, !.lease = lease]]
        BY <1>5, <3>1, <3>2 DEF WriteFailed, Event
      <3>4. [e EXCEPT !.status = status, !.lease = lease] \in Event
        <4>1. status \in {"pending", "in_progress", "completed", "failed"}
              /\ lease \in {"none", "live", "expired"}
          BY <3>2, EventUpdate
        <4>2. QED
          BY <4>1, EventUpdate
      <3>5. /\ DOMAIN outbox' = DOMAIN outbox
            /\ outbox' = [i \in DOMAIN outbox |-> outbox'[i]]
            /\ \A i \in DOMAIN outbox : outbox'[i] \in Event
        BY <3>3, <3>4, OutboxFacts
      <3>6. QED
        BY <3>5, OutboxUpdate
    <2>2. QED
      BY <1>5, <2>1 DEF TypeOK, ContextTypeOK, WriteFailed, provenanceVars
  <1>6. QED
    BY <1>2, <1>3, <1>4, <1>5 DEF Write

\* The actions of the context store keep it well typed.
LEMMA ContextStep ==
  ASSUME TypeOK
  PROVE  /\ \A task \in Tasks, row \in NewRows, fits \in Fits :
              CreateTask(task, row, fits) => ContextTypeOK'
         /\ \A w \in Writers, task \in Tasks, patch \in Patches :
              PatchRead(w, task, patch) => ContextTypeOK'
         /\ \A w \in Writers, fits \in Fits :
              PatchCommit(w, fits) => ContextTypeOK'
         /\ \A d \in Dispatchers :
              ClaimRead(d) \/ ClaimCommit(d) \/ ClaimAbort(d) => ContextTypeOK'
         /\ \A i \in DOMAIN outbox : LeaseExpires(i) => ContextTypeOK'
  <1> USE DEF TypeOK, ContextTypeOK
  <1>1. ASSUME NEW task \in Tasks, NEW row \in NewRows, NEW fits \in Fits,
               CreateTask(task, row, fits)
        PROVE  ContextTypeOK'
    <2>1. row \in Row /\ fits \in BOOLEAN /\ clock' \in Nat
      BY <1>1, RowsAssumption DEF CreateTask, Begin
    <2>2. IsDict(tasks', Tasks, Row)
      BY <1>1, <2>1, PutDict DEF CreateTask
    <2>3. outbox' \in Seq(Event) /\ DOMAIN outbox \subseteq DOMAIN outbox'
      <3>1. NewEvent(task, NoStatus, row, fits, clock') \in Event
        BY <2>1, NewEventType
      <3>2. QED
        BY <1>1, <3>1, AppendFacts DEF CreateTask
    <2>4. QED
      BY <1>1, <2>1, <2>2, <2>3 DEF CreateTask
  <1>2. ASSUME NEW w \in Writers, NEW task \in Tasks, NEW patch \in Patches,
               PatchRead(w, task, patch)
        PROVE  ContextTypeOK'
    <2>1. tasks[task] \in Row /\ clock' \in Nat
      BY <1>2, DictValue DEF PatchRead, Begin
    <2>2. [task |-> task, patch |-> patch, row |-> tasks[task], stamp |-> clock']
            \in [task: Tasks, patch: Patches, row: Row, stamp: Nat]
      BY <2>1
    <2>3. IsDict(patching', Writers, [task: Tasks, patch: Patches, row: Row, stamp: Nat])
      BY <1>2, <2>2, PutDict DEF PatchRead
    <2>4. QED
      BY <1>2, <2>1, <2>3 DEF PatchRead
  <1>3. ASSUME NEW w \in Writers, NEW fits \in Fits, PatchCommit(w, fits)
        PROVE  ContextTypeOK'
    <2> DEFINE h == patching[w]
    <2>1. h \in [task: Tasks, patch: Patches, row: Row, stamp: Nat]
      BY <1>3 DEF PatchCommit, IsDict
    <2>2. /\ h.task \in Tasks /\ h.row \in Row /\ h.patch \in Patches
          /\ \A c \in DOMAIN h.patch : h.patch[c] \in Values
          /\ fits \in BOOLEAN /\ h.stamp \in Nat
      BY <2>1, RowsAssumption
    <2>3. h.row["status"] \in Values /\ Merged(h.row, h.patch) \in Row
      BY <2>2 DEF Row
    <2>4. outbox' \in Seq(Event) /\ DOMAIN outbox \subseteq DOMAIN outbox'
      <3>1. NewEvent(h.task, h.row["status"], Merged(h.row, h.patch), fits, h.stamp)
              \in Event
        BY <2>2, <2>3, NewEventType
      <3>2. QED
        BY <1>3, <3>1, AppendFacts DEF PatchCommit
    <2>5. IsDict(tasks', Tasks, Row)
      BY <1>3, <2>2 DEF PatchCommit, IsDict, Row
    <2>6. IsDict(patching', Writers, [task: Tasks, patch: Patches, row: Row, stamp: Nat])
      BY <1>3, DropDict DEF PatchCommit
    <2>7. QED
      BY <1>3, <2>4, <2>5, <2>6 DEF PatchCommit
  <1>4. ASSUME NEW d \in Dispatchers, ClaimRead(d)
        PROVE  ContextTypeOK'
    BY <1>4 DEF ClaimRead, Put, Due
  <1>5. ASSUME NEW d \in Dispatchers, ClaimCommit(d)
        PROVE  ContextTypeOK'
    <2>1. ASSUME NEW i \in DOMAIN outbox
          PROVE  outbox'[i] \in Event
      <3>1. outbox[i] \in Event
        BY OutboxFacts
      <3>2. outbox'[i] \in
              {outbox[i], [outbox[i] EXCEPT !.lease = "live"],
               [outbox[i] EXCEPT !.status = "in_progress", !.lease = "live"]}
        BY <1>5, <3>1 DEF ClaimCommit, Event
      <3>3. QED
        BY <3>1, <3>2 DEF Event
    <2>2. outbox' \in Seq(Event) /\ DOMAIN outbox' = DOMAIN outbox
      BY <1>5, <2>1, OutboxUpdate DEF ClaimCommit
    <2>3. QED
      BY <1>5, <2>2 DEF ClaimCommit, Drop
  <1>6. ASSUME NEW d \in Dispatchers, ClaimAbort(d)
        PROVE  ContextTypeOK'
    BY <1>6 DEF ClaimAbort, Drop
  <1>7. ASSUME NEW i \in DOMAIN outbox, LeaseExpires(i)
        PROVE  ContextTypeOK'
    <2>1. outbox' \in Seq(Event) /\ DOMAIN outbox' = DOMAIN outbox
      <3>1. [outbox[i] EXCEPT !.lease = "expired"] \in Event
        BY OutboxFacts, EventUpdate
      <3>2. outbox' = [outbox EXCEPT ![i] = [outbox[i] EXCEPT !.lease = "expired"]]
        BY <1>7 DEF LeaseExpires
      <3>3. /\ DOMAIN outbox' = DOMAIN outbox
            /\ outbox' = [j \in DOMAIN outbox |-> outbox'[j]]
            /\ \A j \in DOMAIN outbox : outbox'[j] \in Event
        BY <3>1, <3>2, OutboxFacts
      <3>4. QED
        BY <3>3, OutboxUpdate
    <2>2. QED
      BY <1>7, <2>1 DEF LeaseExpires
  <1>8. QED
    BY <1>1, <1>2, <1>3, <1>4, <1>5, <1>6, <1>7
-----------------------------------------------------------------------------
\* The events of pending calls exist.
CallsKnown ==
  /\ \A d \in DOMAIN working : working[d].call.event \in DOMAIN outbox
  /\ \A c \in late : c.event \in DOMAIN outbox

\* Every variable keeps its type.
LEMMA TypeCorrect == TypeOK /\ CallsKnown /\ [Next]_vars => TypeOK'
  <1> SUFFICES ASSUME TypeOK, CallsKnown, [Next]_vars
               PROVE  TypeOK'
    OBVIOUS
  <1>1. CASE UNCHANGED vars
    BY <1>1 DEF vars, contextVars, provenanceVars, TypeOK, ContextTypeOK
  <1>2. ASSUME NEW task \in Tasks, NEW row \in NewRows, NEW fits \in Fits,
               Create(task, row, fits)
        PROVE  TypeOK'
    BY <1>2, ContextStep DEF Create, TypeOK, provenanceVars
  <1>3. ASSUME NEW w \in Writers, NEW task \in Tasks, NEW patch \in Patches,
               ReadForPatch(w, task, patch)
        PROVE  TypeOK'
    BY <1>3, ContextStep DEF ReadForPatch, TypeOK, provenanceVars
  <1>4. ASSUME NEW w \in Writers, NEW fits \in Fits, CommitPatch(w, fits)
        PROVE  TypeOK'
    BY <1>4, ContextStep DEF CommitPatch, TypeOK, provenanceVars
  <1>5. ASSUME NEW i \in DOMAIN outbox, Expire(i)
        PROVE  TypeOK'
    BY <1>5, ContextStep DEF Expire, TypeOK, provenanceVars
  <1>6. ASSUME NEW d \in Dispatchers, Dispatch(d)
        PROVE  TypeOK'
    BY <1>6, ContextStep DEF Dispatch, TypeOK, provenanceVars
  <1>13. ASSUME NEW d \in Dispatchers, DispatchWanted(d)
         PROVE  TypeOK'
    <2>1. ContextTypeOK'
      BY <1>13, ContextStep DEF DispatchWanted, TypeOK, ContextTypeOK, contextVars
    <2>2. QED
      BY <1>13, <2>1 DEF DispatchWanted, TypeOK, provenanceVars
  <1>14. CASE RunNeverAsked
    BY <1>14 DEF RunNeverAsked, Fault, TypeOK, ContextTypeOK, contextVars, provenanceVars
  <1>7. ASSUME NEW d \in Dispatchers, Claimed(d)
        PROVE  TypeOK'
    <2>1. ContextTypeOK'
      BY <1>7, ContextStep DEF Claimed
    <2>2. DOMAIN claiming[d] \in SUBSET Nat
      BY <1>7, OutboxFacts DEF Claimed, ClaimCommit, TypeOK, ContextTypeOK
    <2>3. IsDict(working', Dispatchers, Run)
      BY <1>7, <2>2, StartType DEF Claimed
    <2>4. QED
      BY <1>7, <2>1, <2>3 DEF Claimed, TypeOK, provenanceVars
  <1>8. ASSUME NEW d \in Dispatchers, CallRead(d)
        PROVE  TypeOK'
    <2> DEFINE c == working[d].call
    <2>1. d \in DOMAIN working /\ c \in Call
      BY <1>8, RunFacts DEF CallRead
    <2>2. Errs(d) \/ Succeeds(d) => IsDict(working', Dispatchers, Run)
      BY <2>1, AnswerType
    <2>3. ASSUME working' = [working EXCEPT ![d].call.writes = Missing(c)]
          PROVE  IsDict(working', Dispatchers, Run)
      <3>1. Missing(c) \in SUBSET {"row", "status", "lease"}
        BY <2>1, MissingType
      <3>2. [c EXCEPT !.writes = Missing(c)] \in Call
        BY <2>1, <3>1 DEF Call
      <3>3. working' = [working EXCEPT ![d].call = [c EXCEPT !.writes = Missing(c)]]
        BY <2>1, <2>3, RunFacts DEF Run
      <3>4. QED
        BY <2>1, <3>2, <3>3, CallChange
    <2>4. IsDict(working', Dispatchers, Run)
      BY <1>8, <2>2, <2>3 DEF CallRead
    <2>5. QED
      BY <1>8, <2>4 DEF CallRead, TypeOK, ContextTypeOK, contextVars, provenanceVars
  <1>9. ASSUME NEW d \in Dispatchers, CallWrite(d)
        PROVE  TypeOK'
    <2>1. d \in DOMAIN working /\ (Errs(d) \/ Succeeds(d))
      BY <1>9 DEF CallWrite
    <2>2. IsDict(working', Dispatchers, Run)
      BY <2>1, AnswerType
    <2>3. CASE Write(working[d].call)
      BY <1>9, <2>1, <2>2, <2>3, WriteType, RunFacts DEF CallWrite, TypeOK, CallsKnown
    <2>4. CASE UNCHANGED <<contextVars, provenanceVars>>
      BY <1>9, <2>2, <2>4
      DEF CallWrite, TypeOK, ContextTypeOK, contextVars, provenanceVars
    <2>5. QED
      BY <1>9, <2>3, <2>4 DEF CallWrite
  <1>10. ASSUME NEW d \in Dispatchers, RunFault(d)
         PROVE  TypeOK'
    <2>1. CASE ClaimLost(d)
      BY <2>1, ContextStep DEF ClaimLost, TypeOK, provenanceVars, Fault
    <2>2. CASE CallTimeout(d)
      BY <2>2, AnswerType, RunFacts
      DEF CallTimeout, Fault, TypeOK, ContextTypeOK, contextVars, provenanceVars
    <2>3. CASE Killed(d)
      BY <2>3, DropDict, RunFacts
      DEF Killed, Fault, TypeOK, ContextTypeOK, contextVars, provenanceVars
    <2>4. QED
      BY <1>10, <2>1, <2>2, <2>3 DEF RunFault
  <1>11. ASSUME NEW c \in late, LateStep(c)
         PROVE  TypeOK'
    <2>1. c \in Call /\ c.event \in DOMAIN outbox
      BY DEF TypeOK, CallsKnown
    <2>2. [c EXCEPT !.writes = Missing(c)] \in Call
      BY <2>1, MissingType DEF Call
    <2>3. late' \subseteq Call
      BY <1>11, <2>2 DEF LateStep, LateRead, LateWrite, LateLost, TypeOK
    <2>4. CASE UNCHANGED <<contextVars, provenanceVars>>
      BY <1>11, <2>3, <2>4
      DEF LateStep, LateRead, LateWrite, LateLost, TypeOK, ContextTypeOK,
          contextVars, provenanceVars
    <2>5. CASE LateWrite(c) /\ Write(c)
      BY <2>1, <2>3, <2>5, WriteType DEF LateWrite, TypeOK
    <2>6. QED
      BY <1>11, <2>4, <2>5 DEF LateStep, LateRead, LateWrite, LateLost
  <1>12. QED
    BY <1>1, <1>2, <1>3, <1>4, <1>5, <1>6, <1>7, <1>8, <1>9, <1>10, <1>11, <1>13, <1>14
    DEF Next, RunStep, RunGoesOn
-----------------------------------------------------------------------------
\* What the stores hold only grows: no event, provenance record or transition
\* row disappears, and an event keeps its task.
Grows ==
  /\ DOMAIN outbox \subseteq DOMAIN outbox'
  /\ \A i \in DOMAIN outbox : outbox'[i].task = outbox[i].task
  /\ opened \subseteq opened'
  /\ \A i : Recorded(i) => Recorded(i)'

\* A call that was justified stays justified while the stores only grow.
LEMMA BackedStays ==
  ASSUME Grows, NEW c, CallBacked(c)
  PROVE  CallBacked(c)'
  BY DEF Grows, CallBacked, TaskOf

\* A commit on behalf of a call makes the stores grow, or changes the status and
\* the lease of its event.
LEMMA WriteGrows ==
  ASSUME TypeOK, NEW c \in Call, c.event \in DOMAIN outbox, Write(c)
  PROVE  /\ Grows
         /\ c.kind = "append" => Recorded(c.event)'
         /\ c.kind = "ensure" => TaskOf(c) \in opened'
  <1>1. /\ history \in Seq(Nat) /\ c.event \in Nat
        /\ \A i \in DOMAIN outbox : outbox[i] \in Event
    BY OutboxFacts DEF TypeOK
  <1>2. CASE c.kind = "append" /\ InsertTransition(c.event) /\ UNCHANGED contextVars
    <2>1. /\ \A n \in DOMAIN history : n \in DOMAIN history' /\ history'[n] = history[n]
          /\ Len(history) + 1 \in DOMAIN history'
          /\ history'[Len(history) + 1] = c.event
      BY <1>1, <1>2 DEF InsertTransition
    <2>2. QED
      BY <1>2, <2>1 DEF InsertTransition, Grows, Recorded, contextVars
  <1>3. CASE c.kind = "ensure" /\ InsertProvenance(TaskOf(c)) /\ UNCHANGED contextVars
    BY <1>3 DEF InsertProvenance, Grows, Recorded, contextVars
  <1>4. CASE c.kind = "complete" /\ WriteCompleted(c.event) /\ UNCHANGED provenanceVars
    BY <1>1, <1>4, OutboxFacts
    DEF WriteCompleted, Grows, Recorded, provenanceVars, Event
  <1>5. CASE c.kind = "fail" /\ WriteFailed(c.event, c.writes) /\ UNCHANGED provenanceVars
    BY <1>1, <1>5, OutboxFacts
    DEF WriteFailed, Grows, Recorded, provenanceVars, Event
  <1>6. QED
    BY <1>2, <1>3, <1>4, <1>5 DEF Write

\* Every step makes the stores grow.
LEMMA StepGrows ==
  ASSUME TypeOK, CallsKnown, [Next]_vars
  PROVE  Grows
  <1> USE DEF provenanceVars, contextVars
  <1>0. /\ outbox \in Seq(Event)
        /\ \A i \in DOMAIN outbox : outbox[i] \in Event
    BY OutboxFacts
  <1>1. ASSUME UNCHANGED <<outbox, opened, history>>
        PROVE  Grows
    BY <1>1 DEF Grows, Recorded
  <1>2. ASSUME UNCHANGED <<opened, history>>, NEW e, outbox' = Append(outbox, e)
        PROVE  Grows
    BY <1>0, <1>2 DEF Grows, Recorded
  <1>3. ASSUME NEW d \in Dispatchers, ClaimCommit(d), UNCHANGED <<opened, history>>
        PROVE  Grows
    BY <1>0, <1>3 DEF Grows, Recorded, ClaimCommit, Event
  <1>4. ASSUME NEW i \in DOMAIN outbox, Expire(i)
        PROVE  Grows
    BY <1>0, <1>4 DEF Grows, Recorded, Expire, LeaseExpires, Event
  <1>5. ASSUME NEW d \in Dispatchers, CallWrite(d)
        PROVE  Grows
    BY <1>1, <1>5, WriteGrows, RunFacts DEF CallWrite, CallsKnown
  <1>6. ASSUME NEW c \in late, LateWrite(c)
        PROVE  Grows
    BY <1>1, <1>6, WriteGrows DEF LateWrite, CallsKnown, TypeOK
  <1>7. ASSUME NEW d \in Dispatchers, RunStep(d) \/ RunFault(d)
        PROVE  Grows
    BY <1>1, <1>3, <1>5, <1>7
    DEF RunStep, RunGoesOn, RunFault, Dispatch, DispatchWanted, ClaimRead, Claimed, CallRead, ClaimLost,
        ClaimAbort, CallTimeout, Killed
  <1>8. ASSUME NEW c \in late, LateStep(c)
        PROVE  Grows
    BY <1>1, <1>6, <1>8 DEF LateStep, LateRead, LateLost
  <1>9. QED
    BY <1>1, <1>2, <1>4, <1>7, <1>8
    DEF Next, vars, Create, CreateTask, ReadForPatch, PatchRead, CommitPatch,
        PatchCommit, RunNeverAsked
-----------------------------------------------------------------------------
\* A new call is justified: only a completion needs its event to be recorded.
LEMMA NewCallBacked ==
  ASSUME NEW kind \in Kinds, NEW i \in Nat, i \in DOMAIN outbox',
         kind = "complete" => Recorded(i)'
  PROVE  CallBacked(NewCall(kind, i))'
  BY NewCallType DEF CallBacked

\* The runs after a step of run d: the others as they were, d with a new call.
NewCallOf(d) ==
  /\ DOMAIN working' \subseteq DOMAIN working \cup {d}
  /\ \A u \in DOMAIN working' : u # d => working'[u].call = working[u].call
  /\ d \in DOMAIN working' =>
       \E kind \in Kinds, i \in DOMAIN outbox :
         /\ working'[d].call = NewCall(kind, i)
         /\ kind = "complete" => Recorded(i)'

\* Turning to an event is a new call that is not a completion.
LEMMA StartCall ==
  ASSUME NEW d, NEW batch, Start(d, batch)
  PROVE  NewCallOf(d)
  <1>1. PICK i \in DOMAIN outbox :
          working' = Put(working, d,
            [batch |-> batch,
             call |-> NewCall(IF outbox[i].from = NoStatus THEN "ensure" ELSE "append", i)])
    BY DEF Start
  <1>2. PICK kind \in {"ensure", "append"} :
          working' = Put(working, d, [batch |-> batch, call |-> NewCall(kind, i)])
    BY <1>1
  <1>3. QED
    BY <1>2 DEF NewCallOf, Put, Kinds

\* An answer leads to a new call; to a completion only once the event is recorded.
LEMMA AnswerCall ==
  ASSUME TypeOK, CallsKnown, NEW d \in DOMAIN working,
         \/ /\ Succeeds(d)
            /\ \A i : working[d].call.kind = "append" /\ i = working[d].call.event
                       => Recorded(i)'
         \/ Errs(d)
  PROVE  NewCallOf(d)
  <1> DEFINE c == working[d].call
  <1>1. c.event \in DOMAIN outbox /\ c.kind \in Kinds
    BY RunFacts DEF CallsKnown
  <1>2. ASSUME NEW kind \in Kinds,
               \A i : kind = "complete" /\ i = c.event => Recorded(i)',
               working' = [working EXCEPT ![d].call = NewCall(kind, c.event)]
        PROVE  NewCallOf(d)
    <2>1. /\ DOMAIN working' = DOMAIN working
          /\ \A u \in DOMAIN working : u # d => working'[u] = working[u]
          /\ working'[d].call = NewCall(kind, c.event)
      BY <1>2, RunFacts DEF TypeOK, IsDict, Run
    <2>2. QED
      BY <1>1, <1>2, <2>1 DEF NewCallOf
  <1>3. ASSUME working' = Drop(working, d)
        PROVE  NewCallOf(d)
    BY <1>3 DEF NewCallOf, Drop
  <1>4. CASE Errs(d)
    BY <1>2, <1>3, <1>4 DEF Errs, Kinds
  <1>5. CASE /\ Succeeds(d)
             /\ \A i : c.kind = "append" /\ i = c.event => Recorded(i)'
    BY <1>1, <1>2, <1>3, <1>5, StartCall DEF Succeeds, Kinds
  <1>6. QED
    BY <1>4, <1>5

\* A step that gives run d a justified new call keeps all runs justified.
LEMMA NewCallKeeps ==
  ASSUME TypeOK, CallsBacked, Grows, NEW d, NewCallOf(d)
  PROVE  \A u, c : u \in DOMAIN working' /\ c = working'[u].call => CallBacked(c)'
  <1>1. \A u \in DOMAIN working : \A c : c = working[u].call => CallBacked(c)'
    BY BackedStays DEF CallsBacked
  <1>2. \A kind \in Kinds, i \in DOMAIN outbox :
          (kind = "complete" => Recorded(i)') => CallBacked(NewCall(kind, i))'
    BY NewCallBacked, OutboxFacts DEF Grows
  <1>3. ASSUME d \in DOMAIN working'
        PROVE  \A c : c = working'[d].call => CallBacked(c)'
    BY <1>2, <1>3 DEF NewCallOf
  <1>4. QED
    BY <1>1, <1>3 DEF NewCallOf

\* Every call on its way stays justified.
LEMMA CallsBackedStep ==
  ASSUME TypeOK, CallsBacked, [Next]_vars
  PROVE  CallsBacked'
  <1>1. CallsKnown
    BY DEF CallsBacked, CallsKnown, CallBacked
  <1>2. Grows
    BY <1>1, StepGrows
  <1>3. /\ \A u \in DOMAIN working : \A c : c = working[u].call => CallBacked(c)'
        /\ \A c \in late : CallBacked(c)'
    BY <1>2, BackedStays DEF CallsBacked
  <1>4. ASSUME NEW d, NewCallOf(d)
        PROVE  \A u, c : u \in DOMAIN working' /\ c = working'[u].call => CallBacked(c)'
    BY <1>2, <1>4, NewCallKeeps
  <1>5. ASSUME \A u, c : u \in DOMAIN working' /\ c = working'[u].call => CallBacked(c)',
               \A c : c \in late' => CallBacked(c)'
        PROVE  CallsBacked'
    BY <1>5 DEF CallsBacked
  <1>6. ASSUME UNCHANGED <<working, late>>
        PROVE  CallsBacked'
    BY <1>3, <1>5, <1>6
  <1>7. ASSUME NEW d \in Dispatchers, Claimed(d)
        PROVE  CallsBacked'
    BY <1>3, <1>4, <1>5, <1>7, StartCall DEF Claimed
  <1>8. ASSUME NEW d \in Dispatchers, CallRead(d)
        PROVE  CallsBacked'
    <2> DEFINE c == working[d].call
    <2>1. /\ d \in DOMAIN working /\ c \in Call /\ c.kind \in Kinds
          /\ UNCHANGED <<outbox, opened, history, late>>
          /\ CallBacked(c)
      BY <1>8, RunFacts DEF CallRead, contextVars, provenanceVars, CallsBacked
    <2>2. CASE Errs(d)
      BY <1>1, <1>3, <1>4, <1>5, <2>1, <2>2, AnswerCall
    <2>3. CASE ~Refused(c) /\ Missing(c) = {} /\ Succeeds(d)
      <3>1. c.kind = "append" => Recorded(c.event)
        BY <2>3 DEF Missing
      <3>2. \A i : c.kind = "append" /\ i = c.event => Recorded(i)'
        BY <1>2, <3>1 DEF Grows
      <3>3. NewCallOf(d)
        BY <1>1, <2>1, <2>3, <3>2, AnswerCall
      <3>4. QED
        BY <1>3, <1>4, <1>5, <2>1, <3>3
    <2>4. CASE /\ ~Refused(c) /\ Missing(c) # {}
               /\ working' = [working EXCEPT ![d].call.writes = Missing(c)]
      <3>1. /\ DOMAIN working' = DOMAIN working
            /\ \A u \in DOMAIN working : u # d => working'[u] = working[u]
            /\ working'[d].call = [c EXCEPT !.writes = Missing(c)]
        BY <2>1, <2>4, RunFacts DEF TypeOK, IsDict, Run, Call
      <3>2. c.kind = "append" => TaskOf(c) \in opened
        BY <2>4 DEF Missing
      <3>3. \A new : new = [c EXCEPT !.writes = Missing(c)] => CallBacked(new)'
        BY <2>1, <3>2 DEF CallBacked, TaskOf, Recorded, Call
      <3>4. QED
        BY <1>3, <1>5, <2>1, <3>1, <3>3
    <2>5. QED
      BY <1>8, <2>2, <2>3, <2>4 DEF CallRead
  <1>9. ASSUME NEW d \in Dispatchers, CallWrite(d)
        PROVE  CallsBacked'
    <2> DEFINE c == working[d].call
    <2>1. /\ d \in DOMAIN working /\ c \in Call /\ c.event \in DOMAIN outbox
          /\ UNCHANGED late
      BY <1>1, <1>9, RunFacts DEF CallWrite, CallsKnown
    <2>2. Errs(d) \/ (Succeeds(d) /\ Write(c))
      BY <1>9 DEF CallWrite
    <2>3. Write(c) => \A i : c.kind = "append" /\ i = c.event => Recorded(i)'
      <3>1. \A w \in Call : w.event \in DOMAIN outbox /\ Write(w) =>
              \A i : w.kind = "append" /\ i = w.event => Recorded(i)'
        BY WriteGrows
      <3>2. QED
        BY <2>1, <3>1
    <2>4. NewCallOf(d)
      BY <1>1, <2>1, <2>2, <2>3, AnswerCall
    <2>5. QED
      BY <1>3, <1>4, <1>5, <2>1, <2>4
  <1>10. ASSUME NEW d \in Dispatchers, RunFault(d)
         PROVE  CallsBacked'
    <2>1. CASE ClaimLost(d)
      BY <1>6, <2>1 DEF ClaimLost
    <2>2. CASE CallTimeout(d)
      BY <1>1, <1>3, <1>4, <1>5, <2>2, AnswerCall DEF CallTimeout
    <2>3. CASE Killed(d)
      BY <1>3, <1>5, <2>3 DEF Killed, Drop
    <2>4. QED
      BY <1>10, <2>1, <2>2, <2>3 DEF RunFault
  <1>11. ASSUME NEW c \in late, LateStep(c)
         PROVE  CallsBacked'
    <2>1. UNCHANGED working /\ c \in Call /\ CallBacked(c)
      BY <1>11 DEF LateStep, LateRead, LateWrite, LateLost, TypeOK, CallsBacked
    <2>2. CASE LateWrite(c) \/ LateLost(c)
      BY <1>3, <1>5, <2>1, <2>2 DEF LateWrite, LateLost
    <2>3. CASE LateRead(c)
      <3>1. UNCHANGED <<outbox, opened, history>>
        BY <2>3 DEF LateRead, contextVars, provenanceVars
      <3>2. Missing(c) # {} /\ ~Refused(c) /\ c.kind = "append" => TaskOf(c) \in opened
        BY DEF Missing
      <3>3. ~Refused(c) /\ Missing(c) # {} =>
              \A new : new = [c EXCEPT !.writes = Missing(c)] => CallBacked(new)'
        BY <2>1, <3>1, <3>2 DEF CallBacked, TaskOf, Recorded, Call
      <3>4. QED
        BY <1>3, <1>5, <2>1, <2>3, <3>3 DEF LateRead
    <2>4. QED
      BY <1>11, <2>2, <2>3 DEF LateStep
  <1>12. QED
    BY <1>6, <1>7, <1>8, <1>9, <1>10, <1>11
    DEF Next, vars, RunStep, RunGoesOn, Create, ReadForPatch, CommitPatch, Expire,
        Dispatch, DispatchWanted, RunNeverAsked

\* A commit on behalf of a justified call keeps the two invariants of the stores.
LEMMA WriteKeeps ==
  ASSUME DeliveryInv, NEW c \in Call, CallBacked(c), c.writes # {},
         ~Conflicts(c), Write(c)
  PROVE  CompletedIsRecorded' /\ RecordedOnce'
  <1> USE DEF DeliveryInv
  <1>1. /\ history \in Seq(Nat) /\ c.event \in Nat /\ c.event \in DOMAIN outbox
        /\ \A i \in DOMAIN outbox : outbox[i] \in Event
    BY OutboxFacts DEF TypeOK, CallBacked
  <1>2. Grows
    BY <1>1, WriteGrows
  <1>3. CASE c.kind = "ensure" /\ InsertProvenance(TaskOf(c)) /\ UNCHANGED contextVars
    BY <1>2, <1>3
    DEF InsertProvenance, contextVars, CompletedIsRecorded, RecordedOnce, Grows
  <1>4. CASE c.kind = "append" /\ InsertTransition(c.event) /\ UNCHANGED contextVars
    <2>1. /\ outbox' = outbox /\ opened' = opened
          /\ history' = Append(history, c.event)
          /\ ~Recorded(c.event) /\ outbox[c.event].task \in opened
      BY <1>4 DEF InsertTransition, contextVars, CallBacked, TaskOf
    <2>2. CompletedIsRecorded'
      BY <1>2, <2>1 DEF CompletedIsRecorded, Grows
    <2>3. /\ DOMAIN history' = DOMAIN history \cup {Len(history) + 1}
          /\ \A n \in DOMAIN history : history'[n] = history[n]
          /\ history'[Len(history) + 1] = c.event
      BY <1>1, <2>1
    <2>4. \A n \in DOMAIN history : history[n] # c.event
      BY <2>1 DEF Recorded
    <2>5. RecordedOnce'
      BY <1>1, <2>1, <2>3, <2>4 DEF RecordedOnce
    <2>6. QED
      BY <2>2, <2>5
  <1>5. CASE c.kind = "complete" /\ WriteCompleted(c.event) /\ UNCHANGED provenanceVars
    <2>1. /\ UNCHANGED <<history, opened>> /\ Recorded(c.event)
          /\ outbox' = [outbox EXCEPT ![c.event].status = "completed"]
      BY <1>5 DEF WriteCompleted, provenanceVars, CallBacked
    <2>2. \A i \in DOMAIN outbox : i # c.event => outbox'[i] = outbox[i]
      BY <2>1
    <2>3. CompletedIsRecorded'
      BY <2>1, <2>2 DEF CompletedIsRecorded, Recorded
    <2>4. RecordedOnce'
      BY <1>2, <2>1 DEF RecordedOnce, Grows
    <2>5. QED
      BY <2>3, <2>4
  <1>6. CASE c.kind = "fail" /\ WriteFailed(c.event, c.writes) /\ UNCHANGED provenanceVars
    <2>1. /\ UNCHANGED <<history, opened>>
          /\ outbox' = [outbox EXCEPT
               ![c.event].status = IF "status" \in c.writes THEN "failed" ELSE @,
               ![c.event].lease = IF "lease" \in c.writes THEN "none" ELSE @]
      BY <1>6 DEF WriteFailed, provenanceVars
    <2>2. \A i \in DOMAIN outbox' : /\ i \in DOMAIN outbox
                                   /\ outbox'[i].status \in {outbox[i].status, "failed"}
      BY <1>1, <2>1 DEF Event
    <2>3. CompletedIsRecorded'
      BY <2>1, <2>2 DEF CompletedIsRecorded, Recorded
    <2>4. RecordedOnce'
      BY <1>2, <2>1 DEF RecordedOnce, Grows
    <2>5. QED
      BY <2>3, <2>4
  <1>7. QED
    BY <1>3, <1>4, <1>5, <1>6 DEF Write

\* A completed event stays recorded, and every event is recorded at most once.
LEMMA StoresStep ==
  ASSUME DeliveryInv, [Next]_vars
  PROVE  CompletedIsRecorded' /\ RecordedOnce'
  <1> USE DEF DeliveryInv
  <1>1. CallsKnown
    BY DEF CallsBacked, CallsKnown, CallBacked
  <1>2. Grows
    BY <1>1, StepGrows
  <1>3. ASSUME UNCHANGED <<opened, history>>,
               \A i \in DOMAIN outbox' : outbox'[i].status = "completed" =>
                 i \in DOMAIN outbox /\ outbox[i].status = "completed"
        PROVE  CompletedIsRecorded' /\ RecordedOnce'
    <2>1. CompletedIsRecorded'
      BY <1>3 DEF CompletedIsRecorded, Recorded
    <2>2. RecordedOnce'
      BY <1>2, <1>3 DEF RecordedOnce, Grows
    <2>3. QED
      BY <2>1, <2>2
  <1>4. ASSUME UNCHANGED <<opened, history>>, NEW task, NEW from, NEW row, NEW fits,
               NEW stamp, outbox' = Append(outbox, NewEvent(task, from, row, fits, stamp))
        PROVE  CompletedIsRecorded' /\ RecordedOnce'
    BY <1>3, <1>4, OutboxFacts DEF NewEvent
  <1>5. ASSUME NEW d \in Dispatchers, ClaimCommit(d), UNCHANGED <<opened, history>>
        PROVE  CompletedIsRecorded' /\ RecordedOnce'
    BY <1>3, <1>5, OutboxFacts DEF ClaimCommit, Event
  <1>6. ASSUME NEW i \in DOMAIN outbox, Expire(i)
        PROVE  CompletedIsRecorded' /\ RecordedOnce'
    BY <1>3, <1>6, OutboxFacts DEF Expire, LeaseExpires, provenanceVars, Event
  <1>7. ASSUME UNCHANGED <<outbox, opened, history>>
        PROVE  CompletedIsRecorded' /\ RecordedOnce'
    BY <1>3, <1>7
  <1>8. ASSUME NEW d \in Dispatchers, CallWrite(d)
        PROVE  CompletedIsRecorded' /\ RecordedOnce'
    <2>1. working[d].call \in Call /\ CallBacked(working[d].call)
      BY <1>8, RunFacts DEF CallWrite, CallsBacked
    <2>2. QED
      BY <1>7, <1>8, <2>1, WriteKeeps DEF CallWrite, contextVars, provenanceVars
  <1>9. ASSUME NEW c \in late, LateStep(c)
        PROVE  CompletedIsRecorded' /\ RecordedOnce'
    <2>1. c \in Call /\ CallBacked(c)
      BY DEF TypeOK, CallsBacked
    <2>2. QED
      BY <1>7, <1>9, <2>1, WriteKeeps
      DEF LateStep, LateRead, LateWrite, LateLost, contextVars, provenanceVars
  <1>10. ASSUME NEW d \in Dispatchers, RunStep(d) \/ RunFault(d)
         PROVE  CompletedIsRecorded' /\ RecordedOnce'
    BY <1>5, <1>7, <1>8, <1>10
    DEF RunStep, RunGoesOn, RunFault, Dispatch, DispatchWanted, ClaimRead, Claimed, CallRead, ClaimLost,
        ClaimAbort, CallTimeout, Killed, contextVars, provenanceVars
  <1>11. QED
    BY <1>4, <1>6, <1>7, <1>9, <1>10
    DEF Next, vars, contextVars, provenanceVars, Create, CreateTask,
        ReadForPatch, PatchRead, CommitPatch, PatchCommit, RunNeverAsked
-----------------------------------------------------------------------------
\* The inductive invariant holds throughout.
THEOREM DeliveryInvariance == Spec => []DeliveryInv
  <1>1. Init => DeliveryInv
    BY EmptyDict, FaultsAssumption
    DEF Init, ContextInit, ProvenanceInit, DeliveryInv, TypeOK, ContextTypeOK,
        CallsBacked, CompletedIsRecorded, RecordedOnce
  <1>2. DeliveryInv /\ [Next]_vars => DeliveryInv'
    <2> SUFFICES ASSUME DeliveryInv, [Next]_vars
                 PROVE  DeliveryInv'
      OBVIOUS
    <2>1. CallsKnown
      BY DEF DeliveryInv, CallsBacked, CallsKnown, CallBacked
    <2>2. TypeOK'
      BY <2>1, TypeCorrect DEF DeliveryInv
    <2>3. CallsBacked'
      BY CallsBackedStep DEF DeliveryInv
    <2>4. QED
      BY <2>2, <2>3, StoresStep DEF DeliveryInv
  <1>3. QED
    BY <1>1, <1>2, PTL DEF Spec

\* Rows, events, calls and history keep their types.
THEOREM DeliveryTypes == Spec => []TypeOK
  BY DeliveryInvariance, PTL DEF DeliveryInv

\* Whatever runs, leases, retries and late calls do, a completed event has its
\* transition in the history.
THEOREM NothingLost == Spec => []CompletedIsRecorded
  BY DeliveryInvariance, PTL DEF DeliveryInv

\* No dispatch, concurrent or repeated, records a transition twice.
THEOREM NothingTwice == Spec => []RecordedOnce
  BY DeliveryInvariance, PTL DEF DeliveryInv
-----------------------------------------------------------------------------
(***************************************************************************)
(* The refinement: every step is a step of EventDelivery or changes nothing *)
(* EventDelivery sees.                                                     *)
(***************************************************************************)
Emitted == [i \in DOMAIN outbox |-> outbox[i].task]
Acked == {i \in DOMAIN outbox : outbox[i].status = "completed"}

\* What EventDelivery sees of the outbox is a sequence of tasks and some events.
LEMMA SeenFacts ==
  ASSUME TypeOK
  PROVE  /\ Emitted \in Seq(Tasks) /\ Len(Emitted) = Len(outbox)
         /\ DOMAIN Emitted = DOMAIN outbox
         /\ \A i \in DOMAIN outbox : Emitted[i] = outbox[i].task
         /\ Acked \subseteq DOMAIN outbox
  <1>1. Emitted \in [1 .. Len(outbox) -> Tasks]
    BY OutboxFacts DEF Emitted, Event
  <1>2. QED
    BY <1>1, OutboxFacts DEF Emitted, Acked

\* A step that appends an event emits it.
LEMMA EmitStep ==
  ASSUME TypeOK, TypeOK', NEW task \in Tasks, NEW e \in Event, e.task = task,
         e.status = "pending", outbox' = Append(outbox, e),
         UNCHANGED <<opened, history>>
  PROVE  Delivery!Emit(task)
  <1>1. /\ Emitted \in Seq(Tasks) /\ Len(Emitted) = Len(outbox)
        /\ DOMAIN Emitted = DOMAIN outbox /\ DOMAIN outbox = 1 .. Len(outbox)
        /\ Len(outbox) \in Nat
        /\ \A i \in DOMAIN outbox : Emitted[i] = outbox[i].task
    BY SeenFacts, OutboxFacts
  <1>2. /\ DOMAIN outbox' = 1 .. (Len(outbox) + 1)
        /\ \A i \in DOMAIN outbox : outbox'[i] = outbox[i]
        /\ outbox'[Len(outbox) + 1] = e
    BY AppendFacts, OutboxFacts
  <1>3. Emitted' = [i \in 1 .. (Len(outbox) + 1) |-> outbox'[i].task]
    BY <1>2 DEF Emitted
  <1>4. \A i \in 1 .. (Len(outbox) + 1) : Emitted'[i] = Append(Emitted, task)[i]
    BY <1>1, <1>2, <1>3
  <1>5. Emitted' = Append(Emitted, task)
    <2>1. Emitted' \in Seq(Tasks) /\ Len(Emitted') = Len(outbox) + 1
      <3>1. \A i \in 1 .. (Len(outbox) + 1) : outbox'[i].task \in Tasks
        BY <1>1, <1>2, OutboxFacts DEF Event
      <3>2. Emitted' \in [1 .. (Len(outbox) + 1) -> Tasks] /\ Len(outbox) + 1 \in Nat
        BY <1>1, <1>3, <3>1
      <3>3. QED
        BY <3>2
    <2>2. Append(Emitted, task) \in Seq(Tasks) /\ Len(Append(Emitted, task)) = Len(outbox) + 1
      BY <1>1
    <2>3. QED
      BY <1>4, <2>1, <2>2, SeqEqual
  <1>6. Acked' = Acked
    BY <1>1, <1>2 DEF Acked
  <1>7. QED
    BY <1>5, <1>6 DEF Delivery!Emit, Emitted, Acked

\* A step that keeps the events and their tasks keeps what was emitted.
LEMMA SameEmitted ==
  ASSUME DOMAIN outbox' = DOMAIN outbox,
         \A i \in DOMAIN outbox : outbox'[i].task = outbox[i].task
  PROVE  Emitted' = Emitted
  BY DEF Emitted

\* A step that at most takes completed events back forgets acknowledgements.
LEMMA ForgetStep ==
  ASSUME UNCHANGED <<opened, history>>, DOMAIN outbox' = DOMAIN outbox,
         \A i \in DOMAIN outbox :
           /\ outbox'[i].task = outbox[i].task
           /\ outbox'[i].status = "completed" => outbox[i].status = "completed"
  PROVE  Delivery!Next
  <1>1. PICK taken \in SUBSET DOMAIN Emitted :
          taken = {i \in DOMAIN outbox : outbox'[i].status # "completed"}
    BY DEF Emitted
  <1>2. Acked' = Acked \ taken
    BY <1>1 DEF Acked
  <1>3. Emitted' = Emitted
    BY SameEmitted
  <1>4. Delivery!Forget(taken)
    BY <1>2, <1>3 DEF Delivery!Forget, Emitted, Acked
  <1>5. \E I \in SUBSET DOMAIN Emitted : Delivery!Forget(I)
    BY <1>1, <1>4
  <1>6. QED
    BY <1>5 DEF Delivery!Next, Emitted

\* A commit on behalf of a justified call opens, delivers, acknowledges or forgets.
LEMMA WriteImplements ==
  ASSUME DeliveryInv, NEW c \in Call, CallBacked(c), c.writes # {},
         ~Conflicts(c), Write(c)
  PROVE  Delivery!Next
  <1>1. /\ c.event \in Nat /\ c.event \in DOMAIN outbox
        /\ \A i \in DOMAIN outbox : outbox[i] \in Event
        /\ outbox[c.event].task \in Tasks
        /\ DOMAIN Emitted = DOMAIN outbox
        /\ \A i \in DOMAIN outbox : Emitted[i] = outbox[i].task
    BY OutboxFacts, SeenFacts DEF DeliveryInv, TypeOK, CallBacked, Event
  <1>2. CASE c.kind = "ensure" /\ InsertProvenance(TaskOf(c)) /\ UNCHANGED contextVars
    <2>1. Emitted' = Emitted /\ Acked' = Acked
      BY <1>2 DEF contextVars, Emitted, Acked
    <2>2. Delivery!Open(outbox[c.event].task)
      BY <1>1, <1>2, <2>1
      DEF Delivery!Open, InsertProvenance, TaskOf, Emitted, Acked
    <2>3. \E t \in Tasks : Delivery!Open(t)
      BY <1>1, <2>2
    <2>4. QED
      BY <2>3 DEF Delivery!Next
  <1>3. CASE c.kind = "append" /\ InsertTransition(c.event) /\ UNCHANGED contextVars
    <2>1. Emitted' = Emitted /\ Acked' = Acked
      BY <1>3 DEF contextVars, Emitted, Acked
    <2>2. ~Delivery!Delivered(c.event) /\ TaskOf(c) \in opened
      BY <1>3 DEF Delivery!Delivered, Recorded, CallBacked
    <2>3. Delivery!Deliver(c.event)
      BY <1>1, <1>3, <2>1, <2>2
      DEF Delivery!Deliver, InsertTransition, TaskOf, Emitted, Acked
    <2>4. \E i \in DOMAIN Emitted : Delivery!Deliver(i)
      BY <1>1, <2>3
    <2>5. QED
      BY <2>4 DEF Delivery!Next, Emitted
  <1>4. CASE c.kind = "complete" /\ WriteCompleted(c.event) /\ UNCHANGED provenanceVars
    <2>1. /\ outbox' = [outbox EXCEPT ![c.event].status = "completed"]
          /\ UNCHANGED <<opened, history>> /\ Recorded(c.event)
      BY <1>4 DEF WriteCompleted, provenanceVars, CallBacked
    <2>2. Emitted' = Emitted
      BY <1>1, <2>1, SameEmitted DEF Event
    <2>3. Acked' = Acked \cup {c.event}
      BY <1>1, <2>1 DEF Acked, Event
    <2>4. Delivery!Ack(c.event)
      BY <2>1, <2>2, <2>3
      DEF Delivery!Ack, Delivery!Delivered, Recorded, Emitted, Acked
    <2>5. \E i \in DOMAIN Emitted : Delivery!Ack(i)
      BY <1>1, <2>4
    <2>6. QED
      BY <2>5 DEF Delivery!Next, Emitted
  <1>5. CASE c.kind = "fail" /\ WriteFailed(c.event, c.writes) /\ UNCHANGED provenanceVars
    <2>1. /\ UNCHANGED <<opened, history>> /\ DOMAIN outbox' = DOMAIN outbox
          /\ \A i \in DOMAIN outbox :
               /\ outbox'[i].task = outbox[i].task
               /\ outbox'[i].status \in {outbox[i].status, "failed"}
      BY <1>1, <1>5 DEF WriteFailed, provenanceVars, Event
    <2>2. QED
      BY <2>1, ForgetStep
  <1>6. QED
    BY <1>2, <1>3, <1>4, <1>5 DEF Write

\* Every step of the event consumer and its stores is a step of EventDelivery.
LEMMA StepImplements ==
  ASSUME DeliveryInv, DeliveryInv', [Next]_vars
  PROVE  [Delivery!Next]_(Delivery!vars)
  <1> USE DEF contextVars, provenanceVars
  <1>0. TypeOK /\ TypeOK' /\ CallsBacked
    BY DEF DeliveryInv
  <1>1. ASSUME UNCHANGED <<outbox, opened, history>>
        PROVE  UNCHANGED Delivery!vars
    BY <1>1 DEF Delivery!vars
  <1>2. ASSUME NEW task \in Tasks, NEW row \in NewRows, NEW fits \in Fits,
               Create(task, row, fits)
        PROVE  Delivery!Next
    <2>1. NewEvent(task, NoStatus, row, fits, clock') \in Event
      <3>1. clock' \in Nat
        BY <1>0, <1>2 DEF Create, CreateTask, Begin, TypeOK, ContextTypeOK
      <3>2. QED
        BY <3>1, NewEventType, RowsAssumption
    <2>2. /\ NewEvent(task, NoStatus, row, fits, clock').task = task
          /\ NewEvent(task, NoStatus, row, fits, clock').status = "pending"
      BY DEF NewEvent
    <2>3. Delivery!Emit(task)
      BY <1>0, <1>2, <2>1, <2>2, EmitStep DEF Create, CreateTask
    <2>4. QED
      BY <2>3 DEF Delivery!Next
  <1>3. ASSUME NEW w \in Writers, NEW fits \in Fits, CommitPatch(w, fits)
        PROVE  Delivery!Next
    <2> DEFINE h == patching[w]
    <2>1. h \in [task: Tasks, patch: Patches, row: Row, stamp: Nat]
      BY <1>0, <1>3 DEF CommitPatch, PatchCommit, TypeOK, ContextTypeOK, IsDict
    <2>2. /\ h.task \in Tasks /\ h.row \in Row /\ h.patch \in Patches
          /\ \A c \in DOMAIN h.patch : h.patch[c] \in Values
          /\ fits \in BOOLEAN /\ h.stamp \in Nat
      BY <2>1, RowsAssumption
    <2>3. h.row["status"] \in Values /\ Merged(h.row, h.patch) \in Row
      BY <2>2 DEF Row
    <2>4. PICK task \in Tasks, e \in Event :
            e.task = task /\ e.status = "pending" /\ outbox' = Append(outbox, e)
      <3>1. NewEvent(h.task, h.row["status"], Merged(h.row, h.patch), fits, h.stamp)
              \in Event
        BY <2>2, <2>3, NewEventType
      <3>2. QED
        BY <1>3, <2>2, <3>1 DEF CommitPatch, PatchCommit, NewEvent
    <2>5. Delivery!Emit(task)
      BY <1>0, <1>3, <2>4, EmitStep DEF CommitPatch
    <2>6. QED
      BY <2>5 DEF Delivery!Next
  <1>4. ASSUME NEW i \in DOMAIN outbox, Expire(i)
        PROVE  Delivery!Next
    BY <1>0, <1>4, ForgetStep, OutboxFacts DEF Expire, LeaseExpires, Event
  <1>5. ASSUME NEW d \in Dispatchers, ClaimCommit(d), UNCHANGED <<opened, history>>
        PROVE  Delivery!Next
    BY <1>0, <1>5, ForgetStep, OutboxFacts DEF ClaimCommit, Event
  <1>6. ASSUME NEW d \in Dispatchers, CallWrite(d)
        PROVE  Delivery!Next \/ UNCHANGED Delivery!vars
    <2>1. working[d].call \in Call /\ CallBacked(working[d].call)
      BY <1>0, <1>6, RunFacts DEF CallWrite, CallsBacked
    <2>2. QED
      BY <1>1, <1>6, <2>1, WriteImplements DEF CallWrite
  <1>7. ASSUME NEW c \in late, LateStep(c)
        PROVE  Delivery!Next \/ UNCHANGED Delivery!vars
    <2>1. c \in Call /\ CallBacked(c)
      BY <1>0 DEF TypeOK, CallsBacked
    <2>2. QED
      BY <1>1, <1>7, <2>1, WriteImplements
      DEF LateStep, LateRead, LateWrite, LateLost
  <1>8. ASSUME NEW d \in Dispatchers, RunStep(d) \/ RunFault(d)
        PROVE  Delivery!Next \/ UNCHANGED Delivery!vars
    BY <1>1, <1>5, <1>6, <1>8
    DEF RunStep, RunGoesOn, RunFault, Dispatch, DispatchWanted, ClaimRead, Claimed, CallRead, ClaimLost,
        ClaimAbort, CallTimeout, Killed
  <1>9. QED
    BY <1>1, <1>2, <1>3, <1>4, <1>7, <1>8
    DEF Next, vars, ReadForPatch, PatchRead, RunNeverAsked

\* Claims, leases, retries, timeouts and late calls together deliver each event
\* at most once, and acknowledge only what was delivered.
THEOREM DeliveryRefinement == Spec => ImplementsDelivery
  <1>1. Init => Delivery!Init
    BY DEF Init, ContextInit, ProvenanceInit, Delivery!Init
  <1>2. DeliveryInv /\ DeliveryInv' /\ [Next]_vars => [Delivery!Next]_(Delivery!vars)
    BY StepImplements
  <1>3. QED
    BY <1>1, <1>2, DeliveryInvariance, PTL DEF Spec, ImplementsDelivery, Delivery!Spec
=============================================================================
