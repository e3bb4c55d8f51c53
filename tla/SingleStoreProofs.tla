--------------------------- MODULE SingleStoreProofs ---------------------------
(***************************************************************************)
(* TLAPS proofs about the rows and the outbox as their writers see them,   *)
(* for any number of concurrent writers: they are the rows and the history *)
(* of the single store they replace, and, if no two requests patch a row   *)
(* at once, each event goes on where its predecessor ended.  At the end,   *)
(* the order of the history: as long as no two dispatch runs overlap and   *)
(* nothing fails, no transition is recorded before one of its task whose   *)
(* transaction started and committed earlier.                              *)
(***************************************************************************)
EXTENDS EventConsumerProofs, FiniteSetTheorems

USE DEF Columns, NoStatus, Merged, Changed, Empty, Put, Drop,
        SingleStore!Empty, SingleStore!Put, SingleStore!Drop

\* The columns of events that writers fill stay as they are, and so do the rows
\* and what the writers have read.
SameStory ==
  /\ UNCHANGED <<tasks, patching, clock>>
  /\ DOMAIN outbox' = DOMAIN outbox
  /\ \A i \in DOMAIN outbox :
       /\ outbox'[i].task = outbox[i].task
       /\ outbox'[i].from = outbox[i].from
       /\ outbox'[i].row = outbox[i].row
       /\ outbox'[i].fits = outbox[i].fits
       /\ outbox'[i].stamp = outbox[i].stamp

\* A commit on behalf of a call changes statuses and leases of events at most.
LEMMA WriteKeepsStory ==
  ASSUME TypeOK, NEW c \in Call, Write(c)
  PROVE  SameStory
  <1>1. \A i \in DOMAIN outbox : outbox[i] \in Event
    BY OutboxFacts
  <1>2. CASE c.kind = "complete" /\ WriteCompleted(c.event)
    BY <1>1, <1>2 DEF WriteCompleted, SameStory, Event
  <1>3. CASE c.kind = "fail" /\ WriteFailed(c.event, c.writes)
    BY <1>1, <1>3 DEF WriteFailed, SameStory, Event
  <1>4. CASE UNCHANGED contextVars
    BY <1>4 DEF contextVars, SameStory
  <1>5. QED
    BY <1>2, <1>3, <1>4 DEF Write

\* Every step but those of the writers keeps their story.
LEMMA OtherSteps ==
  ASSUME DeliveryInv, [Next]_vars
  PROVE  \/ \E task \in Tasks, row \in NewRows, fits \in Fits : Create(task, row, fits)
         \/ \E w \in Writers, task \in Tasks, patch \in Patches :
              ReadForPatch(w, task, patch)
         \/ \E w \in Writers, fits \in Fits : CommitPatch(w, fits)
         \/ SameStory
  <1>0. TypeOK /\ CallsBacked /\ \A i \in DOMAIN outbox : outbox[i] \in Event
    BY OutboxFacts DEF DeliveryInv
  <1>1. ASSUME UNCHANGED <<outbox, tasks, patching, clock>>
        PROVE  SameStory
    BY <1>1 DEF SameStory
  <1>2. ASSUME NEW i \in DOMAIN outbox, Expire(i)
        PROVE  SameStory
    BY <1>0, <1>2 DEF Expire, LeaseExpires, SameStory, Event
  <1>3. ASSUME NEW d \in Dispatchers, ClaimCommit(d)
        PROVE  SameStory
    BY <1>0, <1>3 DEF ClaimCommit, SameStory, Event
  <1>4. ASSUME NEW d \in Dispatchers, CallWrite(d)
        PROVE  SameStory
    <2>1. working[d].call \in Call
      BY <1>0, <1>4, RunFacts DEF CallWrite
    <2>2. QED
      BY <1>0, <1>1, <1>4, <2>1, WriteKeepsStory DEF CallWrite, contextVars
  <1>5. ASSUME NEW c \in late, LateStep(c)
        PROVE  SameStory
    <2>1. c \in Call
      BY <1>0 DEF TypeOK
    <2>2. QED
      BY <1>0, <1>1, <1>5, <2>1, WriteKeepsStory
      DEF LateStep, LateRead, LateWrite, LateLost, contextVars
  <1>6. ASSUME NEW d \in Dispatchers, RunStep(d) \/ RunFault(d)
        PROVE  SameStory
    BY <1>1, <1>3, <1>4, <1>6
    DEF RunStep, RunGoesOn, RunFault, Dispatch, DispatchWanted, ClaimRead, Claimed,
        CallRead, ClaimLost, ClaimAbort, CallTimeout, Killed, contextVars
  <1>7. CASE RunNeverAsked \/ UNCHANGED vars
    BY <1>1, <1>7 DEF RunNeverAsked, vars, contextVars
  <1>8. QED
    BY <1>2, <1>5, <1>6, <1>7 DEF Next
-----------------------------------------------------------------------------
\* What a thread inside update_task_state has read has its type.
LEMMA PatchFacts ==
  ASSUME TypeOK, NEW w \in DOMAIN patching
  PROVE  /\ patching[w].task \in Tasks
         /\ patching[w].row \in Row /\ patching[w].patch \in Patches
         /\ patching[w].stamp \in Nat
         /\ "status" \in DOMAIN patching[w].patch
         /\ DOMAIN patching[w].patch \subseteq Columns
         /\ \A c \in DOMAIN patching[w].patch : patching[w].patch[c] \in Values
  <1>1. patching[w] \in [task: Tasks, patch: Patches, row: Row, stamp: Nat]
    BY DEF TypeOK, ContextTypeOK, IsDict
  <1>2. QED
    BY <1>1, RowsAssumption

\* The event a creation writes.
LEMMA CreateEvent ==
  ASSUME TypeOK, NEW task \in Tasks, NEW row \in NewRows, NEW fits \in Fits,
         CreateTask(task, row, fits)
  PROVE  /\ clock \in Nat /\ clock' = clock + 1
         /\ \E e \in Event :
              /\ outbox' = Append(outbox, e)
              /\ e.task = task /\ e.from = NoStatus /\ e.row = row
              /\ e.stamp = clock' /\ e.status = "pending"
  <1>1. clock \in Nat /\ clock' = clock + 1
    BY DEF CreateTask, Begin, TypeOK, ContextTypeOK
  <1>2. NewEvent(task, NoStatus, row, fits, clock') \in Event
    BY <1>1, NewEventType, RowsAssumption
  <1>3. QED
    BY <1>1, <1>2 DEF CreateTask, NewEvent

\* The event a patch writes.
LEMMA PatchEvent ==
  ASSUME TypeOK, NEW w, NEW fits \in Fits, PatchCommit(w, fits), NEW h, h = patching[w]
  PROVE  /\ w \in DOMAIN patching
         /\ \E e \in Event :
              /\ outbox' = Append(outbox, e)
              /\ e.task = h.task /\ e.from = h.row["status"] /\ e.from # NoStatus
              /\ e.row = Merged(h.row, h.patch)
              /\ e.stamp = h.stamp /\ e.status = "pending"
  <1>1. w \in DOMAIN patching
    BY DEF PatchCommit
  <1>2. /\ h.task \in Tasks /\ h.row \in Row /\ h.stamp \in Nat
        /\ \A c \in DOMAIN h.patch : h.patch[c] \in Values
    BY <1>1, PatchFacts
  <1>3. h.row["status"] \in Values /\ Merged(h.row, h.patch) \in Row
    BY <1>2 DEF Row
  <1>4. NewEvent(h.task, h.row["status"], Merged(h.row, h.patch), fits, h.stamp) \in Event
    BY <1>2, <1>3, NewEventType, RowsAssumption
  <1>5. QED
    BY <1>1, <1>3, <1>4, RowsAssumption DEF PatchCommit, NewEvent

\* What the single store keeps: its history, and what its writers have read.
Reading ==
  [w \in DOMAIN patching |->
     [task |-> patching[w].task, patch |-> patching[w].patch,
      row |-> patching[w].row]]
Story ==
  [i \in DOMAIN outbox |->
     [task |-> outbox[i].task, from |-> outbox[i].from,
      to |-> outbox[i].row["status"]]]

\* A new event is a new entry of the history of the single store.
LEMMA StoryGrows ==
  ASSUME TypeOK, NEW e \in Event, outbox' = Append(outbox, e)
  PROVE  Story' = Append(Story, [task |-> e.task, from |-> e.from,
                                 to |-> e.row["status"]])
  <1> DEFINE entry == [task |-> e.task, from |-> e.from, to |-> e.row["status"]]
             n == Len(outbox)
  <1>1. n \in Nat /\ DOMAIN outbox = 1 .. n
    BY OutboxFacts
  <1>2. /\ DOMAIN outbox' = 1 .. (n + 1)
        /\ \A i \in 1 .. n : outbox'[i] = outbox[i]
        /\ outbox'[n + 1] = e
    BY <1>1, AppendFacts
  <1>3. Story = [i \in 1 .. n |-> [task |-> outbox[i].task, from |-> outbox[i].from,
                                   to |-> outbox[i].row["status"]]]
    BY <1>1 DEF Story
  <1>4. Len(Story) = n
    BY <1>1, <1>3
  <1>5. Append(Story, entry) =
          [i \in 1 .. (n + 1) |-> IF i = n + 1 THEN entry ELSE Story[i]]
    BY <1>4
  <1>6. Story' = [i \in 1 .. (n + 1) |->
                    [task |-> outbox'[i].task, from |-> outbox'[i].from,
                     to |-> outbox'[i].row["status"]]]
    BY <1>2 DEF Story
  <1>7. \A i \in 1 .. (n + 1) : i # n + 1 => i \in 1 .. n
    BY <1>1
  <1>8. QED
    BY <1>2, <1>3, <1>5, <1>6, <1>7

\* Every step is a step of the single store or changes nothing it keeps.
LEMMA StepKeepsPromise ==
  ASSUME DeliveryInv, [Next]_vars
  PROVE  [SingleStore!Next]_(SingleStore!vars)
  <1>0. TypeOK
    BY DEF DeliveryInv
  <1>1. ASSUME NEW task \in Tasks, NEW row \in NewRows, NEW fits \in Fits,
               Create(task, row, fits)
        PROVE  SingleStore!Next
    <2>1. PICK e \in Event :
            outbox' = Append(outbox, e) /\ e.task = task /\ e.from = NoStatus /\ e.row = row
      BY <1>0, <1>1, CreateEvent DEF Create
    <2>2. Story' = Append(Story, SingleStore!Entry(task, "none", row["status"]))
      BY <1>0, <2>1, StoryGrows DEF SingleStore!Entry
    <2>3. Reading' = Reading
      BY <1>1 DEF Create, CreateTask, Reading
    <2>4. SingleStore!CreateTask(task, row)
      BY <1>1, <2>2, <2>3
      DEF Create, CreateTask, SingleStore!CreateTask, Story, Reading
    <2>5. QED
      BY <2>4 DEF SingleStore!Next
  <1>2. ASSUME NEW w \in Writers, NEW task \in Tasks, NEW patch \in Patches,
               ReadForPatch(w, task, patch)
        PROVE  SingleStore!Next
    <2>1. /\ patching' = Put(patching, w, [task |-> task, patch |-> patch,
                                          row |-> tasks[task], stamp |-> clock'])
          /\ UNCHANGED <<tasks, outbox>> /\ w \notin DOMAIN patching
          /\ task \in DOMAIN tasks /\ Changed(tasks[task], patch) # {}
      BY <1>2 DEF ReadForPatch, PatchRead
    <2>2. Reading' = Put(Reading, w, [task |-> task, patch |-> patch, row |-> tasks[task]])
      BY <2>1 DEF Reading
    <2>3. Story' = Story /\ DOMAIN Reading = DOMAIN patching
      BY <2>1 DEF Story, Reading
    <2>4. SingleStore!ReadTask(w, task, patch)
      BY <2>1, <2>2, <2>3
      DEF SingleStore!ReadTask, SingleStore!Differs, Story, Reading
    <2>5. QED
      BY <2>4 DEF SingleStore!Next
  <1>3. ASSUME NEW w \in Writers, NEW fits \in Fits, CommitPatch(w, fits)
        PROVE  SingleStore!Next
    <2> DEFINE h == patching[w]
    <2>1. w \in DOMAIN patching /\ patching' = Drop(patching, w)
      BY <1>3 DEF CommitPatch, PatchCommit
    <2>2. PICK e \in Event :
            /\ outbox' = Append(outbox, e) /\ e.task = h.task
            /\ e.from = h.row["status"] /\ e.row = Merged(h.row, h.patch)
      BY <1>0, <1>3, PatchEvent DEF CommitPatch
    <2>3. "status" \in DOMAIN h.patch
      BY <1>0, <2>1, PatchFacts
    <2>4. Story' = Append(Story, SingleStore!Entry(h.task, h.row["status"],
                                                   h.patch["status"]))
      BY <1>0, <2>2, <2>3, StoryGrows DEF SingleStore!Entry
    <2>5. tasks' = [tasks EXCEPT ![h.task] =
                      [c \in DOMAIN @ |->
                         IF c \in SingleStore!Differs(h.row, h.patch) THEN h.patch[c]
                                                                      ELSE @[c]]]
      <3>1. h.task \in DOMAIN tasks => DOMAIN tasks[h.task] = Columns
        BY <1>0 DEF TypeOK, ContextTypeOK, IsDict, Row
      <3>2. QED
        BY <1>3, <3>1 DEF CommitPatch, PatchCommit, SingleStore!Differs
    <2>6. /\ Reading' = Drop(Reading, w) /\ DOMAIN Reading = DOMAIN patching
          /\ Reading[w].task = h.task /\ Reading[w].row = h.row
          /\ Reading[w].patch = h.patch
      BY <2>1 DEF Reading
    <2>7. SingleStore!UpdateTaskState(w)
      BY <2>1, <2>4, <2>5, <2>6 DEF SingleStore!UpdateTaskState, Story, Reading
    <2>8. QED
      BY <2>7 DEF SingleStore!Next
  <1>4. CASE SameStory
    BY <1>4 DEF SameStory, SingleStore!vars
  <1>5. QED
    BY <1>1, <1>2, <1>3, <1>4, OtherSteps

\* The rows and the outbox are the rows and the history of the single store they
\* replace, for any number of concurrent writers, dispatch runs and faults.
THEOREM StoreRefinement == Spec => ImplementsMemoryService
  <1>1. Init => SingleStore!Init
    BY DEF Init, ContextInit, SingleStore!Init
  <1>2. DeliveryInv /\ [Next]_vars => [SingleStore!Next]_(SingleStore!vars)
    BY StepKeepsPromise
  <1>3. QED
    BY <1>1, <1>2, DeliveryInvariance, PTL
    DEF Spec, ImplementsMemoryService, SingleStore!Spec
-----------------------------------------------------------------------------
\* A writer patches the row that it has read, and every event has its row.
ReadIsCurrent ==
  /\ \A w \in DOMAIN patching :
       /\ patching[w].task \in DOMAIN tasks
       /\ patching[w].row = tasks[patching[w].task]
  /\ \A i \in DOMAIN outbox : outbox[i].task \in DOMAIN tasks

\* A new event that leaves the row as it is, and announces what it becomes, goes on
\* with the story of its task.
LEMMA StoryGoesOn ==
  ASSUME TypeOK, OutboxTellsRow, NEW e \in Event, outbox' = Append(outbox, e),
         \A i \in DOMAIN outbox :
           IF outbox[i].task = e.task THEN e.from = tasks[e.task]["status"]
           ELSE tasks'[outbox[i].task] = tasks[outbox[i].task],
         tasks'[e.task] = e.row
  PROVE  OutboxTellsRow'
  <1> DEFINE n == Len(outbox) + 1
             Later(i) == {j \in DOMAIN outbox : j > i /\ outbox[j].task = outbox[i].task}
  <1>1. /\ DOMAIN outbox' = DOMAIN outbox \cup {n} /\ outbox'[n] = e
        /\ \A i \in DOMAIN outbox : outbox'[i] = outbox[i]
        /\ n \in Nat /\ \A i \in DOMAIN outbox : i \in Nat /\ i < n
    BY AppendFacts, OutboxFacts
  <1>2. ASSUME NEW i \in DOMAIN outbox, outbox[i].task # e.task
        PROVE  Later(i)' = Later(i)
    BY <1>1, <1>2
  <1>3. ASSUME NEW i \in DOMAIN outbox, outbox[i].task = e.task
        PROVE  Later(i)' = Later(i) \cup {n}
    BY <1>1, <1>3
  <1>4. Later(n)' = {}
    BY <1>1
  <1> SUFFICES ASSUME NEW i \in DOMAIN outbox'
               PROVE  IF Later(i)' = {} THEN tasks'[outbox'[i].task] = outbox'[i].row
                      ELSE \E j \in Later(i)' : /\ \A k \in Later(i)' : j <= k
                                               /\ outbox'[j].from = outbox'[i].row["status"]
    BY DEF OutboxTellsRow
  <1>5. CASE i = n
    BY <1>1, <1>4, <1>5
  <1>6. CASE i # n
    <2>1. i \in DOMAIN outbox /\ Later(i) \subseteq DOMAIN outbox
      BY <1>1, <1>6
    <2>2. IF Later(i) = {} THEN tasks[outbox[i].task] = outbox[i].row
          ELSE \E j \in Later(i) : /\ \A k \in Later(i) : j <= k
                                   /\ outbox[j].from = outbox[i].row["status"]
      BY <2>1 DEF OutboxTellsRow
    <2> HIDE DEF Later, n
    <2>3. CASE outbox[i].task # e.task
      BY <1>1, <1>2, <2>1, <2>2, <2>3
    <2>4. CASE outbox[i].task = e.task /\ Later(i) = {}
      <3>1. Later(i)' = {n}
        BY <1>3, <2>1, <2>4
      <3>2. outbox'[n].from = outbox'[i].row["status"]
        BY <1>1, <2>1, <2>2, <2>4
      <3>3. QED
        BY <1>1, <3>1, <3>2
    <2>5. CASE outbox[i].task = e.task /\ Later(i) # {}
      <3>1. PICK j \in Later(i) : /\ \A k \in Later(i) : j <= k
                                  /\ outbox[j].from = outbox[i].row["status"]
        BY <2>2, <2>5
      <3>2. Later(i)' = Later(i) \cup {n}
        BY <1>3, <2>1, <2>5
      <3>3. j <= n /\ outbox'[j].from = outbox'[i].row["status"]
        BY <1>1, <2>1, <3>1
      <3>4. QED
        BY <3>1, <3>2, <3>3
    <2>6. QED
      BY <2>3, <2>4, <2>5
  <1>7. QED
    BY <1>5, <1>6

LEMMA TellsRowStep ==
  ASSUME PatchesApart, DeliveryInv, ReadIsCurrent, OutboxTellsRow, [Next]_vars
  PROVE  ReadIsCurrent' /\ OutboxTellsRow'
  <1>0. TypeOK /\ \A i \in DOMAIN outbox : outbox[i] \in Event
    BY OutboxFacts DEF DeliveryInv
  <1>1. \A t \in DOMAIN tasks : tasks[t] \in Row
    BY <1>0 DEF TypeOK, ContextTypeOK, IsDict
  <1>2. ASSUME NEW task \in Tasks, NEW row \in NewRows, NEW fits \in Fits,
               Create(task, row, fits)
        PROVE  ReadIsCurrent' /\ OutboxTellsRow'
    <2>1. PICK e \in Event : outbox' = Append(outbox, e) /\ e.task = task /\ e.row = row
      BY <1>0, <1>2, CreateEvent DEF Create
    <2>2. /\ task \notin DOMAIN tasks
          /\ DOMAIN tasks' = DOMAIN tasks \cup {task} /\ tasks'[task] = row
          /\ \A t \in DOMAIN tasks : tasks'[t] = tasks[t]
          /\ UNCHANGED patching
      BY <1>2 DEF Create, CreateTask
    <2>3. OutboxTellsRow'
      BY <1>0, <2>1, <2>2, StoryGoesOn DEF ReadIsCurrent
    <2>4. ReadIsCurrent'
      BY <1>0, <2>1, <2>2, AppendFacts, OutboxFacts DEF ReadIsCurrent
    <2>5. QED
      BY <2>3, <2>4
  <1>3. ASSUME NEW w \in Writers, NEW task \in Tasks, NEW patch \in Patches,
               ReadForPatch(w, task, patch)
        PROVE  ReadIsCurrent' /\ OutboxTellsRow'
    BY <1>3 DEF ReadForPatch, PatchRead, ReadIsCurrent, OutboxTellsRow
  <1>4. ASSUME NEW w \in Writers, NEW fits \in Fits, CommitPatch(w, fits)
        PROVE  ReadIsCurrent' /\ OutboxTellsRow'
    <2> DEFINE h == patching[w]
    <2>1. /\ w \in DOMAIN patching
          /\ tasks' = [tasks EXCEPT ![h.task] =
                         [c \in Columns |-> IF c \in Changed(h.row, h.patch)
                                            THEN h.patch[c] ELSE @[c]]]
          /\ DOMAIN patching' = DOMAIN patching \ {w}
          /\ \A v \in DOMAIN patching' : patching'[v] = patching[v]
      BY <1>4 DEF CommitPatch, PatchCommit, Drop
    <2>2. /\ h.task \in DOMAIN tasks /\ h.row = tasks[h.task] /\ h.row \in Row
          /\ \A v \in DOMAIN patching' : patching[v].task # h.task
      BY <1>1, <2>1 DEF ReadIsCurrent, PatchesApart
    <2>3. /\ DOMAIN tasks' = DOMAIN tasks /\ tasks'[h.task] = Merged(h.row, h.patch)
          /\ \A t \in DOMAIN tasks : t # h.task => tasks'[t] = tasks[t]
      BY <2>1, <2>2 DEF Row
    <2>4. PICK e \in Event :
            /\ outbox' = Append(outbox, e) /\ e.task = h.task
            /\ e.row = Merged(h.row, h.patch) /\ e.from = h.row["status"]
      BY <1>0, <1>4, PatchEvent DEF CommitPatch
    <2> HIDE DEF h
    <2>5. OutboxTellsRow'
      BY <1>0, <2>1, <2>2, <2>3, <2>4, StoryGoesOn DEF ReadIsCurrent
    <2>6. ReadIsCurrent'
      BY <1>0, <2>1, <2>2, <2>3, <2>4, AppendFacts, OutboxFacts DEF ReadIsCurrent
    <2>7. QED
      BY <2>5, <2>6
  <1>5. CASE SameStory
    BY <1>0, <1>5 DEF SameStory, ReadIsCurrent, OutboxTellsRow
  <1>6. QED
    BY <1>2, <1>3, <1>4, <1>5, OtherSteps

\* As long as no two requests patch one row at once, the outbox is the story of the
\* row: however events are claimed, retried and completed, each leaves what its
\* predecessor reached, and patches of other rows may interleave at will.
THEOREM RowToldIfApart == Spec /\ []PatchesApart => []OutboxTellsRow
  <1>1. Init => ReadIsCurrent /\ OutboxTellsRow
    BY DEF Init, ContextInit, ReadIsCurrent, OutboxTellsRow
  <1>2. /\ DeliveryInv /\ PatchesApart /\ ReadIsCurrent /\ OutboxTellsRow /\ [Next]_vars
        => ReadIsCurrent' /\ OutboxTellsRow'
    BY TellsRowStep
  <1>3. QED
    BY <1>1, <1>2, DeliveryInvariance, PTL DEF Spec
-----------------------------------------------------------------------------
(***************************************************************************)
(* A single dispatch run at a time: without faults the history is in order, *)
(* whatever texts do not fit and however writers overlap.                  *)
(***************************************************************************)

\* What a step does to the events there are: their story stays, what the history
\* holds and what can never be projected is still so.
LEMMA StoryStays ==
  ASSUME DeliveryInv, [Next]_vars
  PROVE  /\ DOMAIN outbox \subseteq DOMAIN outbox'
         /\ \A i \in DOMAIN outbox :
              /\ outbox'[i].task = outbox[i].task
              /\ outbox'[i].from = outbox[i].from
              /\ outbox'[i].fits = outbox[i].fits
              /\ outbox'[i].stamp = outbox[i].stamp
              /\ Poisoned(i) => Poisoned(i)'
         /\ \A i : Recorded(i) => Recorded(i)'
         /\ \A i \in DOMAIN outbox, j \in DOMAIN outbox' : j < i => j \in DOMAIN outbox
  <1>0. TypeOK /\ CallsKnown
    BY DEF DeliveryInv, CallsBacked, CallsKnown, CallBacked
  <1>1. Grows
    BY <1>0, StepGrows
  <1>2. ASSUME NEW e, outbox' = Append(outbox, e)
        PROVE  /\ \A i \in DOMAIN outbox : outbox'[i] = outbox[i]
               /\ \A i \in DOMAIN outbox, j \in DOMAIN outbox' : j < i => j \in DOMAIN outbox
    BY <1>0, <1>2, OutboxFacts
  <1>3. CASE \E e : outbox' = Append(outbox, e)
    <2>1. /\ \A i \in DOMAIN outbox : outbox'[i] = outbox[i]
          /\ \A i \in DOMAIN outbox, j \in DOMAIN outbox' : j < i => j \in DOMAIN outbox
      BY <1>2, <1>3
    <2>2. QED
      BY <1>1, <2>1 DEF Grows, Poisoned
  <1>4. CASE SameStory \/ UNCHANGED outbox
    <2>1. /\ DOMAIN outbox' = DOMAIN outbox
          /\ \A i \in DOMAIN outbox :
               /\ outbox'[i].task = outbox[i].task
               /\ outbox'[i].from = outbox[i].from
               /\ outbox'[i].fits = outbox[i].fits
               /\ outbox'[i].stamp = outbox[i].stamp
      BY <1>4 DEF SameStory
    <2>2. QED
      BY <1>1, <2>1 DEF Grows, Poisoned
  <1>5. QED
    BY <1>3, <1>4, OtherSteps
    DEF Create, CreateTask, ReadForPatch, PatchRead, CommitPatch, PatchCommit

\* A commit opens the provenance record of a task that has an event.
LEMMA OpenedStep ==
  ASSUME DeliveryInv, [Next]_vars
  PROVE  opened' \subseteq opened \cup {outbox[i].task : i \in DOMAIN outbox}
  <1>0. CallsKnown
    BY DEF DeliveryInv, CallsBacked, CallsKnown, CallBacked
  <1>1. ASSUME NEW c, c.event \in DOMAIN outbox, Write(c)
        PROVE  opened' \subseteq opened \cup {outbox[i].task : i \in DOMAIN outbox}
    BY <1>1 DEF Write, InsertProvenance, InsertTransition, TaskOf, provenanceVars
  <1>2. ASSUME NEW d \in Dispatchers, CallWrite(d)
        PROVE  opened' \subseteq opened \cup {outbox[i].task : i \in DOMAIN outbox}
    BY <1>0, <1>1, <1>2 DEF CallWrite, CallsKnown, provenanceVars
  <1>3. ASSUME NEW c \in late, LateStep(c)
        PROVE  opened' \subseteq opened \cup {outbox[i].task : i \in DOMAIN outbox}
    BY <1>0, <1>1, <1>3
    DEF LateStep, LateRead, LateWrite, LateLost, CallsKnown, provenanceVars
  <1>4. QED
    BY <1>2, <1>3
    DEF Next, vars, provenanceVars, RunStep, RunGoesOn, RunFault, Dispatch,
        DispatchWanted, RunNeverAsked, Claimed, CallRead, ClaimLost, CallTimeout,
        Killed, Create, ReadForPatch, CommitPatch, Expire

\* A new event of a task that has been created is not a second creation.
LEMMA CreationStays ==
  ASSUME TypeOK, NEW e \in Event, outbox' = Append(outbox, e),
         NEW t, NEW k \in DOMAIN outbox, Creates(k, t),
         e.task = t => e.from # NoStatus /\ outbox[k].stamp < e.stamp
  PROVE  k \in DOMAIN outbox' /\ Creates(k, t)'
  <1>1. /\ DOMAIN outbox' = DOMAIN outbox \cup {Len(outbox) + 1}
        /\ \A j \in DOMAIN outbox : outbox'[j] = outbox[j]
        /\ outbox'[Len(outbox) + 1] = e /\ k < Len(outbox) + 1
    BY AppendFacts, OutboxFacts
  <1>2. QED
    BY <1>1 DEF Creates, Before

\* With a new event no other event becomes the creation of a task.
LEMMA CreatedBefore ==
  ASSUME TypeOK, NEW e \in Event, outbox' = Append(outbox, e),
         NEW t, NEW k \in DOMAIN outbox', Creates(k, t)',
         ~(e.task = t /\ e.from = NoStatus)
  PROVE  k \in DOMAIN outbox /\ Creates(k, t) /\ outbox'[k] = outbox[k]
  <1>1. /\ DOMAIN outbox' = DOMAIN outbox \cup {Len(outbox) + 1}
        /\ \A j \in DOMAIN outbox : outbox'[j] = outbox[j]
        /\ outbox'[Len(outbox) + 1] = e
    BY AppendFacts
  <1>2. k \in DOMAIN outbox
    BY <1>1 DEF Creates
  <1>3. QED
    BY <1>1, <1>2 DEF Creates, Before

\* Every task the stores and the writers know keeps its creation.
LEMMA CreationStep ==
  ASSUME DeliveryInv, EventsHaveCreation, [Next]_vars
  PROVE  EventsHaveCreation'
  <1>0. TypeOK /\ \A i \in DOMAIN outbox : outbox[i] \in Event
    BY OutboxFacts DEF DeliveryInv
  <1>1. opened' \subseteq DOMAIN tasks
    BY OpenedStep DEF EventsHaveCreation
  <1>2. ASSUME NEW task \in Tasks, NEW row \in NewRows, NEW fits \in Fits,
               Create(task, row, fits)
        PROVE  EventsHaveCreation'
    <2>1. PICK e \in Event :
            /\ outbox' = Append(outbox, e) /\ e.task = task /\ e.from = NoStatus
            /\ e.stamp = clock'
      BY <1>0, <1>2, CreateEvent DEF Create
    <2>2. /\ task \notin DOMAIN tasks
          /\ DOMAIN tasks' = DOMAIN tasks \cup {task}
          /\ clock \in Nat /\ clock' = clock + 1 /\ UNCHANGED patching
      BY <1>0, <1>2, CreateEvent DEF Create, CreateTask
    <2>3. PICK n :
          /\ DOMAIN outbox' = DOMAIN outbox \cup {n}
          /\ \A j \in DOMAIN outbox : outbox'[j] = outbox[j]
          /\ outbox'[n] = e
      BY <1>0, <2>1, AppendFacts
    <2>4. Creates(n, task)'
      BY <2>1, <2>2, <2>3 DEF Creates, EventsHaveCreation
    <2>5. ASSUME NEW t \in DOMAIN tasks
          PROVE  \E k \in DOMAIN outbox' : Creates(k, t)'
      BY <1>0, <2>1, <2>2, CreationStays DEF EventsHaveCreation
    <2>6. \A i \in DOMAIN outbox' : outbox'[i].stamp <= clock'
      BY <1>0, <2>1, <2>2, <2>3 DEF EventsHaveCreation, Event
    <2>7. ASSUME NEW w \in DOMAIN patching', NEW t, t = patching'[w].task
          PROVE  /\ t \in DOMAIN tasks' /\ patching'[w].stamp <= clock'
                 /\ \A k \in DOMAIN outbox' :
                      Creates(k, t)' => outbox'[k].stamp < patching'[w].stamp
      <3>1. /\ w \in DOMAIN patching /\ patching'[w] = patching[w]
            /\ patching[w].stamp \in Nat /\ t = patching[w].task
        BY <1>0, <2>2, <2>7, PatchFacts
      <3>2. /\ t \in DOMAIN tasks /\ patching[w].stamp <= clock
            /\ \A k \in DOMAIN outbox : Creates(k, t) => outbox[k].stamp < patching[w].stamp
        BY <3>1 DEF EventsHaveCreation
      <3>3. ASSUME NEW k \in DOMAIN outbox', Creates(k, t)'
            PROVE  outbox'[k].stamp < patching'[w].stamp
        <4>1. k \in DOMAIN outbox /\ Creates(k, t) /\ outbox'[k] = outbox[k]
          BY <1>0, <2>1, <2>2, <3>2, <3>3, CreatedBefore
        <4>2. QED
          BY <3>1, <3>2, <4>1
      <3>4. patching'[w].stamp <= clock' /\ t \in DOMAIN tasks'
        BY <2>2, <3>1, <3>2
      <3>5. QED
        BY <3>3, <3>4
    <2>8. QED
      <3>1. \A i \in DOMAIN outbox' : outbox'[i].task \in DOMAIN tasks'
        BY <2>1, <2>2, <2>3 DEF EventsHaveCreation
      <3>2. \A t \in DOMAIN tasks' : \E k \in DOMAIN outbox' : Creates(k, t)'
        BY <2>2, <2>3, <2>4, <2>5
      <3>3. opened' \subseteq DOMAIN tasks'
        BY <1>1, <2>2
      <3>4. QED
        BY <2>6, <2>7, <3>1, <3>2, <3>3 DEF EventsHaveCreation
  <1>3. ASSUME NEW w \in Writers, NEW task \in Tasks, NEW patch \in Patches,
               ReadForPatch(w, task, patch)
        PROVE  EventsHaveCreation'
    <2>1. /\ UNCHANGED <<tasks, outbox, opened>> /\ task \in DOMAIN tasks
          /\ clock \in Nat /\ clock' = clock + 1
          /\ DOMAIN patching' = DOMAIN patching \cup {w}
          /\ patching'[w].task = task /\ patching'[w].stamp = clock'
          /\ \A v \in DOMAIN patching \ {w} : patching'[v] = patching[v]
      BY <1>0, <1>3
      DEF ReadForPatch, PatchRead, Begin, provenanceVars, TypeOK, ContextTypeOK
    <2>2. \A i \in DOMAIN outbox : outbox[i].stamp <= clock /\ outbox[i].stamp \in Nat
      BY <1>0 DEF EventsHaveCreation, Event
    <2>3. ASSUME NEW v \in DOMAIN patching'
          PROVE  /\ patching'[v].task \in DOMAIN tasks /\ patching'[v].stamp <= clock'
                 /\ \A k \in DOMAIN outbox :
                      Creates(k, patching'[v].task) => outbox[k].stamp < patching'[v].stamp
      <3>1. CASE v = w
        BY <2>1, <2>2, <3>1
      <3>2. CASE v # w
        <4>1. v \in DOMAIN patching /\ patching[v].stamp \in Nat
          BY <1>0, <2>1, <3>2, PatchFacts
        <4>2. QED
          BY <2>1, <3>2, <4>1 DEF EventsHaveCreation
      <3>3. QED
        BY <3>1, <3>2
    <2>4. \A k, t : Creates(k, t)' <=> Creates(k, t)
      BY <2>1 DEF Creates, Before
    <2>5. \A i \in DOMAIN outbox : outbox[i].stamp <= clock'
      BY <2>1, <2>2
    <2>6. QED
      BY <2>1, <2>3, <2>4, <2>5 DEF EventsHaveCreation
  <1>4. ASSUME NEW w \in Writers, NEW fits \in Fits, CommitPatch(w, fits)
        PROVE  EventsHaveCreation'
    <2> DEFINE h == patching[w]
    <2>1. /\ w \in DOMAIN patching
          /\ DOMAIN tasks' = DOMAIN tasks /\ UNCHANGED clock
          /\ patching' = Drop(patching, w)
      BY <1>4 DEF CommitPatch, PatchCommit
    <2>2. PICK e \in Event :
            /\ outbox' = Append(outbox, e) /\ e.task = h.task /\ e.from # NoStatus
            /\ e.stamp = h.stamp
      BY <1>0, <1>4, PatchEvent DEF CommitPatch
    <2>3. /\ h.task \in DOMAIN tasks /\ h.stamp <= clock
          /\ \A k \in DOMAIN outbox : Creates(k, h.task) => outbox[k].stamp < h.stamp
      BY <2>1 DEF EventsHaveCreation
    <2> HIDE DEF h
    <2>4. /\ DOMAIN outbox' = DOMAIN outbox \cup {Len(outbox) + 1}
          /\ \A j \in DOMAIN outbox : outbox'[j] = outbox[j]
          /\ outbox'[Len(outbox) + 1] = e
      BY <1>0, <2>2, AppendFacts
    <2>5. ASSUME NEW t \in DOMAIN tasks
          PROVE  \E k \in DOMAIN outbox' : Creates(k, t)'
      <3>1. PICK k \in DOMAIN outbox : Creates(k, t)
        BY DEF EventsHaveCreation
      <3>2. QED
        BY <1>0, <2>2, <2>3, <3>1, CreationStays
    <2>6. ASSUME NEW v \in DOMAIN patching', NEW t, t = patching'[v].task
          PROVE  /\ t \in DOMAIN tasks' /\ patching'[v].stamp <= clock'
                 /\ \A k \in DOMAIN outbox' :
                      Creates(k, t)' => outbox'[k].stamp < patching'[v].stamp
      <3>1. v \in DOMAIN patching /\ patching'[v] = patching[v] /\ t = patching[v].task
        BY <2>1, <2>6
      <3>2. /\ t \in DOMAIN tasks /\ patching[v].stamp <= clock
            /\ \A k \in DOMAIN outbox : Creates(k, t) => outbox[k].stamp < patching[v].stamp
        BY <3>1 DEF EventsHaveCreation
      <3>3. ASSUME NEW k \in DOMAIN outbox', Creates(k, t)'
            PROVE  outbox'[k].stamp < patching'[v].stamp
        <4>1. k \in DOMAIN outbox /\ Creates(k, t) /\ outbox'[k] = outbox[k]
          BY <1>0, <2>2, <3>3, CreatedBefore
        <4>2. QED
          BY <3>1, <3>2, <4>1
      <3>4. QED
        BY <2>1, <3>1, <3>2, <3>3
    <2>7. /\ \A i \in DOMAIN outbox' : outbox'[i].stamp <= clock'
          /\ \A i \in DOMAIN outbox' : outbox'[i].task \in DOMAIN tasks'
      BY <2>1, <2>2, <2>3, <2>4 DEF EventsHaveCreation
    <2>8. QED
      <3>1. /\ opened' \subseteq DOMAIN tasks'
            /\ \A t \in DOMAIN tasks' : \E k \in DOMAIN outbox' : Creates(k, t)'
        BY <1>1, <2>1, <2>5
      <3>2. QED
        BY <2>6, <2>7, <3>1 DEF EventsHaveCreation
  <1>5. CASE SameStory
    <2>1. \A k, t : k \in DOMAIN outbox => (Creates(k, t)' <=> Creates(k, t))
      BY <1>5 DEF SameStory, Creates, Before
    <2>2. QED
      BY <1>1, <1>5, <2>1 DEF SameStory, EventsHaveCreation
  <1>6. QED
    BY <1>2, <1>3, <1>4, <1>5, OtherSteps

\* What was recorded, put aside or in S before event i is still before it.
LEMMA AllBeforeStays ==
  ASSUME DeliveryInv, [Next]_vars, NEW i \in DOMAIN outbox, NEW S, NEW T,
         AllBefore(i, S),
         \A j \in S \cap DOMAIN outbox : j \in T \/ Recorded(j)' \/ Poisoned(j)'
  PROVE  \A U : U = T => AllBefore(i, U)'
  BY StoryStays DEF AllBefore, Before

\* An event that can be claimed is due before all that come after it.
LEMMA DueOldest ==
  ASSUME TypeOK, NEW i \in Due, NEW j \in DOMAIN outbox, Before(j, i), Claimable(outbox[j])
  PROVE  i \in DOMAIN outbox /\ j \in Due
  <1> DEFINE claimable == {k \in DOMAIN outbox : Claimable(outbox[k])}
             Earlier(k) == {l \in claimable : outbox[l].stamp < outbox[k].stamp}
  <1>1. i \in claimable /\ j \in claimable /\ Cardinality(Earlier(i)) < Limit
    BY DEF Due
  <1>2. /\ DOMAIN outbox = 1 .. Len(outbox) /\ Len(outbox) \in Nat
        /\ \A k \in DOMAIN outbox : outbox[k].stamp \in Nat
    BY OutboxFacts DEF Event
  <1>3. IsFiniteSet(DOMAIN outbox)
    BY <1>2, FS_Interval
  <1>4. Earlier(i) \subseteq DOMAIN outbox /\ Earlier(j) \subseteq Earlier(i)
    BY <1>1, <1>2 DEF Before
  <1>5. IsFiniteSet(Earlier(i))
    BY <1>3, <1>4, FS_Subset
  <1>6. /\ Cardinality(Earlier(j)) <= Cardinality(Earlier(i))
        /\ Cardinality(Earlier(i)) \in Nat /\ Cardinality(Earlier(j)) \in Nat
    <2>1. IsFiniteSet(Earlier(j)) /\ Cardinality(Earlier(j)) <= Cardinality(Earlier(i))
      BY <1>4, <1>5, FS_Subset
    <2>2. QED
      BY <1>5, <2>1, FS_CardinalityType
  <1>7. Cardinality(Earlier(j)) < Limit
    BY <1>1, <1>6, LimitAssumption
  <1>8. QED
    BY <1>1, <1>7 DEF Due

\* Steps that do not touch runs, claims, history or the status of an event.
Aside ==
  /\ UNCHANGED <<working, claiming, late, opened, history>>
  /\ \A i \in DOMAIN outbox : outbox'[i].status = outbox[i].status
  /\ \A i \in DOMAIN outbox' \ DOMAIN outbox :
       /\ outbox'[i].status = "pending"
       /\ outbox'[i].from = NoStatus => outbox'[i].task \notin opened

\* A dispatch run claims.
Claims(d) ==
  /\ ClaimRead(d) /\ d \notin DOMAIN working
  /\ UNCHANGED <<working, late, opened, history>>

\* Without a fault and with no call left late, a step is the run's or aside.
LEMMA QuietSteps ==
  ASSUME DeliveryInv, EventsHaveCreation, [Next]_vars, faults' = 0, late = {}
  PROVE  \/ Aside
         \/ \E d \in Dispatchers : Claims(d) \/ RunGoesOn(d)
  <1>0. TypeOK /\ \A i \in DOMAIN outbox : outbox[i] \in Event
    BY OutboxFacts DEF DeliveryInv
  <1>1. ASSUME NEW e \in Event, outbox' = Append(outbox, e), e.status = "pending",
               UNCHANGED <<working, claiming, late, opened, history>>,
               e.from = NoStatus => e.task \notin opened
        PROVE  Aside
    BY <1>0, <1>1, AppendFacts DEF Aside
  <1>2. ASSUME NEW task \in Tasks, NEW row \in NewRows, NEW fits \in Fits,
               Create(task, row, fits)
        PROVE  Aside
    <2>1. PICK e \in Event :
            outbox' = Append(outbox, e) /\ e.task = task /\ e.status = "pending"
      BY <1>0, <1>2, CreateEvent DEF Create
    <2>2. task \notin opened
      BY <1>2 DEF Create, CreateTask, EventsHaveCreation
    <2>3. QED
      BY <1>1, <1>2, <2>1, <2>2 DEF Create, CreateTask, provenanceVars
  <1>3. ASSUME NEW w \in Writers, NEW fits \in Fits, CommitPatch(w, fits)
        PROVE  Aside
    <2>1. PICK e \in Event :
            outbox' = Append(outbox, e) /\ e.from # NoStatus /\ e.status = "pending"
      BY <1>0, <1>3, PatchEvent DEF CommitPatch
    <2>2. QED
      BY <1>1, <1>3, <2>1 DEF CommitPatch, PatchCommit, provenanceVars
  <1>4. ASSUME NEW i \in DOMAIN outbox, Expire(i)
        PROVE  Aside
    BY <1>0, <1>4 DEF Aside, Expire, LeaseExpires, provenanceVars, Event
  <1>5. CASE \E w \in Writers, task \in Tasks, patch \in Patches : ReadForPatch(w, task, patch)
    BY <1>5 DEF Aside, ReadForPatch, PatchRead, provenanceVars
  <1>6. CASE UNCHANGED vars
    BY <1>6 DEF Aside, vars, contextVars, provenanceVars
  <1>7. ASSUME RunNeverAsked \/ \E d \in Dispatchers : RunFault(d)
        PROVE  FALSE
    <2>1. Fault
      BY <1>7 DEF RunNeverAsked, RunFault, ClaimLost, CallTimeout, Killed
    <2>2. QED
      BY <1>0, <2>1 DEF Fault, TypeOK
  <1>8. ASSUME NEW d \in Dispatchers, RunStep(d)
        PROVE  Aside \/ Claims(d) \/ RunGoesOn(d)
    <2>1. CASE Dispatch(d)
      BY <2>1 DEF Dispatch, Claims, provenanceVars
    <2>2. CASE DispatchWanted(d) /\ ClaimRead(d)
      BY <2>2 DEF DispatchWanted, Claims, provenanceVars
    <2>3. CASE DispatchWanted(d) /\ UNCHANGED contextVars
      BY <2>3 DEF DispatchWanted, Aside, contextVars, provenanceVars
    <2>4. QED
      BY <1>8, <2>1, <2>2, <2>3 DEF RunStep, DispatchWanted
  <1>9. QED
    BY <1>2, <1>3, <1>4, <1>5, <1>6, <1>7, <1>8 DEF Next

\* Steps aside keep the order of the runs.
LEMMA AsideStep ==
  ASSUME DeliveryInv, [Next]_vars, RunsInOrder, Aside
  PROVE  RunsInOrder'
  <1>0. TypeOK /\ CallsBacked /\ RecordedOnce
    BY DEF DeliveryInv
  <1>1. /\ \A i : Recorded(i)' <=> Recorded(i)
        /\ DOMAIN outbox \subseteq DOMAIN outbox'
        /\ \A i \in DOMAIN outbox :
             /\ outbox'[i].task = outbox[i].task /\ outbox'[i].from = outbox[i].from
             /\ outbox'[i].fits = outbox[i].fits /\ outbox'[i].status = outbox[i].status
             /\ outbox'[i].stamp = outbox[i].stamp
             /\ Poisoned(i) => Poisoned(i)'
    BY StoryStays DEF Aside, Recorded
  <1>2. \A i \in DOMAIN outbox : \A S : AllBefore(i, S) => AllBefore(i, S)'
    BY AllBeforeStays
  <1>3. ASSUME NEW d \in DOMAIN working
        PROVE  RunInOrder(d)'
    <2>1. RunInOrder(d) /\ UNCHANGED working
      BY DEF RunsInOrder, Aside
    <2> DEFINE c == working[d].call
               batch == working[d].batch
    <2>2. /\ batch \subseteq DOMAIN outbox /\ Oldest(c.event, batch)
          /\ c.event \in DOMAIN outbox
          /\ \A i \in batch : AllBefore(i, batch)
      BY <2>1 DEF RunInOrder, Oldest
    <2>3. \A i \in batch : AllBefore(i, batch)'
      BY <1>2, <2>1, <2>2
    <2>4. QED
      BY <1>1, <2>1, <2>2, <2>3 DEF RunInOrder, Aside, TaskOf, Oldest
  <1>4. ASSUME NEW d \in DOMAIN claiming, NEW i \in DOMAIN claiming[d]
        PROVE  AllBefore(i, DOMAIN claiming[d])'
    <2>1. i \in DOMAIN outbox /\ AllBefore(i, DOMAIN claiming[d])
      BY <1>0 DEF RunsInOrder, TypeOK, ContextTypeOK
    <2>2. QED
      BY <1>2, <2>1 DEF Aside
  <1>5. ASSUME NEW i \in DOMAIN outbox'
        PROVE  /\ outbox'[i].status = "in_progress" =>
                    \E d \in DOMAIN working : i \in working[d].batch
               /\ Recorded(i)' => AllBefore(i, {})'
               /\ outbox'[i].from = NoStatus /\ outbox'[i].task \in opened => outbox'[i].fits
    <2>1. Recorded(i) => i \in DOMAIN outbox
      BY <1>0 DEF RecordedOnce, Recorded
    <2>2. QED
      BY <1>1, <1>2, <2>1 DEF RunsInOrder, Aside
  <1>6. HistoryInOrder'
    <2>1. \A m \in DOMAIN history : history[m] \in DOMAIN outbox
      BY <1>0 DEF RecordedOnce
    <2>2. QED
      BY <1>1, <2>1 DEF RunsInOrder, HistoryInOrder, Before, Aside
  <1>7. QED
    BY <1>3, <1>4, <1>5, <1>6 DEF RunsInOrder, Aside
-----------------------------------------------------------------------------
\* A single run: nothing else is claimed or worked on while it is.
OneRun(d) ==
  /\ \A u \in DOMAIN working : u = d
  /\ \A u \in DOMAIN claiming : u = d

\* What a run takes up is in order: it is at the oldest event of its batch, with a
\* call that fits the event.
LEMMA StartInOrder ==
  ASSUME DeliveryInv, [Next]_vars, DOMAIN outbox' = DOMAIN outbox, NEW d, NEW batch,
         batch \subseteq DOMAIN outbox,
         \A i \in batch, j \in DOMAIN outbox :
           Before(j, i) => j \in batch \/ Recorded(j)' \/ Poisoned(j)',
         Start(d, batch)
  PROVE  RunInOrder(d)' /\ working'[d].batch = batch /\ d \in DOMAIN working'
  <1>1. PICK i \in DOMAIN outbox :
          /\ Oldest(i, batch)
          /\ working' = Put(working, d,
               [batch |-> batch,
                call |-> NewCall(IF outbox[i].from = NoStatus THEN "ensure" ELSE "append", i)])
    BY DEF Start
  <1>2. PICK kind \in {"ensure", "append"} :
          /\ kind = "ensure" <=> outbox[i].from = NoStatus
          /\ working' = Put(working, d, [batch |-> batch, call |-> NewCall(kind, i)])
    BY <1>1
  <1>3. /\ d \in DOMAIN working' /\ working'[d].batch = batch
        /\ working'[d].call.kind = kind /\ working'[d].call.event = i
        /\ working'[d].call.writes = {}
    BY <1>2 DEF NewCall
  <1>4. /\ outbox'[i].from = outbox[i].from
        /\ \A j \in DOMAIN outbox : outbox'[j].stamp = outbox[j].stamp
    BY StoryStays
  <1>5. Oldest(i, batch)' /\ \A j \in batch : AllBefore(j, batch)'
    BY <1>1, <1>4 DEF Oldest, AllBefore, Before
  <1>6. QED
    BY <1>1, <1>2, <1>3, <1>4, <1>5 DEF RunInOrder, Oldest

\* A claim is in order: it leaves out no event that comes before one it returns, but
\* the recorded ones.
LEMMA ClaimInOrder ==
  ASSUME DeliveryInv, RunsInOrder, [Next]_vars, NEW d, OneRun(d), Claims(d)
  PROVE  RunsInOrder'
  <1>0. TypeOK /\ CompletedIsRecorded /\ \A i \in DOMAIN outbox : outbox[i] \in Event
    BY OutboxFacts DEF DeliveryInv
  <1>1. /\ DOMAIN working = {} /\ DOMAIN claiming = {}
        /\ UNCHANGED <<outbox, working, late, opened, history>>
        /\ DOMAIN claiming' = {d} /\ DOMAIN claiming'[d] = Due
    BY DEF OneRun, Claims, ClaimRead
  <1>2. ASSUME NEW i \in Due, NEW j \in DOMAIN outbox, Before(j, i)
        PROVE  j \in Due \/ Recorded(j)
    <2>1. CASE Claimable(outbox[j])
      BY <1>0, <1>2, <2>1, DueOldest
    <2>2. CASE outbox[j].status = "completed"
      BY <1>0, <2>2 DEF CompletedIsRecorded
    <2>3. outbox[j].status # "in_progress"
      BY <1>1 DEF RunsInOrder
    <2>4. outbox[j].status \in {"pending", "in_progress", "completed", "failed"}
      BY <1>0 DEF Event
    <2>5. QED
      BY <2>1, <2>2, <2>3, <2>4 DEF Claimable
  <1>3. \A i \in DOMAIN claiming'[d] : AllBefore(i, DOMAIN claiming[d])'
    BY <1>1, <1>2 DEF AllBefore, Before, Recorded
  <1>4. QED
    BY <1>1, <1>3
    DEF RunsInOrder, AllBefore, Before, Recorded, Poisoned, HistoryInOrder

\* The run takes its claim up in order.
LEMMA ClaimedInOrder ==
  ASSUME DeliveryInv, RunsInOrder, [Next]_vars, NEW d, OneRun(d), Claimed(d)
  PROVE  RunsInOrder'
  <1>0. TypeOK /\ RecordedOnce /\ \A i \in DOMAIN outbox : outbox[i] \in Event
    BY OutboxFacts DEF DeliveryInv
  <1> DEFINE batch == DOMAIN claiming[d]
  <1>1. /\ d \in DOMAIN claiming /\ Start(d, batch)
        /\ UNCHANGED <<late, opened, history>>
        /\ claiming' = Drop(claiming, d)
        /\ batch \subseteq DOMAIN outbox
    BY <1>0 DEF Claimed, ClaimCommit, provenanceVars, TypeOK, ContextTypeOK
  <1>2. /\ DOMAIN outbox' = DOMAIN outbox
        /\ \A i \in DOMAIN outbox : i \notin batch => outbox'[i].status = outbox[i].status
    BY DEF Claimed, ClaimCommit
  <1>3. DOMAIN working = {} /\ DOMAIN claiming' = {}
    BY <1>1 DEF OneRun, RunsInOrder
  <1>4. /\ \A i : Recorded(i)' <=> Recorded(i)
        /\ \A i \in DOMAIN outbox : Poisoned(i) => Poisoned(i)'
        /\ \A i \in DOMAIN outbox :
             /\ outbox'[i].task = outbox[i].task /\ outbox'[i].from = outbox[i].from
             /\ outbox'[i].fits = outbox[i].fits /\ outbox'[i].stamp = outbox[i].stamp
    BY <1>1, StoryStays DEF Recorded
  <1>5. \A i \in batch, j \in DOMAIN outbox :
          Before(j, i) => j \in batch \/ Recorded(j)' \/ Poisoned(j)'
    <2>1. \A i \in batch : AllBefore(i, batch)
      BY <1>1 DEF RunsInOrder
    <2>2. QED
      BY <1>4, <2>1 DEF AllBefore
  <1>6. RunInOrder(d)' /\ working'[d].batch = batch /\ DOMAIN working' = {d}
    <2>1. RunInOrder(d)' /\ working'[d].batch = batch
      BY <1>1, <1>2, <1>5, StartInOrder
    <2>2. QED
      BY <1>1, <1>3, <2>1 DEF Start
  <1>7. \A i \in DOMAIN outbox' :
          /\ outbox'[i].status = "in_progress" => i \in batch
          /\ Recorded(i)' => AllBefore(i, {})'
          /\ outbox'[i].from = NoStatus /\ outbox'[i].task \in opened' => outbox'[i].fits
    <2> SUFFICES ASSUME NEW i \in DOMAIN outbox
                 PROVE  /\ outbox'[i].status = "in_progress" => i \in batch
                        /\ Recorded(i)' => AllBefore(i, {})'
                        /\ outbox'[i].from = NoStatus /\ outbox'[i].task \in opened'
                             => outbox'[i].fits
      BY <1>2
    <2>1. outbox'[i].status = "in_progress" => i \in batch
      BY <1>2, <1>3 DEF RunsInOrder
    <2>2. Recorded(i)' => AllBefore(i, {})'
      <3>1. Recorded(i) => AllBefore(i, {})
        BY DEF RunsInOrder
      <3>2. QED
        BY <1>2, <1>4, <3>1 DEF AllBefore, Before
    <2>3. outbox'[i].from = NoStatus /\ outbox'[i].task \in opened' => outbox'[i].fits
      BY <1>1, <1>4 DEF RunsInOrder
    <2>4. QED
      BY <2>1, <2>2, <2>3
  <1>8. HistoryInOrder'
    <2>1. \A m \in DOMAIN history : history[m] \in DOMAIN outbox
      BY <1>0 DEF RecordedOnce
    <2>2. QED
      BY <1>1, <1>4, <2>1 DEF RunsInOrder, HistoryInOrder, Before
  <1>9. QED
    BY <1>1, <1>3, <1>6, <1>7, <1>8 DEF RunsInOrder

\* What a step leaves of the order of the runs: each is in order and not claiming,
\* and has all events in progress.
RunsGoOn ==
  /\ \A u \in DOMAIN working' : u \notin DOMAIN claiming' /\ RunInOrder(u)'
  /\ \A i \in DOMAIN outbox' : outbox'[i].status = "in_progress" =>
       \E u \in DOMAIN working' : i \in working'[u].batch

\* What is known of a run in order before its call is answered.
LEMMA RunKnown ==
  ASSUME DeliveryInv, RunsInOrder, [Next]_vars,
         NEW d \in DOMAIN working, OneRun(d), NEW c, c = working[d].call
  PROVE  /\ RunInOrder(d) /\ d \notin DOMAIN claiming
         /\ c \in Call /\ c.kind \in Kinds /\ CallBacked(c)
         /\ \A i \in DOMAIN outbox : outbox[i].status = "in_progress" => i \in working[d].batch
         /\ working[d].batch \subseteq DOMAIN outbox /\ Oldest(c.event, working[d].batch)
         /\ c.event \in working[d].batch /\ c.event \in DOMAIN outbox
         /\ \A i \in working[d].batch, j \in DOMAIN outbox :
              Before(j, i) => j \in working[d].batch \/ Recorded(j)' \/ Poisoned(j)'
  <1>1. /\ RunInOrder(d) /\ d \notin DOMAIN claiming
        /\ \A i \in DOMAIN outbox : outbox[i].status = "in_progress" => i \in working[d].batch
    BY DEF RunsInOrder, OneRun
  <1>2. /\ working[d].batch \subseteq DOMAIN outbox /\ Oldest(c.event, working[d].batch)
        /\ c.event \in working[d].batch /\ c.event \in DOMAIN outbox
        /\ \A i \in working[d].batch : AllBefore(i, working[d].batch)
    BY <1>1 DEF RunInOrder, Oldest
  <1>3. \A i \in working[d].batch, j \in DOMAIN outbox :
          Before(j, i) => j \in working[d].batch \/ Recorded(j)' \/ Poisoned(j)'
    BY <1>2, StoryStays DEF AllBefore
  <1>4. c \in Call /\ c.kind \in Kinds /\ CallBacked(c)
    BY RunFacts DEF DeliveryInv, CallsBacked
  <1>5. QED
    BY <1>1, <1>2, <1>3, <1>4

\* The run goes on in order with another call for the same event.
LEMMA NextCallInOrder ==
  ASSUME DeliveryInv, RunsInOrder, [Next]_vars,
         NEW d \in DOMAIN working, OneRun(d), NEW c, c = working[d].call,
         DOMAIN outbox' = DOMAIN outbox, UNCHANGED claiming,
         \A i \in DOMAIN outbox \ {c.event} : outbox'[i].status = outbox[i].status,
         NEW kind \in Kinds \ {"ensure"},
         working' = [working EXCEPT ![d].call = NewCall(kind, c.event)],
         kind = "append" /\ outbox[c.event].from = NoStatus => TaskOf(c) \in opened',
         kind = "fail" => Poisoned(c.event)'
  PROVE  RunsGoOn
  <1> DEFINE batch == working[d].batch
  <1>1. /\ DOMAIN working' = {d} /\ working'[d].batch = batch
        /\ working'[d].call.kind = kind /\ working'[d].call.event = c.event
        /\ working'[d].call.writes = {}
    <2>1. working[d] \in Run
      BY RunFacts DEF DeliveryInv
    <2>2. DOMAIN working = {d}
      BY DEF OneRun
    <2>3. QED
      BY <2>1, <2>2 DEF Run, NewCall
  <1>2. /\ batch \subseteq DOMAIN outbox /\ Oldest(c.event, batch) /\ c.event \in batch
        /\ \A i \in batch, j \in DOMAIN outbox :
             Before(j, i) => j \in batch \/ Recorded(j)' \/ Poisoned(j)'
        /\ \A i \in DOMAIN outbox : outbox[i].status = "in_progress" => i \in batch
        /\ d \notin DOMAIN claiming
    BY RunKnown
  <1>3. \A i \in DOMAIN outbox :
          /\ outbox'[i].task = outbox[i].task /\ outbox'[i].from = outbox[i].from
          /\ outbox'[i].stamp = outbox[i].stamp
    BY <1>2, StoryStays
  <1>4. RunInOrder(d)'
    <2>1. /\ working'[d].batch \subseteq DOMAIN outbox'
          /\ Oldest(working[d].call.event, working[d].batch)'
          /\ (\A i \in working[d].batch : AllBefore(i, working[d].batch))'
      BY <1>1, <1>2, <1>3 DEF Oldest, AllBefore, Before
    <2>2. working'[d].call.kind = "append" /\ outbox'[working'[d].call.event].from = NoStatus
            => TaskOf(working[d].call)' \in opened'
      BY <1>1, <1>2, <1>3 DEF TaskOf
    <2>3. working'[d].call.kind = "fail" => Poisoned(working[d].call.event)'
      BY <1>1
    <2>4. QED
      BY <1>1, <2>1, <2>2, <2>3 DEF RunInOrder, Kinds
  <1>5. QED
    BY <1>1, <1>2, <1>4 DEF RunsGoOn

\* A successful answer leaves the run in order, if it did what the run goes on from.
LEMMA SucceedsInOrder ==
  ASSUME DeliveryInv, RunsInOrder, [Next]_vars,
         NEW d \in DOMAIN working, OneRun(d), NEW c, c = working[d].call,
         DOMAIN outbox' = DOMAIN outbox, UNCHANGED claiming,
         \A i \in DOMAIN outbox \ {c.event} : outbox'[i].status = outbox[i].status,
         Succeeds(d),
         c.kind = "ensure" => TaskOf(c) \in opened',
         c.kind \in {"complete", "fail"} => outbox'[c.event].status # "in_progress"
  PROVE  RunsGoOn
  <1> DEFINE batch == working[d].batch
             rest == Left(c, batch)
  <1>1. /\ batch \subseteq DOMAIN outbox /\ Oldest(c.event, batch)
        /\ c.event \in batch /\ c.event \in DOMAIN outbox
        /\ \A i \in batch, j \in DOMAIN outbox :
             Before(j, i) => j \in batch \/ Recorded(j)' \/ Poisoned(j)'
        /\ \A i \in DOMAIN outbox : outbox[i].status = "in_progress" => i \in batch
        /\ d \notin DOMAIN claiming /\ c.kind \in Kinds /\ CallBacked(c) /\ RunInOrder(d)
    BY RunKnown
  <1>2. CASE c.kind \in {"ensure", "append"}
    <2>1. /\ Following(c.kind) \in {"append", "complete"}
          /\ Following(c.kind) = "append" => c.kind = "ensure"
      BY <1>2 DEF Following
    <2>2. working' = [working EXCEPT ![d].call = NewCall(Following(c.kind), c.event)]
      BY <1>2 DEF Succeeds
    <2>3. QED
      BY <2>1, <2>2, NextCallInOrder DEF Kinds
  <1>3. CASE c.kind \in {"complete", "fail"}
    <2>1. Recorded(c.event)' \/ Poisoned(c.event)'
      BY <1>1, <1>3, StoryStays DEF RunInOrder, CallBacked
    <2>2. /\ rest \subseteq DOMAIN outbox
          /\ \A i \in DOMAIN outbox' : outbox'[i].status = "in_progress" => i \in rest
          /\ \A i \in rest, j \in DOMAIN outbox :
               Before(j, i) => j \in rest \/ Recorded(j)' \/ Poisoned(j)'
      BY <1>1, <1>3, <2>1 DEF Left
    <2> HIDE DEF rest
    <2>3. CASE rest # {} /\ Start(d, rest)
      <3>1. RunInOrder(d)' /\ working'[d].batch = rest /\ d \in DOMAIN working'
        BY <2>2, <2>3, StartInOrder
      <3>2. DOMAIN working' \subseteq {d}
        BY <2>3 DEF Start, OneRun
      <3>3. QED
        BY <1>1, <2>2, <3>1, <3>2 DEF RunsGoOn
    <2>4. CASE rest = {} /\ working' = Drop(working, d)
      BY <2>2, <2>4 DEF RunsGoOn, OneRun
    <2>5. QED
      BY <1>3, <2>3, <2>4 DEF Succeeds, rest
  <1>4. QED
    BY <1>1, <1>2, <1>3 DEF Kinds

\* A call that must fail leaves the run in order: it marks the event failed.
LEMMA ErrsInOrder ==
  ASSUME DeliveryInv, RunsInOrder, [Next]_vars,
         NEW d \in DOMAIN working, OneRun(d), NEW c, c = working[d].call,
         DOMAIN outbox' = DOMAIN outbox, UNCHANGED claiming,
         \A i \in DOMAIN outbox \ {c.event} : outbox'[i].status = outbox[i].status,
         Errs(d), c.kind # "fail", Poisoned(c.event)'
  PROVE  RunsGoOn
  BY NextCallInOrder DEF Errs, Kinds
-----------------------------------------------------------------------------
\* The projection refuses or cannot store an event of the run only if the event can
\* never be projected.
LEMMA FailsForGood ==
  ASSUME DeliveryInv, EventsHaveCreation, RunsInOrder, [Next]_vars,
         NEW d \in DOMAIN working, OneRun(d), NEW c, c = working[d].call,
         Refused(c) \/ (c.writes # {} /\ Conflicts(c))
  PROVE  c.kind # "fail" /\ Poisoned(c.event)
  <1>1. /\ RunInOrder(d) /\ c.event \in DOMAIN outbox /\ Oldest(c.event, working[d].batch)
        /\ c.event \in working[d].batch
    BY RunKnown
  <1>2. /\ \A n \in DOMAIN history : outbox[history[n]].task \in opened
        /\ \A i \in DOMAIN outbox : i \in Nat /\ outbox[i].stamp \in Nat
    BY OutboxFacts DEF DeliveryInv, RecordedOnce, Event
  <1>3. CASE c.writes # {} /\ Conflicts(c)
    BY <1>1, <1>3 DEF Conflicts, RunInOrder, Poisoned
  <1>4. CASE Refused(c)
    <2>1. c.kind = "append" /\ ~Recorded(c.event) /\ TaskOf(c) \notin opened
      BY <1>4 DEF Refused
    <2>2. PICK k \in DOMAIN outbox : Creates(k, TaskOf(c))
      BY <1>1 DEF EventsHaveCreation, TaskOf
    <2>3. k # c.event
      BY <1>1, <2>1, <2>2 DEF RunInOrder, Creates
    <2>4. Before(k, c.event) /\ k \notin working[d].batch
      BY <1>1, <1>2, <2>2, <2>3 DEF Creates, TaskOf, Oldest, Before
    <2>5. Recorded(k) \/ Poisoned(k)
      BY <1>1, <2>4 DEF RunInOrder, AllBefore
    <2>6. ~Recorded(k)
      BY <1>2, <2>1, <2>2 DEF Recorded, Creates
    <2>7. QED
      BY <2>1, <2>2, <2>5, <2>6 DEF Poisoned, Creates, TaskOf
  <1>5. QED
    BY <1>3, <1>4

\* The order of the runs is kept by a step of a run that keeps the history's.
LEMMA RunStepInOrder ==
  ASSUME RunsInOrder, NEW d \in DOMAIN working, OneRun(d), RunsGoOn,
         DOMAIN outbox' = DOMAIN outbox, UNCHANGED <<claiming, late>>,
         HistoryInOrder',
         \A i \in DOMAIN outbox :
           /\ Recorded(i)' => AllBefore(i, {})'
           /\ outbox'[i].from = NoStatus /\ outbox'[i].task \in opened' => outbox'[i].fits
  PROVE  RunsInOrder'
  <1>1. DOMAIN claiming = {}
    BY DEF RunsInOrder, OneRun
  <1>2. QED
    BY <1>1 DEF RunsInOrder, RunsGoOn

\* Reading on behalf of a call keeps the order.
LEMMA CallReadInOrder ==
  ASSUME DeliveryInv, EventsHaveCreation, RunsInOrder, [Next]_vars,
         NEW d, OneRun(d), CallRead(d)
  PROVE  RunsInOrder'
  <1> SUFFICES ASSUME NEW c, c = working[d].call
               PROVE  RunsInOrder'
    OBVIOUS
  <1>1. /\ d \in DOMAIN working /\ c.writes = {}
        /\ UNCHANGED <<tasks, outbox, patching, claiming, opened, history, late>>
        /\ \/ Refused(c) /\ Errs(d)
           \/ Missing(c) = {} /\ Succeeds(d)
           \/ Missing(c) # {} /\ working' = [working EXCEPT ![d].call.writes = Missing(c)]
    BY DEF CallRead, contextVars, provenanceVars
  <1>2. /\ RunInOrder(d) /\ d \notin DOMAIN claiming
        /\ c \in Call /\ c.kind \in Kinds
        /\ \A i \in DOMAIN outbox : outbox[i].status = "in_progress" => i \in working[d].batch
    BY <1>1, RunKnown
  <1>3. RunsGoOn
    <2>1. CASE Refused(c) /\ Errs(d)
      <3>1. c.kind # "fail" /\ Poisoned(c.event)'
        <4>1. c.kind # "fail" /\ Poisoned(c.event)
          BY <1>1, <2>1, FailsForGood
        <4>2. QED
          BY <1>1, <4>1 DEF Poisoned
      <3>2. QED
        BY <1>1, <2>1, <3>1, ErrsInOrder
    <2>2. CASE Missing(c) = {} /\ Succeeds(d)
      <3>1. /\ c.kind = "ensure" => TaskOf(c) \in opened
            /\ c.kind \in {"complete", "fail"} => outbox[c.event].status # "in_progress"
        BY <2>2 DEF Missing, ToComplete, ToFail
      <3>2. TaskOf(c)' = TaskOf(c)
        BY <1>1 DEF TaskOf
      <3>3. QED
        BY <1>1, <2>2, <3>1, <3>2, SucceedsInOrder
    <2>3. CASE Missing(c) # {} /\ working' = [working EXCEPT ![d].call.writes = Missing(c)]
      <3>1. working[d] \in Run /\ DOMAIN working = {d}
        BY <1>1, RunFacts DEF DeliveryInv, OneRun
      <3>2. /\ DOMAIN working' = {d} /\ working'[d].batch = working[d].batch
            /\ working'[d].call.kind = c.kind /\ working'[d].call.event = c.event
            /\ working'[d].call.writes = Missing(c)
        BY <2>3, <3>1 DEF Run, Call
      <3>3. /\ c.kind = "ensure" => TaskOf(c) \notin opened
            /\ c.kind = "append" => ~Recorded(c.event)
            /\ c.kind = "fail" =>
                 "status" \in Missing(c) \/ outbox[c.event].status # "in_progress"
        BY <2>3 DEF Missing, ToFail
      <3>4. RunInOrder(d)'
        BY <1>1, <1>2, <3>2, <3>3
        DEF RunInOrder, Oldest, AllBefore, Before, Recorded, Poisoned, TaskOf
      <3>5. QED
        BY <1>1, <1>2, <3>2, <3>4 DEF RunsGoOn
    <2>4. QED
      BY <1>1, <2>1, <2>2, <2>3
  <1>4. QED
    BY <1>1, <1>3, RunStepInOrder
    DEF RunsInOrder, AllBefore, Before, Recorded, Poisoned, HistoryInOrder

\* Writing on behalf of a call keeps the order: a transition is recorded only when
\* none of its task that comes after it is.
LEMMA CallWriteInOrder ==
  ASSUME DeliveryInv, EventsHaveCreation, RunsInOrder, [Next]_vars,
         NEW d, OneRun(d), CallWrite(d)
  PROVE  RunsInOrder'
  <1> SUFFICES ASSUME NEW c, c = working[d].call
               PROVE  RunsInOrder'
    OBVIOUS
  <1>0. TypeOK /\ RecordedOnce /\ \A i \in DOMAIN outbox : outbox[i] \in Event
    BY OutboxFacts DEF DeliveryInv
  <1>1. /\ d \in DOMAIN working /\ c.writes # {} /\ UNCHANGED late
        /\ \/ Conflicts(c) /\ Errs(d) /\ UNCHANGED <<contextVars, provenanceVars>>
           \/ ~Conflicts(c) /\ Write(c) /\ Succeeds(d)
    BY DEF CallWrite
  <1>2. /\ RunInOrder(d) /\ c \in Call /\ c.kind \in Kinds /\ CallBacked(c)
        /\ c.event \in working[d].batch /\ c.event \in DOMAIN outbox
        /\ Oldest(c.event, working[d].batch)
    BY <1>1, RunKnown
  <1>3. /\ \A i \in DOMAIN outbox :
             /\ outbox'[i].task = outbox[i].task /\ outbox'[i].from = outbox[i].from
             /\ outbox'[i].fits = outbox[i].fits /\ outbox'[i].stamp = outbox[i].stamp
        /\ \A i \in DOMAIN outbox : \A S : AllBefore(i, S) => AllBefore(i, S)'
    BY StoryStays, AllBeforeStays
  <1>4. \A m \in DOMAIN history : history[m] \in DOMAIN outbox /\ outbox[history[m]].task \in opened
    BY <1>0 DEF RecordedOnce
  <1>5. CASE Conflicts(c) /\ Errs(d) /\ UNCHANGED <<contextVars, provenanceVars>>
    <2>1. UNCHANGED <<outbox, claiming, opened, history>>
      BY <1>5 DEF contextVars, provenanceVars
    <2>2. c.kind # "fail" /\ Poisoned(c.event)
      BY <1>1, <1>5, FailsForGood
    <2>3. Poisoned(c.event)'
      BY <2>1, <2>2 DEF Poisoned
    <2>4. RunsGoOn
      BY <1>1, <1>5, <2>1, <2>2, <2>3, ErrsInOrder
    <2>5. QED
      BY <1>1, <2>1, <2>4, RunStepInOrder
      DEF RunsInOrder, AllBefore, Before, Recorded, Poisoned, HistoryInOrder
  <1>6. CASE /\ c.kind = "ensure" /\ ~Conflicts(c) /\ Succeeds(d)
             /\ InsertProvenance(TaskOf(c)) /\ UNCHANGED contextVars
    <2>1. /\ UNCHANGED <<outbox, claiming, history>>
          /\ opened' = opened \cup {outbox[c.event].task}
      BY <1>6 DEF contextVars, InsertProvenance, TaskOf
    <2>2. RunsGoOn
      <3>1. TaskOf(c) \in opened'
        BY <2>1 DEF TaskOf
      <3>2. TaskOf(c)' \in opened'
        BY <2>1 DEF TaskOf
      <3>3. QED
        BY <1>1, <1>6, <2>1, <3>1, <3>2, SucceedsInOrder
    <2>3. outbox[c.event].from = NoStatus /\ outbox[c.event].fits
      BY <1>2, <1>6 DEF RunInOrder, Conflicts
    <2>4. \A i \in DOMAIN outbox :
            outbox[i].from = NoStatus /\ outbox[i].task \in opened' => outbox[i].fits
      <3>1. PICK k \in DOMAIN outbox : Creates(k, outbox[c.event].task)
        BY <1>2 DEF EventsHaveCreation
      <3>2. QED
        BY <1>2, <2>1, <2>3, <3>1 DEF Creates, RunsInOrder
    <2>5. QED
      BY <1>1, <2>1, <2>2, <2>4, RunStepInOrder
      DEF RunsInOrder, AllBefore, Before, Recorded, Poisoned, HistoryInOrder
  <1>7. CASE /\ c.kind = "append" /\ ~Conflicts(c) /\ Succeeds(d)
             /\ InsertTransition(c.event) /\ UNCHANGED contextVars
    <2> DEFINE n == Len(history)
    <2>1. /\ UNCHANGED <<outbox, claiming, opened>>
          /\ n \in Nat /\ DOMAIN history = 1 .. n /\ DOMAIN history' = 1 .. (n + 1)
          /\ \A m \in 1 .. n : history'[m] = history[m]
          /\ history'[n + 1] = c.event
      BY <1>0, <1>7 DEF contextVars, InsertTransition, TypeOK
    <2>2. RunsGoOn
      BY <1>1, <1>7, <2>1, SucceedsInOrder
    <2>3. \A i : Recorded(i)' => Recorded(i) \/ i = c.event
      BY <2>1 DEF Recorded
    <2>4. AllBefore(c.event, {})
      <3>1. AllBefore(c.event, working[d].batch)
        BY <1>2 DEF RunInOrder
      <3>2. \A j \in DOMAIN outbox : Before(j, c.event) => j \notin working[d].batch
        BY <1>0, <1>2 DEF Before, Oldest, Event
      <3>3. QED
        BY <3>1, <3>2 DEF AllBefore
    <2>5. ~Recorded(c.event) /\ ~Poisoned(c.event)
      BY <1>1, <1>2, <1>7 DEF RunInOrder, Conflicts, Poisoned, RunsInOrder, CallBacked, TaskOf
    <2>6. \A m \in 1 .. n : ~Before(c.event, history[m])
      BY <1>2, <1>4, <2>1, <2>5 DEF RunsInOrder, AllBefore, Recorded
    <2>7. HistoryInOrder'
      <3> SUFFICES ASSUME NEW l \in 1 .. (n + 1), NEW m \in 1 .. (n + 1), l < m,
                          outbox[history'[l]].task = outbox[history'[m]].task
                   PROVE  ~Before(history'[m], history'[l])
        BY <2>1 DEF HistoryInOrder, Before
      <3>1. CASE m = n + 1
        <4>1. l \in 1 .. n
          BY <2>1, <3>1
        <4>2. QED
          BY <2>1, <2>6, <3>1, <4>1
      <3>2. CASE m # n + 1
        <4>1. l \in 1 .. n /\ m \in 1 .. n
          BY <2>1, <3>2
        <4>2. QED
          BY <2>1, <4>1 DEF RunsInOrder, HistoryInOrder
      <3>3. QED
        BY <3>1, <3>2
    <2>8. \A i \in DOMAIN outbox : Recorded(i)' => AllBefore(i, {})'
      BY <1>3, <2>3, <2>4 DEF RunsInOrder
    <2>9. QED
      BY <1>1, <2>1, <2>2, <2>7, <2>8, RunStepInOrder DEF RunsInOrder
  <1>8. ASSUME c.kind \in {"complete", "fail"}, Succeeds(d),
               UNCHANGED <<claiming, opened, history>>, DOMAIN outbox' = DOMAIN outbox,
               \A i \in DOMAIN outbox \ {c.event} : outbox'[i].status = outbox[i].status,
               outbox'[c.event].status # "in_progress"
        PROVE  RunsInOrder'
    <2>1. RunsGoOn
      BY <1>1, <1>8, SucceedsInOrder
    <2>2. \A i : Recorded(i)' <=> Recorded(i)
      BY <1>8 DEF Recorded
    <2>3. HistoryInOrder'
      BY <1>3, <1>4, <1>8 DEF RunsInOrder, HistoryInOrder, Before
    <2>4. QED
      BY <1>1, <1>3, <1>8, <2>1, <2>2, <2>3, RunStepInOrder DEF RunsInOrder
  <1>9. CASE c.kind = "complete" /\ Succeeds(d) /\ WriteCompleted(c.event) /\ UNCHANGED provenanceVars
    BY <1>0, <1>2, <1>8, <1>9 DEF WriteCompleted, provenanceVars, Event
  <1>10. CASE c.kind = "fail" /\ Succeeds(d) /\ WriteFailed(c.event, c.writes) /\ UNCHANGED provenanceVars
    <2>1. "status" \in c.writes \/ outbox[c.event].status # "in_progress"
      BY <1>1, <1>2, <1>10 DEF RunInOrder
    <2>2. QED
      BY <1>0, <1>2, <1>8, <1>10, <2>1 DEF WriteFailed, provenanceVars, Event
  <1>11. QED
    BY <1>1, <1>5, <1>6, <1>7, <1>9, <1>10 DEF Write
-----------------------------------------------------------------------------
\* A single run without faults keeps everything in order.
LEMMA OrderStep ==
  ASSUME RunsApart, RunsApart', DeliveryInv, OrderInv, [Next]_vars
  PROVE  OrderInv'
  <1>1. EventsHaveCreation /\ EventsHaveCreation'
    BY CreationStep DEF OrderInv
  <1>2. faults' = 0 => faults = 0
    <2>1. UNCHANGED faults \/ Fault
      BY DEF Next, vars, RunStep, RunGoesOn, RunFault, LateStep, Dispatch,
             DispatchWanted, RunNeverAsked, Claimed, CallRead, CallWrite, ClaimLost,
             CallTimeout, Killed, LateRead, LateWrite, LateLost, Create, ReadForPatch,
             CommitPatch, Expire
    <2>2. faults \in Nat
      BY DEF DeliveryInv, TypeOK
    <2>3. QED
      BY <2>1, <2>2 DEF Fault
  <1>3. ASSUME faults' = 0
        PROVE  RunsInOrder'
    <2>1. RunsInOrder /\ late = {}
      BY <1>2, <1>3 DEF OrderInv, RunsInOrder
    <2>2. CASE Aside
      BY <2>1, <2>2, AsideStep
    <2>3. ASSUME NEW d \in Dispatchers, Claims(d) \/ RunGoesOn(d)
          PROVE  RunsInOrder'
      <3>1. OneRun(d)
        <4>1. CASE Claims(d)
          BY <4>1 DEF Claims, ClaimRead, Put, RunsApart, OneRun
        <4>2. CASE RunGoesOn(d)
          BY <4>2
          DEF RunGoesOn, Claimed, ClaimCommit, CallRead, CallWrite, RunsApart, OneRun
        <4>3. QED
          BY <2>3, <4>1, <4>2
      <3>2. QED
        BY <1>1, <2>1, <2>3, <3>1, ClaimInOrder, ClaimedInOrder, CallReadInOrder,
           CallWriteInOrder DEF RunGoesOn
    <2>4. QED
      BY <1>1, <1>3, <2>1, <2>2, <2>3, QuietSteps
  <1>4. QED
    BY <1>1, <1>3 DEF OrderInv

\* As long as no two dispatch runs overlap the invariant holds throughout.
THEOREM OrderInvariance == Spec /\ []RunsApart => []OrderInv
  <1>1. Init => OrderInv
    BY DEF Init, ContextInit, ProvenanceInit, OrderInv, EventsHaveCreation, RunsInOrder,
           HistoryInOrder, Recorded
  <1>2. DeliveryInv /\ RunsApart /\ RunsApart' /\ OrderInv /\ [Next]_vars => OrderInv'
    BY OrderStep
  <1>3. QED
    BY <1>1, <1>2, DeliveryInvariance, PTL DEF Spec

\* Then, and until the first fault, the history is in order: expired leases, events
\* that fail for ever, overlapping writers and new events with an early created_at put
\* no transition before one of its task that comes before it.
THEOREM OrderIfApart == Spec /\ []RunsApart => []HistoryInOrderWithoutFaults
  <1>1. OrderInv => HistoryInOrderWithoutFaults
    BY DEF OrderInv, RunsInOrder, HistoryInOrderWithoutFaults
  <1>2. QED
    BY <1>1, OrderInvariance, PTL
=============================================================================
