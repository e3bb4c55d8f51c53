----------------------------- MODULE EventConsumer -----------------------------
(***************************************************************************)
(* The event-consumer and the two stores it connects: every dispatch run   *)
(* claims a batch of outbox events from the context store and, for each    *)
(* event in order, records it in the provenance store and completes it in  *)
(* the outbox, or marks it failed.  Runs are started by HTTP requests and  *)
(* by nothing else: a client of the stores sends one after each write it   *)
(* has made, anyone else may send one at any time (if Uninvited), and      *)
(* several may be in progress.                                             *)
(*                                                                         *)
(* A call is a request to one of the stores.  Its caller may give up on it *)
(* (a timeout, a lost response) while the store still serves it: the call  *)
(* is then late, and it may take effect at any later time or never.        *)
(***************************************************************************)
EXTENDS ContextStore, ProvenanceStore

CONSTANTS
  Uninvited,   \* if anyone but the clients of the stores asks for runs
  MaxFaults    \* bound on timeouts, lost responses and killed runs

VARIABLES
  wanted,      \* writes after which the client has yet to ask for a run
  working,     \* the dispatch runs that hold a batch: what is left, the call made
  late,        \* calls nobody waits for any more
  faults       \* number of faults so far

vars == <<contextVars, provenanceVars, wanted, working, late, faults>>

ASSUME FaultsAssumption == MaxFaults \in Nat /\ Uninvited \in BOOLEAN

Call ==
  [kind: {"ensure", "append", "complete", "fail"}, event: Nat,
   writes: SUBSET {"row", "status", "lease"}]    \* found missing when it read
Run == [batch: SUBSET Nat, call: Call]

TypeOK ==
  /\ ContextTypeOK
  /\ opened \subseteq Tasks
  /\ history \in Seq(Nat)
  /\ wanted \in Nat
  /\ IsDict(working, Dispatchers, Run)
  /\ late \subseteq Call
  /\ faults \in Nat

Init ==
  /\ ContextInit
  /\ ProvenanceInit
  /\ wanted = 0
  /\ working = Empty
  /\ late = {}
  /\ faults = 0
-----------------------------------------------------------------------------
TaskOf(call) == outbox[call.event].task

\* append_state_transition is refused while the task has no provenance record.
NeverRefused(call) == FALSE
Refused(call) ==
  call.kind = "append" /\ ~Recorded(call.event) /\ TaskOf(call) \notin opened

\* What the handler finds it has to write.
Missing(call) ==
  CASE call.kind = "ensure"   -> IF TaskOf(call) \in opened THEN {} ELSE {"row"}
    [] call.kind = "append"   -> IF Recorded(call.event) THEN {} ELSE {"row"}
    [] call.kind = "complete" -> ToComplete(call.event)
    [] call.kind = "fail"     -> ToFail(call.event)

\* The insertion breaks a constraint: another call came first, or the text of
\* the event is too long for its column.
NoConstraint(call) == FALSE
Conflicts(call) ==
  \/ call.kind = "ensure" /\ TaskOf(call) \in opened
  \/ call.kind = "append" /\ Recorded(call.event)
  \/ call.kind \in {"ensure", "append"} /\ ~outbox[call.event].fits

\* The handler's commit.
Write(call) ==
  \/ /\ call.kind = "ensure"
     /\ InsertProvenance(TaskOf(call))
     /\ UNCHANGED contextVars
  \/ /\ call.kind = "append"
     /\ InsertTransition(call.event)
     /\ UNCHANGED contextVars
  \/ /\ call.kind = "complete"
     /\ WriteCompleted(call.event)
     /\ UNCHANGED provenanceVars
  \/ /\ call.kind = "fail"
     /\ WriteFailed(call.event, call.writes)
     /\ UNCHANGED provenanceVars
-----------------------------------------------------------------------------
NewCall(kind, i) == [kind |-> kind, event |-> i, writes |-> {}]

Newest(i, batch) == i \in batch /\ \A j \in batch : outbox[j].stamp <= outbox[i].stamp
Oldest(i, batch) == i \in batch /\ \A j \in batch : outbox[i].stamp <= outbox[j].stamp

\* Run d turns to the oldest event of the batch: ensure_task_provenance for a
\* creation, then append_state_transition.
Start(d, batch) ==
  \E i \in DOMAIN outbox :
    /\ Oldest(i, batch)
    /\ working' = Put(working, d,
         [batch |-> batch,
          call |-> NewCall(IF outbox[i].from = NoStatus THEN "ensure" ELSE "append", i)])

\* What a successful call is followed by, for the same event.
CompleteAnyway(kind) == IF kind = "ensure" THEN "complete" ELSE kind
Following(kind) == IF kind = "ensure" THEN "append" ELSE "complete"

\* What is left of a batch after the last call for an event: a failure does not
\* end the run.
LeftUnlessFailed(c, batch) ==
  IF c.kind = "fail" THEN {} ELSE batch \ {c.event}
Left(c, batch) == batch \ {c.event}

\* The run goes on: with the same event, with the next one, or it is over.  An
\* error of fail_event is caught by nobody and ends the run.
Succeeds(d) ==
  LET c == working[d].call
      rest == Left(c, working[d].batch)
  IN \/ /\ c.kind \in {"ensure", "append"}
        /\ working' = [working EXCEPT ![d].call =
                         NewCall(Following(c.kind), c.event)]
     \/ /\ c.kind \in {"complete", "fail"} /\ rest # {}
        /\ Start(d, rest)
     \/ /\ c.kind \in {"complete", "fail"} /\ rest = {}
        /\ working' = Drop(working, d)

Errs(d) ==
  LET c == working[d].call
  IN \/ /\ c.kind # "fail"
        /\ working' = [working EXCEPT ![d].call = NewCall("fail", c.event)]
     \/ /\ c.kind = "fail"
        /\ working' = Drop(working, d)
-----------------------------------------------------------------------------
\* The store serves the call of run d: it reads, and answers at once if it
\* refuses the call or has nothing to write.
CallRead(d) ==
  /\ d \in DOMAIN working
  /\ LET c == working[d].call IN
       /\ c.writes = {}
       /\ \/ Refused(c) /\ Errs(d)
          \/ ~Refused(c) /\ Missing(c) = {} /\ Succeeds(d)
          \/ /\ ~Refused(c) /\ Missing(c) # {}
             /\ working' = [working EXCEPT ![d].call.writes = Missing(c)]
  /\ UNCHANGED <<contextVars, provenanceVars, wanted, late, faults>>

\* The store commits the write of the call of run d and answers.
CallWrite(d) ==
  /\ d \in DOMAIN working
  /\ LET c == working[d].call IN
       /\ c.writes # {}
       /\ \/ Conflicts(c) /\ Errs(d) /\ UNCHANGED <<contextVars, provenanceVars>>
          \/ ~Conflicts(c) /\ Write(c) /\ Succeeds(d)
  /\ UNCHANGED <<wanted, late, faults>>

Fault == faults < MaxFaults /\ faults' = faults + 1

\* Run d gives up waiting for its call.
CallTimeout(d) ==
  /\ Fault
  /\ d \in DOMAIN working
  /\ late' = late \cup {working[d].call}
  /\ Errs(d)
  /\ UNCHANGED <<contextVars, provenanceVars, wanted>>

\* Run d is killed; nobody waits for its call.
Killed(d) ==
  /\ Fault
  /\ d \in DOMAIN working
  /\ late' = late \cup {working[d].call}
  /\ working' = Drop(working, d)
  /\ UNCHANGED <<contextVars, provenanceVars, wanted>>

\* A late call is served like any other, or is lost.
LateRead(c) ==
  /\ c \in late /\ c.writes = {}
  /\ late' = (late \ {c}) \cup
       (IF Refused(c) \/ Missing(c) = {} THEN {}
        ELSE {[c EXCEPT !.writes = Missing(c)]})
  /\ UNCHANGED <<contextVars, provenanceVars, wanted, working, faults>>

LateWrite(c) ==
  /\ c \in late /\ c.writes # {}
  /\ late' = late \ {c}
  /\ \/ Conflicts(c) /\ UNCHANGED <<contextVars, provenanceVars>>
     \/ ~Conflicts(c) /\ Write(c)
  /\ UNCHANGED <<wanted, working, faults>>

LateLost(c) ==
  /\ c \in late
  /\ late' = late \ {c}
  /\ UNCHANGED <<contextVars, provenanceVars, wanted, working, faults>>
-----------------------------------------------------------------------------
\* process_once begins by claiming; a run that nobody had to ask for.
Dispatch(d) ==
  /\ Uninvited
  /\ d \notin DOMAIN working
  /\ ClaimRead(d)
  /\ UNCHANGED <<provenanceVars, wanted, working, late, faults>>

\* The run a client asks for after its write; the batch is empty when nothing is
\* due, and the run is over.
DispatchWanted(d) ==
  /\ wanted > 0
  /\ wanted' = wanted - 1
  /\ d \notin DOMAIN working
  /\ \/ ClaimRead(d)
     \/ Due = {} /\ d \notin DOMAIN claiming /\ UNCHANGED contextVars
  /\ UNCHANGED <<provenanceVars, working, late, faults>>

\* The client dies after its write, or its request for a run is lost.
RunNeverAsked ==
  /\ Fault
  /\ wanted > 0
  /\ wanted' = wanted - 1
  /\ UNCHANGED <<contextVars, provenanceVars, working, late>>

Claimed(d) ==
  /\ ClaimCommit(d)
  /\ Start(d, DOMAIN claiming[d])
  /\ UNCHANGED <<provenanceVars, wanted, late, faults>>

\* The claim or its answer is lost: the run ends, its events may stay claimed.
ClaimLost(d) ==
  /\ Fault
  /\ ClaimCommit(d) \/ ClaimAbort(d)
  /\ UNCHANGED <<provenanceVars, wanted, working, late>>

\* The writes of a client: it asks for a run after each.
Create(task, row, fits) ==
  /\ CreateTask(task, row, fits)
  /\ wanted' = wanted + 1
  /\ UNCHANGED <<provenanceVars, working, late, faults>>
ReadForPatch(w, task, patch) ==
  /\ PatchRead(w, task, patch)
  /\ UNCHANGED <<provenanceVars, wanted, working, late, faults>>
CommitPatch(w, fits) ==
  /\ PatchCommit(w, fits)
  /\ wanted' = wanted + 1
  /\ UNCHANGED <<provenanceVars, working, late, faults>>
Expire(i) ==
  /\ LeaseExpires(i)
  /\ UNCHANGED <<provenanceVars, wanted, working, late, faults>>

RunGoesOn(d) == Claimed(d) \/ CallRead(d) \/ CallWrite(d)
RunStep(d) == Dispatch(d) \/ DispatchWanted(d) \/ RunGoesOn(d)
RunFault(d) == ClaimLost(d) \/ CallTimeout(d) \/ Killed(d)
LateStep(c) == LateRead(c) \/ LateWrite(c) \/ LateLost(c)

Next ==
  \/ \E task \in Tasks, row \in NewRows, fits \in Fits : Create(task, row, fits)
  \/ \E w \in Writers, task \in Tasks, patch \in Patches :
       ReadForPatch(w, task, patch)
  \/ \E w \in Writers, fits \in Fits : CommitPatch(w, fits)
  \/ \E i \in DOMAIN outbox : Expire(i)
  \/ \E d \in Dispatchers : RunStep(d) \/ RunFault(d)
  \/ RunNeverAsked
  \/ \E c \in late : LateStep(c)

Spec == Init /\ [][Next]_vars

\* A run that a client asks for is started, and a run that was started goes on: the
\* stores serve what it sends.  Nothing else starts a run, and no lease need expire.
Fairness == \A d \in Dispatchers : WF_vars(DispatchWanted(d) \/ RunGoesOn(d))

FairSpec == Spec /\ Fairness
-----------------------------------------------------------------------------
(***************************************************************************)
(* Properties.                                                             *)
(***************************************************************************)
\* An event is completed only once its transition is in the history: neither an
\* expired lease, nor a second run, nor a late answer loses a transition.
CompletedIsRecorded ==
  \A i \in DOMAIN outbox : outbox[i].status = "completed" => Recorded(i)

\* However often an event is dispatched, the history holds its transition once,
\* under a task whose provenance record exists.
RecordedOnce ==
  /\ \A m, n \in DOMAIN history : history[m] = history[n] => m = n
  /\ \A n \in DOMAIN history :
       history[n] \in DOMAIN outbox /\ outbox[history[n]].task \in opened

\* No two requests patch one row at once; no two dispatch runs are in progress at once.
PatchesApart ==
  \A v, w \in DOMAIN patching : patching[v].task = patching[w].task => v = w
RunsApart == \A d, e \in DOMAIN working \cup DOMAIN claiming : d = e

\* With one writer at a time the outbox is the story of the row: each event
\* leaves the status its predecessor reached, and the last one is the row.
OutboxTellsRow ==
  \A i \in DOMAIN outbox :
    LET later == {j \in DOMAIN outbox : j > i /\ outbox[j].task = outbox[i].task}
    IN IF later = {} THEN tasks[outbox[i].task] = outbox[i].row
       ELSE \E j \in later :
              /\ \A k \in later : j <= k
              /\ outbox[j].from = outbox[i].row["status"]

\* Event i comes before event j: it was committed first, and its transaction had
\* started first.  Events of overlapping transactions may come in either order.
Before(i, j) == i < j /\ outbox[i].stamp < outbox[j].stamp

\* No transition is recorded before one of its task whose event comes before.
HistoryInOrder ==
  \A m, n \in DOMAIN history :
    m < n /\ outbox[history[m]].task = outbox[history[n]].task
      => ~Before(history[n], history[m])

\* Until the first fault the history is in order: expired leases, events that fail
\* for ever, overlapping writers and new events with an early created_at put no
\* transition before one of its task that comes before it.
HistoryInOrderWithoutFaults == faults = 0 => HistoryInOrder

\* A run that holds event i, or a late call about it.
Held(i) ==
  \/ \E d \in DOMAIN claiming : i \in DOMAIN claiming[d]
  \/ \E d \in DOMAIN working : i \in working[d].batch
  \/ \E c \in late : c.event = i

\* An event in progress that nobody works on can be claimed again once its lease
\* has expired: none is out of reach of all later claims.
NoEventStranded ==
  \A i \in DOMAIN outbox :
    outbox[i].status = "in_progress" /\ ~Held(i) => outbox[i].lease # "none"

\* An event that can never be projected: its own text does not fit, or that of
\* the creation of its task.  It fails and is claimed again, for ever.
Poisoned(i) ==
  \E j \in DOMAIN outbox :
    /\ outbox[j].task = outbox[i].task /\ ~outbox[j].fits
    /\ j = i \/ outbox[j].from = NoStatus

Poison == {i \in DOMAIN outbox : Poisoned(i)}
Unrecorded == {i \in DOMAIN outbox \ Poison : ~Recorded(i)}

\* Without a fault, with no two runs at once, and as long as events that can never
\* be projected do not fill a whole claim, the runs that clients ask for record
\* every other event, although a failed event comes first in every later claim and
\* there are no runs but those.
EventuallyAligned ==
  [](faults = 0 /\ RunsApart /\ Cardinality(Poison) < Limit) => <>[](Unrecorded = {})

\* What faults left behind, the batch of a killed run, an event that was put aside, a
\* run that was never asked for, waits for the next write of anybody: the run after
\* it records all of it, once every lease has expired and if the events that are not
\* completed fit into one claim.  (The last fault and the last write are over.)
Quiet ==
  /\ faults = MaxFaults /\ clock = MaxEvents
  /\ late = {} /\ patching = Empty /\ working = Empty /\ claiming = Empty
Unfinished == {i \in DOMAIN outbox : outbox[i].status # "completed"}
LeasesOver ==
  \A i \in DOMAIN outbox :
    outbox[i].status = "in_progress" => outbox[i].lease = "expired"
NextWriteAligns ==
  (Quiet /\ LeasesOver /\ Cardinality(Unfinished) <= Limit /\ wanted > 0)
    ~> (Unrecorded = {})

Delivery == INSTANCE EventDelivery WITH
  emitted   <- [i \in DOMAIN outbox |-> outbox[i].task],
  delivered <- history,
  acked     <- {i \in DOMAIN outbox : outbox[i].status = "completed"}

\* Claims, leases, retries and late calls together deliver each event once.
ImplementsDelivery == Delivery!Spec

SingleStore == INSTANCE MemoryService WITH
  history  <- [i \in DOMAIN outbox |->
                 [task |-> outbox[i].task, from |-> outbox[i].from,
                  to |-> outbox[i].row["status"]]],
  patching <- [w \in DOMAIN patching |->
                 [task |-> patching[w].task, patch |-> patching[w].patch,
                  row |-> patching[w].row]]

\* Rows and outbox, however many writers patch one task at once, are the rows and
\* the state history of the single store they replace: the split takes nothing
\* away from its writers.  (A text too long for its column, which that store
\* refuses with the whole request, is not told apart here.)
ImplementsMemoryService == SingleStore!Spec
-----------------------------------------------------------------------------
\* A call is about an event of the outbox: it completes an event only once it is
\* recorded, and is about to append only where the provenance record exists.
CallBacked(c) ==
  /\ c.event \in DOMAIN outbox
  /\ c.kind = "complete" => Recorded(c.event)
  /\ c.kind = "append" /\ c.writes # {} => TaskOf(c) \in opened

CallsBacked ==
  /\ \A d \in DOMAIN working : CallBacked(working[d].call)
  /\ \A c \in late : CallBacked(c)

\* The inductive invariant: every call that is on its way, awaited or late, is
\* still justified by what the stores hold.
DeliveryInv ==
  /\ TypeOK
  /\ CallsBacked
  /\ CompletedIsRecorded
  /\ RecordedOnce
-----------------------------------------------------------------------------
\* Event k creates task t: no other one does, and the other events of t follow.
Creates(k, t) ==
  /\ outbox[k].task = t /\ outbox[k].from = NoStatus
  /\ \A i \in DOMAIN outbox \ {k} :
       outbox[i].task = t => outbox[i].from # NoStatus /\ Before(k, i)

\* Every task the stores and the writers know has its creation in the outbox, and
\* no transaction that patches a task started before the creation of the task did.
EventsHaveCreation ==
  /\ \A i \in DOMAIN outbox : outbox[i].stamp <= clock
  /\ \A w \in DOMAIN patching :
       /\ patching[w].task \in DOMAIN tasks /\ patching[w].stamp <= clock
       /\ \A k \in DOMAIN outbox :
            Creates(k, patching[w].task) => outbox[k].stamp < patching[w].stamp
  /\ \A i \in DOMAIN outbox : outbox[i].task \in DOMAIN tasks
  /\ \A t \in DOMAIN tasks : \E k \in DOMAIN outbox : Creates(k, t)
  /\ opened \subseteq DOMAIN tasks

\* The events before i are in S, recorded, or can never be projected.
AllBefore(i, S) ==
  \A j \in DOMAIN outbox : Before(j, i) => j \in S \/ Recorded(j) \/ Poisoned(j)

\* A run is at its oldest event, nothing older is left to record, and its call
\* fails only if the event can never be projected.
RunInOrder(d) ==
  LET c == working[d].call
      batch == working[d].batch
  IN /\ batch \subseteq DOMAIN outbox /\ Oldest(c.event, batch)
     /\ \A i \in batch : AllBefore(i, batch)
     /\ c.kind = "ensure" =>
          /\ outbox[c.event].from = NoStatus
          /\ c.writes # {} => TaskOf(c) \notin opened
     /\ c.kind = "append" =>
          /\ outbox[c.event].from = NoStatus => TaskOf(c) \in opened
          /\ c.writes # {} => ~Recorded(c.event)
     /\ c.kind = "fail" =>
          /\ Poisoned(c.event)
          /\ c.writes # {} =>
               "status" \in c.writes \/ outbox[c.event].status # "in_progress"

\* The inductive invariant of a single run without faults: an event is claimed,
\* recorded and put aside only after the ones that come before it.
RunsInOrder ==
  /\ late = {}
  /\ \A d \in DOMAIN working : d \notin DOMAIN claiming /\ RunInOrder(d)
  /\ \A d \in DOMAIN claiming : \A i \in DOMAIN claiming[d] :
       AllBefore(i, DOMAIN claiming[d])
  /\ \A i \in DOMAIN outbox :
       /\ outbox[i].status = "in_progress" =>
            \E d \in DOMAIN working : i \in working[d].batch
       /\ Recorded(i) => AllBefore(i, {})
       /\ outbox[i].from = NoStatus /\ outbox[i].task \in opened => outbox[i].fits
  /\ HistoryInOrder

OrderInv == EventsHaveCreation /\ (faults = 0 => RunsInOrder)
=============================================================================
