------------------------------ MODULE OpsConsole ------------------------------
(***************************************************************************)
(* The browser page from which an operator creates, looks up and approves  *)
(* payments.  Its calls are asynchronous: what the operator does while one *)
(* is out is allowed, and every answer is applied when it arrives.  The    *)
(* services behind it are modelled by what they do to the status of a task *)
(* and to the idempotency key of a release (PaymentWorkflow has them in    *)
(* full); every conclusion of a release is settlement_pending here, a      *)
(* denied intake is left out, and this page is their only client.  Nobody  *)
(* edits the key the page proposes, and drawn keys differ.                 *)
(***************************************************************************)
EXTENDS Naturals, FiniteSets, SequencesExt, Dict

CONSTANTS
  Tasks,       \* the tasks there can be
  MaxRecent,   \* length of the list of recent tasks
  MaxCalls,    \* bound: calls the operator makes
  MaxFaults    \* bound: answers given up, or lost by a reload

NoTask == "none"

ASSUME ConsoleAssumption == MaxRecent \in Nat \ {0} /\ NoTask \notin Tasks

VARIABLES
  status,      \* the status of each task at the orchestrator
  usedBy,      \* at the gateway: the task each idempotency key released
  calls,       \* calls not answered yet, by number
  answers,     \* answers on their way, in the order in which what they say was read
  shown,       \* selectedTask: the task on display, with its status
  selected,    \* selectedTaskId
  key,         \* the idempotency key in the resume form
  fetching,    \* isFetchingTask
  recents,     \* recentTasks, kept in localStorage, the latest first
  sent,        \* the number of calls made so far
  overtaken,   \* an answer has arrived before one that was read earlier
  faults       \* number of faults so far

page == <<shown, selected, key, fetching>>
server == <<status, usedBy>>
vars == <<server, calls, answers, page, recents, sent, overtaken, faults>>
-----------------------------------------------------------------------------
Status == {"none", "awaiting_approval", "exception", "approved", "settlement_pending"}
View == [task: Tasks, status: Status]
NoView == [task |-> NoTask, status |-> "none"]
Key == [task: Tasks, number: Nat]
NoKey == [task |-> NoTask, number |-> 0]
Call ==
  [kind: {"get", "create", "resume"}, task: Tasks \cup {NoTask},
   key: Key \cup {NoKey},
   awaited: BOOLEAN,     \* the page still waits for the answer
   approved: BOOLEAN]    \* of a resume: approved, its release not asked for yet
Reply ==
  [call: Nat, kind: {"get", "create", "resume"}, task: Tasks,
   status: Status \cup {"error"}]

TypeOK ==
  /\ status \in [Tasks -> Status]
  /\ IsDict(usedBy, Key, Tasks)
  /\ IsDict(calls, Nat, Call)
  /\ answers \in Seq(Reply)
  /\ shown \in View \cup {NoView}
  /\ selected \in Tasks \cup {NoTask}
  /\ key \in Key \cup {NoKey}
  /\ fetching \in BOOLEAN
  /\ recents \in Seq(View) /\ Len(recents) <= MaxRecent
  /\ sent \in Nat /\ overtaken \in BOOLEAN /\ faults \in Nat

FreshPage == shown = NoView /\ selected = NoTask /\ key = NoKey /\ fetching = FALSE
Init ==
  /\ status = [t \in Tasks |-> "none"]
  /\ usedBy = Empty
  /\ calls = Empty /\ answers = <<>>
  /\ FreshPage
  /\ recents = <<>>
  /\ sent = 0 /\ overtaken = FALSE /\ faults = 0
-----------------------------------------------------------------------------
Fault == faults < MaxFaults /\ faults' = faults + 1

Awaits(kind) ==
  \/ \E c \in DOMAIN calls : calls[c].kind = kind /\ calls[c].awaited
  \/ \E i \in DOMAIN answers : answers[i].kind = kind

Send(kind, t, k) ==
  /\ calls' = Put(calls, sent + 1,
                  [kind |-> kind, task |-> t, key |-> k,
                   awaited |-> TRUE, approved |-> FALSE])
  /\ sent' = sent + 1

\* The effect on selectedTaskId runs when it changes, and only then.
SetSelected(t) ==
  /\ selected' = t
  /\ \/ t # selected /\ Send("get", t, NoKey) /\ fetching' = TRUE
     \/ t = selected /\ UNCHANGED <<calls, sent, fetching>>

\* selectTask, from a list of recent tasks, and handleLoadTask, from a typed id.
Select(t) ==
  /\ sent < MaxCalls
  /\ (\E i \in DOMAIN recents : recents[i].task = t) \/ (~fetching /\ status[t] # "none")
  /\ SetSelected(t)
  /\ UNCHANGED <<server, answers, shown, key, recents, overtaken, faults>>

Refresh ==
  /\ sent < MaxCalls
  /\ shown # NoView /\ ~fetching
  /\ SetSelected(shown.task)
  /\ UNCHANGED <<server, answers, shown, key, recents, overtaken, faults>>

Create ==
  /\ sent < MaxCalls /\ ~Awaits("create")
  /\ Send("create", NoTask, NoKey)
  /\ UNCHANGED <<server, answers, page, recents, overtaken, faults>>

Resume ==
  /\ sent < MaxCalls /\ ~Awaits("resume")
  /\ shown.status = "awaiting_approval"
  /\ Send("resume", shown.task, key)
  /\ UNCHANGED <<server, answers, page, recents, overtaken, faults>>

\* The page is loaded again: what it waited for reaches nobody.
Reload ==
  /\ \/ /\ answers = <<>> /\ \A c \in DOMAIN calls : ~calls[c].awaited
        /\ UNCHANGED faults
     \/ Fault
  /\ shown' = NoView /\ selected' = NoTask /\ key' = NoKey /\ fetching' = FALSE
  /\ answers' = <<>>
  /\ calls' = [c \in DOMAIN calls |-> [calls[c] EXCEPT !.awaited = FALSE]]
  /\ UNCHANGED <<server, recents, sent, overtaken>>
-----------------------------------------------------------------------------
\* The services.  A call that was given up may be served nevertheless.  An answer is
\* on its way once the status it will report has been read; what else the orchestrator
\* does before it sends it, other calls of its own among it, delays it like the network.
AnswerCall(c, t, st) ==
  /\ calls' = Drop(calls, c)
  /\ answers' = IF calls[c].awaited
                THEN Append(answers, [call |-> c, kind |-> calls[c].kind,
                                      task |-> t, status |-> st])
                ELSE answers

ServeGet(c) ==
  /\ calls[c].kind = "get"
  /\ AnswerCall(c, calls[c].task, status[calls[c].task])
  /\ UNCHANGED server

ServeCreate(c, t, st) ==
  /\ calls[c].kind = "create" /\ status[t] = "none"
  /\ status' = [status EXCEPT ![t] = st]
  /\ AnswerCall(c, t, st)
  /\ UNCHANGED usedBy

\* A task that does not wait for approval is refused; another one is approved,
\* and then its release is asked for.
RefuseResume(c) ==
  /\ calls[c].kind = "resume" /\ ~calls[c].approved
  /\ status[calls[c].task] # "awaiting_approval"
  /\ AnswerCall(c, calls[c].task, "error")
  /\ UNCHANGED server

Approve(c) ==
  /\ calls[c].kind = "resume" /\ ~calls[c].approved
  /\ status[calls[c].task] = "awaiting_approval"
  /\ status' = [status EXCEPT ![calls[c].task] = "approved"]
  /\ calls' = [calls EXCEPT ![c].approved = TRUE]
  /\ UNCHANGED <<usedBy, answers>>

\* The gateway refuses a key that released another task.
Release(c) ==
  /\ calls[c].kind = "resume" /\ calls[c].approved
  /\ LET t == calls[c].task
         k == calls[c].key
     IN \/ /\ k \in DOMAIN usedBy /\ usedBy[k] # t
           /\ AnswerCall(c, t, "error")
           /\ UNCHANGED server
        \/ /\ k \in DOMAIN usedBy => usedBy[k] = t
           /\ usedBy' = Put(usedBy, k, t)
           /\ status' = [status EXCEPT ![t] = "settlement_pending"]
           /\ AnswerCall(c, t, "settlement_pending")

Serve ==
  /\ \E c \in DOMAIN calls :
       \/ ServeGet(c)
       \/ \E t \in Tasks, st \in {"awaiting_approval", "exception"} :
            ServeCreate(c, t, st)
       \/ RefuseResume(c) \/ Approve(c) \/ Release(c)
  /\ UNCHANGED <<page, recents, sent, overtaken, faults>>

\* The page gives a call up: the connection breaks, or the proxy times out.
GiveUp(c) ==
  /\ Fault
  /\ calls[c].awaited
  /\ calls' = [calls EXCEPT ![c].awaited = FALSE]
  /\ fetching' = (fetching /\ calls[c].kind # "get")
  /\ UNCHANGED <<server, answers, shown, selected, key, recents, sent, overtaken>>
-----------------------------------------------------------------------------
\* upsertRecentTask.
PushedToAny(list, view) == <<view>> \o list
Pushed(list, view) == SubSeq(<<view>> \o list, 1, Min({MaxRecent, Len(list) + 1}))
PushedOnce(list, view) ==
  IF \E i \in DOMAIN list : list[i].task = view.task THEN list ELSE Pushed(list, view)
Without(list, t) == RemoveFirstMatch(list, LAMBDA other : other.task = t)
Upsert(list, view) == Pushed(Without(list, view.task), view)

FreshKey(reply) == [task |-> reply.task, number |-> reply.call]
KeptKey(reply) == IF key = NoKey THEN FreshKey(reply) ELSE key
NextKey(reply) == IF reply.kind = "get" THEN KeptKey(reply) ELSE FreshKey(reply)

\* An answer is applied when it arrives, whatever the page shows by now.
Apply(reply) ==
  LET view == [task |-> reply.task, status |-> reply.status] IN
    /\ shown' = view
    /\ recents' = Upsert(recents, view)
    /\ key' = NextKey(reply)
    /\ \/ reply.kind = "create" /\ SetSelected(reply.task)
       \/ /\ reply.kind # "create"
          /\ fetching' = (fetching /\ reply.kind # "get")
          /\ UNCHANGED <<calls, selected, sent>>

\* Answers arrive in any order.
Deliver(n) ==
  /\ overtaken' = (overtaken \/ n > 1)
  /\ answers' = RemoveAt(answers, n)
  /\ \/ answers[n].status # "error" /\ Apply(answers[n])
     \/ answers[n].status = "error" /\ UNCHANGED <<calls, page, recents, sent>>
  /\ UNCHANGED <<server, faults>>

Next ==
  \/ \E t \in Tasks : Select(t)
  \/ Refresh \/ Create \/ Resume \/ Reload
  \/ Serve
  \/ \E c \in DOMAIN calls : GiveUp(c)
  \/ \E n \in DOMAIN answers : Deliver(n)

Spec == Init /\ [][Next]_vars
-----------------------------------------------------------------------------
(***************************************************************************)
(* Properties, of a page that no fault has happened to.                    *)
(***************************************************************************)
Quiet == faults = 0 /\ calls = Empty /\ answers = <<>>

\* When no call is out, the task on display and every recent task have the status
\* the orchestrator has for them, in whatever order the operator selected,
\* created and approved tasks while answers were due, as long as the answers arrived
\* in the order of their reads (nothing in the page or in HTTP keeps it).
QuietIsCurrent ==
  Quiet /\ ~overtaken =>
           \A view \in {shown} \cup ToSet(recents) :
             view # NoView => view.status = status[view.task]

\* An approval is not wasted: no key that released one task is sent for another,
\* which would leave that one approved, unreleased and out of every queue, in whatever
\* order answers arrive.
NoApprovalWasted == Quiet => \A t \in Tasks : status[t] # "approved"

\* As long as the list has room for every task, no task that waits for approval
\* is missing from it, and so from the approval queue, in whatever order answers arrive.
Known == {t \in Tasks : status[t] # "none"}
QueueHasAwaiting ==
  Quiet /\ Cardinality(Known) <= MaxRecent =>
    \A t \in Tasks :
      status[t] = "awaiting_approval" => \E i \in DOMAIN recents : recents[i].task = t
-----------------------------------------------------------------------------
\* Whatever faults there are, the page knows only tasks that exist, a task on display
\* comes with a key, and the list holds a task once.
OnePerTask(list) ==
  \A i, j \in DOMAIN list : list[i].task = list[j].task => i = j

PageKnown ==
  /\ IsFiniteSet(Known)
  /\ shown # NoView => shown.task \in Known /\ key \in Key
  /\ \A i \in DOMAIN recents : recents[i].task \in Known
  /\ OnePerTask(recents)
  /\ \A i \in DOMAIN answers : answers[i].task \in Known
  /\ \A c \in DOMAIN calls :
       /\ calls[c].kind # "create" => calls[c].task \in Known
       /\ calls[c].kind = "resume" => calls[c].key \in Key

\* What is known of t, st, is what the orchestrator has, or the news are on their
\* way: an answer later than the n-th, or a release that is about to be answered.
News(i, t) == answers[i].task = t /\ answers[i].status # "error"
UpToDate(t, st, n) ==
  \/ st = status[t]
  \/ \E i \in DOMAIN answers : i > n /\ News(i, t)
  \/ \E c \in DOMAIN calls : calls[c].approved /\ calls[c].task = t

ViewsUpToDate ==
  \A view \in {shown} \cup ToSet(recents) :
    view # NoView => UpToDate(view.task, view.status, 0)
AnswersUpToDate ==
  \A i \in DOMAIN answers :
    answers[i].status # "error" => UpToDate(answers[i].task, answers[i].status, i)
ApprovalsAtWork ==
  \A t \in Tasks : status[t] = "approved" =>
    \E c \in DOMAIN calls : calls[c].approved /\ calls[c].task = t
AllListed ==
  Cardinality(Known) <= MaxRecent =>
    \A t \in Known : \/ \E i \in DOMAIN recents : recents[i].task = t
                     \/ \E i \in DOMAIN answers : News(i, t)
PageUpToDate ==
  /\ ApprovalsAtWork /\ AllListed
  /\ overtaken \/ (ViewsUpToDate /\ AnswersUpToDate)

\* A call is waited for, and is not answered yet; a call is answered once.
CallsAwaited ==
  \A c \in DOMAIN calls :
    /\ c \in 1 .. sent /\ calls[c].awaited
    /\ \A i \in DOMAIN answers : answers[i].call # c
AnsweredOnce ==
  \A i \in DOMAIN answers :
    /\ answers[i].call \in 1 .. sent
    /\ \A j \in DOMAIN answers : answers[i].call = answers[j].call => i = j

\* One resume at a time, and its key has released nothing yet.
OneResume ==
  \A c \in DOMAIN calls :
    /\ calls[c].approved => calls[c].kind = "resume"
    /\ calls[c].kind = "resume" =>
         /\ calls[c].key \notin DOMAIN usedBy
         /\ \A e \in DOMAIN calls : calls[e].kind = "resume" => e = c
         /\ \A i \in DOMAIN answers : answers[i].kind # "resume"

\* A key is drawn with an answer that reached the page, so that no answer which is
\* still to come brings it again; the key of the page has released a task only if
\* the answer that replaces it is on its way.
KeysDrawn ==
  \A k \in DOMAIN usedBy \cup {key} \cup {calls[c].key : c \in DOMAIN calls} :
    /\ k.number <= sent
    /\ \A c \in DOMAIN calls : k.number # c
    /\ \A i \in DOMAIN answers : k.number # answers[i].call
KeyTold ==
  key \in DOMAIN usedBy =>
    \E i \in DOMAIN answers : answers[i].kind = "resume" /\ answers[i].status # "error"
KeysUnused == CallsAwaited /\ AnsweredOnce /\ OneResume /\ KeysDrawn /\ KeyTold

\* The inductive invariant: until the first fault no task and no approval is lost on
\* the page, and until an answer is overtaken all it shows is current or about to be
\* replaced.
ConsoleInv ==
  /\ TypeOK
  /\ PageKnown
  /\ faults = 0 => PageUpToDate /\ KeysUnused
=============================================================================
