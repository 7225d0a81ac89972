----------------------------- MODULE TaskBoard ------------------------------
(***************************************************************************)
(* The task board: the acts task_create, task_transition and task_update   *)
(* of sciteam/comm/service.py with the state machine and dependencies of   *)
(* comm/board.py, and what the scheduler makes of their events             *)
(* (runtime/attention.py): who is told that there is something to do.      *)
(*                                                                         *)
(* An act is decided in one step against the folded board, under the lock  *)
(* of CommService; its domain events are then appended one at a time, and  *)
(* every append is folded at once.  The process may die between appends.   *)
(* The institution's gate is modelled in ActPath.                          *)
(***************************************************************************)
EXTENDS Integers, Sequences, FiniteSets, SequencesExt

CONSTANTS
  Member, Agent,   \* the roster, and those of it the scheduler wakes
  None,            \* no assignee, no reviewer; the actor of no act
  Policy,          \* transition (or "edit") -> the roles the policy lets do it
  WakeOn,          \* the task item kinds of policy.wake_on
  Creator,         \* the members that create tasks
  Reviewer,        \* the reviewers tasks are given (None: no reviewer)
  DepTypes,        \* the dependency types used, of "FS", "SS", "FF", "SF"
  UpdatesDeps,     \* task_update may change dependencies
  Subtasks,        \* tasks may have a parent
  MaxTasks,        \* bound on tasks
  MaxDeps,         \* bound on the dependencies of a task
  MaxCrashes       \* bound on deaths of the process

Transitions ==
  [assign   |-> [from |-> {"open", "assigned"}, to |-> "assigned"],
   claim    |-> [from |-> {"open"},        to |-> "assigned"],
   unassign |-> [from |-> {"assigned"},    to |-> "open"],
   start    |-> [from |-> {"assigned"},    to |-> "in_progress"],
   block    |-> [from |-> {"in_progress"}, to |-> "blocked"],
   unblock  |-> [from |-> {"blocked"},     to |-> "in_progress"],
   submit   |-> [from |-> {"in_progress"}, to |-> "in_review"],
   approve  |-> [from |-> {"in_review"},   to |-> "done"],
   reject   |-> [from |-> {"in_review"},   to |-> "in_progress"],
   reopen   |-> [from |-> {"done"},        to |-> "assigned"],
   cancel   |-> [from |-> {"open", "assigned", "in_progress", "blocked", "in_review"},
                 to |-> "cancelled"]]

Roles == {"anyone", "agent", "assignee", "reviewer", "creator", "party"}

\* The task item kinds, the most urgent first.
Priority == <<"task_review", "task_returned", "task_assigned", "task_ready", "task_open",
              "task_changed">>

ASSUME BoardAssumption ==
  /\ IsFiniteSet(Member) /\ Agent \subseteq Member /\ None \notin Member
  /\ Policy \in [DOMAIN Transitions \cup {"edit"} -> SUBSET Roles]
  /\ WakeOn \subseteq Range(Priority)
  /\ Creator \subseteq Member /\ Reviewer \subseteq Member \cup {None}
  /\ DepTypes \subseteq {"FS", "SS", "FF", "SF"}
  /\ {UpdatesDeps, Subtasks} \subseteq BOOLEAN
  /\ {MaxTasks, MaxDeps, MaxCrashes} \subseteq Nat

VARIABLES
  tasks,     \* the tasks T1, T2, ... in order of creation
  act,       \* the allowed act whose events are being appended, or NoAct
  todo,      \* its events still to append, in order
  pending,   \* per agent: the waking attention items raised and not delivered
  seen,      \* per agent: of what it could take up now, what it has been shown
  crashes

board == <<tasks, act, todo>>
vars == <<tasks, act, todo, pending, seen, crashes>>

Ids == DOMAIN tasks
Terminal == {"done", "cancelled"}
Started == {"in_progress", "blocked", "in_review", "done"}
StartGating == {"FS", "SS"}
FinishGating == {"FF", "SF"}

Task(creator, reviewer, parent, deps) ==
  [status |-> "open", creator |-> creator, assignee |-> None, reviewer |-> reviewer,
   parent |-> parent, deps |-> deps]

NoAct == [actor |-> None, kind |-> "none", task |-> 0]

-----------------------------------------------------------------------------
(* board.py.  ts is a board: the one in force, or an earlier one.          *)

TargetState(task, tr) ==
  CASE tr = "submit" /\ task.reviewer = None -> "done"
    [] tr = "reopen" /\ task.assignee = None -> "open"
    [] OTHER -> Transitions[tr].to

\* Mutant: a cancelled predecessor holds its successors back.
CancelledHolds(type, status) ==
  \/ type \in {"FS", "FF"} /\ status = "done"
  \/ type \in {"SS", "SF"} /\ status \in Started

\* A cancelled predecessor releases its successors.
DepSatisfied(type, status) ==
  \/ status = "cancelled"
  \/ type \in {"FS", "FF"} /\ status = "done"
  \/ type \in {"SS", "SF"} /\ status \in Started

Unmet(ts, t, gate) ==
  {d \in ts[t].deps : d.type \in gate /\ ~DepSatisfied(d.type, ts[d.task].status)}

CheckTransition(t, tr, to) ==
  /\ tasks[t].status \in Transitions[tr].from
  /\ tr = "assign" => to \in Member
  /\ tr = "claim" => tasks[t].assignee = None
  /\ tr \in {"approve", "reject"} => tasks[t].reviewer # None
  /\ tr = "start" => Unmet(tasks, t, StartGating) = {}
  /\ tr = "submit" => Unmet(tasks, t, FinishGating) = {}

Successors(ts, t) == {s \in DOMAIN ts : \E d \in ts[s].deps : d.task = t}

\* The walk of would_cycle() and descendants(): all that `next` reaches from S.
Walk(next, S) ==
  LET seenAfter[k \in 0 .. MaxTasks] ==
        IF k = 0 THEN S
        ELSE LET s == seenAfter[k - 1] IN s \cup UNION {next[x] : x \in s}
  IN  seenAfter[MaxTasks]

\* Mutant: only looks for the task among the predecessors of its predecessors.
ShortCycle(t, deps) ==
  \E d \in deps : d.task = t \/ \E x \in tasks[d.task].deps : x.task = t

WouldCycle(t, deps) ==
  LET preds == [x \in Ids |-> {d.task : d \in IF x = t THEN deps ELSE tasks[x].deps}]
  IN  t \in Walk(preds, preds[t])

\* Mutant: the children alone.
Children(ts, t) == {y \in DOMAIN ts : ts[y].parent = t}

Descendants(ts, t) ==
  LET kids == [x \in DOMAIN ts |-> {y \in DOMAIN ts : ts[y].parent = x}]
  IN  Walk(kids, kids[t])

-----------------------------------------------------------------------------
(* PolicyGate.ask: the selectors of the policy, by the role they name.     *)

Parties(task) == ({task.creator, task.assignee, task.reviewer} \ {None})

HasRole(m, role, task) ==
  CASE role = "anyone"   -> TRUE
    [] role = "agent"    -> m \in Agent
    [] role = "assignee" -> m = task.assignee
    [] role = "reviewer" -> m = task.reviewer
    [] role = "creator"  -> m = task.creator
    [] role = "party"    -> m \in Parties(task)

May(m, what, task) == \E role \in Policy[what] : HasRole(m, role, task)

-----------------------------------------------------------------------------
(* attention.py: the items an event raises.  An event [actor, tr, task,    *)
(* new] is folded by putting `new` in the task's place; frm is the status  *)
(* it had.  ts is the board with the event folded.                         *)

OpenAndReady(ts, t) ==
  ts[t].status = "open" /\ ts[t].assignee = None /\ Unmet(ts, t, StartGating) = {}

Claimers(ts, t) == {m \in Agent : May(m, "claim", ts[t])}

\* What the event says of its own task: pairs of an agent and a kind.
OwnReasons(e, ts) ==
  LET t == ts[e.task]
      direct == CASE e.tr \in {"assign", "claim"} -> {<<t.assignee, "task_assigned">>}
                  [] e.tr = "submit" /\ t.status = "in_review" -> {<<t.reviewer, "task_review">>}
                  [] e.tr \in {"reject", "reopen"} -> {<<t.assignee, "task_returned">>}
                  [] OTHER -> {}
      changed == IF e.tr \in {"submit", "approve", "block", "cancel", "reopen", "unassign"}
                 THEN {<<t.creator, "task_changed">>}
                      \cup (IF e.tr = "cancel" THEN {<<t.assignee, "task_changed">>} ELSE {})
                 ELSE {}
      offered == IF e.tr \in {"create", "unassign", "reopen"} /\ OpenAndReady(ts, e.task)
                 THEN Claimers(ts, e.task) \X {"task_open"} ELSE {}
  IN  direct \cup changed \cup offered

\* _readiness: what it says of a successor with a dependency just satisfied.

\* Mutant: only a finished predecessor satisfies anything.
NewlyFinished(e, frm, ts, s) ==
  \E d \in ts[s].deps : d.task = e.task /\ ts[e.task].status \in Terminal

NewlySatisfied(e, frm, ts, s) ==
  \E d \in ts[s].deps : /\ d.task = e.task
                        /\ DepSatisfied(d.type, ts[e.task].status)
                        /\ ~DepSatisfied(d.type, frm)

Unblocked(ts, s) ==
  \/ ts[s].status = "assigned" /\ Unmet(ts, s, StartGating) = {}
  \/ ts[s].status \in {"in_progress", "blocked"} /\ Unmet(ts, s, FinishGating) = {}

Readiness(e, frm, ts, s) ==
  IF ts[s].status \in Terminal \/ ~NewlySatisfied(e, frm, ts, s) THEN {}
  ELSE (CASE Unblocked(ts, s) -> {<<ts[s].assignee, "task_ready">>}
          [] OpenAndReady(ts, s) -> Claimers(ts, s) \X {"task_open"}
          [] OTHER -> {})
       \cup (IF ts[e.task].status = "cancelled"
             THEN {ts[s].assignee, ts[s].creator} \X {"task_changed"} ELSE {})

Unlocks(e, frm, ts, s) ==
  e.tr \notin {"create", "update"} /\ s \in Successors(ts, e.task)
    /\ Readiness(e, frm, ts, s) # {}

\* One item per agent: of several kinds the most urgent one the policy wakes
\* on, with the reference of the reason that was found first.
Items(e, frm, ts) ==
  LET about(s) == IF s = 0 THEN OwnReasons(e, ts) ELSE Readiness(e, frm, ts, s)
      sources == {0} \cup {s \in DOMAIN ts : Unlocks(e, frm, ts, s)}
      kinds(a) == {k \in WakeOn : \E s \in sources : <<a, k>> \in about(s)}
      first(a) == CHOOSE s \in sources :
                    /\ \E k \in about(s) : k[1] = a
                    /\ \A x \in sources : (\E k \in about(x) : k[1] = a) => s <= x
      ref(a) == IF first(a) = 0 THEN e.task ELSE first(a)
      kind(a) == Priority[CHOOSE i \in DOMAIN Priority :
                   Priority[i] \in kinds(a) /\ \A j \in 1 .. i - 1 : Priority[j] \notin kinds(a)]
      waits(a) == kinds(a) = {"task_assigned"} /\ Unmet(ts, ref(a), StartGating) # {}
  IN  [a \in Agent |-> IF a = e.actor \/ kinds(a) = {} \/ waits(a) THEN {}
                       ELSE {[kind |-> kind(a), ref |-> ref(a)]}]

StillRelevant(ts, a, i) ==
  CASE i.kind = "task_open" -> OpenAndReady(ts, i.ref)
    [] i.kind \in {"task_assigned", "task_ready", "task_returned"} ->
         ts[i.ref].assignee = a /\ ts[i.ref].status \notin Terminal
    [] i.kind = "task_review" -> ts[i.ref].reviewer = a /\ ts[i.ref].status = "in_review"
    [] OTHER -> TRUE

Live(a) == {i \in pending[a] : StillRelevant(tasks, a, i)}

\* What an agent could take up: start what it is assigned, claim what is open.
ToStart(ts, a) ==
  {t \in DOMAIN ts : ts[t].status = "assigned" /\ ts[t].assignee = a
                       /\ Unmet(ts, t, StartGating) = {}}
ToClaim(ts, a) == {t \in DOMAIN ts : OpenAndReady(ts, t) /\ May(a, "claim", ts[t])}

\* All of it that the policy wakes an agent for.
ToDo(ts, a) ==
  ToStart(ts, a) \cup (IF "task_open" \in WakeOn THEN ToClaim(ts, a) ELSE {})

-----------------------------------------------------------------------------
(* Planning an act.                                                        *)

Change(m, tr, t, new) == [actor |-> m, tr |-> tr, task |-> t, new |-> new]

Begin(m, kind, t, events) ==
  /\ todo = <<>>
  /\ act' = [actor |-> m, kind |-> kind, task |-> t]
  /\ todo' = events
  /\ UNCHANGED <<tasks, pending, seen, crashes>>

Deps == UNION {kSubset(n, [task : Ids, type : DepTypes]) : n \in 0 .. MaxDeps}

PlanCreate(m) ==
  \E reviewer \in Reviewer, deps \in Deps, assignee \in Member \cup {None},
     parent \in {0} \cup (IF Subtasks THEN Ids ELSE {}) :
    LET t == Len(tasks) + 1
        new == Task(m, reviewer, parent, deps)
    IN  /\ t <= MaxTasks
        /\ assignee # None => May(m, "assign", new)
        /\ Begin(m, "create", t,
             <<Change(m, "create", t, new)>>
             \o (IF assignee = None THEN <<>>
                 ELSE <<Change(m, "assign", t,
                          [new EXCEPT !.status = "assigned", !.assignee = assignee])>>))

\* The whole board below a cancelled task is cancelled with it, in the order
\* that descendants() lists it; here, in any order.
OpenBelow(t) == {d \in Descendants(tasks, t) : tasks[d].status \notin Terminal}

Cascade(m, order) ==
  [i \in DOMAIN order |->
     Change(m, "cancel", order[i], [tasks[order[i]] EXCEPT !.status = "cancelled"])]

Assignee(m, t, tr, to) ==
  CASE tr = "assign" -> to
    [] tr = "claim" -> m
    [] tr = "unassign" -> None
    [] OTHER -> tasks[t].assignee

PlanTransition(m) ==
  \E t \in Ids, tr \in DOMAIN Transitions :
    \E to \in IF tr = "assign" THEN Member ELSE {None},
       order \in IF tr = "cancel" THEN SetToSeqs(OpenBelow(t)) ELSE {<<>>} :
      /\ CheckTransition(t, tr, to)
      /\ May(m, tr, tasks[t])
      /\ Begin(m, tr, t,
           <<Change(m, tr, t, [tasks[t] EXCEPT !.status = TargetState(tasks[t], tr),
                                               !.assignee = Assignee(m, t, tr, to)])>>
           \o Cascade(m, order))

PlanUpdate(m) ==
  \E t \in Ids :
    /\ tasks[t].status \notin Terminal
    /\ May(m, "edit", tasks[t])
    /\ \E reviewer \in Reviewer \cup {tasks[t].reviewer},
          deps \in (IF UpdatesDeps THEN Deps ELSE {}) \cup {tasks[t].deps} :
         /\ deps # tasks[t].deps => ~WouldCycle(t, deps)
         /\ <<reviewer, deps>> # <<tasks[t].reviewer, tasks[t].deps>>
         /\ Begin(m, "update", t,
              <<Change(m, "update", t, [tasks[t] EXCEPT !.reviewer = reviewer, !.deps = deps])>>)

-----------------------------------------------------------------------------
(* Appending its events, each folded at once by the board and, in seq      *)
(* order, by the scheduler.                                                *)

\* The status an event finds its task in.
From(e) == IF e.tr = "create" THEN "open" ELSE tasks[e.task].status

Fold(e) == IF e.tr = "create" THEN Append(tasks, e.new)
           ELSE [tasks EXCEPT ![e.task] = e.new]

\* The actor of an act has seen the task it acts on and what it unlocks.
Shown(a, e, ts) ==
  seen[a] \cup (IF a = e.actor THEN {e.task} \cup (ToDo(ts, a) \ ToDo(tasks, a)) ELSE {})

Write ==
  /\ todo # <<>>
  /\ LET e == Head(todo)
     IN  /\ tasks' = Fold(e)
         /\ pending' = [a \in Agent |-> pending[a] \cup Items(e, From(e), tasks')[a]]
         /\ seen' = [a \in Agent |-> Shown(a, e, tasks') \cap ToDo(tasks', a)]
  /\ todo' = Tail(todo)
  /\ act' = IF Len(todo) = 1 THEN NoAct ELSE act
  /\ UNCHANGED crashes

-----------------------------------------------------------------------------
(* The scheduler: Scheduler.tla reduced to what an agent gets to see.      *)

\* An activation starts on a waking item; its briefing shows the board.
Wake(a) ==
  /\ todo = <<>>
  /\ Live(a) # {}
  /\ pending' = [pending EXCEPT ![a] = {}]
  /\ seen' = [seen EXCEPT ![a] = ToDo(tasks, a)]
  /\ UNCHANGED <<board, crashes>>

\* _waking(): items that went stale are dropped before they are delivered.
DropStale(a) ==
  /\ todo = <<>>
  /\ pending[a] # Live(a)
  /\ pending' = [pending EXCEPT ![a] = Live(a)]
  /\ UNCHANGED <<board, seen, crashes>>

\* The process dies in the middle of an act; what is on the log stays.
Crash ==
  /\ crashes < MaxCrashes
  /\ todo # <<>>
  /\ crashes' = crashes + 1
  /\ todo' = <<>>
  /\ act' = NoAct
  /\ UNCHANGED <<tasks, pending, seen>>

Init ==
  /\ tasks = <<>> /\ act = NoAct /\ todo = <<>>
  /\ pending = [a \in Agent |-> {}]
  /\ seen = [a \in Agent |-> {}]
  /\ crashes = 0

Next ==
  \/ \E m \in Creator : PlanCreate(m)
  \/ \E m \in Member : PlanTransition(m) \/ PlanUpdate(m)
  \/ Write
  \/ \E a \in Agent : Wake(a) \/ DropStale(a)
  \/ Crash

Spec == Init /\ [][Next]_vars

-----------------------------------------------------------------------------
(* What a policy needs for the team to be able to go on, and to know it.    *)

\* A policy that leaves nothing to nobody: an open task can be assigned or
\* claimed, whoever has one may start, unblock and submit it, and whoever has
\* been given it to review may approve it.
PolicyMoves ==
  /\ \E tr \in {"assign", "claim"} :
       \/ Policy[tr] \cap {"anyone", "creator", "party"} # {}
       \/ "agent" \in Policy[tr] /\ Agent # {}
  /\ \A tr \in {"start", "unblock", "submit"} : Policy[tr] \cap {"anyone", "assignee", "party"} # {}
  /\ Policy["approve"] \cap {"anyone", "reviewer", "party"} # {}

\* A policy that wakes on what its transitions bring about: a task that becomes
\* ready, one that comes back, and, where tasks are assigned, one assigned.
\* Who may claim does not hang on who reviews.  The dependencies of a task are
\* those it was created with: task_updated raises nothing.
Announces ==
  /\ {"task_ready", "task_returned"} \subseteq WakeOn
  /\ "task_assigned" \in WakeOn \/ Policy["assign"] = {}
  /\ Policy["claim"] \cap {"reviewer", "party"} = {}
  /\ ~UpdatesDeps

-----------------------------------------------------------------------------
(* Properties.                                                             *)

(* would_cycle() keeps the dependencies free of cycles, of any length and  *)
(* through whatever sequence of creations and updates: the tasks can be    *)
(* ordered so that each comes after those it depends on.                   *)
DepsAcyclic ==
  \E rank \in [Ids -> Ids] : \A t \in Ids : \A d \in tasks[t].deps : rank[d.task] < rank[t]

(* The board never waits on itself: while a task is neither done nor       *)
(* cancelled, somebody may move some task forward, under the guards of the *)
(* state machine, the four kinds of dependency and the policy (or give a   *)
(* submitted task the reviewer it has lost).                               *)
Forward == {"assign", "claim", "start", "unblock", "submit", "approve"}

NeverStuck ==
  (todo = <<>> /\ \E t \in Ids : tasks[t].status \notin Terminal) =>
    \E t \in Ids :
      \/ \E m, to \in Member, tr \in Forward :
           /\ tr = "assign" => tasks[t].status = "open"
           /\ CheckTransition(t, tr, to) /\ May(m, tr, tasks[t])
      \/ tasks[t].status = "in_review" /\ tasks[t].reviewer = None

\* d is in every set that holds t and, with a task, its children.
Below(d, t) ==
  \A S \in SUBSET Ids : (t \in S /\ \A y \in Ids : tasks[y].parent \in S => y \in S) => d \in S

(* Cancelling a task cancels all that was below it: when the act has been  *)
(* carried out no descendant, however deep and whatever lies between, is   *)
(* still open.                                                             *)
CancelCascades ==
  [][act.kind = "cancel" /\ act' = NoAct /\ tasks'[act.task].status = "cancelled" =>
       \A d \in Ids : Below(d, act.task) => tasks'[d].status \in Terminal]_vars

\* The tasks of which an event has something to say to an agent.
Concerns(e, frm, ts, a) ==
  {t \in DOMAIN ts :
     \/ t = e.task /\ \E r \in OwnReasons(e, ts) : r[1] = a
     \/ Unlocks(e, frm, ts, t) /\ \E r \in Readiness(e, frm, ts, t) : r[1] = a}

(* An event that lets an agent start tasks it has been assigned or, on a   *)
(* market, claim some, says so of each of them, unless it is the agent's   *)
(* own doing, and raises an item itself.  There is one item however much   *)
(* there is to say (attention.py:59); where all that is said is of tasks   *)
(* to start, or all of tasks to claim, the item is of one of these and     *)
(* still holds, so that it wakes the agent.  Else it may be of a task that *)
(* is not to be taken up, and wake nobody: ReadyIsWoken.                   *)
UnlockRaisesItem ==
  [][\A a \in Agent :
       LET e == Head(todo)
           unlocked == ToDo(tasks', a) \ ToDo(tasks, a)
           told == Concerns(e, From(e), tasks', a)
       IN  unlocked # {} /\ a # e.actor =>
             /\ unlocked \subseteq told
             /\ \E i \in Items(e, From(e), tasks')[a] \cap pending'[a] :
                  told \subseteq ToStart(tasks', a) \/ told \subseteq ToClaim(tasks', a) =>
                    i.ref \in told /\ StillRelevant(tasks', a, i)]_vars

(* Nobody forgets a task: whoever could start or claim one has been shown  *)
(* so, or has an item pending that will wake it.  The code does not keep   *)
(* this (see the README): TLC refutes it for a lead and an agent, two      *)
(* tasks and one FS dependency under FlatPolicy and FlatWakeOn.            *)
ReadyIsWoken ==
  todo = <<>> => \A a \in Agent : ToDo(tasks, a) \subseteq seen[a] \/ Live(a) # {}
=============================================================================
