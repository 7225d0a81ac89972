----------------------------- MODULE Scheduler ------------------------------
(***************************************************************************)
(* The team scheduler of sciteam/runtime/scheduler.py with the attention   *)
(* rules of attention.py and the life of an activation's coroutine         *)
(* (agent.py, harness/loop.py seen from outside).                          *)
(*                                                                         *)
(* Everything durable is the event log; the scheduler's memory is a fold   *)
(* of it plus what it decides between two folds.  The scheduler's loop,    *)
(* the activations and the done callbacks share one event loop: a          *)
(* coroutine only moves while the scheduler waits.  Other processes        *)
(* (`team post`, `team stop`, `team reset`) append at any moment, and the  *)
(* scheduler's process may die between any two of its appends.             *)
(***************************************************************************)
EXTENDS Integers, Sequences, FiniteSets, SequencesExt

CONSTANTS
  Agent,            \* the team's agents
  Nobody,           \* the agent of an event that concerns none
  BoardTask,        \* the tasks of the board
  Concurrency,      \* max_concurrent_activations
  ErrorRetries,     \* error_retries
  HandoffLimit,     \* rate.max_consecutive_handoffs
  Budget,           \* budget, in finished activations
  StormLimit,       \* rate.storm.max_messages_without_progress
  BatchRun,         \* on_quiescent is "stop" (else "wait")
  Outcomes,         \* how the harness may end an activation
  RunnerFailures,   \* a sandbox or harness may fail to start
  Operator,         \* what other processes append: "dm", "room", "task", "close",
                    \* "stop", "reset_breaker", "reset_agent"
  Timers,           \* activations may call schedule_wakeup
  MaxEnvironment,   \* bound on the appends of other processes, reopenings aside
  MaxActivations,   \* bound on activations
  MaxLaunches,      \* bound on launches by the operator
  MaxCrashes        \* bound on deaths of the scheduler's process

ASSUME SchedulerAssumption ==
  /\ Nobody \notin Agent
  /\ Concurrency \in Nat \ {0} /\ ErrorRetries \in Nat /\ HandoffLimit \in Nat \ {0}
  /\ Budget \in Nat /\ StormLimit \in Nat
  /\ {BatchRun, RunnerFailures, Timers} \subseteq BOOLEAN
  /\ Outcomes \subseteq {"completed", "handoff", "error", "provider"}
  /\ {MaxEnvironment, MaxActivations, MaxLaunches, MaxCrashes} \subseteq Nat

VARIABLES
  log,       \* the event store: the events the scheduler reads, in seq order
  pc,        \* where run() is; "off" while no scheduler process runs
  mem,       \* the scheduler's memory
  tasks,     \* its asyncio tasks: activation id -> [agent, phase, seqs, exc]
  aids,      \* activation ids used so far
  crashed,   \* the process is off because it died
  outside,   \* appends of other processes so far, reopenings aside
  launches,  \* launches by the operator so far
  crashes

bounded == <<outside, launches, crashes>>
vars == <<log, pc, mem, tasks, aids, crashed, bounded>>

-----------------------------------------------------------------------------
(* Events.                                                                 *)

Event(type, agent, what, aid, seqs) ==
  [type |-> type, agent |-> agent, what |-> what, aid |-> aid, seqs |-> seqs]

Plain(type, what) == Event(type, Nobody, what, 0, {})

Seqs == DOMAIN log

\* attention_for: the kind of the item an event raises for its agent.
KindOf(e) ==
  CASE e.type = "message" -> e.what
    [] e.type = "task_assigned" -> "task"
    [] e.type = "timer_fired" -> "timer"
    [] e.type = "finished" /\ e.what = "handoff" -> "continue"
    [] e.type = "finished" /\ e.what \in {"error", "provider", "runner_error"} -> "retry"
    [] OTHER -> "none"

Kind(i) == KindOf(log[i])

\* Everything wakes its agent but the talk of a room it was not mentioned in.
Wakes(i) == Kind(i) # "room"

\* Event j is the last of the first n about its task.
Latest(j, n) ==
  \A k \in j + 1 .. n :
    log[k].type \in {"task_assigned", "task_closed"} => log[k].what # log[j].what

OpenTasks(n) == {log[j].what : j \in {k \in 1..n : log[k].type = "task_assigned" /\ Latest(k, n)}}

\* still_relevant, in the view of the first n events: a task item is void while its
\* task is closed or somebody else's, and no longer void when the task comes back.
Relevant(i, n) == Kind(i) = "task" => \E j \in 1..n : log[j] = log[i] /\ Latest(j, n)

-----------------------------------------------------------------------------
(* The scheduler's memory and its fold: catch_up and _ingest.              *)

Blank ==
  [cursor |-> 0,
   pending |-> [a \in Agent |-> {}], delivered |-> [a \in Agent |-> {}],
   running |-> [a \in Agent |-> 0], faulted |-> [a \in Agent |-> FALSE],
   errors |-> [a \in Agent |-> 0], handoffs |-> [a \in Agent |-> 0],
   timers |-> {}, cost |-> 0, chat |-> 0,
   halt |-> FALSE, paused |-> "no", stopped |-> "no", stopRequested |-> FALSE,
   logged |-> FALSE]

\* _deliver
Deliver(m, a, seqs) ==
  [m EXCEPT !.delivered[a] = @ \cup seqs, !.pending[a] = @ \ (m.delivered[a] \cup seqs)]

\* Mutant: the fold does not read the attention of activation_started.
IngestStartForgets(m, e) == [m EXCEPT !.running[e.agent] = e.aid]

IngestStart(m, e) == Deliver([m EXCEPT !.running[e.agent] = e.aid], e.agent, e.seqs)

\* Mutant: an activation that failed stays the running one.
FinishedKeepsFailed(m, e) ==
  IF e.what = "completed" THEN [m EXCEPT !.running[e.agent] = 0, !.cost = @ + 1] ELSE m

\* _finished: consecutive errors fault the agent, consecutive handoffs are counted,
\* an account failure asks for the provider breaker.
Finished(m, e) ==
  LET failed == e.what \in {"error", "provider", "runner_error"}
      errors == IF failed THEN m.errors[e.agent] + 1 ELSE 0
  IN  [m EXCEPT !.running[e.agent] = 0, !.cost = @ + 1,
                !.halt = @ \/ (e.what = "provider" /\ m.paused = "no"),
                !.errors[e.agent] = errors,
                !.faulted[e.agent] = @ \/ errors > ErrorRetries,
                !.handoffs[e.agent] = IF e.what = "handoff" THEN @ + 1 ELSE 0]

\* What one event changes besides the attention it raises.
Ingest(m, e, i) ==
  CASE e.type = "started" -> IngestStart(m, e)
    [] e.type = "incoming" -> Deliver(m, e.agent, e.seqs)
    [] e.type = "finished" -> Finished(m, e)
    [] e.type = "stop_requested" -> [m EXCEPT !.stopRequested = TRUE]
    [] e.type = "breaker_tripped" -> [m EXCEPT !.paused = e.what, !.halt = FALSE]
    [] e.type = "breaker_reset" -> [m EXCEPT !.paused = "no", !.halt = FALSE]
    [] e.type = "stopped" -> [m EXCEPT !.stopped = e.what]
    [] e.type = "resumed" -> [m EXCEPT !.stopped = "no", !.stopRequested = FALSE]
    [] e.type = "agent_reset" ->
         [m EXCEPT !.faulted[e.agent] = FALSE, !.errors[e.agent] = 0,
                   !.handoffs[e.agent] = 0]
    [] e.type = "timer_set" -> [m EXCEPT !.timers = @ \cup {i}]
    [] e.type = "timer_fired" -> [m EXCEPT !.timers = @ \ e.seqs]
    [] e.type = "message" -> [m EXCEPT !.chat = @ + 1]
    [] e.type \in {"task_assigned", "task_closed"} -> [m EXCEPT !.chat = 0]
    [] OTHER -> m

\* _add_item, and quiescent_logged that any attention event clears.
AddItem(m, e, i) ==
  LET n == [m EXCEPT !.logged = @ /\ e.type \notin
              {"message", "task_assigned", "task_closed", "timer_fired", "finished"}]
  IN  IF KindOf(e) = "none" \/ i \in m.delivered[e.agent]
        THEN n
        ELSE [n EXCEPT !.pending[e.agent] = @ \cup {i}]

\* What the scheduler makes of the event at seq i.
Fold(m, i) == [AddItem(Ingest(m, log[i], i), log[i], i) EXCEPT !.cursor = i]

\* catch_up: folds the events after the cursor.
CatchUp(m) ==
  LET folded[n \in m.cursor .. Len(log)] ==
        IF n = m.cursor THEN m ELSE Fold(folded[n - 1], n)
  IN  folded[Len(log)]

-----------------------------------------------------------------------------
(* Decisions: _waking, quiescent, the candidates of tick.                  *)

Live(m, a) == {i \in m.pending[a] : Relevant(i, m.cursor)}

\* Mutant: one handoff too many.
AboveHandoffLimit(m, a) == m.handoffs[a] > HandoffLimit

\* continue items are dropped once an agent has handed off too often.
AtHandoffLimit(m, a) == m.handoffs[a] >= HandoffLimit
Dropped(m, a) ==
  IF AtHandoffLimit(m, a) THEN {i \in Live(m, a) : Kind(i) = "continue"} ELSE {}

Waking(m, a) == {i \in Live(m, a) : Wakes(i)} \ Dropped(m, a)

\* _waking asked about the agents `as` forgets, for good, what is void now.
Prune(m, as) ==
  [m EXCEPT !.pending = [a \in Agent |-> IF a \in as THEN Live(m, a) ELSE m.pending[a]]]

\* tick returns before it looks at any agent once a stop is requested or a breaker
\* tripped; the agents it looks at are those that it may start.
Starts(m) == ~m.stopRequested /\ m.paused = "no"
Startable(m) == {a \in Agent : Starts(m) /\ ~m.faulted[a] /\ m.running[a] = 0}

\* Mutant: quiescence looks at the activations only.
QuiescentByTasks(m) == DOMAIN tasks = {}

Quiescent(m) ==
  /\ DOMAIN tasks = {}
  /\ m.timers = {} \/ OpenTasks(m.cursor) = {}
  /\ \A a \in Agent : m.faulted[a] \/ \A i \in Live(m, a) : ~Wakes(i)

Append1(e) == log' = Append(log, e)

-----------------------------------------------------------------------------
(* run(): from the start of the process to the loop.                       *)

\* `team start` or `team resume`: the log is folded from the beginning.
Launch ==
  /\ pc = "off" /\ pc' = "boot"
  /\ crashed \/ launches < MaxLaunches
  /\ launches' = launches + (IF crashed THEN 0 ELSE 1)
  /\ crashed' = FALSE
  /\ UNCHANGED <<log, mem, tasks, aids, outside, crashes>>

\* A stopped run is resumed, unless a breaker is still tripped.
Boot ==
  /\ pc = "boot"
  /\ LET m == CatchUp(mem)
     IN  \/ /\ m.stopped # "no" /\ m.paused # "no"
            /\ pc' = "off" /\ mem' = Blank /\ UNCHANGED log
         \/ /\ m.stopped # "no" /\ m.paused = "no"
            /\ Append1(Plain("resumed", m.stopped))
            /\ pc' = "resume" /\ mem' = m
         \/ /\ m.stopped = "no"
            /\ pc' = "resume" /\ mem' = m /\ UNCHANGED log
  /\ UNCHANGED <<tasks, aids, crashed, bounded>>

Task(a, phase, seqs) == [agent |-> a, phase |-> phase, seqs |-> seqs, exc |-> "none"]

\* _resume_unfinished: activations that started and did not finish go on.
ResumeUnfinished ==
  /\ pc = "resume" /\ pc' = "loop"
  /\ LET m    == CatchUp(mem)
         open == {a \in Agent : m.running[a] # 0}
     IN  /\ mem' = m
         /\ tasks' = [x \in {m.running[a] : a \in open} |->
               Task(CHOOSE a \in open : m.running[a] = x, "resuming", {})]
  /\ UNCHANGED <<log, aids, crashed, bounded>>

-----------------------------------------------------------------------------
(* One turn of the loop.                                                   *)

\* The loop turns: its wake event is set or a second has passed.  catch_up, then
\* _fire_timers: any set of the timers may have come due.
FireTimers ==
  /\ pc \in {"loop", "wait"} /\ pc' = "breakers"
  /\ LET m == CatchUp(mem)
     IN  /\ mem' = m
         /\ \E due \in SUBSET m.timers :
              log' = log \o [k \in 1..Cardinality(due) |->
                       LET i == SetToSeq(due)[k]
                       IN  Event("timer_fired", log[i].agent, "", 0, {i})]
  /\ UNCHANGED <<tasks, aids, crashed, bounded>>

\* Why a breaker trips now.  Old messages may have left the storm's window.
Trips(m) ==
  IF m.paused # "no" THEN {"no"}
  ELSE IF m.halt THEN {"provider"}
  ELSE IF m.cost >= Budget THEN {"budget"}
  ELSE IF m.chat > StormLimit THEN {"storm", "no"}
  ELSE {"no"}

\* Mutant: a breaker pauses a batch run like an interactive one.
StopsBatchNever(kind) == kind \in {"budget", "provider"}

EndsRun(kind) == kind \in {"budget", "provider"} \/ BatchRun

\* _check_breakers and _trip; then tick asks _waking about each agent it may start.
CheckBreakers ==
  /\ pc = "breakers" /\ pc' = "start"
  /\ \E kind \in Trips(mem) :
       IF kind = "no"
         THEN LET m == [mem EXCEPT !.chat = IF @ > StormLimit /\ mem.paused = "no"
                                              THEN 0 ELSE @]
              IN  mem' = Prune(m, Startable(m)) /\ UNCHANGED log
         ELSE /\ Append1(Plain("breaker_tripped", kind))
              /\ mem' = [mem EXCEPT !.paused = kind,
                                    !.stopRequested = @ \/ EndsRun(kind)]
  /\ UNCHANGED <<tasks, aids, crashed, bounded>>

MayStart == pc = "start" /\ Starts(mem)

Candidates ==
  {a \in Agent : ~mem.faulted[a] /\ mem.running[a] = 0 /\ Waking(mem, a) # {}}

\* _waking called for an agent at its handoff limit writes handoff_limit.
DropContinues(a) ==
  /\ MayStart /\ ~mem.faulted[a] /\ mem.running[a] = 0
  /\ Dropped(mem, a) # {}
  /\ mem' = [mem EXCEPT !.pending[a] = @ \ Dropped(mem, a)]
  /\ Append1(Event("handoff_limit", a, "", 0, {}))
  /\ UNCHANGED <<pc, tasks, aids, crashed, bounded>>

NothingToDrop == \A a \in Agent : mem.faulted[a] \/ mem.running[a] # 0 \/ Dropped(mem, a) = {}

\* Mutant: an agent that runs already is not left out.
StartTwice(a) ==
  /\ MayStart /\ NothingToDrop
  /\ ~mem.faulted[a] /\ Waking(mem, a) # {}
  /\ Cardinality(DOMAIN tasks) < Concurrency /\ aids < MaxActivations
  /\ aids' = aids + 1
  /\ mem' = Deliver([mem EXCEPT !.running[a] = aids'], a, Live(mem, a))
  /\ tasks' = [x \in DOMAIN tasks \cup {aids'} |->
        IF x = aids' THEN Task(a, "spawned", Live(mem, a)) ELSE tasks[x]]
  /\ UNCHANGED <<log, pc, crashed, bounded>>

\* _start: the activation is handed every live item of its agent.  A candidate that
\* is still in its debounce, backoff or rate delay is skipped: StartsDone may come
\* before its Start.
Start(a) ==
  /\ MayStart /\ NothingToDrop
  /\ a \in Candidates
  /\ Cardinality(DOMAIN tasks) < Concurrency /\ aids < MaxActivations
  /\ aids' = aids + 1
  /\ mem' = Deliver([mem EXCEPT !.running[a] = aids'], a, Live(mem, a))
  /\ tasks' = [x \in DOMAIN tasks \cup {aids'} |->
        IF x = aids' THEN Task(a, "spawned", Live(mem, a)) ELSE tasks[x]]
  /\ UNCHANGED <<log, pc, crashed, bounded>>

\* The end of tick and the catch_up after it.
StartsDone ==
  /\ pc = "start" /\ pc' = "decide"
  /\ MayStart => NothingToDrop
  /\ mem' = CatchUp(mem)
  /\ UNCHANGED <<log, tasks, aids, crashed, bounded>>

\* _stop
Stop(reason) ==
  /\ Append1(Plain("stopped", reason))
  /\ pc' = "off" /\ mem' = Blank

\* Mutant: the run stops without waiting for the activations it cancelled.
StopAskedAtOnce ==
  /\ pc = "decide" /\ mem.stopRequested
  /\ Stop(IF mem.paused # "no" THEN mem.paused ELSE "human")
  /\ UNCHANGED <<tasks, aids, crashed, bounded>>

StopAsked ==
  /\ pc = "decide" /\ mem.stopRequested /\ DOMAIN tasks = {}
  /\ Stop(IF mem.paused # "no" THEN mem.paused ELSE "human")
  /\ UNCHANGED <<tasks, aids, crashed, bounded>>

\* t.cancel() on every task; it reaches a coroutine at its next await.
CancelTasks ==
  /\ pc = "decide" /\ mem.stopRequested /\ DOMAIN tasks # {} /\ pc' = "wait"
  /\ tasks' = [x \in DOMAIN tasks |->
        IF tasks[x].phase = "ended" THEN tasks[x]
                                    ELSE [tasks[x] EXCEPT !.exc = "cancelled"]]
  /\ UNCHANGED <<log, mem, aids, crashed, bounded>>

Idle(m) == ~m.stopRequested /\ m.paused = "no" /\ Quiescent(m)

LogQuiescent ==
  /\ pc = "decide" /\ Idle(mem) /\ ~mem.logged
  /\ Append1(Plain("quiescent", ""))
  /\ mem' = [mem EXCEPT !.logged = TRUE]
  /\ UNCHANGED <<pc, tasks, aids, crashed, bounded>>

StopQuiescent ==
  /\ pc = "decide" /\ Idle(mem) /\ mem.logged /\ BatchRun
  /\ Stop("quiescent")
  /\ UNCHANGED <<tasks, aids, crashed, bounded>>

\* The loop waits for its wake event, for a second at most.
Wait ==
  /\ pc = "decide" /\ ~mem.stopRequested /\ ~(Idle(mem) /\ (BatchRun \/ ~mem.logged))
  /\ pc' = "wait"
  /\ UNCHANGED <<log, mem, tasks, aids, crashed, bounded>>

-----------------------------------------------------------------------------
(* The coroutine of activation x: AgentRunner.run or resume, the harness   *)
(* and the done callback of _spawn.                                        *)

Phase(x, p) == pc = "wait" /\ x \in DOMAIN tasks /\ tasks[x].phase = p
Running(x) == Phase(x, "running") /\ tasks[x].exc = "none"

EndTask(x, exc) == tasks' = [tasks EXCEPT ![x].phase = "ended", ![x].exc = exc]

\* The sandbox is up: the harness records the start with its attention.
Begin(x) ==
  /\ Phase(x, "spawned") /\ tasks[x].exc = "none"
  /\ Append1(Event("started", tasks[x].agent, "", x, tasks[x].seqs))
  /\ tasks' = [tasks EXCEPT ![x].phase = "running"]
  /\ UNCHANGED <<pc, mem, aids, crashed, bounded>>

\* Harness.resume replays the stream and goes on.
Resume(x) ==
  /\ Phase(x, "resuming") /\ tasks[x].exc = "none"
  /\ tasks' = [tasks EXCEPT ![x].phase = "running"]
  /\ UNCHANGED <<log, pc, mem, aids, crashed, bounded>>

\* The runner raises before the harness is in charge.
RunnerFails(x) ==
  /\ RunnerFailures
  /\ Phase(x, "spawned") \/ Phase(x, "resuming")
  /\ tasks[x].exc = "none"
  /\ EndTask(x, "runner_error")
  /\ UNCHANGED <<log, pc, mem, aids, crashed, bounded>>

\* Mutant: poll hands out items again that it has handed out.
PollAgain(x) ==
  /\ Running(x)
  /\ LET a     == tasks[x].agent
         m     == CatchUp(mem)
         items == {i \in m.delivered[a] \cup Waking(m, a) :
                     Kind(i) \notin {"continue", "retry", "timer"}}
     IN  /\ items # {}
         /\ mem' = Deliver(m, a, items)
         /\ Append1(Event("incoming", a, "", x, items))
  /\ UNCHANGED <<pc, tasks, aids, crashed, bounded>>

\* poll_incoming before a model call: new waking items join the context.
Poll(x) ==
  /\ Running(x)
  /\ LET a     == tasks[x].agent
         m     == Prune(CatchUp(mem), {a})
         items == {i \in Waking(m, a) : Kind(i) \notin {"continue", "retry", "timer"}}
     IN  /\ Dropped(m, a) = {}
         /\ \/ items = {} /\ mem' = m /\ UNCHANGED log
            \/ /\ items # {} /\ mem' = Deliver(m, a, items)
               /\ Append1(Event("incoming", a, "", x, items))
  /\ UNCHANGED <<pc, tasks, aids, crashed, bounded>>

\* The same call drops the continue items of an agent at its handoff limit.
PollDrops(x) ==
  /\ Running(x)
  /\ LET a == tasks[x].agent
         m == Prune(CatchUp(mem), {a})
     IN  /\ Dropped(m, a) # {}
         /\ mem' = [m EXCEPT !.pending[a] = @ \ Dropped(m, a)]
         /\ Append1(Event("handoff_limit", a, "", 0, {}))
  /\ UNCHANGED <<pc, tasks, aids, crashed, bounded>>

\* schedule_wakeup; one timer at most, a bound.
SetTimer(x) ==
  /\ Timers /\ Running(x)
  /\ \A i \in Seqs : log[i].type # "timer_set"
  /\ Append1(Event("timer_set", tasks[x].agent, "", 0, {}))
  /\ UNCHANGED <<pc, mem, tasks, aids, crashed, bounded>>

\* The harness writes the outcome itself.
Finish(x) ==
  /\ Running(x)
  /\ \E what \in Outcomes : Append1(Event("finished", tasks[x].agent, what, x, {}))
  /\ EndTask(x, "none")
  /\ UNCHANGED <<pc, mem, aids, crashed, bounded>>

\* A cancelled activation: the harness records it if it was in charge already.
Cancelled(x) ==
  /\ pc = "wait" /\ x \in DOMAIN tasks
  /\ tasks[x].exc = "cancelled" /\ tasks[x].phase # "ended"
  /\ EndTask(x, "cancelled")
  /\ IF tasks[x].phase = "running"
       THEN Append1(Event("finished", tasks[x].agent, "cancelled", x, {}))
       ELSE UNCHANGED log
  /\ UNCHANGED <<pc, mem, aids, crashed, bounded>>

HasFinished(x) == \E i \in Seqs : log[i].type = "finished" /\ log[i].aid = x

\* The done callback writes the outcome of an activation that has none.
Done(x) ==
  /\ Phase(x, "ended")
  /\ IF HasFinished(x)
       THEN UNCHANGED log
       ELSE Append1(Event("finished", tasks[x].agent, tasks[x].exc, x, {}))
  /\ tasks' = [y \in DOMAIN tasks \ {x} |-> tasks[y]]
  /\ UNCHANGED <<pc, mem, aids, crashed, bounded>>

-----------------------------------------------------------------------------
(* Other processes, and the death of the scheduler's.                      *)

Outside(e) ==
  /\ outside < MaxEnvironment /\ outside' = outside + 1
  /\ Append1(e)
  /\ UNCHANGED <<pc, mem, tasks, aids, crashed, launches, crashes>>

Post(a, kind) == kind \in Operator /\ Outside(Event("message", a, kind, 0, {}))

\* A task is assigned, to one agent after another if need be; closed; and reopened, which
\* returns it to whom it was assigned to last.  Each reopening needs a closing, so only
\* closings count towards MaxEnvironment.
Closed(t) == \E j \in Seqs : log[j].type = "task_closed" /\ log[j].what = t /\ Latest(j, Len(log))

AssignTask(a, t) ==
  "task" \in Operator /\ ~Closed(t) /\ Outside(Event("task_assigned", a, t, 0, {}))
CloseTask(t) ==
  /\ "close" \in Operator /\ t \in OpenTasks(Len(log))
  /\ Outside(Event("task_closed", Nobody, t, 0, {}))
ReopenTask(t) ==
  /\ "task" \in Operator /\ Closed(t)
  /\ \E j \in Seqs :
       /\ log[j].type = "task_assigned" /\ log[j].what = t
       /\ \A k \in j + 1 .. Len(log) : log[k].type = "task_assigned" => log[k].what # t
       /\ Append1(Event("task_assigned", log[j].agent, t, 0, {}))
  /\ UNCHANGED <<pc, mem, tasks, aids, crashed, bounded>>
RequestStop == "stop" \in Operator /\ Outside(Plain("stop_requested", ""))
ResetBreaker == "reset_breaker" \in Operator /\ Outside(Plain("breaker_reset", ""))
ResetAgent(a) == "reset_agent" \in Operator /\ Outside(Event("agent_reset", a, "", 0, {}))

Environment ==
  \/ \E a \in Agent : Post(a, "dm") \/ Post(a, "room") \/ ResetAgent(a)
  \/ \E t \in BoardTask : (\E a \in Agent : AssignTask(a, t)) \/ CloseTask(t) \/ ReopenTask(t)
  \/ RequestStop \/ ResetBreaker

Crash ==
  /\ pc # "off" /\ crashes < MaxCrashes
  /\ crashes' = crashes + 1 /\ crashed' = TRUE
  /\ pc' = "off" /\ mem' = Blank /\ tasks' = <<>>
  /\ UNCHANGED <<log, aids, outside, launches>>

-----------------------------------------------------------------------------

Init ==
  /\ log = <<>> /\ pc = "off" /\ mem = Blank /\ tasks = <<>>
  /\ aids = 0 /\ crashed = FALSE /\ outside = 0 /\ launches = 0 /\ crashes = 0

\* What the scheduler's own coroutine does without being asked.
Loop ==
  \/ Boot \/ ResumeUnfinished \/ FireTimers \/ CheckBreakers
  \/ \E a \in Agent : DropContinues(a) \/ Start(a)
  \/ StartsDone \/ StopAsked \/ CancelTasks \/ LogQuiescent \/ StopQuiescent
  \/ Wait

Activation(x) ==
  \/ Begin(x) \/ Resume(x) \/ RunnerFails(x) \/ Poll(x) \/ PollDrops(x) \/ SetTimer(x) \/ Finish(x)
  \/ Cancelled(x) \/ Done(x)

Next ==
  \/ Launch \/ Loop
  \/ \E x \in 1..MaxActivations : Activation(x)
  \/ Environment \/ Crash

Spec == Init /\ [][Next]_vars

\* The scheduler's loop keeps turning, its event loop runs what is ready, delays
\* elapse, timers come due, and a process that died is launched again.
LoopFairness ==
  /\ WF_vars(Loop) /\ WF_vars(crashed /\ Launch)
  /\ \A a \in Agent : SF_vars(Start(a))
  /\ SF_vars(FireTimers /\ log' # log)
  /\ \A x \in 1..MaxActivations :
       SF_vars(Begin(x) \/ Resume(x) \/ RunnerFails(x)) /\ SF_vars(Cancelled(x))
         /\ SF_vars(Done(x))

\* The budgets of the harness end every activation.
HarnessFairness == \A x \in 1..MaxActivations : SF_vars(Finish(x))

LoopSpec == Spec /\ LoopFairness

-----------------------------------------------------------------------------
(* Properties.                                                             *)

\* What the streams of an agent's activations say was put in its context: the only
\* record of delivery (docs/31-runtime.md section 2).
Shown(a) ==
  UNION {log[i].seqs : i \in {j \in Seqs : log[j].type \in {"started", "incoming"}
                                            /\ log[j].agent = a}}

OpenActivations(a) ==
  {log[i].aid : i \in {j \in Seqs : log[j].type = "started" /\ log[j].agent = a}}
    \ {log[i].aid : i \in {j \in Seqs : log[j].type = "finished"}}

\* An agent is one conversation at a time: whatever crashes, resumptions, failures and
\* cancellations happen, it never has two activations open, nor two live coroutines,
\* and no activation ends twice or acts after its end.
OneActivation ==
  /\ \A a \in Agent : Cardinality(OpenActivations(a)) <= 1
  /\ \A x, y \in DOMAIN tasks :
       (/\ tasks[x].agent = tasks[y].agent
        /\ tasks[x].phase # "ended" /\ tasks[y].phase # "ended") => x = y
  /\ \A i, j \in Seqs :
       log[i].type = "finished" /\ i < j
       => ~(log[j].aid = log[i].aid /\ log[j].type \in {"started", "incoming", "finished"})

\* No item enters an agent's context twice, although memory, restarts, resumptions
\* and deliveries during an activation all decide what is still to be delivered.
ShownOnce ==
  \A i, j \in Seqs :
    /\ i < j /\ log[i].agent = log[j].agent
    /\ {log[i].type, log[j].type} \subseteq {"started", "incoming"}
    => log[i].seqs \cap log[j].seqs = {}

\* The last outcomes of an agent among the first n events, as long as they are of these
\* kinds: another outcome, or a reset, ends the row.
IsOutcome(i, a) == log[i].agent = a /\ log[i].type \in {"finished", "agent_reset"}
InARow(a, n, kinds) ==
  {i \in 1..n : IsOutcome(i, a) /\ \A j \in i..n : IsOutcome(j, a) => log[j].what \in kinds}

\* An agent that fails is retried error_retries times in a row and not once more until
\* it is reset, also when the scheduler is restarted in between.
RetriesBounded ==
  \A a \in Agent, n \in Seqs :
    Cardinality(InARow(a, n, {"error", "provider", "runner_error"})) <= ErrorRetries + 1

\* After max_consecutive_handoffs handoffs in a row an agent is never continued for
\* the handoff alone, also when the scheduler forgot that it had dropped the item.
HandoffsBounded ==
  \A i \in Seqs :
    log[i].type = "started" /\ (\E j \in log[i].seqs : Kind(j) = "continue")
    => Cardinality(InARow(log[i].agent, i, {"handoff"})) < HandoffLimit

\* No agent is driven for ever by what it does itself, its failures or its handoffs.
DrivesBounded == RetriesBounded /\ HandoffsBounded

\* The item raised at i has not been void since.  One that was need not be shown: what
\* brings its task back raises an item of its own.
Standing(i, n) == \A k \in i..n : Relevant(i, k)

\* Items that wake an agent, known to the scheduler and never put in its context.
Unserved(a) ==
  {i \in 1..mem.cursor : /\ log[i].agent = a /\ Kind(i) # "none" /\ Wakes(i)
                         /\ Standing(i, mem.cursor) /\ i \notin Shown(a)
                         /\ Kind(i) # "continue"}

\* A run declared quiescent has nothing left to do: no activation is open, and every
\* agent that is not faulted has seen each item that should wake it, by the record of
\* its activation streams.
QuiescentIsIdle ==
  [][ (log' # log /\ log'[Len(log')].type = "quiescent")
      => \A a \in Agent : mem.faulted[a] \/ (Unserved(a) = {} /\ OpenActivations(a) = {})
    ]_vars

\* A run that says it stopped has no activation open, whether it was stopped by a human,
\* by a breaker or by being quiescent, and whatever was cancelled or died before.
StoppedIsOver ==
  [][ (log' # log /\ log'[Len(log')].type = "stopped")
      => \A a \in Agent : OpenActivations(a) = {} ]_vars

\* Items that should still be put in the context of an agent that is not faulted.
Owed ==
  {i \in Seqs : /\ Kind(i) \notin {"none", "continue"} /\ Wakes(i)
                /\ Standing(i, Len(log)) /\ ~mem.faulted[log[i].agent]
                /\ i \notin Shown(log[i].agent)}

\* Every item that wakes an agent is put in its context in the end, unless it became
\* void, the agent is faulted, or the run is paused or stopped.  Covers items raised
\* before a crash, during an activation, or while a coroutine was about to end.
AttentionServed == HarnessFairness =>
  (pc # "off" /\ Owed # {})
  ~> (\/ Owed = {} \/ mem.paused # "no" \/ mem.stopRequested
      \/ aids = MaxActivations \/ (pc = "off" /\ ~crashed))

Tripped == \E i \in Seqs : log[i].type = "breaker_tripped"
StoppedAfterTrip ==
  \E i, j \in Seqs : i < j /\ log[i].type = "breaker_tripped" /\ log[j].type = "stopped"

\* A tripped breaker ends a batch run: "Batch runs have nobody to press resume, so any
\* breaker ends them."
BreakerEndsBatch == HarnessFairness =>
  (BatchRun /\ Tripped /\ crashes = 0) ~> (StoppedAfterTrip \/ crashes > 0)

\* Activation x has begun, or has ended without.
HasBegun(x) == \E i \in Seqs : log[i].type \in {"started", "finished"} /\ log[i].aid = x

\* A continue item wakes its agent only while the agent may still be handed on.
WakingAnyway(m, a) == {i \in Waking(m, a) : Kind(i) # "continue"}

\* What the scheduler decides from: the same, whether it folded the log as it went or
\* from the beginning after a restart (docs/31-runtime.md section 3.2), but for items:
\* a restart forgets none that the process would wake an agent for, and brings back
\* none but those that were void for a while.  Memory alone knows of an activation that
\* was handed its items and has not begun, of the items of activations that a stop
\* cancelled before they began, and of dropped continue items.
RefoldAgrees ==
  (pc = "wait" /\ mem.cursor = Len(log) /\ \A x \in DOMAIN tasks : HasBegun(x))
  => LET m == CatchUp(Blank)
     IN  /\ m.timers = mem.timers
         /\ \A a \in Agent :
              /\ m.running[a] = mem.running[a] /\ m.faulted[a] = mem.faulted[a]
              /\ m.errors[a] = mem.errors[a] /\ m.handoffs[a] = mem.handoffs[a]
              /\ \/ mem.stopRequested
                 \/ /\ WakingAnyway(mem, a) \subseteq WakingAnyway(m, a)
                    /\ \A i \in WakingAnyway(m, a) \ WakingAnyway(mem, a) :
                         ~Standing(i, mem.cursor)

\* "A restart replays the log": it wakes the agents the process would have woken.  The
\* code does not keep this (see the README): what _waking has forgotten comes back when
\* its task did.  TLC refutes it under the constants of SchedSafety.
RestartWakesAlike ==
  (/\ pc = "wait" /\ mem.cursor = Len(log) /\ ~mem.stopRequested
   /\ \A x \in DOMAIN tasks : HasBegun(x))
  => \A a \in Agent : WakingAnyway(mem, a) = {} => WakingAnyway(CatchUp(Blank), a) = {}

\* After a provider pause the next launch re-drives the activations it interrupted
\* (sciteam/experiment/quota.py: "the scheduler re-drives interrupted activations"):
\* the resumed run is not quiescent before each of their agents was started again.
\* The code does not do so (see the README): TLC refutes it for two agents, the outcome
\* "provider" and the operator's {"dm", "reset_breaker"} in two launches.
InterruptedBefore(a, k) ==
  \E i, j \in 1..k :
    /\ i < j /\ log[i].type = "finished" /\ log[i].agent = a /\ log[i].what = "cancelled"
    /\ log[j].type = "breaker_reset" /\ log[k].type = "resumed"

InterruptedRedriven ==
  [][ (log' # log /\ log'[Len(log')].type = "quiescent")
      => \A a \in Agent, k \in Seqs :
           InterruptedBefore(a, k) =>
             \/ mem.faulted[a]
             \/ \E n \in k..Len(log) : log[n].type = "started" /\ log[n].agent = a
    ]_vars
=============================================================================
