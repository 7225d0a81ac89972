# sciteam in TLA+

sciteam runs a team of LLM agents as one long-lived, event-sourced program: everything that
happens is an event in an append-only store, every service is a fold of those events, and a
restarted process carries on from what the log says. These modules model the parts of it in
which order, crashes and concurrency decide whether it is right, check them with TLC on small
instances, and prove with TLAPS, for every instance, the safety of all of them: the event
store is an atomic log, a scheduler runs one activation per agent and forgets nothing by a restart that it would wake an agent for, the task
board never waits on itself and raises whoever an event lets start or claim a task an item of that event, what must not happen twice (acts,
payments, tool calls) does not, and seats, rules, budgets and results are what they may be.

`PROJECT.json` maps every definition to the lines it models; this file explains the whole.

- [The system](#the-system) - inventory of components, state, operations, what is hard
- [The plan](#the-plan)
- [The modules](#the-modules) - how state and actions correspond to the code
- [The runs](#the-runs) - what each shows, with which bounds
- [Fairness](#fairness)
- [Proofs](#proofs)
- [Where the code and its documents disagree](#where-the-code-and-its-documents-disagree)
- [What is not modelled](#what-is-not-modelled)

## The system

All paths are below `src/sciteam`. Layers only call downwards; the layers above the kernel
share no state but the event store, and wake one another with its subscriptions.

| component | code | state | operations | interacts with |
|---|---|---|---|---|
| Event store | `kernel/events.py` | SQLite table of events (global id, stream, seq, prev_hash, hash), wake-up flags of subscriptions | `append` (with `expected_seq`), `read`, `verify`, `subscribe` | everything; several threads and processes |
| Scheduler | `runtime/scheduler.py` | a fold (cursor, pending items, delivered, running, failures, handoffs, paused, faulted, timers) and the asyncio tasks of activations | `run` loop: catch up, fire timers, check breakers, start activations, wait; resume; stop | event store (reads its own and others' events), attention, team, harness |
| Attention | `runtime/attention.py` | none: a function from an event to items | `attention_for`, `still_relevant` | board and messages (reads views), scheduler |
| Activation and its hooks | `runtime/agent.py`, `runtime/briefing.py`, `runtime/extension.py` | delivered items, briefing | poll between steps, start, end | harness, scheduler |
| Runtime of a team | `runtime/team.py`, `runtime/config.py` | `scheduler.lock`, files of a run | launch, resume, post, stop, status | command line, scheduler |
| Communication service | `comm/service.py`, `comm/model.py` | a fold (`comm/view.py`), pending acts | `submit`, `resolve`, planners, `_apply` | gate, policy, board, event store |
| Task board | `comm/board.py`, `comm/model.py` | tasks, dependencies, parents | transitions, cycle test, readiness, cascade of cancel | communication service |
| Policy | `comm/policy.py` | manifest | roles, permissions, limits | communication service |
| Messages | `comm/view.py`, `comm/render.py` | conversations, their members and messages | post, create room, add and remove member | communication service |
| Institution: gate and approvals | `institution/gate.py`, `institution/service.py` | rules in force, pending acts, validations, approvals | decide, resolve, approve | communication service, validation |
| Institution: facts and ledger | `institution/facts.py`, `institution/view.py`, `_write_owed` | what is owed and not recorded, recorded facts, balances | `derive`, `has_fact`, `settle` | event store, gate |
| Institution: amendments | `institution/service.py` | proposals, votes, versions of the rules | propose, vote, tally, ratify, withdraw, expire | gate, organization |
| Validation worker | `institution/validation.py` | running validations, attempts, cache by digest | start, retry, record | gate, sandbox |
| Organization | `org/service.py` | who holds which seat, members' groups and bosses, manifest announced, goal | hire, dismiss, settle | amendments, board, scheduler |
| Harness loop | `harness/loop.py`, `harness/state.py` | transcript, budget, outcome: a fold of one activation's stream | call the model, dispatch tools, finish, resume, cancel | providers, tools, compaction |
| Compaction | `harness/compaction/*` | what is kept of the context | choose the cut, summarise, commit | harness loop |
| Experiment | `experiment/*` | per run its directory (`run.json`, log, `result.json`), the supervisor's wait and count of launches without progress | create, drive, grade, probe, launch, tally | scheduler of each run |
| Tools, providers, sandbox, benchmarks, command line | | none of their own | I/O | harness |

What is hard here, and where:

- *Threads and processes on one store.* `append` reads the tail of a stream, hashes on it and
  inserts; threads of one process share a lock, processes only SQLite's. The command line
  appends, and sometimes settles, while the scheduler runs.
- *Deaths between two events.* Every act is several events, every activation is several
  records, and after a restart the fold sees whichever were written. What ran before the
  death has to be neither forgotten nor done twice.
- *Folds that must equal memory.* The scheduler keeps its fold incrementally and changes it in
  memory ahead of the log; a restart folds from nothing.
- *An agent awaited while others act.* An item may arrive while its agent is running, between
  two of its steps, or just before it ends; it must be shown exactly once.
- *Chains of consequences.* A transition of a task changes who may do what elsewhere on the
  board: successors become ready, subtasks are cancelled, agents must be woken for exactly that.
- *Decisions that take time.* An act waits for validators and approvals; the rules, the task and
  the results may change while it waits.
- *Layers that settle.* Votes, seats, attributes and announcements follow from what is in force, at
  the next round of the scheduler; meanwhile the rules themselves are amended.
- *Answers that are reused.* A verdict is copied to later requests for the same commit; copies of copies, failures of the
  infrastructure and writes to what a validator reads all meet in that cache.
- *Processes that outlive one another.* A supervisor launches runs as processes of their own, which go on when it dies.
- *Derived records.* Facts and payments follow from acts, are written later, possibly by another
  process, and must not depend on when.

Properties that make each part correct, in words (the formal ones are named below):

- event store: every stream always verifies; committed events are never changed; an append is
  atomic and its conflicts truthful; a subscriber sees each committed event once, in order, eventually;
- scheduler: one activation per agent; one outcome per activation; an item is shown once and, in
  the end, is shown; retries and handoffs are bounded; quiescence is declared only when nothing is
  left; stop and breakers end the run; a restart counts as the running process did and forgets nothing it would wake an agent for;
- board: dependencies stay acyclic, some task can always move, a cancel leaves nothing open below it,
  and whoever an event gives something to start or claim is raised an item of that event;
- act path: an act takes effect at most once, under the rules in force, and is decided in the end;
  deciding and taking effect look like one step;
- facts and ledger: recorded late or at once, the facts and payments are the same, and nobody is
  paid twice;
- amendments: the rules change only by an amendment that passed, was ratified where it must be, and is not stale; every
  amendment ends;
- validation worker: each request gets one verdict, which a run of that validator on that commit has earned;
- organization: no seat has more holders than the manifest gives it; who is no member has no unfinished task, but what was in review or done when
  he went and what a death cut off; attributes, announcement and goal catch up with what is in force;
- experiment: a result is that of a run whose scheduler stopped for the reason it gives and not for the provider, and stands; the supervisor
  waits as long as it may, gives up only after three launches in a row in vain, and ends;
- harness: a tool call is executed at most once and answered exactly once; budgets are respected;
  compaction keeps a legal context with its tail; the activation ends.

## The plan

Ordered so that what everything else rests on, and what most decides correctness, comes first.

| # | modules | abstract specification | properties | theorems | state |
|---|---|---|---|---|---|
| 1 | `EventStore` | `StreamLog` | chain, append-only, exact and live subscriptions | type, chain, append-only, subscribers, wake-ups, the refinement | done |
| 2 | `Scheduler` | its own fold, from nothing (`CatchUp(Blank)`) | one activation, shown once, bounded, quiescence, restart, stop; served | all but `AttentionServed`, `BreakerEndsBatch`, which are liveness | done |
| 3 | `TaskBoard` | | acyclic, never stuck, cascade, waking | all four, and that the cycle test and the cascade are exact | done |
| 4 | `ActPath` | `ActLedger` | once, lawful, resolved | `OnePending`, `EffectOnce`, `EffectIsLawful` and the refinement, for one process | done |
| 5 | `CountsAs` | histories of what recording at once gives | timing independence, paid once | `PaidOnce`, `AsIfAtOnce`, for one process | done |
| 6 | `Harness` | | calls answered once, budgets, compaction, termination | `EffectsOnce`, `CallsAnswered`, `BudgetKept`, `TailKept` | done |
| 7 | `Amendments` | | `ChangesAreLawful`, `AmendmentsEnd` | `ChangesAreLawful`, in `Organization` | done |
| 8 | `ValidationWorker`, composed with `ActPath` | `ActPath` | `ImplementsActPath`, `VerdictsAreEarned`, `InfraIsNotCharged` | the first two | done |
| 9 | `Organization`, composed with `Amendments` | | `SeatsFit`, `DismissedHoldNothing`, `OrgFollows` | the first two | done |
| 10 | `Experiment` | | `ResultsAreGenuine`, `ResultsStand`, `WaitKept`, `SupervisorEnds` | the first three | done |
| 11 | `Conversations` | | who may read a message when membership changes | | not built: see the end |

Composition: modules 2 to 9 all append to the one store whose correctness module 1
establishes, so each takes an append as one atomic step and reads the log as a sequence. `Scheduler`
sees an activation as start, polls and outcome, which `Harness` details. `TaskBoard` sees the decision on an
act as already made, which `ActPath` details; a validation's verdict comes from nowhere in `ActPath` and from `ValidationWorker` in the
composition of the two, which implements `ActPath` and thereby, in the same run, `ActLedger`. `CountsAs` takes what the board did as
its input, `Organization` what `Amendments` has put in force (they share the roster, the files and what a process is about to write), and
`Experiment` sees a whole run of the scheduler as a step that ends for one of its reasons.

## The modules

Conventions throughout: one action per operation, or per part of it between two events appended (or
two awaits) where the process may die or another may interleave; memory lost in a crash and what is
folded from the log are separate groups of variables; names are those of the source where TLA+ allows.
Operators that say "Mutant:" in their comment are deliberately wrong variants of the definition that
follows them; no specification uses them, and each breaks the property it is listed
with in `PROJECT.json`.

Each module of proofs begins with the facts it needs about sequences that grow (the positions and elements of what is appended, joined or
cut off) and about naturals (a non-empty set of them has a least element), drawn from the library's theorems.

### EventStore, StreamLog, EventStoreProofs - `kernel/events.py`

`rows` is the committed table, its index the global `seq`. A writer is a thread inside `append()`,
walked through by `pc`: take the process's lock (`Call`, `Acquire`), `BEGIN IMMEDIATE` (SQLite's
single write transaction, `txn`), `SELECT` of the stream's tail, conflict test, `INSERT` into the open transaction,
`COMMIT` and wake the subscriptions of this process. Each may fail or be cut by a death of the process, which
rolls back what is open. A subscriber is `subscribe()`: read at most `Limit` rows after its cursor, yield
those it wants, wait for the flag or the poll timeout. The flag is set through the event loop (`posted`,
then `wake`) and cleared *before* the read, the order `NoLostWakeup` depends on. `Hash` is a constant: TLC takes the
tuple of its arguments, the proofs any function at all.

`StreamLog` is what the store promises its callers: an append is one step that checks its
expectation against the stream as it is at that moment and either adds one event or reports a conflict.
`ImplementsLog` maps `EventStore` to it.

### Scheduler, SchedulerProofs - `runtime/scheduler.py`, `runtime/team.py`, `runtime/agent.py`, `runtime/attention.py`

`log` holds the events the scheduler folds. `mem` is its memory, one record with the fields of the class; `CatchUp` is the
fold of new events into it (`Ingest`, `AddItem`), so a restart is `CatchUp(Blank)`. `pc` walks
`run()`: boot, resume what was unfinished, then tick (catch up, timers, breakers), start candidates, stop or declare
quiescence, wait. Activations are asyncio tasks with phases of their own: between any two awaits
of the loop they begin, poll (which moves items into the context), finish, are cancelled, or fail. `Environment` is what other
processes append: messages, tasks that are assigned, given to another, closed and reopened, stop requests, resets. What `still_relevant` calls
void may hold again when its task comes back (`Relevant`); what `_waking` finds void it drops from memory for good (`Prune`), where a restart finds it
on the log again.

Abstracted: debounce, backoff and hourly rates become "a candidate may be passed over this time";
the order of candidates; cost counts 1 per finished activation; a storm window may end at any moment; one
timer per activation; of a task the view keeps whose it is and whether it is closed; the human inbox, the
elapsed-time budget and the extensions' own `step`/`busy`/`stop_reason` are left out.

### TaskBoard, TaskBoardProofs - `comm/board.py`, `comm/service.py`, `comm/model.py`, `runtime/attention.py`

`tasks` is the fold of the board. An act is planned in one step (`PlanCreate`, `PlanTransition`, `PlanUpdate`: roles,
guards of `CheckTransition`, cycle test, cascade) into the list `todo` of its events, which `Write` appends one by one, each followed by
the fold and by the attention items it raises (`Items`: own reasons, readiness of successors, unlocking). `pending` is what each agent has
been raised and not shown; there is one item per event and agent, which keeps the reference of the first reason however many tasks it
concerns (`Concerns`). `DropStale` is what `still_relevant` takes away. A crash loses `act` and `todo`. The open tasks below a cancelled one
(`OpenBelow`) are cancelled in some order, where the code takes the one in which its walk meets them: what is checked and proved holds of any.

Abstracted: titles, notes, results and other fields; watchers (the creator stands for them); agents
may act at any moment, not only when woken. The gate of the institution is `ActPath`'s matter.

### ActPath, ActLedger, ActPathProofs - `comm/service.py`, `institution/gate.py`, `institution/service.py`

An act that moves a task is recorded (`Submit`), decided by the gate's pure function of act and folded state (`Decision`), and its
outcome and the events it implies are appended one at a time (`Write`). An act that waits keeps what it waits for; validators
answer (`Validated`, which `ValidationWorker` replaces), the human decides (`Decide`), and `Resolve` takes the decision again from the results at hand under
whatever rules an amendment (`Amend`) has put in force. A process does one thing at a time; `Proc` may be one process or two.
`ActLedger` is what agents may rely on: an act is decided and, if allowed, takes effect in that same step. Its one
exception is `Lost`: a death between the two events leaves an allowed act without effect (see the disagreements below), and
`EffectOnce` bounds the number of such acts by the number of deaths.

### ValidationWorker - `institution/validation.py`

Extends `ActPath` and replaces its `Validated` by the worker's own steps. A round takes the requests in order (`NextRequest`): a request
is answered from an earlier verdict on the same question with the same digest of the private directories (`AnswerCached`), or
a run is started if fewer than `MaxParallel` are under way (`Start`). A run ends with a verdict (`Finish`) or by a failure of its
infrastructure (`Fail`), which counts an attempt until the third is recorded as `infra`. `running` and `attempts` are memory, lost by a death
of the scheduler's process (`Die`); `record` is what a verdict keeps on the log. Agents write to their private directories at any moment (`Edit`).
The digest is taken when a run starts; what the command reads afterwards is not followed.

### Amendments, Organization, OrganizationProofs - `institution/service.py`, `org/service.py`

`Amendments` has the acts on amendments (`Propose`, `Vote`, `Withdraw`, `Ratify`), which are one event each, and what `settle()` makes
of an amendment (`Consequences`): close it when its window ended or what it is based on has changed, have it ratified, enact it. A content
of a file is its own sha. `Organization` adds the acts that hire and dismiss, which may wait for the human and are decided again later (`Decision`,
`Resolve`), the moves of tasks it depends on, and `OrgService.settle()` (`OrgConsequences`). What a process is about to append is
`todo`; `Write` appends one event and folds it, and a death forgets the rest. Two histories say what a member who goes is left with: `spared`, the
tasks of his that were in review or done when he was removed, which the code does not take, and `cutOff`, those a death kept it from taking.

Abstracted: an act is decided and its events planned in the step that records it (`ActPath` takes that apart); the turns
of `settle()` come in any order; a blocked task is one in progress; a task that is done counts as accepted; where several members hold the seat
somebody reports to, one of them is the boss throughout. `protected_rules` (`institution/service.py:247`) is left out: each of `Contents` is taken to keep the
protected rules as they are, as the test then compares equal ones. Agents act in the scheduler's process, the human also from the command line.

### Experiment, ExperimentProofs - `experiment/runner.py`, `experiment/quota.py`

`runs` is what the directory of each run says; `drivers` are the processes at it, each walking `run_one()` and `drive()`: check, create,
drive round by round as the owner, end, grade, write. A round runs the scheduler until it stops, for an end of its own, at once, or by a breaker in two
events: the trip, after which what runs is cancelled, and the stop (`Trips`, `Stops`). A scheduler that finds the run paused by a breaker it has not tripped itself starts nothing and
does not stop (`Waits`) unless the organization or a human ends the run. After a stop by a human or because the goals were cancelled the owner goes on as after quiescence (`Look`). `sup` walks `run_all()`: list the open runs,
await the provider, whose every probe may find it ready or not, launch at most `Parallel` in the order of the plan, tally. Time passes only in `Await`.
`SupervisorDies` leaves the processes it launched alive, nobody's; `DriverDies` leaves the directory as it is. Histories name the runs of which less is promised:
`overlap` (two processes were at the run at once), `broken` (its process died while creating it or writing its result) and `left` (its process died between a
trip and the stop). A fourth, `sup.row`, counts the launches in vain that came last, apart from the supervisor's own counter `stalled`.

Abstracted: a run that waits for its owner is one that is quiescent; why a scheduler stops is any of `Reason` its state permits; `on_quiescent` is "stop", as
in the configurations of the experiments; audit and grading succeed.

### CountsAs, CountsAsProofs - `institution/facts.py`, `institution/view.py`, `institution/service.py`

The rules are those of `configs/institution`: done counts as accepted when the subtasks are,
reopening revokes, the assignee is paid for the fact. `owed` is what the fold derived and nobody has recorded; `settle` records it event
by event, each append preceded by the test that it is still owed (`holding`). `accepted` and `earned` are histories: what would be recorded if
every consequence were written with its cause. `prompt` is a history too: it stays true as long as no task moved again while
something it counts as was owed, which is when `AsIfAtOnce` promises that late and prompt recording agree.

### Harness, HarnessProofs - `harness/loop.py`, `harness/state.py`, `harness/compaction`

`entries` is the transcript with its tool calls and results; `pending` the calls without a result. `pc` walks the loop:
notices and incoming messages, compaction, the call of the model, dispatch (readonly calls are put off and flushed together), finish with its reviews,
the closing call when the budget is used up. What `state.py` folds survives a crash, the rest is memory: `Resume` answers what was
running with an interruption and goes on. `ran` and `accepted` are histories of what was executed and of an accepted finish.

Abstracted: token counts of the provider are the estimates; cost and wall clock are one scaled counter; loop detection may fire at any
time; the summarizer's text and its cooldown; a tool runs in one step (a crash comes before or after it).

## The runs

Eleven runs pass, one shows a disagreement. Every property of a passing run also has a deliberately wrong variant of
some definition ("Mutant:") under which the same run finds it violated.

| run | instance and bounds | why they are enough |
|---|---|---|
| `store` | two processes with one writing thread each, one subscription, one stream, two event types, three calls of `append`, one death, batches of two rows | a conflict needs two writers, a split batch three rows; threads of one process differ from processes only in also sharing the lock, which makes them wait earlier |
| `sched_safety` | two interchangeable agents that may fail or hand off, a task that is assigned, given to the other, closed and reopened, two events from outside besides reopenings, a request to stop among them, no retries of errors, one handoff allowed, three activations, one death | a second agent for whom something arrives while the first runs, a death or a stop in each phase, an activation that goes on after a handoff, and one after the restart; an item that becomes void, before and after it is looked at, and holds again |
| `sched_failing` | one agent that hands off or whose provider fails, one handoff allowed, a timer, three activations, two launches, one death | the limits are reached and passed within three activations, with a death before, at or after the limit |
| `sched_live` | one agent, two events from outside, two activations, one death | an item before, during and at the end of an activation, and one left over by a death; more agents only add concurrency slots |
| `board_deps` | one member with every role, three tasks in any tree, up to two SF dependencies each | the shortest cycle that goes through a parent has three tasks; cycle test and cascade do not look at the type of a dependency (`board_unlocks` covers FS and SS); permissions only remove behaviours |
| `board_unlocks` | a lead and a developer, two tasks, FS and SS dependencies, with and without review, one death | one predecessor and one successor are all the definition of readiness looks at; two types unlock at different transitions |
| `act_path` | one process, one task, two validators, two rule versions (first a validator of the submission and approval of the work, then two validators and approval of the submission), two acts that cite the same commit, one validation at a time, two digests and one write to the private directories, one death | an act that waits, and one after it whose validation is answered from the first's or not, as the write falls before, during or after it; rules change while the first waits; three failures in a row, or two, a death, and three more |
| `worker_infra` | as `act_path`, without private directories, writes and deaths | the shortest behaviour has one act and its validation, and the same again |
| `counts_as` | two members, a task and its subtask, five changes of status or assignee, two deaths | done, reopened, done again with a change of assignee between, while the parent depends on the child |
| `harness` | turns that are empty, of a malformed call, or of a read, a write and two finishes; truncated, talking and failing replies; results of size 2 and a summary of 3 against a threshold of 5 and a tail of 4, then 2, a budget of two steps, warnings at one and two, one overflow, one message, two deaths | a second death hits the resumption of the first; the budget ends inside a turn and at its end; the tail ends inside a result or is larger than what is left; a compaction that fits at the first attempt, at the second, and not at all |
| `organization` | the scheduler's process, which settles, and the command line; a lead who staffs and legislates, one more agent, two seats, three manifests (the seat is there with a vote, without, not at all), two rule versions (hiring needs approval or not), ratification of the manifest, one task, two acts or amendments, one death | an amendment overtakes another, or a hire that waits; a dismissal meets a task in each status, which is sent back or reopened afterwards; a death falls between any two events of either |
| `experiment` | two interchangeable runs, one launched at a time, four reasons to stop (two breakers, the account's and another, cancelled goals, a human), probes every two units of at most one, two rounds, two launches of the supervisor, one death | the wait between two probes is cut short; a pause, a death of the supervisor whose process goes on, and a relaunch that meets it; a death between a trip and its stop; rounds that are followed by others and the last. To a driver quiescence is like a human's stop, a storm like the budget, a met goal like an end of its own; three launches in vain take three breakers of the provider in a row |

What each shows:

- `store`: `ChainOK` - `verify()` would succeed on every stream at every moment. `SubscriberExact` - a subscription has yielded
  exactly the committed events it wants up to its cursor. `NoLostWakeup` - it never sleeps past an event of its own process until the timeout.
  `ImplementsLog` - the store is the atomic log its callers take it for. `EventuallySeen`.
- `sched_safety`: `ShownOnce`, `RefoldAgrees`, `QuiescentIsIdle` - an item is in one context at most, none that stood all along is missed, and what memory, log and activation streams
  say of it differs only for what was void for a while.
- `sched_failing`: `OneActivation`, `DrivesBounded`, `StoppedIsOver` - also when runner, provider and process fail.
- `sched_live`: `AttentionServed`, `BreakerEndsBatch`.
- `board_deps`: `DepsAcyclic`, `NeverStuck`, `CancelCascades`. `board_unlocks`: `UnlockRaisesItem`, under a policy that also offers open tasks - the event that
  lets somebody start or claim a task raises an item for him itself, which holds where all it says is of tasks to take up; an older item does not do.
- `act_path`: `OnePending`, `EffectOnce`, `EffectIsLawful`, `PendingResolves` - of acts whose verdicts the worker gives; `VerdictsAreEarned` - of the
  worker's cache; `ImplementsActPath` - the worker is the nondeterministic answer `ActPath` takes it for; `ImplementsLedger` - the acts look atomic.
- `worker_infra`: `InfraIsNotCharged` is violated (see the disagreements).
- `counts_as`: `PaidOnce`, `AsIfAtOnce`.
- `harness`: `CallsAnswered`, `EffectsOnce`, `BudgetKept`, `TailKept`, `Terminates`.
- `organization`: `ChangesAreLawful`, `AmendmentsEnd` - of the amendments; `SeatsFit`, `DismissedHoldNothing`, `OrgFollows` - of the organization.
  `DismissedHoldNothing` looks at every later moment, not only at that of the dismissal.
- `experiment`: `ResultsAreGenuine`, `ResultsStand` - of the runs; `WaitKept`, `SupervisorEnds` - of the supervisor, which may hang on a run in `left` and on nothing else.

Deadlock is checked where the system never stops by itself (`store`); a scheduler that stopped, a board whose tasks
have ended, an activation with an outcome, an experiment whose supervisor is done and a bounded number of acts may stop.

Constants whose names begin with `Max` bound what an environment does (calls, acts, deaths, messages) and are
guards of those actions only; no step of the code itself is disabled by one, except that activations are numbered up to `MaxActivations`, which the liveness properties name as an excuse.

## Fairness

Liveness is stated under the weakest fairness that the code's own scheduling justifies.

- `EventStore!FairSpec`: weak fairness of every step of an append under way and of every step of a subscriber. A
  thread in `append` is running code; SQLite's busy timeout lets one that waits for the write transaction in or fail. Nobody is obliged to call.
- `Scheduler!LoopFairness`: the loop keeps turning (WF); a process that died is launched again, as whoever operates a run does; `Start(a)` is strongly
  fair because debounce, backoff and the hourly rate may pass a candidate over any number of times but elapse; timers that are due come due
  again and again; coroutines asyncio has ready do run (`Begin`, `Resume`, `RunnerFails`, `Cancelled`, `Done`).
  Whether an activation ends by itself is *not* part of it: `AttentionServed` and
  `BreakerEndsBatch` have it as a premise (`HarnessFairness`), which `Terminates` of the harness justifies.
- `ValidationWorker!FairWorkerSpec`: the scheduler's process writes what it has begun, and settles and steps the worker in every round (weak
  fairness of each act's resolution and of each request's answer or start); a run of a validator ends, by its timeout at the latest; an
  approver answers what it is asked. Submitting, amending and writing to private directories are never fair.
- `Organization!FairSpec`: the scheduler's process writes what it has begun (WF) and in each round settles everything there is to settle, the
  amendments and the organization (SF, because acts come in between and may undo or bring forward what there is to settle); a voting window
  ends and the human answers what he is asked to ratify (WF). Nobody is obliged to propose, vote, hire or work.
- `Experiment!FairSpec`: running processes go on (WF of each driver and of the supervisor). That the scheduler of a run stops is part of it, its
  budget ends it, but not where it `Waits`: `Scheduler!BreakerEndsBatch`, the detail, is about runs that do not die, and one that died between the trip and the stop is
  paused for good. `SupervisorEnds` names that run as its excuse (`left`). The account need never recover.
- `Harness!FairSpec`: the loop of a live activation keeps going: each step returns, since model calls and tools have timeouts.

## Proofs

Every theorem holds for every value of the constants their `ASSUME`s allow, so for any numbers of processes, agents, tasks, acts, events, launches and
deaths; TLC evaluates each `ASSUME` in a run. What is assumed beyond them stands in the theorem. Each proof has
the same form: an invariant is strengthened until it is inductive, there is a lemma per action (or per group of actions that leave the same state alone), and
the property follows from the invariant. Where two invariants need one another's facts, the second assumes the first at both ends of a step.

### The event store

| theorem of `EventStoreProofs` | says |
|---|---|
| `TypeCorrect` | `Spec => []TypeOK` |
| `ChainAlwaysVerifies` | `Spec => []ChainOK`: the sequence numbers of a stream are gapless and every row's hash links to the one before it |
| `HistoryIsAppendOnly` | `Spec => AppendOnly`: no step rewrites or removes a row, and a commit adds one |
| `SubscribersSeeAll` | `Spec => []SubscriberExact`: a subscription has yielded what it wants of the rows up to its cursor, each once and in order |
| `NoWakeupIsLost` | `Spec => []NoLostWakeup`: none sleeps while a row of its own process is there to be read |
| `AppendIsAtomic` | `Spec => ImplementsLog`: with its lock, transaction, read, test, insert and commit, an append is one step of `StreamLog` |

`ChainOK` is not inductive: a thread commits a row whose number and predecessor it read several steps earlier, and nothing in
`ChainOK` says that they still fit. The inductive invariant `IInv` adds what makes them fit: `TxnExclusive` (only a thread that has begun a
write transaction is past `BEGIN IMMEDIATE`, and it is the one SQLite has let in), `TailFresh` (the tail that thread has read is the stream's tail as it is
now, because nobody else can have committed since) and `Ordered` (the rows of a stream appear in the table in the order of their numbers,
so the last one is the tail). `SInv` of the subscribers is `LockHeld` (a thread with a transaction open holds the lock of its process, for which a read
waits), `Fits` (what was read and not yielded yet is the piece of the table after the cursor) and `Exact`. `NoLostWakeup` is inductive by itself, since the flag
is cleared before the read. The refinement needs `RInv`: the number of a stream's last row is how many rows it has (`TailCounts`), and what was compared with the tail still
agrees with it at the commit (`ExpectedMet`). The step that maps to the abstract append is the commit, or the conflict; all others stutter. `Hash` is any function.

### The scheduler

| theorem of `SchedulerProofs` | says |
|---|---|
| `WhoRunsIsKept` | `Spec => []IInv`, the inductive invariant |
| `AgentsRunOneActivation` | `Spec => []OneActivation`: an agent has one open activation and one live task at most, and an activation one end, which nothing of it follows |
| `NothingIsShownTwice` | `Spec => []ShownOnce` |
| `StoppedRunsAreOver` | `Spec => StoppedIsOver`: a run that is said to have stopped has no activation open |
| `DrivesAreBounded` | `Spec => []DrivesBounded`: retries and handoffs in a row stay within their limits |
| `QuiescentRunsAreIdle` | `~RunnerFailures => (Spec => QuiescentIsIdle)`: a run is said to be quiescent only with nothing open and nothing unserved |
| `RestartsDecideAlike` | `~RunnerFailures => (Spec => []RefoldAgrees)`: folding the log from nothing gives the same failures, handoffs, faults, timers and running activations; it forgets no item the process would wake an agent for, and brings back only items that were void at some moment since they were raised |

The difficulty is that there are three accounts of what happens, the log, the scheduler's memory, which is behind the log and in places ahead of it, and the tasks.
`IInv` says how they fit: of the log, that between two starts of an agent there is the end of the first and nothing of an activation comes after its end (`LogOK`); of the
memory, that nothing delivered is pending and what the events it has read show is delivered (`MemOK`); of the tasks, that one that has not ended is what its agent
runs, by the memory and by what is still to be read (`TasksOK`), and that where no task can exist, before the loop and after a death, the memory's `running` is what the log leaves open.
`JInv`, for quiescence, adds that an item that was read and has never been void since is pending or delivered (`NoneForgotten`; of one that was void memory may know nothing,
while a memory folded from nothing knows every item, `NothingLost`), and that what was delivered is in a context or on its way to one
(`Accounted`), unless a stop was requested, whose cancellations lose it. `KInv`, for the limits, adds that the memory has counted what stands in the log (`Counted`) and
that whoever has not ended may still fail once (`ActivationsMay`). `LInv` says that what is pending was raised for its agent, and compares the memory with a second one: some memory `r` that the first `cursor` events
make from nothing (`Replayed`) has counted the same and knows the same to run, but for an activation that has not begun or whose end is still unread. A death makes the two equal; a step
of the fold takes both along. `CatchUp` is a recursive function, so what it computes is first shown to be such a sequence of folds: the events
for which it would not be have no least one.

Both hypotheses on `RunnerFailures` are needed: a runner that fails before its activation has begun loses items until a restart
(see the disagreements). `RefoldAgrees` speaks of moments at which the scheduler waits, has read everything and every activation has begun;
its comment names the items it leaves aside.

### The task board

| theorem of `TaskBoardProofs` | says |
|---|---|
| `BoardIsAcyclic` | `Spec => []DepsAcyclic` |
| `CycleTestIsExact` | in every state `would_cycle` refuses a set of dependencies just if they lead back to the task: if each set of tasks closed under dependencies that holds them holds the task |
| `BoardIsNeverStuck` | `PolicyMoves => (Spec => []NeverStuck)` |
| `CancelsReachAll` | the act of cancelling a task, if no death cuts it off, ends with all below the task finished or cancelled, whatever deaths there were before |
| `CancelsCascade` | `MaxCrashes = 0 => (Spec => CancelCascades)` |
| `CancelsNothingElse` | no event of a cancellation touches a task that is not below the cancelled one |
| `UnlocksAreAnnounced` | `Announces => (Spec => UnlockRaisesItem)`: an event that lets an agent start or claim tasks says so of each of them and itself raises an item for the agent, which still holds where the event concerns nothing else for him |

`would_cycle` and `descendants` walk a graph: `Walk` takes as many steps as there may be tasks. The proofs need that this is enough, so that the set it ends
with is closed (`WalkCloses`: as long as it is not, each step adds a task, and there are `MaxTasks` at most) and is in every closed set that holds its start
(`WalkIsLeast`). Both go by the least number of steps at which they would fail.

`DepsAcyclic` says that a ranking exists, which is of no use when a dependency is added. `IInv` has it in another form, `Acyclic`: in every non-empty set of tasks
one depends on none of the set. When the test passes, the walk has ended in a closed set `R` that holds the new dependencies and not the task. A set of tasks that meets `R` has
the task it needs within `R`, where nothing changed; one that does not meet it may take the changed task itself, whose dependencies are in `R`. The ranking comes
back from a largest set that depends on nothing outside itself and can be ordered: if a task were left, one of those left could be added (`AcyclicIsRanked`). The act being carried
out was planned on an earlier board, so `IInv` also says of the events in `todo` that they fit the board as it is (`TodoOK`: one task created and then assigned, an
update that still closes no cycle, or transitions that leave dependencies and parents alone), and of a cancellation that what lies below its task is finished or is the
task of one of the events, and that they are of nothing else (`CancelOK`).

The board is never stuck because the set of its unfinished tasks, by `Acyclic`, has one that depends on none of them. All that it depends on is done or
cancelled, so each kind of dependency is met (a cancelled predecessor satisfies all four; that it would not is the mutant), and whatever its status, its next step is
allowed by the state machine. That somebody may take it is up to the policy: `PolicyMoves` asks that an open task can be assigned by anyone or its creator or claimed, that the assignee may
start, unblock and submit, and that the reviewer may approve, as in the flat policies and the market of `configs/comm`. Where only a manager, a coordinator or a human assigns
(`hierarchical`, `wave`, `workflow`), a board waits for that person; the theorem does not speak of them.

An agent may come to start a task by an event about that task (it is created for it, assigned to it, rejected, unblocked), or about one its task depended on: then the event satisfied
the last of the dependencies that hold the task back, which is what `Readiness` looks for. Either way the task is among those the event concerns for the agent (`Concerns`), so the item the event raises
refers to one of these; if all of them are to be started, or all to be claimed, it refers to such a one and is not void. Where the event has several things to say the item
may refer to another: that is the collision of `ReadyIsWoken` (see the disagreements). `Announces` asks that the policy wakes on those reasons, `task_assigned` unless nobody may
assign, as in the market; that nobody comes to claim a task by becoming its reviewer; and that dependencies are fixed at creation, since a `task_updated` raises nothing (see
the disagreements). `MCTaskBoard` has TLC evaluate both hypotheses in the instances of the runs.

### The path of acts and the validation worker

| theorem of `ActPathProofs` | says |
|---|---|
| `OneWaits` | with one process, `Spec => []OnePending`: no two acts on a task wait at once |
| `NoEffectTwice` | with one process, `Spec => []EffectOnce`: an act takes effect at most once, and only deaths leave an allowed act without effect |
| `EffectsAreLawful` | with one process, `Spec => EffectIsLawful`: at the step at which an act takes effect, its task may move so, each validator of the rules in force has passed it, and it is approved where they ask for it |
| `PathIsALedger` | with one process, `Spec => ImplementsLedger` |
| `WorkerAnswersLawfully` | `WorkerSpec => ImplementsActPath`, with any processes |
| `EveryVerdictIsEarned` | with one process and where private directories are mounted, `WorkerSpec => []VerdictsAreEarned` |

These speak of what is recorded, while what is recorded was decided in an earlier step. `IInv` adds `AboutTo` (what the process is
about to append fits the acts as they are: the outcome of an act not decided yet, which is to wait only if no other waits on its task, or the effect of one that is allowed
and has none) and `EffectsFit` (an act that is not allowed has no effect, and allowed acts whose effect is neither recorded nor about to be are as many as the
deaths at most). `RInv` adds that the validations a decision asks for come first in what is to be written and carry the numbers they will have; `DInv` that a decision about
to be written is still the one the gate would take (`DecisionHolds`), and an effect about to be written still permitted (`EffectHolds`), since nothing it looked at can change in between. For the refinement an allowed act whose effect is about to
be written counts as undecided (`Rows`), so the effect is the step at which the ledger decides it; a death in between is the ledger's `Lost`. Of the worker, `WInv` says
that a failure of the infrastructure has no digest, which is what keeps the cache from copying it, and that what has ended has been answered.

A second process could change the acts between the two steps, which is why the theorems assume `Proc = {Team}`. No act, rule or validator has to be there. As the worker's
specification implements `ActPath`'s, the first four theorems hold of the acts it serves. Without private directories `VerdictsAreEarned` does not
hold: all digests are none, and a failure is copied as a verdict (`worker_infra`).

### Facts and payments

| theorem of `CountsAsProofs` | says |
|---|---|
| `OneProcessPaysOnce` | `Proc = {Team} => (Spec => []PaidOnce)`: with one process that settles, no fact is paid for twice |
| `LateIsAsGood` | `Proc = {Team} => (Spec => []AsIfAtOnce)`: recording late gives the facts and payments that recording at once would |

`PaidOnce` speaks of the ledger alone, but what is recorded next was derived earlier and chosen in a step of its own. `IInv` adds
`CausesArePast` (an entry's cause is an event already in the log, so a new one owes something nobody has recorded), `OwedOnce` (no event is the cause of two
entries, owed or recorded) and `HeldIsOwed` (what the process is about to record is still owed). The last is what two processes break, since
each tests what is owed before it appends; TLC finds the double payment with two. `AsIfAtOnce` speaks of moments at which nothing is owed. `AInv` says what holds in between, as long as the history is
`prompt`: a task has one thing owed at most (`OwedApart`), what is recorded with what is owed is what recording at once would have given (`FactsAgree`), and payments due and made are what was earned (`PaymentsAgree`).

### The harness

| theorem of `HarnessProofs` | says |
|---|---|
| `CallsRunOnce` | `Spec => []EffectsOnce`: no tool call is executed twice, also not by the resumption after a death |
| `EveryCallIsAnswered` | `Spec => []CallsAnswered`: when the model is called, each call it is shown is followed by its results, and no result has lost its call |
| `BudgetIsKept` | `Spec => []BudgetKept`: the closing call alone exceeds the limit, once per life of the activation, and each warning is given once |
| `CompactionKeepsTail` | `Spec => TailKept`: compaction folds nothing that can be cut at and lies within the tail |

`IInv` adds `RanIsPast` (an executed call was made by a message already in the transcript, so
the calls of a new message are new) and `OnePlace` (during a dispatch a call is in at most one of four places: still to come, put off in the batch,
running, executed). A death forgets three of the four, and the resumption dispatches nothing of the old message again. `AInv` describes the transcript: calls without a result
are those of one message, after which there are results only, one for each of its other calls (`Answering`), and where the loop is while there are any (`CallsTracked`). `BInv` says where the model may be called at
which number of steps. `Tokens` is a recursive function; that it is the sum of sizes it looks like is proved by the least position at which it would not be.

### Seats, rules and who goes

| theorem of `OrganizationProofs` | says |
|---|---|
| `SeatsAreNeverOverfilled` | `Settling = {Team} => (Spec => []SeatsFit)` |
| `RuleSetChangesLawfully` | `Settling = {Team} => (Spec => ChangesAreLawful)`: the rules change only by an amendment that passed, is ratified where it must be and is not stale |
| `WhoGoesLeavesNothing` | `Settling = {Team} => (Spec => []DismissedHoldNothing)`: at any moment at which nothing is being written, however long after, whoever is no member has no unfinished task but what was in review or done when he went and what a death kept from being taken |

One inductive invariant serves all three, with a second for the last. It says what the settling process may be about to append, given the state as it is now (`AboutTo`): events that leave seats and rules alone; a hire
for which there is room; a dismissal followed by the unassignment of all that its member holds; or an amendment that may still come into force. Each of
these was true when it was planned; that it stays true until it is written is the proof, and fails with a second process that settles, with which TLC refutes `ChangesAreLawful`.
The command line proposes, votes and decides in any order with it, as the theorems leave `Proc` open. `GInv` has every task that is held by no member, the tasks in review or done included,
`Explained`: it was left to him when he went (`spared`), lost by a death (`cutOff`), or its unassignment is in what the process is about to write. It is inductive since nothing
is assigned to who is no member, and what the process is about to write is not overtaken by a move of the task.

### Experiments

| theorem of `ExperimentProofs` | says |
|---|---|
| `ResultsComeFromEnds` | `Spec => []ResultsAreGenuine`: a result is that of a run that was created and whose scheduler stopped last for the reason the result gives, not for the provider |
| `FinishedStaysFinished` | `Spec => ResultsStand`: a run with a result is left alone |
| `WaitIsKept` | `Spec => []WaitKept`: the supervisor waits within its budget and gives up on open runs only at its end or after three launches in a row in vain |

Between its first test of the directory and the result a process takes many steps, during which what it saw could change. `IInv`
says why it does not, where the run is not in `overlap`: `Alone` (at most one process is at a run, and past the test there is no result), `Ready` (unless it is in `broken`: a directory that is half made
has its creator at it; `Driven`, whoever drives drives what was created, and what is graded was not halted by the provider; `Genuine`, a result that is only half written has
its writer at it) and `Stopped` (whoever is past the scheduler has a stop to look at, so a result is never taken back). The last makes `WaitKept` inductive too: open runs never become more, and
`Counts` has the supervisor's counter `stalled` equal to `row`, the launches in vain that came last, and below three while it is at work. The theorems rest on no assumption
but that a scheduler stops for one of the code's seven reasons: `quiescent`, `human`, `goal_met`, `goals_cancelled`, and the breakers `budget`, `storm` and `provider`.

### What stays with TLC

- Liveness under fairness, which the provers cannot do: `EventuallySeen`, `AttentionServed`, `BreakerEndsBatch`, `PendingResolves`, `Terminates`, `AmendmentsEnd`, `OrgFollows`, `SupervisorEnds`.
- Induction with a predicate as its parameter cannot be cited here. Where a proof needs induction it takes the least element of the set of counterexamples (`LeastNatural`), which
  was enough for the three recursive functions proofs depend on, `CatchUp`, `Tokens` and the steps of `Walk`.

## Where the code and its documents disagree

One with a run that shows it:

- `worker_infra`: a third failure of the infrastructure is recorded as a failed validation marked `infra`, under no digest of its inputs (`institution/validation.py:107`). Where
  no private directories are mounted every digest is none, so the next validation of the same commit finds that record in the cache and copies
  it without the mark (`institution/validation.py:87`); the ledger charges the submitter, against `docs/40-institution.md:159`.

Met while modelling; the runs stay clear of them by the bounds and properties named. The first three are definitions of `TaskBoard` and
`Scheduler` that TLC refutes under the constants their comments name.

- `runtime/attention.py:59` (`ReadyIsWoken`): an agent that one event concerns for two reasons gets one item with the reference of the first. If the second
  is a task that became ready, the item refers to the predecessor, is dropped as stale, and the agent is not woken for the task (`docs/30-communication.md:153`).
- `runtime/scheduler.py:209` (`RestartWakesAlike`): `_waking` drops from memory for good what is void at that moment, while a task that is given back, sent back or reopened makes an old item hold again. A restart,
  which finds it on the log, wakes an agent that the running process would leave alone (`docs/31-runtime.md:95`: pending is what was raised less what was delivered, and a refold restores it). `RefoldAgrees` says how far the two may differ.
- `runtime/scheduler.py:188` (`InterruptedRedriven`): activations a provider pause cancels end as errors that raise no retry, while `experiment/quota.py:5` expects the
  scheduler to drive them again; the resumed run becomes quiescent without them.
- `runtime/scheduler.py:260`: a death between `breaker_tripped` and `run_stopped` leaves a batch run paused with nobody to resume it (`BreakerEndsBatch` is about runs that do not die). The process launched for it next
  does not find it paused, as `is_paused` looks at the last stop, and resets nothing: its scheduler starts nothing and never stops, and the supervisor waits for it for ever. `SupervisorEnds` names such runs (`left`).
- `runtime/scheduler.py:291`: items are delivered in memory before `activation_started` exists; a runner that fails first loses them until a restart (`docs/31-runtime.md:61`). `QuiescentIsIdle`, `RefoldAgrees` and `AttentionServed` are checked, and the first two proved, without such failures.
- `runtime/scheduler.py:214`: an item dropped at the handoff limit comes back after a restart (`docs/31-runtime.md:95`). `RefoldAgrees` leaves the items of handoffs out (`WakingAnyway`).
- `runtime/scheduler.py:141`: a direct message to a faulted agent leaves it faulted (`docs/31-runtime.md:72`).
- `comm/service.py:447`: `task_update` may make a task startable with no event that wakes its assignee (`runtime/attention.py:126`, `docs/30-communication.md:153`). `UnlockRaisesItem` is checked and proved without updates of dependencies.
- `comm/service.py:158`: a death between the events of a cancel leaves open subtasks under a cancelled parent (`docs/30-communication.md:133`). `CancelCascades` is checked and proved without deaths; `CancelsReachAll` says what deaths leave of it.
- `comm/service.py:158`: a death after `act_decided` with `allow` leaves an act without effect, which nothing repairs (`ActLedger!Lost`).
- `institution/service.py:117`: two processes that settle at once may resolve the same act and record the same payment twice, as their locks are their own (`docs/30-communication.md:183`). They may also each enact an amendment based on the same file, as the command line does
  when the human decides (`institution/team.py:210`), and the later undoes the earlier (`docs/40-institution.md:181`). `EffectOnce`, `PaidOnce` and `ChangesAreLawful` are checked with one process that
  settles; with `Settling = {Team, Cli}` TLC refutes the last.
- `institution/service.py:224`: a death between `amendment_enacted` and `rule_version_activated` leaves an amendment that is enacted and never in force; one between
  `amendment_passed` and `approval_requested` leaves it ratifying for ever, as nobody is asked. `AmendmentsEnd` names the latter as its excuse; it counts an enacted amendment as ended, in force or not, so it does not see the former.
- `institution/service.py:198`: where all voters must agree and there are none, an amendment passes without a vote.
- `institution/service.py:190`: who may vote follows the members' attributes, which lag behind the manifest in force until the organization settles.
- `institution/validation.py:95`: the digest of the private directories is taken before the command reads them, so a verdict may be cached under inputs it has not seen.
- `org/service.py:252`: a dismissal unassigns what is assigned or in progress (`org/service.py:21`); a task in review stays its assignee's, and a rejection makes it
  the unfinished task of somebody who is gone (`docs/50-organization.md:88`). A death between `member_removed` and `task_unassigned` does so too, and nothing repairs it. `DismissedHoldNothing`
  names both as its exceptions (`spared`, `cutOff`).
- `experiment/runner.py:214`: `run.json` is written first; after a death while a run is created the next launch finds it, drives a run without roster or
  tasks, and writes a result for it, while `run_all` says that the command may safely be run again. `ResultsAreGenuine` leaves such runs out (`broken`).
- `experiment/runner.py:245`: `result.json` is not written at once; a death in between leaves a truncated file, which the next launch takes for a result (`experiment/runner.py:207`). `broken` has such runs too.
- `experiment/runner.py:132`: a run that a human stopped is driven on like one that became quiescent, or gets a result with the reason `human`; nothing in the loop treats the request as an end.
- `experiment/runner.py:266`: the processes of a supervisor that died go on; a relaunch is at the same runs, where each may write a result over the other's. The lock of a run
  covers its scheduler only, not its grading. `ResultsAreGenuine` and `ResultsStand` leave such runs out (`overlap`).
- `institution/view.py:129`: `has_fact` overlooks a revocation that is itself still owed: a task that is done, reopened and done again before anyone settles (`docs/40-institution.md:164`). `AsIfAtOnce` excludes exactly that (`prompt`).
- `harness/loop.py:284`: an accepted finish and the end of the activation are two events; a death in between has the model called again, while a finish that is dispatched is to end the activation (`docs/20-harness.md:73`).
- `harness/compaction/cut.py:38`: results larger than the tail, followed by a notice, are folded although the model has not seen them.

## What is not modelled

The notes of the components in `PROJECT.json` say it part by part. In short:

- messages and conversations: posts, rooms, their members and mentions. What they decide in the rest of the system is whom an event wakes, which `Scheduler` takes as
  its input; nothing else reads their state. Planned as `Conversations`, and not built: every operation is one event planned and
  appended under the service's lock, and what may go wrong is a matter of data (who may read what) more than of steps;
- the order in which the harness executes the calls of a turn and the ringing of timers are modelled, but no property is spent on them;
- pure I/O or text: providers, the sandbox, the drivers of the benchmarks and their solutions, scripts of reports, the command line, rendering, briefings, analysis of
  experiments, loading of configuration, content-addressed blobs, the tools of agents (they parse arguments and call the services). They
  hold no state that outlives a call, and make up most of the repository's lines, three quarters of the `sciteam` package's included;
- abstracted inside modelled components: wall-clock time (delays elapse at any moment), token counts, costs, selectors' syntax, the content of messages and summaries.
