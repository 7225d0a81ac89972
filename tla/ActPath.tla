------------------------------ MODULE ActPath -------------------------------
(***************************************************************************)
(* The path of an act that moves a task: record, check, decide, apply      *)
(* (CommService.submit and resolve in comm/service.py), with the gate of   *)
(* the institution that may have it wait for validators and for approval   *)
(* (institution/gate.py), and the settling of what waits                   *)
(* (institution/service.py).                                               *)
(*                                                                         *)
(* Every event is an append of its own, after which the process that made  *)
(* it folds whatever is on the log.  A process does one thing at a time:   *)
(* CommService's lock.  The lock is the process's own: `team decide` and   *)
(* `team status` run in another one, on the same log.                      *)
(***************************************************************************)
EXTENDS Integers, Sequences, FiniteSets, SequencesExt

CONSTANTS
  Proc, Team,      \* the processes; the one that runs the scheduler
  Task,            \* tasks, all in progress and with a reviewer
  Validator,
  Approval,        \* what an act waits for besides validators
  Rules,           \* rule versions: [validate, approve], each by transition
  MaxActs,         \* bound on acts
  MaxCrashes       \* bound on deaths of a process

Moves ==
  [submit  |-> [from |-> {"in_progress"}, to |-> "in_review"],
   approve |-> [from |-> {"in_review"}, to |-> "done"],
   reject  |-> [from |-> {"in_review"}, to |-> "in_progress"],
   cancel  |-> [from |-> {"in_progress", "in_review"}, to |-> "cancelled"]]

Transition == DOMAIN Moves
Terminal == {"done", "cancelled"}

ASSUME ActAssumption ==
  /\ Team \in Proc
  /\ IsFiniteSet(Validator) /\ Approval \notin Validator
  /\ \A r \in DOMAIN Rules : Rules[r] \in [validate : [Transition -> SUBSET Validator],
                                           approve : SUBSET Transition]
  /\ 1 \in DOMAIN Rules
  /\ {MaxActs, MaxCrashes} \subseteq Nat

VARIABLES
  rule,        \* the rule version in force
  acts,        \* the acts recorded: [task, tr, state, waiting, effects]
  status,      \* the status of each task
  vals,        \* the validations by number: [act, validator, status]
  approvals,   \* per act: "none", "requested", "approved" or "rejected"
  todo,        \* per process: the events it is about to append
  checked,     \* per process: per act, the results it has decided it with
  crashes

store == <<rule, acts, status, vals, approvals>>
vars == <<store, todo, checked, crashes>>

Acts == DOMAIN acts
Pending == {a \in Acts : acts[a].state = "pending"}

Event(type, a, what, id) == [type |-> type, act |-> a, what |-> what, id |-> id]

-----------------------------------------------------------------------------
(* The gate: a function of the act and the folded state.                   *)

ValsOf(a) == {i \in DOMAIN vals : vals[i].act = a}

\* validations_for(): of several records of a validator the last one counts.
Verdict(a, v) ==
  LET of == {i \in ValsOf(a) : vals[i].validator = v}
  IN  IF of = {} THEN "none" ELSE vals[CHOOSE i \in of : \A j \in of : j <= i].status

\* Mutant: looks at no other act.
NoOther(a, t) == FALSE

OtherPending(a, t) == \E b \in Pending : b # a /\ acts[b].task = t

\* What an act would have to wait for: its validators first, then approval.
Waiting(a, tr) ==
  LET validators == {v \in Rules[rule].validate[tr] : Verdict(a, v) \in {"none", "requested"}}
  IN  IF validators # {} THEN validators
      ELSE IF tr \in Rules[rule].approve /\ approvals[a] \in {"none", "requested"}
           THEN {Approval} ELSE {}

Refused(a, tr) ==
  \/ \E v \in Rules[rule].validate[tr] : Verdict(a, v) = "failed"
  \/ Waiting(a, tr) = {} /\ tr \in Rules[rule].approve /\ approvals[a] = "rejected"

\* Mutants: a failed validator is taken for one that has answered; an act that
\* waited is not checked against its task again.
DecisionAnswered(a, t, tr) ==
  LET may == status[t] \in Moves[tr].from
  IN  CASE may /\ Waiting(a, tr) = {} -> "allow"
        [] may /\ Waiting(a, tr) # {} /\ ~OtherPending(a, t) -> "pending"
        [] OTHER -> "deny"

DecisionOnce(a, t, tr) ==
  LET may == (a \in Pending \/ status[t] \in Moves[tr].from) /\ ~Refused(a, tr)
  IN  CASE may /\ Waiting(a, tr) = {} -> "allow"
        [] may /\ Waiting(a, tr) # {} /\ ~OtherPending(a, t) -> "pending"
        [] OTHER -> "deny"

Decision(a, t, tr) ==
  LET may == status[t] \in Moves[tr].from /\ ~Refused(a, tr)
  IN  CASE may /\ Waiting(a, tr) = {} -> "allow"
        [] may /\ Waiting(a, tr) # {} /\ ~OtherPending(a, t) -> "pending"
        [] OTHER -> "deny"

\* on_pending(): ask for what is waited for and has not been asked for yet.
Requests(a, tr) ==
  LET new == SetToSeq({v \in Waiting(a, tr) \cap Validator : Verdict(a, v) = "none"})
  IN  [i \in DOMAIN new |-> Event("validation_requested", a, new[i], Len(vals) + i)]
      \o (IF Approval \in Waiting(a, tr) /\ approvals[a] = "none"
          THEN <<Event("approval_requested", a, "", 0)>> ELSE <<>>)

-----------------------------------------------------------------------------
(* CommService.                                                            *)

Idle(p) == todo[p] = <<>>

Outcome(type, a, d) ==
  <<Event(type, a, d, 0)>>
  \o (IF d = "allow" THEN <<Event("task_status_changed", a, "", 0)>> ELSE <<>>)

\* act_submitted is appended; the decision is taken on what that fold shows.
Submit(p) ==
  \E t \in Task, tr \in Transition :
    LET a == Len(acts) + 1
    IN  /\ Idle(p) /\ a <= MaxActs
        /\ acts' = Append(acts, [task |-> t, tr |-> tr, state |-> "submitted",
                                 waiting |-> {}, effects |-> 0])
        /\ todo' = [todo EXCEPT ![p] = Outcome("act_decided", a, Decision(a, t, tr))]
        /\ UNCHANGED <<rule, status, vals, approvals, checked, crashes>>

\* A member that may decide what awaits approval does so: the act
\* decide_pending, which itself waits for nothing.
Decide(p, a) ==
  /\ Idle(p)
  /\ approvals[a] = "requested"
  /\ \E d \in {"approved", "rejected"} :
       todo' = [todo EXCEPT ![p] = <<Event("approval_decided", a, d, 0)>>]
  /\ UNCHANGED <<store, checked, crashes>>

\* One event is appended and folded.  A pending decision is followed by the
\* requests that the fold it is part of calls for.
Written(p, more) == todo' = [todo EXCEPT ![p] = Tail(todo[p]) \o more]

\* Mutant: the fold keeps a resolved act among those that wait.
WriteDecisionKeeps(p) ==
  LET e == Head(todo[p])
      k == acts[e.act]
  IN  /\ e.type \in {"act_decided", "act_resolved"}
      /\ acts' = IF e.type = "act_resolved" THEN acts
                 ELSE [acts EXCEPT ![e.act].state = e.what,
                                   ![e.act].waiting = IF e.what = "pending"
                                                      THEN Waiting(e.act, k.tr) ELSE @]
      /\ Written(p, IF e.what = "pending" THEN Requests(e.act, k.tr) ELSE <<>>)
      /\ UNCHANGED <<rule, status, vals, approvals>>

WriteDecision(p) ==
  LET e == Head(todo[p])
      k == acts[e.act]
  IN  /\ e.type \in {"act_decided", "act_resolved"}
      /\ acts' = [acts EXCEPT ![e.act].state = e.what,
                              ![e.act].waiting = IF e.what = "pending"
                                                 THEN Waiting(e.act, k.tr) ELSE @]
      /\ Written(p, IF e.what = "pending" THEN Requests(e.act, k.tr) ELSE <<>>)
      /\ UNCHANGED <<rule, status, vals, approvals>>

WriteStatus(p) ==
  LET e == Head(todo[p])
      k == acts[e.act]
  IN  /\ e.type = "task_status_changed"
      /\ status' = [status EXCEPT ![k.task] = Moves[k.tr].to]
      /\ acts' = [acts EXCEPT ![e.act].effects = @ + 1]
      /\ Written(p, <<>>)
      /\ UNCHANGED <<rule, vals, approvals>>

\* A validation number that another process has used too replaces its record.
WriteRequest(p) ==
  LET e == Head(todo[p])
      v == [act |-> e.act, validator |-> e.what, status |-> "requested"]
  IN  /\ \/ /\ e.type = "validation_requested"
            /\ vals' = IF e.id <= Len(vals) THEN [vals EXCEPT ![e.id] = v] ELSE Append(vals, v)
            /\ UNCHANGED approvals
         \/ /\ e.type = "approval_requested"
            /\ approvals' = [approvals EXCEPT ![e.act] = "requested"]
            /\ UNCHANGED vals
         \/ /\ e.type = "approval_decided"
            /\ approvals' = [approvals EXCEPT ![e.act] = e.what]
            /\ UNCHANGED vals
      /\ Written(p, <<>>)
      /\ UNCHANGED <<rule, acts, status>>

Write(p) ==
  /\ ~Idle(p)
  /\ WriteDecision(p) \/ WriteStatus(p) \/ WriteRequest(p)
  /\ UNCHANGED <<checked, crashes>>

-----------------------------------------------------------------------------
(* InstitutionService._resolve_pending: what waits is decided again when   *)
(* something it waits for was never asked for, has failed, or is there, or *)
(* when its task has ended.                                                *)

Results(a) ==
  1 + Cardinality({i \in ValsOf(a) : vals[i].status # "requested"})
    + (IF approvals[a] \in {"approved", "rejected"} THEN 1 ELSE 0)

Awaited(a, w) == IF w = Approval THEN approvals[a] ELSE Verdict(a, w)

\* Mutant: what was never asked for is not noticed.
ResolvableAsked(p, a) ==
  LET open == approvals[a] = "requested" \/ \E w \in acts[a].waiting : Awaited(a, w) \in {"none", "requested"}
  IN  \/ approvals[a] = "rejected" \/ \E i \in ValsOf(a) : vals[i].status = "failed"
      \/ status[acts[a].task] \in Terminal
      \/ Results(a) > checked[p][a] /\ ~open

Resolvable(p, a) ==
  LET missing == \E w \in acts[a].waiting : Awaited(a, w) = "none"
      open == approvals[a] = "requested" \/ \E w \in acts[a].waiting : Awaited(a, w) = "requested"
      failed == approvals[a] = "rejected" \/ \E i \in ValsOf(a) : vals[i].status = "failed"
      gone == status[acts[a].task] \in Terminal
      changed == Results(a) > checked[p][a]
  IN  missing \/ failed \/ gone \/ (changed /\ ~open)

Resolve(p, a) ==
  /\ Idle(p)
  /\ a \in Pending
  /\ Resolvable(p, a)
  /\ checked' = [checked EXCEPT ![p][a] = Results(a)]
  /\ LET d == Decision(a, acts[a].task, acts[a].tr)
     IN  todo' = [todo EXCEPT ![p] = IF d = "pending" THEN Requests(a, acts[a].tr)
                                     ELSE Outcome("act_resolved", a, d)]
  /\ UNCHANGED <<store, crashes>>

\* The validation worker of the scheduler's process records a verdict.
Validated(i) ==
  /\ Idle(Team)
  /\ vals[i].status = "requested"
  /\ \E s \in {"passed", "failed"} : vals' = [vals EXCEPT ![i].status = s]
  /\ UNCHANGED <<rule, acts, status, approvals, todo, checked, crashes>>

\* An amendment puts the next rule version in force.
Amend(p) ==
  /\ Idle(p)
  /\ rule + 1 \in DOMAIN Rules
  /\ rule' = rule + 1
  /\ UNCHANGED <<acts, status, vals, approvals, todo, checked, crashes>>

\* A process dies and is started again; it finds what is on the log.
Crash(p) ==
  /\ crashes < MaxCrashes
  /\ crashes' = crashes + 1
  /\ todo' = [todo EXCEPT ![p] = <<>>]
  /\ checked' = [checked EXCEPT ![p] = [a \in 1 .. MaxActs |-> 0]]
  /\ UNCHANGED store

Init ==
  /\ rule = 1
  /\ acts = <<>>
  /\ status = [t \in Task |-> "in_progress"]
  /\ vals = <<>>
  /\ approvals = [a \in 1 .. MaxActs |-> "none"]
  /\ todo = [p \in Proc |-> <<>>]
  /\ checked = [p \in Proc |-> [a \in 1 .. MaxActs |-> 0]]
  /\ crashes = 0

Next ==
  \/ \E p \in Proc :
       \/ Submit(p) \/ Write(p) \/ Amend(p) \/ Crash(p)
       \/ \E a \in Acts : Decide(p, a) \/ Resolve(p, a)
  \/ \E i \in DOMAIN vals : Validated(i)

Spec == Init /\ [][Next]_vars

-----------------------------------------------------------------------------
(* Properties.                                                             *)

(* A task has at most one transition that waits: whatever else is asked of *)
(* it meanwhile is denied, or needs no wait.                               *)
OnePending ==
  \A a, b \in Pending : acts[a].task = acts[b].task => a = b

(* Nothing moves a task but what the rules in force let through: when the  *)
(* event of an act is written, its task may make the transition, all the   *)
(* validators it needs have passed on it and the approval it needs is      *)
(* there, also when rules were amended or the process died meanwhile.      *)
EffectIsLawful ==
  [][\A a \in Acts : acts'[a].effects > acts[a].effects =>
       LET k == acts[a] IN
         /\ status[k.task] \in Moves[k.tr].from
         /\ \A v \in Rules[rule].validate[k.tr] :
              \E i \in DOMAIN vals : vals[i] = [act |-> a, validator |-> v, status |-> "passed"]
         /\ k.tr \in Rules[rule].approve => approvals[a] = "approved"]_vars

(* An act takes effect at most once, however often it is resolved; one     *)
(* that is allowed has taken effect or is about to, but for the one act    *)
(* that each death of a process may cost its effect.                       *)
EffectOnce ==
  /\ \A a \in Acts : acts[a].effects <= 1
  /\ Cardinality({a \in Acts : /\ acts[a].state = "allow" /\ acts[a].effects = 0
                               /\ \A p \in Proc : Event("task_status_changed", a, "", 0)
                                                    \notin ToSet(todo[p])}) <= crashes

(* What waits is decided in the end, also when the process that was asking *)
(* for what it waits for dies in between, or the rules change.             *)
PendingResolves ==
  \A a \in 1 .. MaxActs :
    (a \in Pending) ~> (a \in Acts /\ acts[a].state \in {"allow", "deny"})

(* Of one process, the decision and the effect are one step, for whoever   *)
(* reads the log: the act path implements the ledger of acts.              *)
AboutToMove(a) == \E p \in Proc : Event("task_status_changed", a, "", 0) \in ToSet(todo[p])

Ledger == INSTANCE ActLedger WITH
  Start <- [t \in Task |-> "in_progress"],
  ledger <- [a \in Acts |->
    [task |-> acts[a].task, tr |-> acts[a].tr,
     state |-> IF acts[a].state = "allow" /\ AboutToMove(a)
               THEN (IF acts[a].waiting = {} THEN "submitted" ELSE "pending")
               ELSE acts[a].state]]

ImplementsLedger == Ledger!LedgerSpec
=============================================================================
