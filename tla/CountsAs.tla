------------------------------ MODULE CountsAs ------------------------------
(***************************************************************************)
(* Institutional facts and the ledger: what the events of the board count  *)
(* as under the rules (institution/facts.py), what the fold owes the log   *)
(* (institution/view.py) and the writing of it (InstitutionService.settle).*)
(*                                                                         *)
(* The rules are those of configs/institution: a task that is done is      *)
(* accepted, if its subtasks are; reopening it revokes that; whoever it is *)
(* assigned to is paid for the fact.                                       *)
(***************************************************************************)
EXTENDS Integers, Sequences, FiniteSets

CONSTANTS
  Task, Parent,   \* tasks, and the parent of each (NoTask: none)
  NoTask,
  Member,         \* who tasks are assigned to
  Proc, Team,     \* the processes that settle; the one whose agents act
  MaxChanges,     \* bound on acts
  MaxCrashes      \* bound on deaths of the team's process

ASSUME CountsAsAssumption ==
  /\ NoTask \notin Task /\ Parent \in [Task -> Task \cup {NoTask}]
  /\ Team \in Proc
  /\ {MaxChanges, MaxCrashes} \subseteq Nat

VARIABLES
  done,       \* the tasks that are done
  assignee,   \* who each task is assigned to
  seq,        \* the number of events
  facts,      \* the tasks with the fact recorded
  owed,       \* what the events imply and nobody has recorded yet
  ledger,     \* the entries recorded: [member, task, cause]
  settling,   \* per process: it is in settle(), under its lock
  holding,    \* per process: what it is about to record, or {}
  changes, crashes,
  accepted,   \* history: the facts, had each been recorded at once
  earned,     \* history: the entries, had each been recorded at once
  prompt      \* history: no task was moved while something it counts as was owed

fold == <<done, assignee, seq, facts, owed, ledger>>
history == <<accepted, earned, prompt>>
vars == <<fold, settling, holding, changes, crashes, history>>

Owed(type, t, m, cause) == [type |-> type, task |-> t, member |-> m, cause |-> cause]

-----------------------------------------------------------------------------
(* has_fact(): recorded, or owed and not yet written.                      *)

HasFact(t) ==
  IF t \in facts THEN \A o \in owed : ~(o.type = "revoke" /\ o.task = t)
  ELSE \E o \in owed : o.type = "establish" /\ o.task = t

ChildrenLacking(t) == {k \in Task : Parent[k] = t /\ ~HasFact(k)}

\* derive(): what an event of the board counts as, at its place in the log.
Derived(t, to) ==
  CASE to = "done" /\ ~HasFact(t) /\ ChildrenLacking(t) = {} ->
         {Owed("establish", t, assignee[t], seq + 1)}
    [] to = "reopened" /\ HasFact(t) -> {Owed("revoke", t, assignee[t], seq + 1)}
    [] OTHER -> {}

-----------------------------------------------------------------------------
(* Acts of the team's agents move tasks.                                   *)

MayChange ==
  /\ changes < MaxChanges
  /\ ~settling[Team]

Change(t, to) ==
  /\ MayChange
  /\ changes' = changes + 1
  /\ seq' = seq + 1
  /\ owed' = owed \cup Derived(t, to)
  /\ prompt' = (prompt /\ \A o \in owed : o.task # t)
  /\ UNCHANGED <<facts, ledger, settling, holding, crashes>>

Done(t) ==
  /\ t \notin done
  /\ done' = done \cup {t}
  /\ Change(t, "done")
  /\ LET counts == t \notin accepted /\ \A k \in Task : Parent[k] = t => k \in accepted
     IN  /\ accepted' = IF counts THEN accepted \cup {t} ELSE accepted
         /\ earned' = IF counts THEN Append(earned, <<assignee[t], t>>) ELSE earned
  /\ UNCHANGED assignee

\* A task that is reopened may be assigned to somebody else.
Reopen(t) ==
  /\ t \in done
  /\ done' = done \ {t}
  /\ \E m \in Member : assignee' = [assignee EXCEPT ![t] = m]
  /\ Change(t, "reopened")
  /\ accepted' = accepted \ {t}
  /\ UNCHANGED earned

-----------------------------------------------------------------------------
(* settle(): write what is owed, by order of cause, until nothing is.      *)

Settle(p) ==
  /\ ~settling[p] /\ owed # {}
  /\ settling' = [settling EXCEPT ![p] = TRUE]
  /\ UNCHANGED <<fold, holding, changes, crashes, history>>

\* `if key in self.inst.owed`: checked before record() folds what is new.
Pick(p) ==
  /\ settling[p] /\ holding[p] = {}
  /\ \E o \in owed :
       /\ \A x \in owed : o.cause <= x.cause
       /\ holding' = [holding EXCEPT ![p] = {o}]
  /\ UNCHANGED <<fold, settling, changes, crashes, history>>

\* Mutant: an entry that is recorded stays owed.
FoldedKeeps(o) ==
  /\ facts' = IF o.type = "establish" THEN facts \cup {o.task} ELSE facts \ {o.task}
  /\ ledger' = IF o.type = "ledger" THEN Append(ledger, o) ELSE ledger
  /\ owed' = IF o.type = "ledger" THEN owed
             ELSE (owed \ {o}) \cup
                  {Owed("ledger", o.task, assignee[o.task], seq + 1) : x \in {o.type} \cap {"establish"}}

\* Mutant: the entry is for whoever the event of the fact is attributed to,
\* and a fact that is revoked is worth one too.
FoldedBoth(o) ==
  /\ facts' = CASE o.type = "establish" -> facts \cup {o.task}
               [] o.type = "revoke" -> facts \ {o.task}
               [] o.type = "ledger" -> facts
  /\ ledger' = IF o.type = "ledger" THEN Append(ledger, o) ELSE ledger
  /\ owed' = (owed \ {o}) \cup
             {Owed("ledger", o.task, o.member, seq + 1) : x \in {o.type} \cap {"establish", "revoke"}}

\* The event is appended and folded, and may count as something in turn:
\* the fact is worth an entry to whoever the task is assigned to by then.
Folded(o) ==
  CASE o.type = "establish" ->
         /\ facts' = facts \cup {o.task}
         /\ owed' = (owed \ {o}) \cup {Owed("ledger", o.task, assignee[o.task], seq + 1)}
         /\ UNCHANGED ledger
    [] o.type = "revoke" ->
         /\ facts' = facts \ {o.task}
         /\ owed' = owed \ {o}
         /\ UNCHANGED ledger
    [] o.type = "ledger" ->
         /\ ledger' = Append(ledger, o)
         /\ owed' = owed \ {o}
         /\ UNCHANGED facts

Record(p) ==
  /\ holding[p] # {}
  /\ \E o \in holding[p] : Folded(o)
  /\ seq' = seq + 1
  /\ holding' = [holding EXCEPT ![p] = {}]
  /\ UNCHANGED <<done, assignee, settling, changes, crashes, history>>

Settled(p) ==
  /\ settling[p] /\ holding[p] = {} /\ owed = {}
  /\ settling' = [settling EXCEPT ![p] = FALSE]
  /\ UNCHANGED <<fold, holding, changes, crashes, history>>

\* The team's process dies; another one folds the log again.
Crash ==
  /\ crashes < MaxCrashes
  /\ crashes' = crashes + 1
  /\ settling' = [settling EXCEPT ![Team] = FALSE]
  /\ holding' = [holding EXCEPT ![Team] = {}]
  /\ UNCHANGED <<fold, changes, history>>

Init ==
  /\ done = {} /\ assignee \in [Task -> Member]
  /\ seq = 0 /\ facts = {} /\ owed = {} /\ ledger = <<>>
  /\ settling = [p \in Proc |-> FALSE] /\ holding = [p \in Proc |-> {}]
  /\ changes = 0 /\ crashes = 0
  /\ accepted = {} /\ earned = <<>> /\ prompt = TRUE

Next ==
  \/ \E t \in Task : Done(t) \/ Reopen(t)
  \/ \E p \in Proc : Settle(p) \/ Pick(p) \/ Record(p) \/ Settled(p)
  \/ Crash

Spec == Init /\ [][Next]_vars

-----------------------------------------------------------------------------
(* Properties.                                                             *)

(* Nobody is paid twice for one recorded fact, whatever dies and is folded *)
(* again between deriving an entry and recording it.                       *)
PaidOnce == \A i, j \in DOMAIN ledger : ledger[i].cause = ledger[j].cause => i = j

(* When a fact is recorded makes no difference, unless a task is moved     *)
(* again before what it counted as was: once nothing is owed, the facts    *)
(* are those that recording each derivation at once would have given, and  *)
(* so are the payments and the members they went to.                       *)
AsIfAtOnce ==
  prompt /\ owed = {} =>
    /\ facts = accepted
    /\ \A m \in Member, t \in Task :
         Cardinality({i \in DOMAIN ledger : ledger[i].member = m /\ ledger[i].task = t})
           = Cardinality({i \in DOMAIN earned : earned[i] = <<m, t>>})
=============================================================================
