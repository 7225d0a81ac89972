----------------------------- MODULE ActLedger ------------------------------
(***************************************************************************)
(* What CommService promises of the acts that move tasks: an act is        *)
(* recorded, then decided; an act that is allowed moves its task in the    *)
(* same step, and could; an act that has to wait is decided once more, and *)
(* while it waits no other act on the task does.  What a death of the      *)
(* process costs is one act: allowed, and without effect.                  *)
(***************************************************************************)
EXTENDS Integers, Sequences

CONSTANTS
  Task, Start,   \* the tasks, and the status each starts with
  Moves          \* transition -> [from, to]

VARIABLES
  ledger,        \* the acts, in order: [task, tr, state]
  status         \* the status of each task

lvars == <<ledger, status>>

Open(a) == ledger[a].state \in {"submitted", "pending"}

LedgerInit == ledger = <<>> /\ status = Start

Submitted(t, tr) ==
  /\ ledger' = Append(ledger, [task |-> t, tr |-> tr, state |-> "submitted"])
  /\ UNCHANGED status

Decided(a, state) == Open(a) /\ ledger' = [ledger EXCEPT ![a].state = state]

Denied(a) == Decided(a, "deny") /\ UNCHANGED status

Waits(a) ==
  /\ ledger[a].state = "submitted"
  /\ \A b \in DOMAIN ledger : ledger[b].task = ledger[a].task => ledger[b].state # "pending"
  /\ Decided(a, "pending")
  /\ UNCHANGED status

Allowed(a) ==
  /\ status[ledger[a].task] \in Moves[ledger[a].tr].from
  /\ Decided(a, "allow")
  /\ status' = [status EXCEPT ![ledger[a].task] = Moves[ledger[a].tr].to]

Lost(a) == Decided(a, "allow") /\ UNCHANGED status

LedgerNext ==
  \/ \E t \in Task, tr \in DOMAIN Moves : Submitted(t, tr)
  \/ \E a \in DOMAIN ledger : Denied(a) \/ Waits(a) \/ Allowed(a) \/ Lost(a)

LedgerSpec == LedgerInit /\ [][LedgerNext]_lvars
=============================================================================
