----------------------------- MODULE MCTaskBoard ----------------------------
(* Instances of TaskBoard for TLC: the board's part of the policies in      *)
(* configs/comm, and the smallest rosters that play all the parts.         *)
EXTENDS TaskBoard, TLC

\* configs/comm/flat.yaml
FlatPolicy ==
  [tr \in DOMAIN Transitions \cup {"edit"} |->
     CASE tr = "assign" -> {"anyone"}
       [] tr = "claim" -> {"agent"}
       [] tr \in {"start", "block", "unblock", "submit"} -> {"assignee"}
       [] tr = "unassign" -> {"assignee", "creator"}
       [] tr \in {"approve", "reject"} -> {"reviewer"}
       [] tr \in {"reopen", "cancel"} -> {"creator"}
       [] tr = "edit" -> {"party"}]

FlatWakeOn == {"task_assigned", "task_ready", "task_review", "task_returned"}

\* A team that assigns tasks and offers the open ones to whoever may claim them.
OfferingWakeOn == FlatWakeOn \cup {"task_open"}

\* The instances are ones of which the theorems of TaskBoardProofs speak.
ASSUME InstanceMoves == PolicyMoves
ASSUME InstanceAnnounces == UpdatesDeps \/ Announces
=============================================================================
