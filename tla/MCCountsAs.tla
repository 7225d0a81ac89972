----------------------------- MODULE MCCountsAs -----------------------------
(* Instances of CountsAs for TLC: a task and its subtask, two members.     *)
EXTENDS CountsAs, TLC

CONSTANTS root, kid

Tree == (root :> NoTask) @@ (kid :> root)
=============================================================================
