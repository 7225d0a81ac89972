----------------------------- MODULE MCActPath ------------------------------
(* Instances of the act path and its worker for TLC.  Rules are shaped     *)
(* like those of configs/institution: submissions are validated, approvals *)
(* of the work need a human, and amendments add to either.                 *)
EXTENDS ValidationWorker

CONSTANTS v1, v2, c1

Needs(submit, approve) ==
  [validate |-> [tr \in Transition |-> IF tr = "submit" THEN submit ELSE {}],
   approve |-> approve]

\* The rules are amended from the one to the other.
Amended == <<Needs({v1}, {"approve"}), Needs({v1, v2}, {"submit"})>>

\* A submission, and the same commit again.
Resubmitted == <<c1, c1>>
=============================================================================
