--------------------------- MODULE MCOrganization ---------------------------
(* Instances of Organization for TLC: a lead who staffs and legislates, a  *)
(* developer yet to be hired, and rules that ask for approval at first.    *)
EXTENDS Organization

CONSTANTS a1, a2, lead, dev

Manifest(n, legislature) ==
  [count |-> [s \in Seat |-> IF s = lead THEN 1 ELSE n], legislature |-> legislature]

\* The developer votes too; no longer; the seat is gone.
Versions ==
  [manifest |-> <<Manifest(1, {lead, dev}), Manifest(1, {lead}), Manifest(0, {lead})>>,
   rules |-> <<[approve |-> {"hire"}], [approve |-> {}]>>]

AtStart == [a \in Agent |-> IF a = a1 THEN lead ELSE NoOne]
Lines == [s \in Seat |-> IF s = dev THEN lead ELSE NoOne]
=============================================================================
