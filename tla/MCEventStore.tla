--------------------------- MODULE MCEventStore ----------------------------
(* Instances of EventStore for TLC: process p1 runs the thread w1 and the   *)
(* subscription s1, process p2 the thread w2.                               *)
EXTENDS EventStore, TLC

CONSTANTS p1, p2, w1, w2, s1

MCHome == (w1 :> p1) @@ (w2 :> p2) @@ (s1 :> p1)

MCWants == (s1 :> {"x"})

\* An injective hash: the tuple of what is hashed.
MCHash(s, n, t, p) == <<s, n, t, p>>

MCExpected == {NotGiven} \cup 0..1
=============================================================================
