----------------------------- MODULE StreamLog ------------------------------
(***************************************************************************)
(* What EventStore.append promises its callers: one log shared by all, to  *)
(* which a call adds one event in one step, or nothing at all.  The caller *)
(* of a call that succeeds, or that conflicts with what others appended,   *)
(* learns so truthfully; a call that fails, or whose process dies before   *)
(* it commits, has added nothing.                                          *)
(***************************************************************************)
EXTENDS Integers, Sequences, FiniteSets

CONSTANTS
  Client,        \* callers of append()
  Stream, Type,
  Expected,      \* values of expected_stream_seq
  NotGiven,      \* the one that asks for no check
  Nothing        \* a client that has no call under way

VARIABLES
  log,           \* the committed events [stream, type], oldest first
  todo,          \* per client: the call under way, or Nothing
  result         \* per client: "none" | "ok" | "conflict" | "error"

lvars == <<log, todo, result>>

LengthOf(s) == Cardinality({i \in DOMAIN log : log[i].stream = s})

Agrees(c) == todo[c].expected \in {NotGiven, LengthOf(todo[c].stream)}

LogInit ==
  /\ log = <<>>
  /\ todo = [c \in Client |-> Nothing]
  /\ result = [c \in Client |-> "none"]

Ask(c) ==
  /\ todo[c] = Nothing
  /\ \E s \in Stream, t \in Type, e \in Expected :
       todo' = [todo EXCEPT ![c] = [stream |-> s, type |-> t, expected |-> e]]
  /\ result' = [result EXCEPT ![c] = "none"]
  /\ UNCHANGED log

Answer(c, r) ==
  /\ todo[c] # Nothing
  /\ todo' = [todo EXCEPT ![c] = Nothing]
  /\ result' = [result EXCEPT ![c] = r]

Succeed(c) ==
  /\ Answer(c, "ok")
  /\ Agrees(c)
  /\ log' = Append(log, [stream |-> todo[c].stream, type |-> todo[c].type])

Refuse(c) ==
  /\ Answer(c, "conflict")
  /\ ~Agrees(c)
  /\ UNCHANGED log

Fail(c) ==
  /\ Answer(c, "error")
  /\ UNCHANGED log

\* A process dies: its callers lose their calls and what they had learnt.
Die(D) ==
  /\ todo' = [c \in Client |-> IF c \in D THEN Nothing ELSE todo[c]]
  /\ result' = [c \in Client |-> IF c \in D THEN "none" ELSE result[c]]
  /\ UNCHANGED log

LogNext ==
  \/ \E c \in Client : Ask(c) \/ Succeed(c) \/ Refuse(c) \/ Fail(c)
  \/ \E D \in SUBSET Client : Die(D)

LogSpec == LogInit /\ [][LogNext]_lvars
=============================================================================
