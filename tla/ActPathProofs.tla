---------------------------- MODULE ActPathProofs ----------------------------
(***************************************************************************)
(* What holds of the path of the acts for any tasks, rules, validators and *)
(* deaths.  While one process decides: at most one act waits per task, an  *)
(* act takes effect once and only as the rules in force let it, and the    *)
(* path is a ledger of acts.  Two processes may do otherwise: each decides *)
(* on what it has folded.  And of the worker: it does to the validations   *)
(* what the path says, and its verdicts are earned.                        *)
(***************************************************************************)
EXTENDS ValidationWorker, SequenceTheorems, WellFoundedInduction, FiniteSetTheorems, TLAPS

-----------------------------------------------------------------------------
(* Facts on sequences that grow and on natural numbers.                    *)

\* A sequence of whatever: of its own elements.
IsSequence(s) == s \in Seq({s[i] : i \in DOMAIN s})

\* Whatever set a sequence was taken from, it is one of its own elements.
LEMMA SequenceIsOne ==
  ASSUME NEW T, NEW s \in Seq(T)
  PROVE  /\ IsSequence(s)
         /\ Len(s) \in Nat
         /\ DOMAIN s = 1..Len(s)
BY SeqOfRange, LenProperties DEF IsSequence, Range

LEMMA EmptyIsSequence == IsSequence(<<>>) /\ Len(<<>>) = 0 /\ DOMAIN <<>> = {}
<1>1. <<>> \in Seq({}) /\ Len(<<>>) = 0
  BY EmptySeq
<1>2. 1..0 = {}
  OBVIOUS
<1> QED
  BY <1>1, <1>2, SequenceIsOne

LEMMA TailPositions ==
  ASSUME NEW s, IsSequence(s), Len(s) > 0
  PROVE  /\ Head(s) = s[1]
         /\ IsSequence(Tail(s))
         /\ Len(Tail(s)) = Len(s) - 1
         /\ \A i \in 1..Len(s) - 1 : Tail(s)[i] = s[i + 1]
<1> DEFINE U == {s[i] : i \in DOMAIN s}
<1>1. s \in Seq(U) /\ s # <<>> /\ Head(s) = s[1]
  BY EmptySeq DEF IsSequence
<1> HIDE DEF U
<1> QED
  BY <1>1, HeadTailProperties, SequenceIsOne

\* What Append does to the positions of a sequence.
LEMMA AppendPositions ==
  ASSUME NEW s, IsSequence(s), NEW r
  PROVE  /\ IsSequence(Append(s, r))
         /\ Len(s) \in Nat
         /\ DOMAIN s = 1..Len(s)
         /\ DOMAIN Append(s, r) = 1..(Len(s) + 1)
         /\ \A i \in 1..Len(s) : Append(s, r)[i] = s[i]
         /\ Append(s, r)[Len(s) + 1] = r
<1> DEFINE T == {s[i] : i \in DOMAIN s} \cup {r}
<1>1. s \in Seq(T) /\ r \in T
  BY DEF IsSequence
<1> HIDE DEF T
<1>2. /\ Append(s, r) \in Seq(T) /\ Len(Append(s, r)) = Len(s) + 1
      /\ \A i \in 1..Len(s) : Append(s, r)[i] = s[i]
      /\ Append(s, r)[Len(s) + 1] = r
  BY <1>1, AppendProperties
<1>3. IsSequence(Append(s, r)) /\ DOMAIN Append(s, r) = 1..Len(Append(s, r))
  BY <1>2, SequenceIsOne
<1>4. Len(s) \in Nat /\ DOMAIN s = 1..Len(s)
  BY <1>1, LenProperties
<1> QED
  BY <1>2, <1>3, <1>4

\* One sequence after another.
LEMMA ConcatPositions ==
  ASSUME NEW s, IsSequence(s), NEW t, IsSequence(t)
  PROVE  /\ IsSequence(s \o t)
         /\ Len(s) \in Nat /\ Len(t) \in Nat /\ Len(s \o t) = Len(s) + Len(t)
         /\ \A i \in 1..Len(s) : (s \o t)[i] = s[i]
         /\ \A i \in 1..Len(t) : (s \o t)[Len(s) + i] = t[i]
<1> DEFINE U == {s[i] : i \in DOMAIN s} \cup {t[i] : i \in DOMAIN t}
<1>1. s \in Seq(U) /\ t \in Seq(U)
  BY DEF IsSequence
<1> HIDE DEF U
<1>2. Len(s) \in Nat /\ Len(t) \in Nat
  BY <1>1, LenProperties
<1>3. /\ s \o t \in Seq(U) /\ Len(s \o t) = Len(s) + Len(t)
      /\ \A i \in 1..Len(s) + Len(t) :
           (s \o t)[i] = IF i <= Len(s) THEN s[i] ELSE t[i - Len(s)]
  BY <1>1, ConcatProperties
<1>4. IsSequence(s \o t)
  BY <1>3, SequenceIsOne
<1>5. \A i \in 1..Len(t) : Len(s) + i \in 1..Len(s) + Len(t) /\ ~(Len(s) + i <= Len(s))
                           /\ Len(s) + i - Len(s) = i
  BY <1>2
<1>6. \A i \in 1..Len(s) : i \in 1..Len(s) + Len(t) /\ i <= Len(s)
  BY <1>2
<1> QED
  BY <1>2, <1>3, <1>4, <1>5, <1>6

\* Induction over the natural numbers, in the form a set takes.
LEMMA LeastNatural ==
  ASSUME NEW S, S \subseteq Nat, S # {}
  PROVE  \E n \in S : \A m \in S : n <= m
<1>1. PICK n \in S : \A m \in S : <<m, n>> \notin OpToRel(<, Nat)
  BY NatLessThanWellFounded, WFMin, Zenon
<1>2. \A m \in S : ~(m < n)
  BY <1>1, Zenon DEF OpToRel
<1> QED
  BY <1>2

-----------------------------------------------------------------------------
Act == [task : Task, tr : Transition, state : {"submitted", "pending", "allow", "deny"},
        waiting : SUBSET (Validator \cup {Approval}), effects : {0, 1}]

Shape ==
  /\ acts \in Seq(Act)
  /\ rule \in DOMAIN Rules
  /\ crashes \in Nat

\* Events that move no act on.
Asking(s) ==
  \E E : /\ s \in Seq(E)
         /\ \A e \in E : e.type \in {"validation_requested", "approval_requested", "approval_decided"}

Moved(a) == Event("task_status_changed", a, "", 0)

\* The process is about to write the outcome of act a.
Deciding(s, a) ==
  \E type \in {"act_decided", "act_resolved"}, d \in {"allow", "deny", "pending"} :
    /\ s = Outcome(type, a, d)
    /\ acts[a].state = IF type = "act_decided" THEN "submitted" ELSE "pending"
    /\ d = "pending" => type = "act_decided" /\ ~OtherPending(a, acts[a].task)

\* What the process is about to append fits what is recorded.
AboutTo ==
  \/ Asking(todo[Team])
  \/ \E a \in Acts : Deciding(todo[Team], a)
  \/ \E a \in Acts : /\ todo[Team] = <<Moved(a)>>
                     /\ acts[a].state = "allow" /\ acts[a].effects = 0

\* Acts that were let through without effect.
Lost == {a \in Acts : /\ acts[a].state = "allow" /\ acts[a].effects = 0
                      /\ todo[Team] # <<Moved(a)>>}

EffectsFit ==
  /\ \A a \in Acts : acts[a].state # "allow" => acts[a].effects = 0
  /\ Cardinality(Lost) <= crashes

IInv == DOMAIN todo = {Team} /\ Shape /\ AboutTo /\ EffectsFit /\ OnePending

-----------------------------------------------------------------------------
(* What is about to be appended.                                           *)

LEMMA OutcomeIs ==
  ASSUME NEW type, NEW a, NEW d
  PROVE  /\ Outcome(type, a, d) # <<>>
         /\ Head(Outcome(type, a, d)) = Event(type, a, d, 0)
         /\ Tail(Outcome(type, a, d)) = IF d = "allow" THEN <<Moved(a)>> ELSE <<>>
<1> DEFINE e == Event(type, a, d, 0)
           m == Moved(a)
<1>1. Outcome(type, a, d) = <<e>> \o (IF d = "allow" THEN <<m>> ELSE <<>>)
  BY DEF Outcome, Moved
<1> HIDE DEF e, m
<1>2. /\ <<e>> \o <<m>> # <<>>
      /\ Head(<<e>> \o <<m>>) = e
      /\ Tail(<<e>> \o <<m>>) = <<m>>
  <2>1. <<e>> \in Seq({e, m})
    OBVIOUS
  <2>2. m \in {e, m}
    OBVIOUS
  <2>3. Append(<<e>>, m) = <<e>> \o <<m>>
    BY <2>1, <2>2, AppendIsConcat
  <2>4. <<e>> # <<>> /\ Head(<<e>>) = e /\ Tail(<<e>>) = <<>>
    OBVIOUS
  <2>5. /\ Append(<<e>>, m) # <<>>
        /\ Head(Append(<<e>>, m)) = e
        /\ Tail(Append(<<e>>, m)) = Append(<<>>, m)
    <3>1. Append(<<e>>, m) # <<>>
      BY <2>1, <2>2, AppendProperties
    <3>2. /\ Head(Append(<<e>>, m)) = IF <<e>> = <<>> THEN m ELSE Head(<<e>>)
          /\ Tail(Append(<<e>>, m)) = IF <<e>> = <<>> THEN <<>> ELSE Append(Tail(<<e>>), m)
      BY <2>1, <2>2, HeadTailAppend
    <3> QED
      BY <2>4, <3>1, <3>2
  <2>6. Append(<<>>, m) = <<m>>
    OBVIOUS
  <2> QED
    BY <2>3, <2>5, <2>6
<1>3. <<e>> \o <<>> = <<e>>
  OBVIOUS
<1>4. Head(<<e>>) = e /\ Tail(<<e>>) = <<>> /\ <<e>> # <<>>
  OBVIOUS
<1> QED
  BY <1>1, <1>2, <1>3, <1>4 DEF e, m

LEMMA AskingGoesOn ==
  ASSUME NEW s, Asking(s), s # <<>>
  PROVE  /\ Asking(Tail(s))
         /\ Tail(s) \o <<>> = Tail(s)
         /\ Head(s).type \in {"validation_requested", "approval_requested", "approval_decided"}
<1>1. PICK E : /\ s \in Seq(E)
               /\ \A e \in E : e.type \in {"validation_requested", "approval_requested", "approval_decided"}
  BY DEF Asking
<1>2. Head(s) \in E /\ Tail(s) \in Seq(E)
  BY <1>1, HeadTailProperties
<1>3. Tail(s) \o <<>> = Tail(s)
  BY <1>2, ConcatEmptySeq
<1> QED
  BY <1>1, <1>2, <1>3 DEF Asking

LEMMA NothingAsks == Asking(<<>>)
<1> DEFINE E == {}
<1>1. <<>> \in Seq(E)
  OBVIOUS
<1>2. \A e \in E : e.type \in {"validation_requested", "approval_requested", "approval_decided"}
  OBVIOUS
<1> HIDE DEF E
<1> QED
  BY <1>1, <1>2 DEF Asking

LEMMA OnlyElement ==
  ASSUME NEW e
  PROVE  e \in ToSet(<<e>>)
<1>1. <<e>>[1] = e /\ DOMAIN <<e>> = {1}
  OBVIOUS
<1> QED
  BY <1>1 DEF ToSet

\* What follows a decision to wait only asks.
LEMMA RequestsAsk ==
  ASSUME NEW a, NEW tr
  PROVE  Asking(Requests(a, tr)) /\ <<>> \o Requests(a, tr) = Requests(a, tr)
<1> DEFINE S == {v \in Waiting(a, tr) \cap Validator : Verdict(a, v) = "none"}
           new == SetToSeq(S)
           n == Cardinality(S)
           ask(i) == Event("validation_requested", a, new[i], Len(vals) + i)
           approve == Event("approval_requested", a, "", 0)
           E == {ask(i) : i \in 1..n} \cup {approve}
           more == IF Approval \in Waiting(a, tr) /\ approvals[a] = "none" THEN <<approve>> ELSE <<>>
<1>1. DOMAIN new = 1..n /\ n \in Nat
  <2>1. IsFiniteSet(S)
    BY ActAssumption, FS_Subset
  <2>2. n \in Nat /\ ExistsBijection(1..n, S)
    BY <2>1, FS_CardinalityType
  <2>3. \E f \in [1..n -> S] : IsInjective(f)
    BY <2>2 DEF ExistsBijection, Bijection, Injection, IsInjective
  <2> QED
    BY <2>2, <2>3 DEF SetToSeq
<1>2. Requests(a, tr) = [i \in DOMAIN new |-> ask(i)] \o more
  BY DEF Requests
<1> HIDE DEF new, S, n
<1>3. \A e \in E : e.type \in {"validation_requested", "approval_requested", "approval_decided"}
  <2>1. \A i : ask(i).type = "validation_requested"
    BY DEF Event
  <2>2. approve.type = "approval_requested"
    BY DEF Event
  <2> HIDE DEF ask, approve
  <2> QED
    BY <2>1, <2>2
<1>4. [i \in DOMAIN new |-> ask(i)] \in [1..n -> E]
  BY <1>1
<1>5. [i \in DOMAIN new |-> ask(i)] \in Seq(E)
  <2> DEFINE asked == [i \in DOMAIN new |-> ask(i)]
  <2> HIDE DEF asked
  <2>1. asked \in [1..n -> E]
    BY <1>4 DEF asked
  <2> HIDE DEF E, ask
  <2>2. Seq(E) = UNION {[1..k -> E] : k \in Nat}
    BY SeqDef
  <2>3. [1..n -> E] \in {[1..k -> E] : k \in Nat}
    BY <1>1
  <2>4. asked \in Seq(E)
    BY <2>1, <2>2, <2>3
  <2> QED
    BY <2>4 DEF asked
<1>6. more \in Seq(E)
  <2>1. approve \in E
    OBVIOUS
  <2> HIDE DEF E, approve
  <2>2. <<approve>> \in Seq(E) /\ <<>> \in Seq(E)
    BY <2>1
  <2> QED
    BY <2>2
<1> HIDE DEF E, more, ask
<1>7. Requests(a, tr) \in Seq(E)
  BY <1>2, <1>5, <1>6, ConcatProperties
<1>8. <<>> \o Requests(a, tr) = Requests(a, tr)
  BY <1>7, ConcatEmptySeq
<1> QED
  BY <1>3, <1>7, <1>8 DEF Asking

-----------------------------------------------------------------------------
(* Facts about the decision and about the acts.                            *)

LEMMA DecisionIs ==
  ASSUME NEW a, NEW t, NEW tr
  PROVE  /\ Decision(a, t, tr) \in {"allow", "deny", "pending"}
         /\ Decision(a, t, tr) = "pending" => ~OtherPending(a, t)
BY DEF Decision

LEMMA WaitingIs ==
  ASSUME rule \in DOMAIN Rules, NEW a, NEW tr \in Transition
  PROVE  Waiting(a, tr) \in SUBSET (Validator \cup {Approval})
<1>1. Rules[rule].validate[tr] \subseteq Validator
  BY ActAssumption
<1> QED
  BY <1>1 DEF Waiting

LEMMA ActsAre ==
  ASSUME Shape
  PROVE  /\ Acts = 1 .. Len(acts) /\ Len(acts) \in Nat
         /\ \A a \in Acts : acts[a] \in Act
BY LenProperties, ElementOfSeq DEF Shape, Acts

LEMMA ActChanged ==
  ASSUME Shape, NEW a \in Acts, NEW k \in Act, acts' = [acts EXCEPT ![a] = k]
  PROVE  /\ acts' \in Seq(Act)
         /\ Acts' = Acts
         /\ acts'[a] = k
         /\ \A b \in Acts : b # a => acts'[b] = acts[b]
<1>1. a \in 1 .. Len(acts) /\ acts \in Seq(Act)
  BY ActsAre DEF Shape
<1>2. [acts EXCEPT ![a] = k] \in Seq(Act)
  BY <1>1, ExceptSeq
<1> QED
  BY <1>1, <1>2 DEF Acts

LEMMA LostIsFinite ==
  ASSUME Shape
  PROVE  IsFiniteSet(Lost)
<1>1. Lost \subseteq 1 .. Len(acts) /\ Len(acts) \in Nat
  BY ActsAre DEF Lost
<1>2. IsFiniteSet(1 .. Len(acts))
  BY <1>1, FS_Interval
<1> QED
  BY <1>1, <1>2, FS_Subset

\* No more acts are without effect than before.
LEMMA NoneLost ==
  ASSUME Shape, EffectsFit, crashes' = crashes, Lost' \subseteq Lost
  PROVE  Cardinality(Lost') <= crashes'
<1>1. IsFiniteSet(Lost)
  BY LostIsFinite
<1>2. Cardinality(Lost') <= Cardinality(Lost) /\ Cardinality(Lost') \in Nat /\ Cardinality(Lost) \in Nat
  BY <1>1, FS_Subset, FS_CardinalityType
<1> QED
  BY <1>2 DEF EffectsFit, Shape

LEMMA EventIs ==
  \A type, a, what, id : /\ Event(type, a, what, id).type = type /\ Event(type, a, what, id).act = a
                         /\ Event(type, a, what, id).what = what
BY DEF Event

\* An effect that is about to be written is that of one act.
LEMMA MovedIs ==
  ASSUME NEW a, NEW b, <<Moved(a)>> = <<Moved(b)>>
  PROVE  a = b
<1>1. Moved(a) = Moved(b)
  OBVIOUS
<1> QED
  BY <1>1 DEF Moved, Event

LEMMA AskingMovesNone ==
  ASSUME NEW s, Asking(s)
  PROVE  \A a : s # <<Moved(a)>>
<1> SUFFICES ASSUME NEW a, s = <<Moved(a)>>
             PROVE  FALSE
  OBVIOUS
<1>1. s # <<>> /\ Head(s) = Moved(a)
  OBVIOUS
<1>2. Moved(a).type = "task_status_changed"
  BY DEF Moved, Event
<1> QED
  BY <1>1, <1>2, AskingGoesOn

\* The first event of an outcome is its decision.
LEMMA DecidingIs ==
  ASSUME NEW s, NEW b, Deciding(s, b)
  PROVE  Head(s).type \in {"act_decided", "act_resolved"}
<1>1. PICK type \in {"act_decided", "act_resolved"}, d \in {"allow", "deny", "pending"} :
        s = Outcome(type, b, d)
  BY DEF Deciding
<1> QED
  BY <1>1, OutcomeIs, EventIs

LEMMA DecidingMovesNone ==
  ASSUME NEW s, NEW b, Deciding(s, b)
  PROVE  \A a : s # <<Moved(a)>>
<1> SUFFICES ASSUME NEW a, s = <<Moved(a)>>
             PROVE  FALSE
  OBVIOUS
<1>1. Head(s) = Moved(a)
  OBVIOUS
<1>2. Moved(a).type = "task_status_changed"
  BY DEF Moved, Event
<1> QED
  BY <1>1, <1>2, DecidingIs

-----------------------------------------------------------------------------
(* The actions, of the one process there is.                               *)

\* Steps that leave the acts alone.
LEMMA SameActs ==
  ASSUME IInv, acts' = acts, crashes' = crashes, rule' \in DOMAIN Rules,
         DOMAIN todo' = {Team}, AboutTo',
         (\A a : todo[Team] # <<Moved(a)>>) \/ todo' = todo
  PROVE  IInv'
<1>1. Shape'
  BY DEF IInv, Shape
<1>2. OnePending'
  BY DEF IInv, OnePending, Pending, Acts
<1>3. Lost' \subseteq Lost
  BY DEF Lost, Acts
<1>4. Cardinality(Lost') <= crashes'
  BY <1>3, NoneLost DEF IInv
<1>5. EffectsFit'
  BY <1>4 DEF IInv, EffectsFit, Acts
<1> QED
  BY <1>1, <1>2, <1>5 DEF IInv

\* What one step of the process does when it writes the decision of an act,
\* its effect, and when it submits it.
WritesDecision(a, type, d) ==
  /\ todo[Team] = Outcome(type, a, d)
  /\ acts[a].state = IF type = "act_decided" THEN "submitted" ELSE "pending"
  /\ d = "pending" => type = "act_decided" /\ ~OtherPending(a, acts[a].task)
  /\ acts' = [acts EXCEPT ![a].state = d,
                          ![a].waiting = IF d = "pending" THEN Waiting(a, acts[a].tr) ELSE @]
  /\ DOMAIN todo' = {Team}
  /\ todo'[Team] = IF d = "pending" THEN Requests(a, acts[a].tr)
                   ELSE IF d = "allow" THEN <<Moved(a)>> ELSE <<>>
  /\ UNCHANGED <<rule, status, vals, approvals>>

WritesEffect(a) ==
  /\ todo[Team] = <<Moved(a)>> /\ acts[a].state = "allow" /\ acts[a].effects = 0
  /\ acts' = [acts EXCEPT ![a].effects = @ + 1]
  /\ status' = [status EXCEPT ![acts[a].task] = Moves[acts[a].tr].to]
  /\ DOMAIN todo' = {Team} /\ todo'[Team] = <<>>
  /\ UNCHANGED <<rule, vals, approvals>>

Submits(n, t, tr) ==
  /\ todo[Team] = <<>> /\ n = Len(acts) + 1 /\ n <= MaxActs
  /\ Acts = 1 .. Len(acts) /\ Len(acts) \in Nat /\ n \notin Acts
  /\ acts' \in Seq(Act) /\ Acts' = 1 .. n
  /\ acts'[n] = [task |-> t, tr |-> tr, state |-> "submitted", waiting |-> {}, effects |-> 0]
  /\ \A b \in Acts : acts'[b] = acts[b]
  /\ Pending' = Pending
  /\ DOMAIN todo' = {Team} /\ todo'[Team] = Outcome("act_decided", n, Decision(n, t, tr))
  /\ UNCHANGED <<rule, status, vals, approvals, crashes>>

LEMMA SubmitAhead ==
  ASSUME IInv, Submit(Team)
  PROVE  \E t \in Task, tr \in Transition, n \in Nat : Submits(n, t, tr)
<1>1. PICK t \in Task, tr \in Transition :
        /\ todo[Team] = <<>> /\ Len(acts) + 1 <= MaxActs
        /\ acts' = Append(acts, [task |-> t, tr |-> tr, state |-> "submitted",
                                 waiting |-> {}, effects |-> 0])
        /\ todo' = [todo EXCEPT ![Team] =
                      Outcome("act_decided", Len(acts) + 1, Decision(Len(acts) + 1, t, tr))]
        /\ UNCHANGED <<rule, status, vals, approvals, crashes>>
  BY DEF Submit, Idle
<1>2. PICK n : n = Len(acts) + 1
  OBVIOUS
<1> DEFINE k == [task |-> t, tr |-> tr, state |-> "submitted", waiting |-> {}, effects |-> 0]
<1>3. /\ Acts = 1 .. Len(acts) /\ Len(acts) \in Nat /\ acts \in Seq(Act)
  BY ActsAre DEF IInv, Shape
<1>4. k \in Act /\ k.state = "submitted"
  BY DEF Act
<1>5. /\ acts' \in Seq(Act) /\ Acts' = 1 .. n
      /\ acts'[n] = k /\ \A b \in Acts : acts'[b] = acts[b]
  <2> HIDE DEF k
  <2>1. acts' = Append(acts, k)
    BY <1>1 DEF k
  <2>2. Append(acts, k) \in Seq(Act) /\ Len(Append(acts, k)) = n /\ Append(acts, k)[n] = k
        /\ \A b \in 1 .. Len(acts) : Append(acts, k)[b] = acts[b]
    BY <1>2, <1>3, <1>4, AppendProperties
  <2>3. DOMAIN acts' = 1 .. Len(acts')
    BY <2>1, <2>2, LenProperties
  <2> QED
    BY <1>3, <2>1, <2>2, <2>3 DEF Acts
<1>6. Pending' = Pending /\ n \notin Acts
  BY <1>2, <1>3, <1>4, <1>5 DEF Pending
<1>7. DOMAIN todo' = {Team} /\ todo'[Team] = Outcome("act_decided", n, Decision(n, t, tr))
  BY <1>1, <1>2 DEF IInv
<1>8. Submits(n, t, tr) /\ n \in Nat
  BY <1>1, <1>2, <1>3, <1>5, <1>6, <1>7 DEF Submits
<1> QED
  BY <1>8

\* A decision that is written is that of one act, and what follows it.
LEMMA DecisionAhead ==
  ASSUME IInv, ~Idle(Team), WriteDecision(Team)
  PROVE  \E a \in Acts, type \in {"act_decided", "act_resolved"}, d \in {"allow", "deny", "pending"} :
           WritesDecision(a, type, d)
<1> DEFINE e == Head(todo[Team])
<1>1. e.type \in {"act_decided", "act_resolved"} /\ todo[Team] # <<>>
  BY DEF WriteDecision, Idle
<1>2. ~Asking(todo[Team])
  BY <1>1, AskingGoesOn
<1>3. \A a : todo[Team] # <<Moved(a)>>
  <2> SUFFICES ASSUME NEW a, todo[Team] = <<Moved(a)>>
               PROVE  FALSE
    OBVIOUS
  <2>1. e = Moved(a)
    OBVIOUS
  <2>2. Moved(a).type = "task_status_changed"
    BY DEF Moved, Event
  <2> QED
    BY <1>1, <2>1, <2>2
<1>4. PICK a \in Acts, type \in {"act_decided", "act_resolved"}, d \in {"allow", "deny", "pending"} :
        /\ todo[Team] = Outcome(type, a, d)
        /\ acts[a].state = IF type = "act_decided" THEN "submitted" ELSE "pending"
        /\ d = "pending" => type = "act_decided" /\ ~OtherPending(a, acts[a].task)
  BY <1>2, <1>3 DEF IInv, AboutTo, Deciding
<1>5. e.act = a /\ e.what = d /\ Tail(todo[Team]) = IF d = "allow" THEN <<Moved(a)>> ELSE <<>>
  BY <1>4, OutcomeIs, EventIs
<1> DEFINE tr == acts[a].tr
           more == IF d = "pending" THEN Requests(a, tr) ELSE <<>>
<1>6. /\ acts' = [acts EXCEPT ![a].state = d,
                              ![a].waiting = IF d = "pending" THEN Waiting(a, tr) ELSE @]
      /\ todo' = [todo EXCEPT ![Team] = Tail(todo[Team]) \o more]
      /\ UNCHANGED <<rule, status, vals, approvals>>
  BY <1>5 DEF WriteDecision, Written
<1>7. DOMAIN todo' = {Team} /\ todo'[Team] = Tail(todo[Team]) \o more
  BY <1>6 DEF IInv
<1>8. CASE d = "pending"
  <2>1. <<>> \o Requests(a, tr) = Requests(a, tr)
    BY RequestsAsk
  <2>2. todo'[Team] = Requests(a, tr)
    BY <1>5, <1>7, <1>8, <2>1
  <2> QED
    BY <1>4, <1>6, <1>7, <1>8, <2>2 DEF WritesDecision
<1>9. CASE d = "allow"
  <2>1. <<Moved(a)>> \o <<>> = <<Moved(a)>>
    OBVIOUS
  <2>2. todo'[Team] = <<Moved(a)>>
    BY <1>5, <1>7, <1>9, <2>1
  <2> QED
    BY <1>4, <1>6, <1>7, <1>9, <2>2 DEF WritesDecision
<1>10. CASE d = "deny"
  <2>1. <<>> \o <<>> = <<>>
    OBVIOUS
  <2>2. todo'[Team] = <<>>
    BY <1>5, <1>7, <1>10, <2>1
  <2> QED
    BY <1>4, <1>6, <1>7, <1>10, <2>2 DEF WritesDecision
<1> QED
  BY <1>4, <1>8, <1>9, <1>10

\* An effect that is written is that of one act, which has had none.
LEMMA EffectAhead ==
  ASSUME IInv, ~Idle(Team), WriteStatus(Team)
  PROVE  \E a \in Acts : WritesEffect(a)
<1> DEFINE e == Head(todo[Team])
<1>1. e.type = "task_status_changed" /\ todo[Team] # <<>>
  BY DEF WriteStatus, Idle
<1>2. ~Asking(todo[Team])
  BY <1>1, AskingGoesOn
<1>3. \A b \in Acts : ~Deciding(todo[Team], b)
  BY <1>1, DecidingIs
<1>4. PICK a \in Acts : todo[Team] = <<Moved(a)>> /\ acts[a].state = "allow" /\ acts[a].effects = 0
  BY <1>2, <1>3 DEF IInv, AboutTo
<1>5. e = Moved(a) /\ Tail(todo[Team]) = <<>>
  BY <1>4
<1>6. e.act = a
  <2>1. Moved(a).act = a
    BY DEF Moved, Event
  <2> QED
    BY <1>5, <2>1
<1>7. <<>> \o <<>> = <<>>
  OBVIOUS
<1>8. /\ acts' = [acts EXCEPT ![a].effects = @ + 1]
      /\ status' = [status EXCEPT ![acts[a].task] = Moves[acts[a].tr].to]
      /\ todo' = [todo EXCEPT ![Team] = Tail(todo[Team]) \o <<>>]
      /\ UNCHANGED <<rule, vals, approvals>>
  BY <1>6 DEF WriteStatus, Written
<1>9. DOMAIN todo' = {Team} /\ todo'[Team] = <<>>
  BY <1>5, <1>7, <1>8 DEF IInv
<1> QED
  BY <1>4, <1>8, <1>9 DEF WritesEffect

\* What asks is written after what asks.
LEMMA AskAhead ==
  ASSUME IInv, ~Idle(Team), WriteRequest(Team)
  PROVE  /\ Asking(todo[Team]) /\ todo[Team] # <<>>
         /\ DOMAIN todo' = {Team} /\ todo'[Team] = Tail(todo[Team]) /\ Asking(todo'[Team])
         /\ UNCHANGED <<rule, acts, status>>
<1> DEFINE e == Head(todo[Team])
<1>1. /\ e.type \in {"validation_requested", "approval_requested", "approval_decided"}
      /\ todo[Team] # <<>> /\ UNCHANGED <<rule, acts, status>>
      /\ todo' = [todo EXCEPT ![Team] = Tail(todo[Team]) \o <<>>]
  BY DEF WriteRequest, Written, Idle
<1>2. \A b \in Acts : ~Deciding(todo[Team], b)
  BY <1>1, DecidingIs
<1>3. \A b : todo[Team] # <<Moved(b)>>
  <2> SUFFICES ASSUME NEW b, todo[Team] = <<Moved(b)>>
               PROVE  FALSE
    OBVIOUS
  <2>1. e = Moved(b)
    OBVIOUS
  <2>2. Moved(b).type = "task_status_changed"
    BY DEF Moved, Event
  <2> QED
    BY <1>1, <2>1, <2>2
<1>4. Asking(todo[Team])
  BY <1>2, <1>3 DEF IInv, AboutTo
<1>5. Asking(Tail(todo[Team])) /\ Tail(todo[Team]) \o <<>> = Tail(todo[Team])
  BY <1>1, <1>4, AskingGoesOn
<1>6. DOMAIN todo' = {Team} /\ todo'[Team] = Tail(todo[Team])
  BY <1>1, <1>5 DEF IInv
<1> QED
  BY <1>1, <1>4, <1>5, <1>6

LEMMA SubmitStep ==
  ASSUME IInv, Submit(Team)
  PROVE  IInv'
<1>1. PICK t \in Task, tr \in Transition, n \in Nat : Submits(n, t, tr)
  BY SubmitAhead
<1> DEFINE d == Decision(n, t, tr)
           k == [task |-> t, tr |-> tr, state |-> "submitted", waiting |-> {}, effects |-> 0]
<1>2. /\ n = Len(acts) + 1 /\ Acts = 1 .. Len(acts) /\ Len(acts) \in Nat /\ n \notin Acts
      /\ Pending' = Pending /\ UNCHANGED <<rule, crashes>>
      /\ todo[Team] = <<>>
  BY <1>1 DEF Submits
<1>4. /\ acts' \in Seq(Act) /\ Acts' = 1 .. n
      /\ acts'[n] = k /\ \A b \in Acts : acts'[b] = acts[b]
  BY <1>1 DEF Submits
<1>5. \A b \in Acts : acts[b] \in Act
  BY ActsAre DEF IInv
<1>6. DOMAIN todo' = {Team} /\ todo'[Team] = Outcome("act_decided", n, d)
  BY <1>1 DEF Submits
<1>7. d \in {"allow", "deny", "pending"} /\ (d = "pending" => ~OtherPending(n, t))
  BY DecisionIs
<1> HIDE DEF d
<1>8. AboutTo'
  <2>1. d = "pending" => ~OtherPending(n, acts[n].task)'
    <3>1. acts'[n].task = t /\ \A b \in Pending : b \in Acts /\ acts'[b].task = acts[b].task
      BY <1>4 DEF Pending
    <3> QED
      BY <1>2, <1>7, <3>1 DEF OtherPending
  <2>2. Deciding(todo[Team], n)'
    BY <1>4, <1>6, <1>7, <2>1 DEF Deciding
  <2> QED
    BY <1>2, <1>4, <2>2 DEF AboutTo
<1>9. OnePending'
  BY <1>2, <1>4, SMTT(30) DEF IInv, OnePending, Pending
<1>10. Lost' \subseteq Lost
  BY <1>2, <1>4 DEF Lost
<1>11. Cardinality(Lost') <= crashes'
  BY <1>2, <1>10, NoneLost DEF IInv
<1>12. EffectsFit'
  BY <1>2, <1>4, <1>11 DEF IInv, EffectsFit
<1> QED
  BY <1>2, <1>4, <1>6, <1>8, <1>9, <1>12 DEF IInv, Shape

LEMMA WriteDecisionStep ==
  ASSUME IInv, ~Idle(Team), WriteDecision(Team), crashes' = crashes
  PROVE  IInv'
<1>4. PICK a \in Acts, type \in {"act_decided", "act_resolved"}, d \in {"allow", "deny", "pending"} :
        WritesDecision(a, type, d)
  BY DecisionAhead
<1> USE DEF WritesDecision
<1>3. \A b : todo[Team] # <<Moved(b)>>
  <2>1. Deciding(todo[Team], a)
    BY <1>4 DEF Deciding
  <2> QED
    BY <2>1, DecidingMovesNone
<1> DEFINE tr == acts[a].tr
           k == [acts[a] EXCEPT !.state = d,
                                !.waiting = IF d = "pending" THEN Waiting(a, tr) ELSE @]
<1>6. acts' = [acts EXCEPT ![a] = k] /\ rule' = rule
  BY <1>4
<1>7. /\ Shape /\ acts[a] \in Act
      /\ \A b \in Acts : acts[b] \in Act
  BY ActsAre DEF IInv
<1>8. k \in Act /\ k.state = d /\ k.effects = acts[a].effects /\ k.task = acts[a].task
  <2>1. Waiting(a, tr) \in SUBSET (Validator \cup {Approval})
    BY <1>7, WaitingIs DEF Shape, Act
  <2> QED
    BY <1>7, <2>1 DEF Act
<1> HIDE DEF k
<1>9. /\ acts' \in Seq(Act) /\ Acts' = Acts /\ acts'[a] = k
      /\ \A b \in Acts : b # a => acts'[b] = acts[b]
  BY <1>6, <1>7, <1>8, ActChanged
<1>10. /\ DOMAIN todo' = {Team}
       /\ d = "pending" => Asking(todo'[Team])
       /\ d = "allow" => todo'[Team] = <<Moved(a)>>
       /\ d = "deny" => Asking(todo'[Team])
  BY <1>4, RequestsAsk, NothingAsks
<1>11. acts[a].effects = 0
  BY <1>4 DEF IInv, EffectsFit
<1>12. AboutTo'
  BY <1>4, <1>8, <1>9, <1>10, <1>11 DEF AboutTo
<1>13. OnePending'
  <2>1. Pending' \subseteq Pending \cup (IF d = "pending" THEN {a} ELSE {})
    BY <1>8, <1>9 DEF Pending
  <2>2. \A b \in Pending : b \in Acts
    BY DEF Pending
  <2>3. \A b \in Acts : acts'[b].task = acts[b].task
    BY <1>8, <1>9
  <2>4. d = "pending" => \A b \in Pending : b # a => acts[b].task # acts[a].task
    BY <1>4 DEF OtherPending
  <2> QED
    BY <1>4, <2>1, <2>2, <2>3, <2>4 DEF IInv, OnePending
<1>14. Lost' \subseteq Lost
  BY <1>3, <1>4, <1>8, <1>9, <1>10 DEF Lost
<1>15. Cardinality(Lost') <= crashes'
  BY <1>14, NoneLost DEF IInv
<1>16. EffectsFit'
  BY <1>8, <1>9, <1>11, <1>15 DEF IInv, EffectsFit
<1> QED
  BY <1>6, <1>9, <1>10, <1>12, <1>13, <1>16 DEF IInv, Shape

LEMMA WriteStatusStep ==
  ASSUME IInv, ~Idle(Team), WriteStatus(Team), crashes' = crashes
  PROVE  IInv'
<1>4. PICK a \in Acts : WritesEffect(a)
  BY EffectAhead
<1> USE DEF WritesEffect
<1> DEFINE k == [acts[a] EXCEPT !.effects = @ + 1]
<1>7. acts' = [acts EXCEPT ![a] = k] /\ rule' = rule
  BY <1>4
<1>8. /\ Shape /\ acts[a] \in Act
      /\ \A b \in Acts : acts[b] \in Act
  BY ActsAre DEF IInv
<1>9. k \in Act /\ k.state = "allow" /\ k.effects = 1 /\ k.task = acts[a].task
  BY <1>4, <1>8 DEF Act
<1> HIDE DEF k
<1>10. /\ acts' \in Seq(Act) /\ Acts' = Acts /\ acts'[a] = k
       /\ \A b \in Acts : b # a => acts'[b] = acts[b]
  BY <1>7, <1>8, <1>9, ActChanged
<1>11. DOMAIN todo' = {Team} /\ Asking(todo'[Team])
  BY <1>4, NothingAsks
<1>12. OnePending'
  <2>1. Pending' \subseteq Pending
    BY <1>9, <1>10 DEF Pending
  <2>2. \A b \in Pending : acts'[b].task = acts[b].task
    BY <1>9, <1>10 DEF Pending
  <2> QED
    BY <2>1, <2>2 DEF IInv, OnePending
<1>13. Lost' \subseteq Lost
  <2> SUFFICES ASSUME NEW b \in Lost'
               PROVE  b \in Lost
    OBVIOUS
  <2>1. b \in Acts /\ b # a /\ acts[b].state = "allow" /\ acts[b].effects = 0
    BY <1>9, <1>10 DEF Lost
  <2>2. todo[Team] # <<Moved(b)>>
    BY <1>4, <2>1, MovedIs
  <2> QED
    BY <2>1, <2>2 DEF Lost
<1>14. Cardinality(Lost') <= crashes'
  BY <1>13, NoneLost DEF IInv
<1>15. EffectsFit'
  BY <1>9, <1>10, <1>14 DEF IInv, EffectsFit
<1> QED
  BY <1>7, <1>10, <1>11, <1>12, <1>15 DEF IInv, Shape, AboutTo

LEMMA WriteRequestStep ==
  ASSUME IInv, ~Idle(Team), WriteRequest(Team), crashes' = crashes
  PROVE  IInv'
<1>1. /\ Asking(todo[Team])
      /\ DOMAIN todo' = {Team} /\ Asking(todo'[Team])
      /\ acts' = acts /\ rule' = rule
  BY AskAhead
<1>2. AboutTo'
  BY <1>1 DEF AboutTo
<1>3. rule' \in DOMAIN Rules
  BY <1>1 DEF IInv, Shape
<1> QED
  BY <1>1, <1>2, <1>3, AskingMovesNone, SameActs

LEMMA DecideStep ==
  ASSUME IInv, NEW a \in Acts, Decide(Team, a)
  PROVE  IInv'
<1>1. PICK d : /\ todo[Team] = <<>>
               /\ todo' = [todo EXCEPT ![Team] = <<Event("approval_decided", a, d, 0)>>]
               /\ acts' = acts /\ rule' = rule /\ crashes' = crashes
  BY DEF Decide, Idle, store
<1> DEFINE e == Event("approval_decided", a, d, 0)
<1>2. Asking(<<e>>)
  <2>1. e.type = "approval_decided"
    BY DEF Event
  <2> HIDE DEF e
  <2> DEFINE E == {e}
  <2>2. <<e>> \in Seq(E)
    OBVIOUS
  <2>3. \A x \in E : x.type \in {"validation_requested", "approval_requested", "approval_decided"}
    BY <2>1
  <2> HIDE DEF E
  <2> QED
    BY <2>2, <2>3 DEF Asking
<1>3. DOMAIN todo' = {Team} /\ todo'[Team] = <<e>>
  BY <1>1 DEF IInv
<1>4. AboutTo'
  BY <1>2, <1>3 DEF AboutTo
<1>5. \A b : todo[Team] # <<Moved(b)>>
  BY <1>1
<1>6. rule' \in DOMAIN Rules
  BY <1>1 DEF IInv, Shape
<1> QED
  BY <1>1, <1>3, <1>4, <1>5, <1>6, SameActs

LEMMA ResolveStep ==
  ASSUME IInv, NEW a \in Acts, Resolve(Team, a)
  PROVE  IInv'
<1> DEFINE t == acts[a].task
           tr == acts[a].tr
<1>1. PICK d : d = Decision(a, t, tr)
  OBVIOUS
<1>2. /\ todo[Team] = <<>> /\ acts[a].state = "pending"
      /\ todo' = [todo EXCEPT ![Team] = IF d = "pending" THEN Requests(a, tr)
                                        ELSE Outcome("act_resolved", a, d)]
      /\ acts' = acts /\ rule' = rule /\ crashes' = crashes
  BY <1>1 DEF Resolve, Idle, store, Pending
<1>3. d \in {"allow", "deny", "pending"}
  BY <1>1, DecisionIs
<1>4. DOMAIN todo' = {Team}
      /\ todo'[Team] = IF d = "pending" THEN Requests(a, tr) ELSE Outcome("act_resolved", a, d)
  BY <1>2 DEF IInv
<1>5. AboutTo'
  <2>1. CASE d = "pending"
    <3>1. Asking(todo'[Team])
      BY <1>4, <2>1, RequestsAsk
    <3> QED
      BY <3>1 DEF AboutTo
  <2>2. CASE d # "pending"
    <3>1. Deciding(todo[Team], a)'
      BY <1>2, <1>3, <1>4, <2>2 DEF Deciding
    <3>2. a \in Acts'
      BY <1>2 DEF Acts
    <3> QED
      BY <3>1, <3>2 DEF AboutTo
  <2> QED
    BY <2>1, <2>2
<1>6. \A b : todo[Team] # <<Moved(b)>>
  BY <1>2
<1>7. rule' \in DOMAIN Rules
  BY <1>2 DEF IInv, Shape
<1> QED
  BY <1>2, <1>4, <1>5, <1>6, <1>7, SameActs

\* Settling in other ways: a verdict, an amendment of the rules, or nothing.
LEMMA BesideStep ==
  ASSUME IInv, UNCHANGED <<acts, todo, crashes>>, rule' \in DOMAIN Rules
  PROVE  IInv'
<1>1. Acts' = Acts
  BY DEF Acts
<1>2. \A a \in Acts : Deciding(todo[Team], a) => Deciding(todo[Team], a)'
  BY DEF Deciding, OtherPending, Pending, Acts
<1>3. AboutTo'
  BY <1>1, <1>2 DEF IInv, AboutTo
<1> QED
  BY <1>3, SameActs DEF IInv

LEMMA CrashStep ==
  ASSUME IInv, Crash(Team)
  PROVE  IInv'
<1>1. /\ crashes' = crashes + 1
      /\ todo' = [todo EXCEPT ![Team] = <<>>]
      /\ acts' = acts /\ rule' = rule
  BY DEF Crash, store
<1>2. DOMAIN todo' = {Team} /\ todo'[Team] = <<>>
  BY <1>1 DEF IInv
<1>3. AboutTo'
  BY <1>2, NothingAsks DEF AboutTo
<1>4. crashes \in Nat /\ Cardinality(Lost) <= crashes
  BY DEF IInv, Shape, EffectsFit
\* The act whose effect the process was about to write has lost it.
<1>5. PICK x : \A b : todo[Team] = <<Moved(b)>> => b = x
  <2>1. CASE \E a : todo[Team] = <<Moved(a)>>
    <3>1. PICK a : todo[Team] = <<Moved(a)>>
      BY <2>1
    <3>2. \A b : todo[Team] = <<Moved(b)>> => b = a
      BY <3>1, MovedIs
    <3> QED
      BY <3>2
  <2>2. CASE ~\E a : todo[Team] = <<Moved(a)>>
    BY <2>2
  <2> QED
    BY <2>1, <2>2
<1>6. Lost' \subseteq Lost \cup {x}
  BY <1>1, <1>5 DEF Lost, Acts
<1>7. IsFiniteSet(Lost)
  BY LostIsFinite DEF IInv
<1>8. IsFiniteSet(Lost \cup {x}) /\ Cardinality(Lost \cup {x}) <= Cardinality(Lost) + 1
  <2>1. /\ IsFiniteSet(Lost \cup {x})
        /\ Cardinality(Lost \cup {x}) = IF x \in Lost THEN Cardinality(Lost) ELSE Cardinality(Lost) + 1
    BY <1>7, FS_AddElement
  <2>2. Cardinality(Lost) \in Nat
    BY <1>7, FS_CardinalityType
  <2> QED
    BY <2>1, <2>2
<1>9. Cardinality(Lost') <= Cardinality(Lost \cup {x})
  BY <1>6, <1>8, FS_Subset
<1>10. Cardinality(Lost') <= crashes'
  <2>1. Cardinality(Lost) \in Nat /\ Cardinality(Lost \cup {x}) \in Nat /\ Cardinality(Lost') \in Nat
    BY <1>6, <1>7, <1>8, FS_Subset, FS_CardinalityType
  <2> QED
    BY <1>1, <1>4, <1>8, <1>9, <2>1
<1>11. EffectsFit'
  BY <1>1, <1>10 DEF IInv, EffectsFit, Acts
<1>12. OnePending'
  BY <1>1 DEF IInv, OnePending, Pending, Acts
<1>13. Shape'
  BY <1>1, <1>4 DEF IInv, Shape
<1> QED
  BY <1>2, <1>3, <1>11, <1>12, <1>13 DEF IInv

-----------------------------------------------------------------------------
(* The theorems.                                                           *)

LEMMA InvariantHolds ==
  ASSUME Proc = {Team}
  PROVE  Spec => []IInv
<1>1. Init => IInv
  <2> SUFFICES ASSUME Init
               PROVE  IInv
    OBVIOUS
  <2>1. /\ acts = <<>> /\ rule \in DOMAIN Rules /\ crashes = 0
        /\ DOMAIN todo = {Team} /\ todo[Team] = <<>>
    BY ActAssumption DEF Init
  <2>2. Acts = {}
    BY <2>1 DEF Acts
  <2>3. AboutTo
    BY <2>1, NothingAsks DEF AboutTo
  <2>4. Lost = {}
    BY <2>2 DEF Lost
  <2>5. EffectsFit
    BY <2>1, <2>2, <2>4, FS_EmptySet DEF EffectsFit
  <2>6. OnePending
    BY <2>2 DEF OnePending, Pending
  <2>7. Shape
    <3>1. <<>> \in Seq(Act)
      OBVIOUS
    <3> QED
      BY <2>1, <3>1 DEF Shape
  <2> QED
    BY <2>1, <2>3, <2>5, <2>6, <2>7 DEF IInv
<1>2. IInv /\ [Next]_vars => IInv'
  <2> SUFFICES ASSUME IInv, [Next]_vars
               PROVE  IInv'
    OBVIOUS
  <2>1. rule \in DOMAIN Rules
    BY DEF IInv, Shape
  <2>2. CASE Submit(Team)
    BY <2>2, SubmitStep
  <2>3. CASE Write(Team)
    BY <2>3, WriteDecisionStep, WriteStatusStep, WriteRequestStep DEF Write
  <2>4. CASE Amend(Team)
    BY <2>4, BesideStep DEF Amend
  <2>5. CASE Crash(Team)
    BY <2>5, CrashStep
  <2>6. ASSUME NEW a \in Acts, Decide(Team, a) \/ Resolve(Team, a)
        PROVE  IInv'
    BY <2>6, DecideStep, ResolveStep
  <2>7. ASSUME NEW i \in DOMAIN vals, Validated(i)
        PROVE  IInv'
    BY <2>1, <2>7, BesideStep DEF Validated
  <2>8. CASE UNCHANGED vars
    BY <2>1, <2>8, BesideStep DEF vars, store
  <2> QED
    BY <2>2, <2>3, <2>4, <2>5, <2>6, <2>7, <2>8 DEF Next
<1> QED
  BY <1>1, <1>2, PTL DEF Spec

(* While one process decides, a task has at most one transition that       *)
(* waits: for any rules, however they are amended, and through any deaths. *)
(* (The gate of institution/gate.py looks at what the process has folded.) *)
THEOREM OneWaits ==
  ASSUME Proc = {Team}
  PROVE  Spec => []OnePending
<1>1. IInv => OnePending
  BY DEF IInv
<1> QED
  BY <1>1, InvariantHolds, PTL

(* While one process decides, no act takes effect twice, and an act that   *)
(* is allowed takes effect, but for one for each death of the process      *)
(* (CommService._apply appends the events of an act one by one).           *)
THEOREM NoEffectTwice ==
  ASSUME Proc = {Team}
  PROVE  Spec => []EffectOnce
<1>1. IInv => EffectOnce
  <2> SUFFICES ASSUME IInv
               PROVE  EffectOnce
    OBVIOUS
  <2> DEFINE Gone == {a \in Acts : /\ acts[a].state = "allow" /\ acts[a].effects = 0
                                   /\ \A p \in Proc : Event("task_status_changed", a, "", 0)
                                                        \notin ToSet(todo[p])}
  <2>1. \A a \in Acts : acts[a].effects <= 1
    BY ActsAre DEF IInv, Act
  <2>2. Gone \subseteq Lost
    <3> SUFFICES ASSUME NEW a \in Gone, todo[Team] = <<Moved(a)>>
                 PROVE  FALSE
      BY DEF Lost
    <3>1. Moved(a) \in ToSet(todo[Team])
      BY OnlyElement
    <3> QED
      BY <3>1 DEF Moved
  <2>3. IsFiniteSet(Lost)
    BY LostIsFinite DEF IInv
  <2>4. Cardinality(Gone) <= crashes
    <3>1. Cardinality(Gone) <= Cardinality(Lost)
          /\ Cardinality(Gone) \in Nat /\ Cardinality(Lost) \in Nat
      BY <2>2, <2>3, FS_Subset, FS_CardinalityType
    <3>2. crashes \in Nat /\ Cardinality(Lost) <= crashes
      BY DEF IInv, Shape, EffectsFit
    <3> HIDE DEF Gone
    <3> QED
      BY <3>1, <3>2
  <2> QED
    BY <2>1, <2>4 DEF EffectOnce
<1> QED
  BY <1>1, InvariantHolds, PTL

-----------------------------------------------------------------------------
(* The worker is faithful to the path of the acts.                         *)

Status == {"requested", "passed", "failed"}

\* A validation, of whatever it may be about.
IsValidation(v) ==
  /\ v = [act |-> v.act, validator |-> v.validator, status |-> v.status]
  /\ v.status \in Status

ValsShape ==
  /\ IsSequence(vals)
  /\ \A i \in Vals : IsValidation(vals[i])

LEMMA ValsAre ==
  ASSUME ValsShape
  PROVE  Vals = 1 .. Len(vals) /\ Len(vals) \in Nat
BY AppendPositions DEF ValsShape, Vals

\* A sequence of which one element is replaced.
LEMMA ReplacedPositions ==
  ASSUME NEW s, IsSequence(s), NEW i, NEW r
  PROVE  /\ IsSequence([s EXCEPT ![i] = r])
         /\ DOMAIN [s EXCEPT ![i] = r] = DOMAIN s
         /\ i \in DOMAIN s => [s EXCEPT ![i] = r][i] = r
         /\ \A j \in DOMAIN s : j # i => [s EXCEPT ![i] = r][j] = s[j]
<1> DEFINE f == [s EXCEPT ![i] = r]
           T == {s[j] : j \in DOMAIN s} \cup {r}
<1>1. s \in Seq(T) /\ Len(s) \in Nat /\ DOMAIN s = 1 .. Len(s)
  BY AppendPositions DEF IsSequence
<1>2. s = [j \in 1 .. Len(s) |-> s[j]]
  BY <1>1, LenProperties
<1>3. f \in [1 .. Len(s) -> T] /\ DOMAIN f = DOMAIN s
  BY <1>1, <1>2
<1> HIDE DEF T
<1>4. f \in Seq(T)
  <2>1. Seq(T) = UNION {[1 .. n -> T] : n \in Nat}
    BY SeqDef
  <2>2. [1 .. Len(s) -> T] \in {[1 .. n -> T] : n \in Nat}
    BY <1>1
  <2> HIDE DEF f
  <2> QED
    BY <1>3, <2>1, <2>2
<1>5. IsSequence(f)
  BY <1>4, SequenceIsOne
<1> QED
  BY <1>3, <1>5

LEMMA ValsChanged ==
  ASSUME ValsShape, NEW i, NEW v, IsValidation(v), vals' = [vals EXCEPT ![i] = v]
  PROVE  /\ ValsShape' /\ Vals' = Vals
         /\ i \in Vals => vals'[i] = v
         /\ \A j \in Vals : j # i => vals'[j] = vals[j]
<1>1. /\ IsSequence(vals') /\ DOMAIN vals' = DOMAIN vals
      /\ i \in DOMAIN vals => vals'[i] = v
      /\ \A j \in DOMAIN vals : j # i => vals'[j] = vals[j]
  BY ReplacedPositions DEF ValsShape
<1>2. \A j \in Vals' : IsValidation(vals'[j])
  BY <1>1 DEF ValsShape, Vals
<1> QED
  BY <1>1, <1>2 DEF ValsShape, Vals

LEMMA ValsGrown ==
  ASSUME ValsShape, NEW v, IsValidation(v), vals' = Append(vals, v)
  PROVE  /\ ValsShape' /\ Vals' = 1 .. Len(vals) + 1 /\ Vals = 1 .. Len(vals)
         /\ vals'[Len(vals) + 1] = v
         /\ \A j \in Vals : vals'[j] = vals[j]
<1>1. /\ IsSequence(vals') /\ Len(vals) \in Nat
      /\ DOMAIN vals = 1 .. Len(vals) /\ DOMAIN vals' = 1 .. Len(vals) + 1
      /\ vals'[Len(vals) + 1] = v
      /\ \A j \in 1 .. Len(vals) : vals'[j] = vals[j]
  BY AppendPositions DEF ValsShape
<1>2. \A j \in Vals' : IsValidation(vals'[j])
  <2> SUFFICES ASSUME NEW j \in Vals'
               PROVE  IsValidation(vals'[j])
    OBVIOUS
  <2>1. j \in 1 .. Len(vals) \/ j = Len(vals) + 1
    BY <1>1 DEF Vals
  <2> QED
    BY <1>1, <2>1 DEF ValsShape, Vals
<1> QED
  BY <1>1, <1>2 DEF ValsShape, Vals

\* A verdict on a request.
LEMMA Answered ==
  ASSUME ValsShape, NEW i \in Vals, NEW s \in Status, vals' = [vals EXCEPT ![i].status = s]
  PROVE  /\ ValsShape' /\ Vals' = Vals
         /\ vals'[i].status = s /\ vals'[i].act = vals[i].act
         /\ vals'[i].validator = vals[i].validator
         /\ \A j \in Vals : j # i => vals'[j] = vals[j]
<1>1. PICK v : v = [vals[i] EXCEPT !.status = s]
  OBVIOUS
<1>2. IsValidation(vals[i])
  BY DEF ValsShape
<1>3. v = [act |-> vals[i].act, validator |-> vals[i].validator, status |-> s]
  BY <1>1, <1>2 DEF IsValidation
<1>4. IsValidation(v) /\ v.status = s /\ v.act = vals[i].act /\ v.validator = vals[i].validator
  BY <1>3 DEF IsValidation
<1>5. vals' = [vals EXCEPT ![i] = v]
  BY <1>1
<1>6. ValsShape' /\ Vals' = Vals /\ vals'[i] = v /\ \A j \in Vals : j # i => vals'[j] = vals[j]
  <2>1. ValsShape'
    BY <1>4, <1>5, ValsChanged
  <2>2. Vals' = Vals
    BY <1>4, <1>5, ValsChanged
  <2>3. vals'[i] = v
    BY <1>4, <1>5, ValsChanged
  <2>4. \A j \in Vals : j # i => vals'[j] = vals[j]
    BY <1>4, <1>5, ValsChanged
  <2> QED
    BY <2>1, <2>2, <2>3, <2>4
<1> QED
  BY <1>4, <1>6

LEMMA ActStepKeepsVals ==
  ASSUME ValsShape, NEW p, ActStep(p)
  PROVE  ValsShape'
<1>1. CASE UNCHANGED vals
  BY <1>1 DEF ValsShape, Vals
<1>2. CASE Write(p) /\ WriteRequest(p) /\ vals' # vals
  <2> DEFINE e == Head(todo[p])
             v == [act |-> e.act, validator |-> e.what, status |-> "requested"]
  <2>1. vals' = [vals EXCEPT ![e.id] = v] \/ vals' = Append(vals, v)
    BY <1>2 DEF WriteRequest
  <2>2. IsValidation(v)
    BY DEF IsValidation, Status
  <2> HIDE DEF v
  <2> QED
    BY <2>1, <2>2, ValsChanged, ValsGrown
<1>3. UNCHANGED vals \/ (Write(p) /\ WriteRequest(p))
  BY DEF ActStep, Submit, Write, WriteDecision, WriteStatus, Amend, Decide, Resolve, store
<1> QED
  BY <1>1, <1>2, <1>3

LEMMA HitIs ==
  ASSUME ValsShape, NEW i \in Vals, Cached(i) # {}
  PROVE  (CHOOSE j \in Cached(i) : \A k \in Cached(i) : j <= k) \in Cached(i)
<1>1. Cached(i) \subseteq Nat
  BY ValsAre DEF Cached
<1>2. \E j \in Cached(i) : \A k \in Cached(i) : j <= k
  BY <1>1, LeastNatural
<1> QED
  BY <1>2

LEMMA RecordedIs ==
  ASSUME NEW i, NEW s, NEW r, Recorded(i, s, r)
  PROVE  /\ Idle(Team)
         /\ UNCHANGED <<rule, acts, status, approvals, todo, checked, crashes>>
         /\ Unanswered(i) => vals' = [vals EXCEPT ![i].status = s]
         /\ ~Unanswered(i) => UNCHANGED vals
BY DEF Recorded

\* A verdict is that of one step of the path of the acts, and none the second time.
LEMMA VerdictStep ==
  ASSUME ValsShape, NEW i \in Vals, NEW s \in {"passed", "failed"}, NEW r, Recorded(i, s, r)
  PROVE  ValsShape' /\ [Next]_vars
<1>1. CASE Unanswered(i)
  <2>1. Validated(i)
    BY <1>1, RecordedIs DEF Validated, Unanswered
  <2>2. ValsShape'
    <3>1. vals' = [vals EXCEPT ![i].status = s] /\ s \in Status
      BY <1>1, RecordedIs DEF Status
    <3> QED
      BY <3>1, Answered
  <2> QED
    BY <2>1, <2>2 DEF Next, Vals
<1>2. CASE ~Unanswered(i)
  <2>1. UNCHANGED vars
    BY <1>2, RecordedIs DEF vars, store
  <2>2. ValsShape'
    BY <2>1 DEF ValsShape, Vals, vars, store
  <2> QED
    BY <2>1, <2>2
<1> QED
  BY <1>1, <1>2

LEMMA WorkerStep ==
  ASSUME ValsShape, [WorkerNext]_allVars
  PROVE  ValsShape' /\ [Next]_vars
<1>1. ASSUME NEW p \in Proc, ActStep(p)
      PROVE  ValsShape' /\ [Next]_vars
  <2>1. Next
    BY <1>1 DEF ActStep, Next
  <2> QED
    BY <1>1, <2>1, ActStepKeepsVals
<1>2. ASSUME NEW p \in Proc, Die(p)
      PROVE  ValsShape' /\ [Next]_vars
  <2>1. Crash(p) /\ UNCHANGED vals
    BY <1>2 DEF Die, Crash, store
  <2> QED
    BY <2>1 DEF Next, ValsShape, Vals
<1>3. ASSUME NEW i \in Vals, AnswerCached(i)
      PROVE  ValsShape' /\ [Next]_vars
  <2>0. PICK hit : hit = CHOOSE j \in Cached(i) : \A k \in Cached(i) : j <= k
    OBVIOUS
  <2>1. Cached(i) # {} /\ Recorded(i, vals[hit].status, [inputs |-> Inputs, infra |-> FALSE])
    BY <1>3, <2>0 DEF AnswerCached
  <2>2. hit \in Cached(i)
    BY <1>3, <2>0, <2>1, HitIs
  <2>3. hit \in Vals /\ ~Unanswered(hit)
    BY <2>2 DEF Cached
  <2>4. vals[hit].status \in {"passed", "failed"}
    BY <2>3 DEF ValsShape, IsValidation, Status, Unanswered
  <2> QED
    BY <1>3, <2>1, <2>4, VerdictStep
<1>4. ASSUME NEW i \in Vals, Finish(i)
      PROVE  ValsShape' /\ [Next]_vars
  <2>1. PICK s \in {"passed", "failed"} : Recorded(i, s, [inputs |-> running[i], infra |-> FALSE])
    BY <1>4 DEF Finish
  <2> QED
    BY <1>4, <2>1, VerdictStep
<1>5. ASSUME UNCHANGED vars
      PROVE  ValsShape' /\ [Next]_vars
  BY <1>5 DEF vars, store, ValsShape, Vals
<1>6. ASSUME NEW i \in Vals, Fail(i)
      PROVE  ValsShape' /\ [Next]_vars
  <2>1. Recorded(i, "failed", [inputs |-> None, infra |-> TRUE]) \/ UNCHANGED vars
    BY <1>6 DEF Fail
  <2>2. "failed" \in {"passed", "failed"}
    OBVIOUS
  <2> QED
    BY <1>5, <1>6, <2>1, <2>2, VerdictStep
<1>7. ASSUME NEW i \in Vals, Start(i)
      PROVE  UNCHANGED vars
  BY <1>7 DEF Start
<1>8. CASE Edit
  BY <1>5, <1>8 DEF Edit
<1>9. CASE UNCHANGED allVars
  BY <1>5, <1>9 DEF allVars
<1> QED
  BY <1>1, <1>2, <1>3, <1>4, <1>5, <1>6, <1>7, <1>8, <1>9 DEF WorkerNext

LEMMA NoVals ==
  ASSUME Init
  PROVE  ValsShape
BY EmptyIsSequence DEF Init, ValsShape, Vals

(* With its cache, its retries and the runs it loses, the worker does to   *)
(* the acts and their validations what the path of the acts says: whatever *)
(* process writes beside it, a request is answered once, between two       *)
(* things done under the lock (ValidationWorker.step, record_validation).  *)
THEOREM WorkerAnswersLawfully == WorkerSpec => ImplementsActPath
<1>1. WorkerSpec => []ValsShape
  BY NoVals, WorkerStep, PTL DEF WorkerSpec, WorkerInit
<1>2. WorkerInit => Init
  BY DEF WorkerInit
<1>3. ValsShape /\ [WorkerNext]_allVars => [Next]_vars
  BY WorkerStep
<1> QED
  BY <1>1, <1>2, <1>3, PTL DEF WorkerSpec, Spec, ImplementsActPath

-----------------------------------------------------------------------------
(* What is asked for.                                                      *)

\* The validations asked for in s come first and are numbered from n on; the
\* approval is given or refused.
WellAsked(s, n) ==
  /\ IsSequence(s)
  /\ \A i \in DOMAIN s : s[i].type = "validation_requested" =>
       /\ s[i].id = n + i
       /\ \A j \in 1 .. i - 1 : s[j].type = "validation_requested"
  /\ \A i \in DOMAIN s : s[i].type = "approval_decided" => s[i].what \in {"approved", "rejected"}

RInv == ValsShape /\ WellAsked(todo[Team], Len(vals))

LEMMA EmptyAsks == \A n : WellAsked(<<>>, n)
BY EmptyIsSequence DEF WellAsked

LEMMA OtherAsks ==
  ASSUME NEW E, NEW s \in Seq(E), \A e \in E : e.type \notin {"validation_requested", "approval_decided"}
  PROVE  \A n : WellAsked(s, n)
<1>1. IsSequence(s)
  BY SequenceIsOne
<1>2. \A i \in DOMAIN s : s[i] \in E
  BY ElementOfSeq, LenProperties
<1> QED
  BY <1>1, <1>2 DEF WellAsked

LEMMA OutcomeAsks ==
  ASSUME NEW type \in {"act_decided", "act_resolved"}, NEW a, NEW d
  PROVE  \A n : WellAsked(Outcome(type, a, d), n)
<1> DEFINE e == Event(type, a, d, 0)
           m == Moved(a)
           E == {e, m}
<1>1. Outcome(type, a, d) = <<e>> \o (IF d = "allow" THEN <<m>> ELSE <<>>)
  BY DEF Outcome, Moved
<1>2. e.type = type
  BY DEF Event
<1>3. m.type = "task_status_changed"
  BY DEF Moved, Event
<1> HIDE DEF e, m
<1>4. \A x \in E : x.type \notin {"validation_requested", "approval_decided"}
  BY <1>2, <1>3
<1>5. <<e>> \in Seq(E) /\ (IF d = "allow" THEN <<m>> ELSE <<>>) \in Seq(E)
  <2>1. <<e>> \in Seq(E) /\ <<m>> \in Seq(E) /\ <<>> \in Seq(E)
    OBVIOUS
  <2> QED
    BY <2>1
<1> HIDE DEF E
<1>6. Outcome(type, a, d) \in Seq(E)
  BY <1>1, <1>5, ConcatProperties
<1> QED
  BY <1>4, <1>6, OtherAsks

LEMMA ApprovalAsks ==
  ASSUME NEW a, NEW d \in {"approved", "rejected"}
  PROVE  \A n : WellAsked(<<Event("approval_decided", a, d, 0)>>, n)
<1>1. PICK e : e = Event("approval_decided", a, d, 0)
  OBVIOUS
<1>2. e.type = "approval_decided" /\ e.what = d
  BY <1>1 DEF Event
<1>3. <<e>> \in Seq({e}) /\ DOMAIN <<e>> = {1} /\ <<e>>[1] = e
  OBVIOUS
<1>4. IsSequence(<<e>>)
  BY <1>3, SequenceIsOne
<1> QED
  BY <1>1, <1>2, <1>3, <1>4 DEF WellAsked

LEMMA RequestsAreAsked ==
  ASSUME NEW a, NEW tr, Len(vals) \in Nat
  PROVE  WellAsked(Requests(a, tr), Len(vals))
<1> DEFINE S == {v \in Waiting(a, tr) \cap Validator : Verdict(a, v) = "none"}
           new == SetToSeq(S)
           n == Cardinality(S)
           ask(i) == Event("validation_requested", a, new[i], Len(vals) + i)
           approve == Event("approval_requested", a, "", 0)
           some == [i \in DOMAIN new |-> ask(i)]
           more == IF Approval \in Waiting(a, tr) /\ approvals[a] = "none" THEN <<approve>> ELSE <<>>
<1>1. DOMAIN new = 1..n /\ n \in Nat
  <2>1. IsFiniteSet(S)
    BY ActAssumption, FS_Subset
  <2>2. n \in Nat /\ ExistsBijection(1..n, S)
    BY <2>1, FS_CardinalityType
  <2>3. \E f \in [1..n -> S] : IsInjective(f)
    BY <2>2 DEF ExistsBijection, Bijection, Injection, IsInjective
  <2> QED
    BY <2>2, <2>3 DEF SetToSeq
<1>2. Requests(a, tr) = some \o more
  BY DEF Requests
<1> HIDE DEF S, new, n
<1>3. \A i : ask(i).type = "validation_requested" /\ ask(i).id = Len(vals) + i
  BY DEF Event
<1>4. approve.type = "approval_requested"
  BY DEF Event
<1> HIDE DEF ask, approve
<1>5. IsSequence(some) /\ Len(some) = n /\ \A i \in 1 .. n : some[i] = ask(i)
  <2> DEFINE E == {ask(i) : i \in 1 .. n}
  <2>1. some \in [1 .. n -> E]
    BY <1>1
  <2>2. \A i \in 1 .. n : some[i] = ask(i)
    BY <1>1
  <2>3. DOMAIN some = 1 .. n
    BY <1>1
  <2> HIDE DEF E, some
  <2>4. some \in Seq(E)
    <3>1. Seq(E) = UNION {[1..k -> E] : k \in Nat}
      BY SeqDef
    <3>2. [1..n -> E] \in {[1..k -> E] : k \in Nat}
      BY <1>1
    <3> QED
      BY <2>1, <3>1, <3>2
  <2>5. IsSequence(some)
    BY <2>4, SequenceIsOne
  <2>6. Len(some) = n
    BY <1>1, <2>3, <2>4, LenProperties
  <2> QED
    BY <2>2, <2>5, <2>6
<1> HIDE DEF some
<1>6. IsSequence(more) /\ \A i \in DOMAIN more : more[i] = approve
  <2>1. <<approve>> \in Seq({approve}) /\ <<>> \in Seq({approve})
    OBVIOUS
  <2>2. IsSequence(<<approve>>) /\ IsSequence(<<>>)
    BY <2>1, SequenceIsOne
  <2>3. DOMAIN <<approve>> = {1} /\ <<approve>>[1] = approve /\ DOMAIN <<>> = {}
    BY EmptyIsSequence
  <2> QED
    BY <2>2, <2>3
<1> HIDE DEF more
<1>7. PICK s : s = some \o more
  OBVIOUS
<1>8. /\ IsSequence(s) /\ DOMAIN s = 1 .. n + Len(more) /\ Len(more) \in Nat
      /\ \A i \in 1 .. n : s[i] = ask(i)
      /\ \A i \in 1 .. Len(more) : s[n + i] = approve
  <2>1. /\ IsSequence(some \o more) /\ Len(more) \in Nat
        /\ Len(some \o more) = Len(some) + Len(more)
        /\ \A i \in 1 .. Len(some) : (some \o more)[i] = some[i]
        /\ \A i \in 1 .. Len(more) : (some \o more)[Len(some) + i] = more[i]
    <3>1. IsSequence(some) /\ IsSequence(more)
      BY <1>5, <1>6
    <3> QED
      BY <3>1, ConcatPositions
  <2>2. DOMAIN s = 1 .. Len(s)
    BY <1>7, <2>1, AppendPositions
  <2>3. DOMAIN more = 1 .. Len(more)
    BY <1>6, AppendPositions
  <2> QED
    BY <1>5, <1>6, <1>7, <2>1, <2>2, <2>3
<1>9. \A i \in DOMAIN s : \/ i \in 1 .. n /\ s[i] = ask(i)
                          \/ i > n /\ s[i] = approve
  <2> SUFFICES ASSUME NEW i \in 1 .. n + Len(more), i \notin 1 .. n
               PROVE  i > n /\ s[i] = approve
    BY <1>8
  <2>1. i > n /\ i - n \in 1 .. Len(more) /\ n + (i - n) = i
    BY <1>1, <1>8
  <2> QED
    BY <1>8, <2>1
<1>10. WellAsked(s, Len(vals))
  <2>1. \A i \in 1 .. n : \A j \in 1 .. i - 1 : j \in 1 .. n
    BY <1>1
  <2>2. \A i \in DOMAIN s : s[i].type = "validation_requested" => i \in 1 .. n
    BY <1>3, <1>4, <1>9
  <2>3. \A i \in DOMAIN s : s[i].type # "approval_decided"
    BY <1>3, <1>4, <1>9
  <2>4. \A i \in 1 .. n : s[i].type = "validation_requested" /\ s[i].id = Len(vals) + i
    BY <1>3, <1>8
  <2> QED
    BY <1>8, <2>1, <2>2, <2>3, <2>4 DEF WellAsked
<1> QED
  BY <1>2, <1>7, <1>10

\* Once its first event is written.
LEMMA TailAsks ==
  ASSUME NEW s, NEW n \in Nat, WellAsked(s, n), s # <<>>
  PROVE  /\ Head(s).type = "validation_requested" =>
              Head(s).id = n + 1 /\ WellAsked(Tail(s), n + 1)
         /\ Head(s).type # "validation_requested" => \A m : WellAsked(Tail(s), m)
         /\ Head(s).type = "approval_decided" => Head(s).what \in {"approved", "rejected"}
<1>1. IsSequence(s)
  BY DEF WellAsked
<1>2. Len(s) \in Nat /\ DOMAIN s = 1 .. Len(s)
  BY <1>1, AppendPositions
<1>3. Len(s) > 0
  <2>1. Len(s) # 0
    BY <1>1, EmptySeq DEF IsSequence
  <2> QED
    BY <1>2, <2>1
<1>4. PICK t : t = Tail(s)
  OBVIOUS
<1>5. /\ Head(s) = s[1] /\ IsSequence(t)
      /\ DOMAIN t = 1 .. Len(s) - 1
      /\ \A i \in 1 .. Len(s) - 1 : t[i] = s[i + 1]
  <2>1. DOMAIN t = 1 .. Len(t)
    BY <1>1, <1>3, <1>4, TailPositions, AppendPositions
  <2> QED
    BY <1>1, <1>3, <1>4, <2>1, TailPositions
<1>6. \A i \in DOMAIN t : i + 1 \in DOMAIN s /\ t[i] = s[i + 1] /\ i \in Nat
  BY <1>2, <1>5
<1>7. 1 \in DOMAIN s
  BY <1>2, <1>3
<1>8. \A i \in DOMAIN t : t[i].type = "approval_decided" => t[i].what \in {"approved", "rejected"}
  BY <1>6 DEF WellAsked
<1>9. ASSUME Head(s).type = "validation_requested"
      PROVE  Head(s).id = n + 1 /\ WellAsked(Tail(s), n + 1)
  <2>1. Head(s).id = n + 1
    BY <1>5, <1>7, <1>9 DEF WellAsked
  <2>2. ASSUME NEW i \in DOMAIN t, t[i].type = "validation_requested"
        PROVE  t[i].id = n + 1 + i /\ \A j \in 1 .. i - 1 : t[j].type = "validation_requested"
    <3>1. s[i + 1].id = n + (i + 1) /\ \A j \in 1 .. (i + 1) - 1 : s[j].type = "validation_requested"
      BY <1>6, <2>2 DEF WellAsked
    <3>2. \A j \in 1 .. i - 1 : j \in DOMAIN t /\ j + 1 \in 1 .. (i + 1) - 1
      BY <1>2, <1>5
    <3>3. n + (i + 1) = n + 1 + i
      BY <1>6
    <3> QED
      BY <1>6, <3>1, <3>2, <3>3
  <2> QED
    BY <1>4, <1>5, <1>8, <2>1, <2>2 DEF WellAsked
<1>10. ASSUME Head(s).type # "validation_requested"
       PROVE  \A m : WellAsked(Tail(s), m)
  <2>1. ASSUME NEW i \in DOMAIN t
        PROVE  t[i].type # "validation_requested"
    <3>1. 1 \in 1 .. (i + 1) - 1
      BY <1>6
    <3>2. s[i + 1].type # "validation_requested"
      BY <1>5, <1>6, <1>10, <3>1 DEF WellAsked
    <3> QED
      BY <1>6, <3>2
  <2> QED
    BY <1>4, <1>5, <1>8, <2>1 DEF WellAsked
<1>11. Head(s).type = "approval_decided" => Head(s).what \in {"approved", "rejected"}
  BY <1>5, <1>7 DEF WellAsked
<1> QED
  BY <1>9, <1>10, <1>11

\* The steps of the one process.
LEMMA WriteRequestAsks ==
  ASSUME IInv, RInv, ~Idle(Team), WriteRequest(Team)
  PROVE  RInv' /\ (UNCHANGED vals \/ \E v : IsValidation(v) /\ v.status = "requested" /\ vals' = Append(vals, v))
<1> DEFINE e == Head(todo[Team])
<1>1. /\ todo[Team] # <<>> /\ todo'[Team] = Tail(todo[Team])
  BY AskAhead
<1>2. Len(vals) \in Nat /\ ValsShape
  BY ValsAre DEF RInv
<1>3. /\ e.type = "validation_requested" =>
           e.id = Len(vals) + 1 /\ WellAsked(Tail(todo[Team]), Len(vals) + 1)
      /\ e.type # "validation_requested" => \A m : WellAsked(Tail(todo[Team]), m)
  BY <1>1, <1>2, TailAsks DEF RInv
<1>4. CASE e.type = "validation_requested"
  <2>1. PICK v : v = [act |-> e.act, validator |-> e.what, status |-> "requested"]
    OBVIOUS
  <2>2. vals' = IF e.id <= Len(vals) THEN [vals EXCEPT ![e.id] = v] ELSE Append(vals, v)
    BY <1>4, <2>1 DEF WriteRequest
  <2>3. vals' = Append(vals, v)
    BY <1>2, <1>3, <1>4, <2>2
  <2>4. IsValidation(v) /\ v.status = "requested"
    BY <2>1 DEF IsValidation, Status
  <2>5. ValsShape' /\ Vals' = 1 .. Len(vals) + 1
    BY <1>2, <2>3, <2>4, ValsGrown
  <2>6. Len(vals)' = Len(vals) + 1
    <3>1. (Vals = 1 .. Len(vals) /\ Len(vals) \in Nat)'
      BY <2>5, AppendPositions DEF ValsShape, Vals
    <3> QED
      BY <1>2, <2>5, <3>1
  <2>7. WellAsked(todo[Team], Len(vals))'
    BY <1>1, <1>3, <1>4, <2>6
  <2> QED
    BY <2>3, <2>4, <2>5, <2>7 DEF RInv
<1>5. CASE e.type # "validation_requested"
  <2>1. UNCHANGED vals
    BY <1>5 DEF WriteRequest
  <2> QED
    BY <1>1, <1>2, <1>3, <1>5, <2>1 DEF RInv, ValsShape, Vals
<1> QED
  BY <1>4, <1>5

LEMMA RequestsAreNumbered ==
  ASSUME Proc = {Team}
  PROVE  Spec => []RInv
<1>1. Init => RInv
  <2> SUFFICES ASSUME Init
               PROVE  RInv
    OBVIOUS
  <2>1. todo[Team] = <<>>
    BY ActAssumption DEF Init
  <2> QED
    BY <2>1, NoVals, EmptyAsks DEF RInv
<1>2. IInv /\ RInv /\ [Next]_vars => RInv'
  <2> SUFFICES ASSUME IInv, RInv, [Next]_vars
               PROVE  RInv'
    OBVIOUS
  <2>0. Len(vals) \in Nat /\ DOMAIN todo = {Team}
    BY ValsAre DEF IInv, RInv
  <2>1. ASSUME UNCHANGED vals, \/ \A n : WellAsked(todo'[Team], n)
                              \/ WellAsked(todo'[Team], Len(vals))
                              \/ UNCHANGED todo
        PROVE  RInv'
    BY <2>1 DEF RInv, ValsShape, Vals
  <2>2. CASE Submit(Team)
    <3>1. PICK t \in Task, tr \in Transition :
            todo' = [todo EXCEPT ![Team] =
                       Outcome("act_decided", Len(acts) + 1, Decision(Len(acts) + 1, t, tr))]
      BY <2>2 DEF Submit
    <3>2. \A n : WellAsked(todo'[Team], n)
      BY <2>0, <3>1, OutcomeAsks
    <3>3. UNCHANGED vals
      BY <2>2 DEF Submit
    <3> QED
      BY <2>1, <3>2, <3>3
  <2>3. CASE ~Idle(Team) /\ WriteDecision(Team)
    <3>1. PICK a \in Acts, type \in {"act_decided", "act_resolved"}, d \in {"allow", "deny", "pending"} :
            WritesDecision(a, type, d)
      BY <2>3, DecisionAhead
    <3> USE DEF WritesDecision
    <3>2. CASE d = "pending"
      BY <2>0, <2>1, <3>1, <3>2, RequestsAreAsked
    <3>3. CASE d = "allow"
      <4>1. PICK m : m = Moved(a)
        OBVIOUS
      <4>2. m.type = "task_status_changed"
        BY <4>1 DEF Moved, Event
      <4> DEFINE E == {m}
      <4>3. <<m>> \in Seq(E) /\ \A e \in E : e.type \notin {"validation_requested", "approval_decided"}
        BY <4>2
      <4> HIDE DEF E
      <4>4. \A n : WellAsked(<<m>>, n)
        BY <4>3, OtherAsks
      <4> QED
        BY <2>1, <3>1, <3>3, <4>1, <4>4
    <3>4. CASE d = "deny"
      BY <2>1, <3>1, <3>4, EmptyAsks
    <3> QED
      BY <3>2, <3>3, <3>4
  <2>4. CASE ~Idle(Team) /\ WriteStatus(Team)
    <3>1. todo'[Team] = <<>> /\ UNCHANGED vals
      BY <2>4, EffectAhead DEF WritesEffect
    <3> QED
      BY <2>1, <3>1, EmptyAsks
  <2>5. CASE ~Idle(Team) /\ WriteRequest(Team)
    BY <2>5, WriteRequestAsks
  <2>6. CASE Amend(Team)
    BY <2>1, <2>6 DEF Amend
  <2>7. CASE Crash(Team)
    <3>1. todo'[Team] = <<>> /\ UNCHANGED vals
      BY <2>0, <2>7 DEF Crash, store
    <3> QED
      BY <2>1, <3>1, EmptyAsks
  <2>8. ASSUME NEW a \in Acts, Decide(Team, a)
        PROVE  RInv'
    <3>1. PICK d \in {"approved", "rejected"} :
            todo' = [todo EXCEPT ![Team] = <<Event("approval_decided", a, d, 0)>>]
      BY <2>8 DEF Decide
    <3>2. \A n : WellAsked(todo'[Team], n)
      BY <2>0, <3>1, ApprovalAsks
    <3>3. UNCHANGED vals
      BY <2>8 DEF Decide, store
    <3> QED
      BY <2>1, <3>2, <3>3
  <2>9. ASSUME NEW a \in Acts, Resolve(Team, a)
        PROVE  RInv'
    <3>1. PICK d : d = Decision(a, acts[a].task, acts[a].tr)
      OBVIOUS
    <3>2. todo'[Team] = IF d = "pending" THEN Requests(a, acts[a].tr) ELSE Outcome("act_resolved", a, d)
      BY <2>0, <2>9, <3>1 DEF Resolve
    <3>3. UNCHANGED vals
      BY <2>9 DEF Resolve, store
    <3> QED
      BY <2>0, <2>1, <3>2, <3>3, RequestsAreAsked, OutcomeAsks
  <2>10. ASSUME NEW i \in Vals, Validated(i)
         PROVE  RInv'
    <3>1. PICK s \in Status : vals' = [vals EXCEPT ![i].status = s]
      BY <2>10 DEF Validated, Status
    <3>2. ValsShape' /\ Vals' = Vals
      BY <3>1, Answered DEF RInv
    <3>3. todo[Team] = <<>> /\ UNCHANGED todo
      BY <2>10 DEF Validated, Idle
    <3> QED
      BY <3>2, <3>3, EmptyAsks DEF RInv
  <2>11. CASE UNCHANGED vars
    BY <2>1, <2>11 DEF vars, store
  <2> QED
    BY <2>2, <2>3, <2>4, <2>5, <2>6, <2>7, <2>8, <2>9, <2>10, <2>11 DEF Next, Write, Vals
<1> QED
  BY <1>1, <1>2, InvariantHolds, PTL DEF Spec

-----------------------------------------------------------------------------
(* Verdicts.                                                               *)

\* What the worker keeps beside the log.
WInv ==
  /\ private \in Digest
  /\ DOMAIN record = Vals
  /\ \A i \in Vals : record[i].infra => record[i].inputs = None
  /\ ran \subseteq Vals
  /\ \A i \in ran : ~Unanswered(i)

\* What has been answered stays, and what is new has no answer.
LEMMA NothingAnswered ==
  ASSUME WInv, VerdictsAreEarned, private' \in Digest, ran' = ran,
         Vals \subseteq Vals', DOMAIN record' = Vals',
         \A i \in Vals : vals'[i] = vals[i] /\ record'[i] = record[i],
         \A i \in Vals' : i \notin Vals => Unanswered(i)' /\ record'[i] = Blank
  PROVE  WInv' /\ VerdictsAreEarned'
<1>1. \A i \in Vals' : record'[i].infra => record'[i].inputs = None
  BY DEF WInv, Blank
<1>2. WInv'
  BY <1>1 DEF WInv, Unanswered
<1>3. \A i \in Vals : Question(i)' = Question(i) /\ Unanswered(i)' = Unanswered(i)
  BY DEF Question, Unanswered
<1>4. VerdictsAreEarned'
  <2> SUFFICES ASSUME NEW i \in Vals', ~Unanswered(i)', ~record'[i].infra
               PROVE  \E j \in ran' : /\ Question(j)' = Question(i)'
                                      /\ vals'[j].status = vals'[i].status
                                      /\ record'[j].inputs = record'[i].inputs
    BY DEF VerdictsAreEarned
  <2>1. i \in Vals
    OBVIOUS
  <2>2. PICK j \in ran : /\ Question(j) = Question(i) /\ vals[j].status = vals[i].status
                         /\ record[j].inputs = record[i].inputs
    BY <1>3, <2>1 DEF VerdictsAreEarned
  <2>3. j \in Vals
    BY DEF WInv
  <2> QED
    BY <1>3, <2>1, <2>2, <2>3
<1> QED
  BY <1>2, <1>4

\* One request is answered: by a failure of the infrastructure, by a run, or
\* as an earlier one was.
LEMMA OneAnswered ==
  ASSUME WInv, VerdictsAreEarned, ValsShape, UNCHANGED private,
         NEW i \in Vals, NEW s \in {"passed", "failed"}, NEW r, Recorded(i, s, r),
         r.infra => r.inputs = None,
         \/ ran' = ran \cup {i}
         \/ ran' = ran /\ r.infra
         \/ ran' = ran /\ \E j \in ran : /\ Question(j) = Question(i) /\ vals[j].status = s
                                        /\ record[j].inputs = r.inputs
  PROVE  WInv' /\ VerdictsAreEarned'
<1>1. CASE Unanswered(i)
  <2>1. /\ vals' = [vals EXCEPT ![i].status = s] /\ record' = [record EXCEPT ![i] = r]
    BY <1>1 DEF Recorded
  <2>2. s \in Status /\ s # "requested"
    BY DEF Status
  <2>3. /\ Vals' = Vals /\ vals'[i].status = s /\ vals'[i].act = vals[i].act
        /\ vals'[i].validator = vals[i].validator
        /\ \A j \in Vals : j # i => vals'[j] = vals[j]
    BY <2>1, <2>2, Answered
  <2>4. DOMAIN record' = Vals /\ record'[i] = r /\ \A j \in Vals : j # i => record'[j] = record[j]
    BY <2>1 DEF WInv
  <2>5. i \notin ran /\ ran \subseteq Vals
    BY <1>1 DEF WInv
  <2>6. ~Unanswered(i)' /\ \A j \in Vals : j # i => Unanswered(j)' = Unanswered(j)
    BY <2>2, <2>3 DEF Unanswered
  <2>7. \A j \in Vals : Question(j)' = Question(j)
    BY <2>3 DEF Question
  <2>8. WInv'
    <3>1. \A j \in Vals' : record'[j].infra => record'[j].inputs = None
      BY <2>3, <2>4 DEF WInv
    <3>2. ran' \subseteq Vals' /\ \A j \in ran' : ~Unanswered(j)'
      BY <2>3, <2>5, <2>6 DEF WInv
    <3> QED
      BY <2>3, <2>4, <3>1, <3>2 DEF WInv
  <2>9. VerdictsAreEarned'
    <3> SUFFICES ASSUME NEW k \in Vals, ~Unanswered(k)', ~record'[k].infra
                 PROVE  \E j \in ran' : /\ Question(j)' = Question(k)'
                                        /\ vals'[j].status = vals'[k].status
                                        /\ record'[j].inputs = record'[k].inputs
      BY <2>3 DEF VerdictsAreEarned
    <3>1. CASE k # i
      <4>1. PICK j \in ran : /\ Question(j) = Question(k) /\ vals[j].status = vals[k].status
                             /\ record[j].inputs = record[k].inputs
        BY <2>4, <2>6, <3>1 DEF VerdictsAreEarned
      <4>2. j \in Vals /\ j # i /\ j \in ran'
        BY <2>5
      <4> QED
        BY <2>3, <2>4, <2>7, <3>1, <4>1, <4>2
    <3>2. CASE k = i /\ i \in ran'
      BY <3>2
    <3>3. CASE k = i /\ i \notin ran'
      <4>1. PICK j \in ran : /\ Question(j) = Question(i) /\ vals[j].status = s
                             /\ record[j].inputs = r.inputs
        BY <2>4, <3>3
      <4>2. j \in Vals /\ j # i /\ j \in ran'
        BY <2>5
      <4> QED
        BY <2>3, <2>4, <2>7, <3>3, <4>1, <4>2
    <3> QED
      BY <3>1, <3>2, <3>3
  <2> QED
    BY <2>8, <2>9
<1>2. CASE ~Unanswered(i)
  <2>1. UNCHANGED <<vals, record>>
    BY <1>2 DEF Recorded
  <2>2. /\ Vals' = Vals /\ ran \subseteq ran' /\ ran' \subseteq ran \cup {i}
    BY <2>1 DEF Vals
  <2>3. WInv'
    BY <1>2, <2>1, <2>2 DEF WInv, Unanswered
  <2>4. \A j \in Vals : Question(j)' = Question(j) /\ Unanswered(j)' = Unanswered(j)
    BY <2>1 DEF Question, Unanswered
  <2>5. VerdictsAreEarned'
    <3> SUFFICES ASSUME NEW k \in Vals, ~Unanswered(k)', ~record'[k].infra
                 PROVE  \E j \in ran' : /\ Question(j)' = Question(k)'
                                        /\ vals'[j].status = vals'[k].status
                                        /\ record'[j].inputs = record'[k].inputs
      BY <2>2 DEF VerdictsAreEarned
    <3>1. PICK j \in ran : /\ Question(j) = Question(k) /\ vals[j].status = vals[k].status
                           /\ record[j].inputs = record[k].inputs
      BY <2>1, <2>4 DEF VerdictsAreEarned
    <3>2. j \in Vals
      BY DEF WInv
    <3> QED
      BY <2>1, <2>2, <2>4, <3>1, <3>2
  <2> QED
    BY <2>3, <2>5
<1> QED
  BY <1>1, <1>2

LEMMA ActStepEarns ==
  ASSUME IInv, RInv, WInv, VerdictsAreEarned, ActStep(Team)
  PROVE  WInv' /\ VerdictsAreEarned'
<1>1. /\ record' = [i \in Vals' |-> IF i \in Vals THEN record[i] ELSE Blank]
      /\ ran' = ran /\ private' = private
  BY DEF ActStep, Asked, Vals
<1>2. CASE UNCHANGED vals
  <2>1. Vals' = Vals
    BY <1>2 DEF Vals
  <2> QED
    BY <1>1, <1>2, <2>1, NothingAnswered DEF WInv
<1>3. CASE \E v : IsValidation(v) /\ v.status = "requested" /\ vals' = Append(vals, v)
  <2>1. PICK v : IsValidation(v) /\ v.status = "requested" /\ vals' = Append(vals, v)
    BY <1>3
  <2>2. /\ Vals' = 1 .. Len(vals) + 1 /\ Vals = 1 .. Len(vals)
        /\ vals'[Len(vals) + 1] = v
        /\ \A j \in Vals : vals'[j] = vals[j]
    BY <2>1, ValsGrown DEF RInv
  <2>3. Len(vals) \in Nat
    BY ValsAre DEF RInv
  <2>4. Vals \subseteq Vals' /\ \A i \in Vals' : i \notin Vals => i = Len(vals) + 1
    BY <2>2, <2>3
  <2>5. \A i \in Vals' : i \notin Vals => Unanswered(i)'
    BY <2>1, <2>2, <2>4 DEF Unanswered
  <2> QED
    BY <1>1, <2>2, <2>4, <2>5, NothingAnswered DEF WInv
<1>4. UNCHANGED vals \/ (~Idle(Team) /\ WriteRequest(Team))
  BY DEF ActStep, Submit, Write, WriteDecision, WriteStatus, Amend, Decide, Resolve, store
<1> QED
  BY <1>2, <1>3, <1>4, WriteRequestAsks

(* Where private directories are part of what a verdict is kept under, all *)
(* verdicts but failures of the infrastructure were earned by a run that   *)
(* ended, however many copies and lost runs lie in between: the cache is   *)
(* never fed by what was no verdict (ValidationWorker._cached, _finish).   *)
THEOREM EveryVerdictIsEarned ==
  ASSUME Proc = {Team}, PrivateMount
  PROVE  WorkerSpec => []VerdictsAreEarned
<1>1. WorkerInit => WInv /\ VerdictsAreEarned
  <2> SUFFICES ASSUME WorkerInit
               PROVE  WInv /\ VerdictsAreEarned
    OBVIOUS
  <2>1. Vals = {} /\ record = <<>> /\ ran = {}
    BY DEF WorkerInit, Init, Vals
  <2>2. private \in Digest
    BY WorkerAssumption DEF WorkerInit
  <2>3. DOMAIN record = {}
    BY <2>1
  <2> QED
    BY <2>1, <2>2, <2>3 DEF WInv, VerdictsAreEarned
<1>2. IInv /\ RInv /\ WInv /\ VerdictsAreEarned /\ [WorkerNext]_allVars => WInv' /\ VerdictsAreEarned'
  <2> SUFFICES ASSUME IInv, RInv, WInv, VerdictsAreEarned, [WorkerNext]_allVars
               PROVE  WInv' /\ VerdictsAreEarned'
    OBVIOUS
  <2>1. ASSUME UNCHANGED <<vals, record, ran>>, private' \in Digest
        PROVE  WInv' /\ VerdictsAreEarned'
    <3>1. Vals' = Vals
      BY <2>1 DEF Vals
    <3> QED
      BY <2>1, <3>1, NothingAnswered DEF WInv
  <2>2. private \in Digest /\ ValsShape
    BY DEF WInv, RInv
  <2>3. CASE ActStep(Team)
    BY <2>3, ActStepEarns
  <2>4. CASE Die(Team)
    BY <2>1, <2>2, <2>4 DEF Die, Crash, store
  <2>5. ASSUME NEW i \in Vals, AnswerCached(i)
        PROVE  WInv' /\ VerdictsAreEarned'
    <3>1. PICK hit : hit = CHOOSE j \in Cached(i) : \A k \in Cached(i) : j <= k
      OBVIOUS
    <3>2. PICK r : r = [inputs |-> Inputs, infra |-> FALSE]
      OBVIOUS
    <3>3. Cached(i) # {} /\ Recorded(i, vals[hit].status, r) /\ ran' = ran
      BY <2>5, <3>1, <3>2 DEF AnswerCached
    <3>4. hit \in Cached(i)
      BY <2>2, <3>1, <3>3, HitIs
    <3>5. hit \in Vals /\ ~Unanswered(hit) /\ Question(hit) = Question(i) /\ record[hit].inputs = Inputs
      BY <3>4 DEF Cached
    <3>6. ~record[hit].infra
      BY <2>2, <3>5, WorkerAssumption DEF WInv, Inputs
    <3>7. \E j \in ran : /\ Question(j) = Question(hit) /\ vals[j].status = vals[hit].status
                         /\ record[j].inputs = record[hit].inputs
      BY <3>5, <3>6 DEF VerdictsAreEarned
    <3>8. vals[hit].status \in {"passed", "failed"}
      BY <2>2, <3>5 DEF ValsShape, IsValidation, Status, Unanswered
    <3>9. r.infra = FALSE /\ r.inputs = Inputs
      BY <3>2
    <3>10. UNCHANGED private
      BY <3>3 DEF Recorded
    <3> QED
      BY <2>2, <3>3, <3>5, <3>7, <3>8, <3>9, <3>10, OneAnswered
  <2>6. ASSUME NEW i \in Vals, Start(i)
        PROVE  WInv' /\ VerdictsAreEarned'
    BY <2>1, <2>2, <2>6 DEF Start, vars, store
  <2>7. ASSUME NEW i \in Vals, Finish(i)
        PROVE  WInv' /\ VerdictsAreEarned'
    <3>1. PICK r : r = [inputs |-> running[i], infra |-> FALSE]
      OBVIOUS
    <3>2. PICK s \in {"passed", "failed"} : Recorded(i, s, r)
      BY <2>7, <3>1 DEF Finish
    <3>3. ran' = ran \cup {i} /\ r.infra = FALSE
      BY <2>7, <3>1 DEF Finish
    <3>4. UNCHANGED private
      BY <3>2 DEF Recorded
    <3> QED
      BY <2>2, <3>2, <3>3, <3>4, OneAnswered
  <2>8. ASSUME NEW i \in Vals, Fail(i)
        PROVE  WInv' /\ VerdictsAreEarned'
    <3>1. PICK r : r = [inputs |-> None, infra |-> TRUE]
      OBVIOUS
    <3>2. Recorded(i, "failed", r) \/ UNCHANGED <<vars, private, edits, record>>
      BY <2>8, <3>1 DEF Fail
    <3>3. CASE Recorded(i, "failed", r)
      <4>1. r.infra /\ r.inputs = None
        BY <3>1
      <4>2. UNCHANGED private /\ ran' = ran
        BY <2>8, <3>3 DEF Recorded, Fail
      <4>3. "failed" \in {"passed", "failed"}
        OBVIOUS
      <4> QED
        BY <2>2, <3>3, <4>1, <4>2, <4>3, OneAnswered
    <3>4. CASE UNCHANGED <<vars, private, edits, record>>
      BY <2>1, <2>2, <2>8, <3>4 DEF Fail, vars, store
    <3> QED
      BY <3>2, <3>3, <3>4
  <2>9. CASE Edit
    BY <2>1, <2>9 DEF Edit, vars, store
  <2>10. CASE UNCHANGED allVars
    BY <2>1, <2>2, <2>10 DEF allVars, vars, store, workerVars
  <2> QED
    BY <2>3, <2>4, <2>5, <2>6, <2>7, <2>8, <2>9, <2>10 DEF WorkerNext
<1>3. WorkerSpec => [](IInv /\ RInv)
  BY WorkerAnswersLawfully, InvariantHolds, RequestsAreNumbered, PTL DEF ImplementsActPath
<1> QED
  BY <1>1, <1>2, <1>3, PTL DEF WorkerSpec

-----------------------------------------------------------------------------
(* What was decided still holds when it is written.                        *)

MayMove(a, t, tr) == status[t] \in Moves[tr].from /\ ~Refused(a, tr) /\ Waiting(a, tr) = {}

ApprovalsShape ==
  /\ DOMAIN approvals = 1 .. MaxActs /\ Acts \subseteq 1 .. MaxActs
  /\ \A a \in DOMAIN approvals : approvals[a] \in {"none", "requested", "approved", "rejected"}

DecisionHolds ==
  \A a \in Acts : \A type \in {"act_decided", "act_resolved"}, d \in {"allow", "deny", "pending"} :
    todo[Team] = Outcome(type, a, d) => d = Decision(a, acts[a].task, acts[a].tr)

EffectHolds ==
  \A a \in Acts : todo[Team] = <<Moved(a)>> => MayMove(a, acts[a].task, acts[a].tr)

WaitingFits ==
  \A a \in Acts : /\ acts[a].state = "submitted" => acts[a].waiting = {}
                  /\ acts[a].state = "pending" => acts[a].waiting # {}

DInv == ApprovalsShape /\ DecisionHolds /\ EffectHolds /\ WaitingFits

LEMMA DecisionSays ==
  ASSUME NEW a, NEW t, NEW tr
  PROVE  /\ Decision(a, t, tr) = "allow" => MayMove(a, t, tr)
         /\ Decision(a, t, tr) = "pending" => Waiting(a, tr) # {}
BY DEF Decision, MayMove

LEMMA SameDecision ==
  ASSUME UNCHANGED <<rule, status, vals, approvals>>, NEW a, NEW t, NEW tr
  PROVE  /\ MayMove(a, t, tr)' = MayMove(a, t, tr)
         /\ OtherPending(a, t)' = OtherPending(a, t) => Decision(a, t, tr)' = Decision(a, t, tr)
<1>1. \A v : Verdict(a, v)' = Verdict(a, v)
  BY DEF Verdict, ValsOf
<1>2. Waiting(a, tr)' = Waiting(a, tr)
  BY <1>1 DEF Waiting
<1>3. Refused(a, tr)' = Refused(a, tr)
  BY <1>1, <1>2 DEF Refused
<1> QED
  BY <1>2, <1>3 DEF MayMove, Decision

LEMMA SameDecisionOf ==
  ASSUME UNCHANGED <<rule, acts, status, vals, approvals>>, NEW a
  PROVE  /\ MayMove(a, acts[a].task, acts[a].tr)' = MayMove(a, acts[a].task, acts[a].tr)
         /\ Decision(a, acts[a].task, acts[a].tr)' = Decision(a, acts[a].task, acts[a].tr)
<1>1. PICK t : t = acts[a].task
  OBVIOUS
<1>2. PICK tr : tr = acts[a].tr
  OBVIOUS
<1>3. OtherPending(a, t)' = OtherPending(a, t)
  BY DEF OtherPending, Pending, Acts
<1>4. MayMove(a, t, tr)' = MayMove(a, t, tr) /\ Decision(a, t, tr)' = Decision(a, t, tr)
  BY <1>3, SameDecision
<1>5. Decision(a, acts[a].task, acts[a].tr)' = Decision(a, t, tr)'
  BY <1>1, <1>2 DEF Decision
<1>6. MayMove(a, acts[a].task, acts[a].tr)' = MayMove(a, t, tr)'
  BY <1>1, <1>2 DEF MayMove
<1> QED
  BY <1>1, <1>2, <1>4, <1>5, <1>6

LEMMA OutcomeOf ==
  ASSUME NEW type, NEW a, NEW d, NEW other, NEW b, NEW c, Outcome(type, a, d) = Outcome(other, b, c)
  PROVE  type = other /\ a = b /\ d = c
BY OutcomeIs, EventIs

LEMMA AskingDecidesNone ==
  ASSUME NEW s, Asking(s), NEW type \in {"act_decided", "act_resolved"}, NEW a, NEW d
  PROVE  s # Outcome(type, a, d)
<1> SUFFICES ASSUME s = Outcome(type, a, d)
             PROVE  FALSE
  OBVIOUS
<1>1. s # <<>> /\ Head(s).type = type
  BY OutcomeIs, EventIs
<1> QED
  BY <1>1, AskingGoesOn

LEMMA OutcomeMovesNone ==
  ASSUME NEW type \in {"act_decided", "act_resolved"}, NEW a, NEW d, NEW b
  PROVE  Outcome(type, a, d) # <<Moved(b)>>
<1> SUFFICES ASSUME Outcome(type, a, d) = <<Moved(b)>>
             PROVE  FALSE
  OBVIOUS
<1>1. Head(Outcome(type, a, d)).type = type
  BY OutcomeIs, EventIs
<1>2. Head(<<Moved(b)>>) = Moved(b)
  OBVIOUS
<1>3. Moved(b).type = "task_status_changed"
  BY DEF Moved, Event
<1> QED
  BY <1>1, <1>2, <1>3

LEMMA ApprovalOnlyAsks ==
  ASSUME NEW a, NEW d
  PROVE  Asking(<<Event("approval_decided", a, d, 0)>>)
<1> DEFINE e == Event("approval_decided", a, d, 0)
<1>1. e.type = "approval_decided"
  BY DEF Event
<1> HIDE DEF e
<1> DEFINE E == {e}
<1>2. <<e>> \in Seq(E)
  OBVIOUS
<1>3. \A x \in E : x.type \in {"validation_requested", "approval_requested", "approval_decided"}
  BY <1>1
<1> HIDE DEF E
<1>4. Asking(<<e>>)
  BY <1>2, <1>3 DEF Asking
<1> QED
  BY <1>4 DEF e

\* A step after which nothing is about to be decided.
LEMMA NothingDecided ==
  ASSUME DInv, Asking(todo'[Team]), acts' = acts, DOMAIN approvals' = DOMAIN approvals,
         \A a \in DOMAIN approvals :
           approvals'[a] \in {approvals[a], "none", "requested", "approved", "rejected"}
  PROVE  DInv'
<1>1. \A a : todo'[Team] # <<Moved(a)>>
  BY AskingMovesNone
<1>2. \A type \in {"act_decided", "act_resolved"} : \A a, d : todo'[Team] # Outcome(type, a, d)
  BY AskingDecidesNone
<1>3. Acts' = Acts
  BY DEF Acts
<1>4. \A a \in DOMAIN approvals : approvals'[a] \in {"none", "requested", "approved", "rejected"}
  BY DEF DInv, ApprovalsShape
<1>5. \A a \in Acts' : \A type \in {"act_decided", "act_resolved"}, d \in {"allow", "deny", "pending"} :
        todo'[Team] # Outcome(type, a, d)'
  <2>1. \A type, a, d : Outcome(type, a, d)' = Outcome(type, a, d)
    BY DEF Outcome, Event
  <2> QED
    BY <1>2, <2>1
<1>7. ApprovalsShape'
  BY <1>3, <1>4 DEF DInv, ApprovalsShape
<1>8. DecisionHolds'
  BY <1>5 DEF DecisionHolds
<1>9. EffectHolds'
  BY <1>1 DEF EffectHolds
<1>10. WaitingFits'
  BY <1>3 DEF DInv, WaitingFits
<1> QED
  BY <1>7, <1>8, <1>9, <1>10 DEF DInv

LEMMA SubmitDecides ==
  ASSUME IInv, DInv, Submit(Team)
  PROVE  DInv'
<1>1. PICK t \in Task, tr \in Transition, n \in Nat : Submits(n, t, tr)
  BY SubmitAhead
<1> USE DEF Submits
<1>2. acts'[n].task = t /\ acts'[n].tr = tr /\ acts'[n].state = "submitted" /\ acts'[n].waiting = {}
  BY <1>1
<1>3. OtherPending(n, t)' = OtherPending(n, t)
  <2>1. \A b \in Pending : acts'[b].task = acts[b].task
    BY <1>1 DEF Pending
  <2> QED
    BY <1>1, <2>1 DEF OtherPending
<1>4. PICK d : d = Decision(n, t, tr)
  OBVIOUS
<1>5. d = Decision(n, t, tr)'
  BY <1>1, <1>3, <1>4, SameDecision
<1>6. todo'[Team] = Outcome("act_decided", n, d)
  BY <1>1, <1>4
<1>7. \A a \in Acts' : \A type \in {"act_decided", "act_resolved"}, c \in {"allow", "deny", "pending"} :
        todo'[Team] = Outcome(type, a, c) => c = Decision(a, acts[a].task, acts[a].tr)'
  <2> SUFFICES ASSUME NEW a \in Acts', NEW type, NEW c, todo'[Team] = Outcome(type, a, c)
               PROVE  c = Decision(a, acts[a].task, acts[a].tr)'
    OBVIOUS
  <2>1. a = n /\ c = d
    <3>1. Outcome("act_decided", n, d) = Outcome(type, a, c)
      BY <1>6
    <3> QED
      BY <3>1, OutcomeOf
  <2>2. Decision(n, t, tr)' = Decision(n, acts[n].task, acts[n].tr)'
    BY <1>2 DEF Decision
  <2> QED
    BY <1>5, <2>1, <2>2
<1>8. \A a : todo'[Team] # <<Moved(a)>>
  BY <1>6, OutcomeMovesNone
<1>9. WaitingFits'
  <2>1. \A a \in Acts' : a = n \/ a \in Acts
    BY <1>1
  <2> QED
    BY <1>1, <1>2, <2>1 DEF DInv, WaitingFits
<1>10. ApprovalsShape'
  BY <1>1, ActAssumption DEF DInv, ApprovalsShape
<1>11. DecisionHolds'
  BY <1>7 DEF DecisionHolds
<1>12. EffectHolds'
  BY <1>8 DEF EffectHolds
<1> QED
  BY <1>9, <1>10, <1>11, <1>12 DEF DInv

LEMMA WriteDecisionDecides ==
  ASSUME IInv, DInv, ~Idle(Team), WriteDecision(Team)
  PROVE  DInv'
<1>1. PICK a \in Acts, type \in {"act_decided", "act_resolved"}, d \in {"allow", "deny", "pending"} :
        WritesDecision(a, type, d)
  BY DecisionAhead
<1> DEFINE tr == acts[a].tr
           t == acts[a].task
<1>2. /\ acts' = [acts EXCEPT ![a].state = d,
                              ![a].waiting = IF d = "pending" THEN Waiting(a, tr) ELSE @]
      /\ UNCHANGED <<rule, status, vals, approvals>>
      /\ todo[Team] = Outcome(type, a, d)
      /\ todo'[Team] = IF d = "pending" THEN Requests(a, tr)
                       ELSE IF d = "allow" THEN <<Moved(a)>> ELSE <<>>
  BY <1>1 DEF WritesDecision
<1>3. /\ acts[a] \in Act /\ Acts' = Acts
      /\ \A b \in Acts : b # a => acts'[b] = acts[b]
      /\ acts'[a].state = d /\ acts'[a].task = t /\ acts'[a].tr = tr
      /\ acts'[a].waiting = IF d = "pending" THEN Waiting(a, tr) ELSE acts[a].waiting
  BY <1>2, ActsAre DEF IInv, Acts, Act
<1>4. d = Decision(a, t, tr)
  BY <1>2 DEF DInv, DecisionHolds
<1>5. /\ d = "allow" => MayMove(a, t, tr)
      /\ d = "pending" => Waiting(a, tr) # {}
  BY <1>4, DecisionSays
<1>6. WaitingFits'
  BY <1>3, <1>5 DEF DInv, WaitingFits
<1>7. \A b \in Acts' : todo'[Team] = <<Moved(b)>> => MayMove(b, acts[b].task, acts[b].tr)'
  <2> SUFFICES ASSUME NEW b \in Acts', todo'[Team] = <<Moved(b)>>
               PROVE  MayMove(b, acts[b].task, acts[b].tr)'
    OBVIOUS
  <2>1. d = "allow"
    <3>1. d \in {"deny", "pending"} => Asking(todo'[Team])
      BY <1>2, RequestsAsk, NothingAsks
    <3> QED
      BY <3>1, AskingMovesNone
  <2>2. b = a
    BY <1>2, <2>1, MovedIs
  <2>3. MayMove(a, t, tr)'
    <3>1. PICK k : k = t
      OBVIOUS
    <3>2. PICK r : r = tr
      OBVIOUS
    <3>3. MayMove(a, k, r)'
      BY <1>2, <1>5, <2>1, <3>1, <3>2, SameDecision
    <3> QED
      BY <1>3, <3>1, <3>2, <3>3 DEF MayMove
  <2> QED
    BY <2>2, <2>3
<1>8. \A other \in {"act_decided", "act_resolved"} : \A b, c : todo'[Team] # Outcome(other, b, c)
  <2>1. d \in {"deny", "pending"} => Asking(todo'[Team])
    BY <1>2, RequestsAsk, NothingAsks
  <2>2. d = "allow" => todo'[Team] = <<Moved(a)>>
    BY <1>2
  <2> QED
    BY <2>1, <2>2, AskingDecidesNone, OutcomeMovesNone
<1>9. DecisionHolds'
  BY <1>8 DEF DecisionHolds
<1>10. EffectHolds'
  BY <1>7 DEF EffectHolds
<1>11. ApprovalsShape'
  BY <1>2, <1>3 DEF DInv, ApprovalsShape
<1> QED
  BY <1>6, <1>9, <1>10, <1>11 DEF DInv

LEMMA ResolveDecides ==
  ASSUME IInv, DInv, NEW a \in Acts, Resolve(Team, a)
  PROVE  DInv'
<1>1. PICK d : d = Decision(a, acts[a].task, acts[a].tr)
  OBVIOUS
<1>2. /\ todo'[Team] = IF d = "pending" THEN Requests(a, acts[a].tr) ELSE Outcome("act_resolved", a, d)
      /\ UNCHANGED <<rule, acts, status, vals, approvals>>
  BY <1>1 DEF Resolve, store, IInv
<1>3. CASE d = "pending"
  <2>1. Asking(todo'[Team])
    BY <1>2, <1>3, RequestsAsk
  <2> QED
    BY <1>2, <2>1, NothingDecided
<1>4. CASE d # "pending"
  <2>1. todo'[Team] = Outcome("act_resolved", a, d)
    BY <1>2, <1>4
  <2>3. Decision(a, acts[a].task, acts[a].tr)' = d
    BY <1>1, <1>2, SameDecisionOf
  <2>4. \A b \in Acts' : \A type \in {"act_decided", "act_resolved"}, c \in {"allow", "deny", "pending"} :
          todo'[Team] = Outcome(type, b, c) => c = Decision(b, acts[b].task, acts[b].tr)'
    <3> SUFFICES ASSUME NEW b \in Acts', NEW type, NEW c, todo'[Team] = Outcome(type, b, c)
                 PROVE  c = Decision(b, acts[b].task, acts[b].tr)'
      OBVIOUS
    <3>1. Outcome("act_resolved", a, d) = Outcome(type, b, c)
      BY <2>1
    <3>2. b = a /\ c = d
      BY <3>1, OutcomeOf
    <3> QED
      BY <2>3, <3>2
  <2>5. DecisionHolds'
    BY <2>4 DEF DecisionHolds
  <2>6. \A b : todo'[Team] # <<Moved(b)>>
    BY <2>1, OutcomeMovesNone
  <2>7. EffectHolds'
    BY <2>6 DEF EffectHolds
  <2>8. ApprovalsShape' /\ WaitingFits'
    BY <1>2 DEF DInv, ApprovalsShape, WaitingFits, Acts
  <2> QED
    BY <2>5, <2>7, <2>8 DEF DInv
<1> QED
  BY <1>3, <1>4

\* A step that finds the process idle and leaves it so, or does nothing.
LEMMA IdleDecides ==
  ASSUME DInv, todo[Team] = <<>>, UNCHANGED <<acts, approvals, todo>>
  PROVE  DInv'
BY NothingAsks, NothingDecided

LEMMA WriteStatusDecides ==
  ASSUME IInv, DInv, ~Idle(Team), WriteStatus(Team)
  PROVE  DInv'
<1>1. PICK a \in Acts : WritesEffect(a)
  BY EffectAhead
<1> USE DEF WritesEffect
<1>2. /\ Acts' = Acts
      /\ \A b \in Acts : acts'[b].state = acts[b].state /\ acts'[b].waiting = acts[b].waiting
  BY <1>1, ActsAre DEF IInv, Acts, Act
<1>3. WaitingFits' /\ ApprovalsShape'
  BY <1>1, <1>2 DEF DInv, WaitingFits, ApprovalsShape
<1>4. Asking(todo'[Team])
  BY <1>1, NothingAsks
<1>5. \A b : todo'[Team] # <<Moved(b)>>
  BY <1>4, AskingMovesNone
<1>6. \A type \in {"act_decided", "act_resolved"} : \A b, d : todo'[Team] # Outcome(type, b, d)
  BY <1>4, AskingDecidesNone
<1>7. EffectHolds'
  BY <1>5 DEF EffectHolds
<1>8. DecisionHolds'
  BY <1>6 DEF DecisionHolds
<1> QED
  BY <1>3, <1>7, <1>8 DEF DInv

LEMMA WriteRequestDecides ==
  ASSUME IInv, RInv, DInv, ~Idle(Team), WriteRequest(Team)
  PROVE  DInv'
<1> DEFINE e == Head(todo[Team])
<1>1. Asking(todo'[Team]) /\ acts' = acts /\ todo[Team] # <<>>
  BY AskAhead
<1>2. e.type = "approval_decided" => e.what \in {"approved", "rejected"}
  BY <1>1, ValsAre, TailAsks DEF RInv
<1>3. \/ UNCHANGED approvals
      \/ approvals' = [approvals EXCEPT ![e.act] = "requested"]
      \/ e.type = "approval_decided" /\ approvals' = [approvals EXCEPT ![e.act] = e.what]
  BY DEF WriteRequest
<1>4. /\ DOMAIN approvals' = DOMAIN approvals
      /\ \A a \in DOMAIN approvals :
           approvals'[a] \in {approvals[a], "none", "requested", "approved", "rejected"}
  <2> HIDE DEF e
  <2> QED
    BY <1>2, <1>3
<1> QED
  BY <1>1, <1>4, NothingDecided

LEMMA DecisionsHold ==
  ASSUME Proc = {Team}
  PROVE  Spec => []DInv
<1>1. Init => DInv
  <2> SUFFICES ASSUME Init
               PROVE  DInv
    OBVIOUS
  <2>1. Acts = {}
    BY DEF Init, Acts
  <2>2. ApprovalsShape
    BY <2>1 DEF Init, ApprovalsShape
  <2> QED
    BY <2>1, <2>2 DEF DInv, DecisionHolds, EffectHolds, WaitingFits
<1>2. IInv /\ RInv /\ DInv /\ [Next]_vars => DInv'
  <2> SUFFICES ASSUME IInv, RInv, DInv, [Next]_vars
               PROVE  DInv'
    OBVIOUS
  <2>1. CASE Submit(Team)
    BY <2>1, SubmitDecides
  <2>2. CASE Write(Team)
    BY <2>2, WriteDecisionDecides, WriteStatusDecides, WriteRequestDecides DEF Write
  <2>3. CASE Amend(Team)
    BY <2>3, IdleDecides DEF Amend, Idle
  <2>4. CASE Crash(Team)
    <3>1. todo'[Team] = <<>>
      BY <2>4 DEF Crash, IInv
    <3>2. UNCHANGED <<acts, approvals>>
      BY <2>4 DEF Crash, store
    <3> QED
      BY <3>1, <3>2, NothingAsks, NothingDecided
  <2>5. ASSUME NEW a \in Acts, Decide(Team, a)
        PROVE  DInv'
    <3>1. PICK d \in {"approved", "rejected"} :
            todo' = [todo EXCEPT ![Team] = <<Event("approval_decided", a, d, 0)>>]
      BY <2>5 DEF Decide
    <3>2. todo'[Team] = <<Event("approval_decided", a, d, 0)>>
      BY <3>1 DEF IInv
    <3>3. Asking(todo'[Team])
      BY <3>2, ApprovalOnlyAsks
    <3>4. UNCHANGED <<acts, approvals>>
      BY <2>5 DEF Decide, store
    <3> QED
      BY <3>3, <3>4, NothingDecided
  <2>6. ASSUME NEW a \in Acts, Resolve(Team, a)
        PROVE  DInv'
    BY <2>6, ResolveDecides
  <2>7. ASSUME NEW i \in Vals, Validated(i)
        PROVE  DInv'
    BY <2>7, IdleDecides DEF Validated, Idle
  <2>8. CASE UNCHANGED vars
    <3>1. UNCHANGED <<rule, acts, status, vals, approvals, todo>>
      BY <2>8 DEF vars, store
    <3>2. ApprovalsShape' /\ WaitingFits'
      BY <3>1 DEF DInv, ApprovalsShape, WaitingFits, Acts
    <3>3. DecisionHolds'
      <4>1. \A a \in Acts' : \A type \in {"act_decided", "act_resolved"}, d \in {"allow", "deny", "pending"} :
              todo'[Team] = Outcome(type, a, d) => d = Decision(a, acts[a].task, acts[a].tr)'
        BY <3>1, SameDecisionOf DEF DInv, DecisionHolds, Acts
      <4> QED
        BY <4>1 DEF DecisionHolds
    <3>4. EffectHolds'
      <4>1. \A a \in Acts' : todo'[Team] = <<Moved(a)>> => MayMove(a, acts[a].task, acts[a].tr)'
        BY <3>1, SameDecisionOf DEF DInv, EffectHolds, Acts
      <4> QED
        BY <4>1 DEF EffectHolds
    <3> QED
      BY <3>2, <3>3, <3>4 DEF DInv
  <2> QED
    BY <2>1, <2>2, <2>3, <2>4, <2>5, <2>6, <2>7, <2>8 DEF Next, Vals
<1> QED
  BY <1>1, <1>2, InvariantHolds, RequestsAreNumbered, PTL DEF Spec

\* The validation that counts is one of the validator's.
LEMMA VerdictIs ==
  ASSUME ValsShape, NEW a, NEW v, Verdict(a, v) # "none"
  PROVE  \E i \in Vals : vals[i] = [act |-> a, validator |-> v, status |-> Verdict(a, v)]
<1> DEFINE of == {i \in ValsOf(a) : vals[i].validator = v}
           S == {n \in Nat : \E i \in of : n = Len(vals) - i}
<1>1. of # {} /\ of \subseteq 1 .. Len(vals) /\ Len(vals) \in Nat
  BY ValsAre DEF Verdict, ValsOf, Vals
<1>2. S # {} /\ S \subseteq Nat
  <2>1. PICK i \in of : i \in 1 .. Len(vals)
    BY <1>1
  <2>2. Len(vals) - i \in Nat
    BY <1>1, <2>1
  <2> HIDE DEF of
  <2> QED
    BY <2>1, <2>2
<1>3. PICK n \in S : \A m \in S : n <= m
  BY <1>2, LeastNatural
<1>4. PICK i \in of : n = Len(vals) - i
  OBVIOUS
<1>5. \A j \in of : j <= i
  <2> SUFFICES ASSUME NEW j \in of
               PROVE  j <= i
    OBVIOUS
  <2>1. j \in 1 .. Len(vals) /\ i \in 1 .. Len(vals)
    BY <1>1
  <2> HIDE DEF of
  <2>2. Len(vals) - j \in S
    BY <1>1, <2>1
  <2> HIDE DEF S
  <2>3. n <= Len(vals) - j
    BY <1>3, <2>2
  <2> QED
    BY <1>1, <1>4, <2>1, <2>3
<1>6. PICK k : k = CHOOSE c \in of : \A j \in of : j <= c
  OBVIOUS
<1>7. k \in of
  BY <1>5, <1>6
<1>8. Verdict(a, v) = vals[k].status
  BY <1>1, <1>6 DEF Verdict
<1>9. k \in Vals /\ vals[k].act = a /\ vals[k].validator = v
  BY <1>7 DEF ValsOf, Vals
<1>10. vals[k] = [act |-> vals[k].act, validator |-> vals[k].validator, status |-> vals[k].status]
  BY <1>9 DEF ValsShape, IsValidation
<1> QED
  BY <1>8, <1>9, <1>10

LEMMA MayMoveIsLawful ==
  ASSUME ValsShape, NEW a, NEW t, NEW tr, MayMove(a, t, tr),
         approvals[a] \in {"none", "requested", "approved", "rejected"}
  PROVE  /\ status[t] \in Moves[tr].from
         /\ \A v \in Rules[rule].validate[tr] :
              \E i \in DOMAIN vals : vals[i] = [act |-> a, validator |-> v, status |-> "passed"]
         /\ tr \in Rules[rule].approve => approvals[a] = "approved"
<1> DEFINE open == {v \in Rules[rule].validate[tr] : Verdict(a, v) \in {"none", "requested"}}
<1>1. Waiting(a, tr) = {} /\ ~Refused(a, tr) /\ status[t] \in Moves[tr].from
  BY DEF MayMove
<1>2. open = {}
  BY <1>1 DEF Waiting
<1>3. ASSUME NEW v \in Rules[rule].validate[tr]
      PROVE  \E i \in DOMAIN vals : vals[i] = [act |-> a, validator |-> v, status |-> "passed"]
  <2>1. Verdict(a, v) \notin {"none", "requested", "failed"}
    BY <1>1, <1>2 DEF Refused
  <2>2. PICK i \in Vals : vals[i] = [act |-> a, validator |-> v, status |-> Verdict(a, v)]
    BY <2>1, VerdictIs
  <2>3. vals[i].status = Verdict(a, v)
    BY <2>2
  <2>4. vals[i].status \in Status
    BY DEF ValsShape, IsValidation
  <2>5. Verdict(a, v) = "passed"
    BY <2>1, <2>3, <2>4 DEF Status
  <2> QED
    BY <2>2, <2>5 DEF Vals
<1>4. ASSUME tr \in Rules[rule].approve
      PROVE  approvals[a] = "approved"
  <2>1. approvals[a] \notin {"none", "requested"}
    BY <1>1, <1>2, <1>4 DEF Waiting
  <2>2. approvals[a] # "rejected"
    BY <1>1, <1>4 DEF Refused
  <2> QED
    BY <2>1, <2>2
<1> QED
  BY <1>1, <1>3, <1>4

\* Only the event of an act's effect adds to its effects.
LEMMA EffectIsWritten ==
  ASSUME IInv, [Next]_vars, Proc = {Team}, NEW a \in Acts, acts'[a].effects > acts[a].effects
  PROVE  WritesEffect(a)
<1>0. acts[a] \in Act /\ ~(acts[a].effects > acts[a].effects)
  BY ActsAre DEF IInv, Act
<1>1. CASE Submit(Team)
  <2>1. PICK t \in Task, tr \in Transition, n \in Nat : Submits(n, t, tr)
    BY <1>1, SubmitAhead
  <2> QED
    BY <1>0, <2>1 DEF Submits
<1>2. CASE ~Idle(Team) /\ WriteDecision(Team)
  <2>1. PICK b \in Acts, type \in {"act_decided", "act_resolved"}, d \in {"allow", "deny", "pending"} :
          WritesDecision(b, type, d)
    BY <1>2, DecisionAhead
  <2>2. acts'[a].effects = acts[a].effects
    BY <1>0, <2>1 DEF WritesDecision, Act, Acts
  <2> QED
    BY <1>0, <2>2
<1>3. CASE ~Idle(Team) /\ WriteStatus(Team)
  <2>1. PICK b \in Acts : WritesEffect(b)
    BY <1>3, EffectAhead
  <2>2. b # a => acts'[a] = acts[a]
    BY <2>1 DEF WritesEffect, Acts
  <2> QED
    BY <1>0, <2>1, <2>2
<1>4. CASE ~Idle(Team) /\ WriteRequest(Team)
  BY <1>0, <1>4 DEF WriteRequest
<1>5. CASE Amend(Team) \/ Crash(Team) \/ UNCHANGED vars
  BY <1>0, <1>5 DEF Amend, Crash, vars, store
<1>6. ASSUME NEW b \in Acts, Decide(Team, b) \/ Resolve(Team, b)
      PROVE  FALSE
  BY <1>0, <1>6 DEF Decide, Resolve, store
<1>7. ASSUME NEW i \in DOMAIN vals, Validated(i)
      PROVE  FALSE
  BY <1>0, <1>7 DEF Validated
<1> QED
  BY <1>1, <1>2, <1>3, <1>4, <1>5, <1>6, <1>7 DEF Next, Write

(* Nothing moves a task but what the rules in force let through, in the    *)
(* state in which its event is written: what CommService.submit or the     *)
(* settling decided on still holds, since one process has the lock from    *)
(* the decision to the last event of the act, or dies in between.          *)
THEOREM EffectsAreLawful ==
  ASSUME Proc = {Team}
  PROVE  Spec => EffectIsLawful
<1>1. IInv /\ RInv /\ DInv /\ [Next]_vars =>
        [\A a \in Acts : acts'[a].effects > acts[a].effects =>
           LET k == acts[a] IN
             /\ status[k.task] \in Moves[k.tr].from
             /\ \A v \in Rules[rule].validate[k.tr] :
                  \E i \in DOMAIN vals : vals[i] = [act |-> a, validator |-> v, status |-> "passed"]
             /\ k.tr \in Rules[rule].approve => approvals[a] = "approved"]_vars
  <2> SUFFICES ASSUME IInv, RInv, DInv, [Next]_vars,
                      NEW a \in Acts, acts'[a].effects > acts[a].effects
               PROVE  /\ status[acts[a].task] \in Moves[acts[a].tr].from
                      /\ \A v \in Rules[rule].validate[acts[a].tr] :
                           \E i \in DOMAIN vals :
                             vals[i] = [act |-> a, validator |-> v, status |-> "passed"]
                      /\ acts[a].tr \in Rules[rule].approve => approvals[a] = "approved"
    OBVIOUS
  <2>1. todo[Team] = <<Moved(a)>>
    BY EffectIsWritten DEF WritesEffect
  <2>2. MayMove(a, acts[a].task, acts[a].tr)
    BY <2>1 DEF DInv, EffectHolds
  <2>3. approvals[a] \in {"none", "requested", "approved", "rejected"}
    BY DEF DInv, ApprovalsShape
  <2>4. ValsShape
    BY DEF RInv
  <2> QED
    BY <2>2, <2>3, <2>4, MayMoveIsLawful
<1> QED
  BY <1>1, InvariantHolds, RequestsAreNumbered, DecisionsHold, PTL DEF Spec, EffectIsLawful

-----------------------------------------------------------------------------
(* The ledger of acts.                                                     *)

LedgerNow ==
  [a \in Acts |->
    [task |-> acts[a].task, tr |-> acts[a].tr,
     state |-> IF acts[a].state = "allow" /\ AboutToMove(a)
               THEN (IF acts[a].waiting = {} THEN "submitted" ELSE "pending")
               ELSE acts[a].state]]

\* The state of an act for whoever takes its decision and its effect for one.
StateOf(a) ==
  IF todo[Team] = <<Moved(a)>>
  THEN (IF acts[a].waiting = {} THEN "submitted" ELSE "pending")
  ELSE acts[a].state

Row(a) == [task |-> acts[a].task, tr |-> acts[a].tr, state |-> StateOf(a)]

Rows == [a \in Acts |-> Row(a)]

LEMMA AskingHoldsNone ==
  ASSUME NEW s, Asking(s), NEW a
  PROVE  Moved(a) \notin ToSet(s)
<1>1. PICK E : /\ s \in Seq(E)
               /\ \A e \in E : e.type \in {"validation_requested", "approval_requested", "approval_decided"}
  BY DEF Asking
<1>2. \A i \in DOMAIN s : s[i] \in E
  BY <1>1, ElementOfSeq, LenProperties
<1>3. Moved(a).type = "task_status_changed"
  BY DEF Moved, Event
<1> QED
  BY <1>1, <1>2, <1>3 DEF ToSet

LEMMA OutcomeHolds ==
  ASSUME NEW type \in {"act_decided", "act_resolved"}, NEW b, NEW d, NEW a,
         Moved(a) \in ToSet(Outcome(type, b, d))
  PROVE  a = b
<1>1. PICK e : e = Event(type, b, d, 0)
  OBVIOUS
<1>2. PICK m : m = Moved(b)
  OBVIOUS
<1>3. Outcome(type, b, d) = <<e>> \o (IF d = "allow" THEN <<m>> ELSE <<>>)
  BY <1>1, <1>2 DEF Outcome, Moved
<1>4. e.type = type
  BY <1>1 DEF Event
<1>5. Moved(a).type = "task_status_changed"
  BY DEF Moved, Event
<1> DEFINE E == {e, m}
<1>6. <<e>> \in Seq(E) /\ (IF d = "allow" THEN <<m>> ELSE <<>>) \in Seq(E)
  <2>1. <<e>> \in Seq(E) /\ <<m>> \in Seq(E) /\ <<>> \in Seq(E)
    OBVIOUS
  <2> QED
    BY <2>1
<1> HIDE DEF E
<1>7. Outcome(type, b, d) \in Seq(E)
  BY <1>3, <1>6, ConcatProperties
<1>8. \A i \in DOMAIN Outcome(type, b, d) : Outcome(type, b, d)[i] \in E
  BY <1>7, ElementOfSeq, LenProperties
<1>9. Moved(a) \in E
  BY <1>8 DEF ToSet
<1>10. Moved(a) = m
  BY <1>4, <1>5, <1>9 DEF E
<1>11. Moved(a).act = a /\ Moved(b).act = b
  BY DEF Moved, Event
<1> QED
  BY <1>2, <1>10, <1>11

LEMMA LedgerIs ==
  ASSUME IInv, Proc = {Team}
  PROVE  LedgerNow = Rows
<1> SUFFICES ASSUME NEW a \in Acts
             PROVE  (IF acts[a].state = "allow" /\ AboutToMove(a)
                     THEN (IF acts[a].waiting = {} THEN "submitted" ELSE "pending")
                     ELSE acts[a].state) = StateOf(a)
  BY DEF LedgerNow, Rows, Row
<1>1. AboutToMove(a) <=> Moved(a) \in ToSet(todo[Team])
  BY DEF AboutToMove, Moved
<1>2. CASE Asking(todo[Team])
  BY <1>1, <1>2, AskingHoldsNone, AskingMovesNone DEF StateOf
<1>3. ASSUME NEW b \in Acts, Deciding(todo[Team], b)
      PROVE  (IF acts[a].state = "allow" /\ AboutToMove(a)
              THEN (IF acts[a].waiting = {} THEN "submitted" ELSE "pending")
              ELSE acts[a].state) = StateOf(a)
  <2>1. PICK type \in {"act_decided", "act_resolved"}, d \in {"allow", "deny", "pending"} :
          /\ todo[Team] = Outcome(type, b, d)
          /\ acts[b].state = IF type = "act_decided" THEN "submitted" ELSE "pending"
    BY <1>3 DEF Deciding
  <2>2. AboutToMove(a) => a = b
    BY <1>1, <2>1, OutcomeHolds
  <2>3. acts[b].state # "allow"
    BY <2>1
  <2>4. todo[Team] # <<Moved(a)>>
    BY <1>3, DecidingMovesNone
  <2> QED
    BY <2>2, <2>3, <2>4 DEF StateOf
<1>4. ASSUME NEW b \in Acts, todo[Team] = <<Moved(b)>>, acts[b].state = "allow"
      PROVE  (IF acts[a].state = "allow" /\ AboutToMove(a)
              THEN (IF acts[a].waiting = {} THEN "submitted" ELSE "pending")
              ELSE acts[a].state) = StateOf(a)
  <2>1. CASE a = b
    <3>1. AboutToMove(a)
      BY <1>1, <1>4, <2>1, OnlyElement
    <3> QED
      BY <1>4, <2>1, <3>1 DEF StateOf
  <2>2. CASE a # b
    <3>1. todo[Team] # <<Moved(a)>>
      BY <1>4, <2>2, MovedIs
    <3>2. ~AboutToMove(a)
      <4>1. PICK m : m = Moved(b)
        OBVIOUS
      <4>2. ToSet(<<m>>) = {m}
        BY DEF ToSet
      <4>3. Moved(a) # m
        <5>1. Moved(a).act = a /\ Moved(b).act = b
          BY DEF Moved, Event
        <5> QED
          BY <2>2, <4>1, <5>1
      <4> QED
        BY <1>1, <1>4, <4>1, <4>2, <4>3
    <3> QED
      BY <3>1, <3>2 DEF StateOf
  <2> QED
    BY <2>1, <2>2
<1> QED
  BY <1>2, <1>3, <1>4 DEF IInv, AboutTo

\* One act changes its state.
LEMMA OneRow ==
  ASSUME Acts' = Acts, NEW a \in Acts, NEW x,
         \A b \in Acts : acts'[b].task = acts[b].task /\ acts'[b].tr = acts[b].tr,
         \A b \in Acts : b # a => StateOf(b)' = StateOf(b),
         StateOf(a)' = x
  PROVE  /\ Rows' = [Rows EXCEPT ![a].state = x]
         /\ Rows[a] = Row(a) /\ a \in DOMAIN Rows
<1> DEFINE R == [Rows EXCEPT ![a].state = x]
<1>1. DOMAIN Rows = Acts /\ \A b \in Acts : Rows[b] = Row(b)
  BY DEF Rows
<1>2. R = [b \in Acts |-> R[b]] /\ \A b \in Acts : b # a => R[b] = Row(b)
  BY <1>1
<1>3. R[a] = [Row(a) EXCEPT !.state = x]
  BY <1>1
<1>4. R[a] = [task |-> acts[a].task, tr |-> acts[a].tr, state |-> x]
  BY <1>3 DEF Row
<1>5. \A b \in Acts : Row(b)' = R[b]
  <2> HIDE DEF R
  <2>1. \A b \in Acts : Row(b)' = [task |-> acts[b].task, tr |-> acts[b].tr, state |-> StateOf(b)']
    BY DEF Row
  <2>2. \A b \in Acts : b # a => Row(b)' = Row(b)
    BY <2>1 DEF Row
  <2> QED
    BY <1>2, <1>4, <2>1, <2>2
<1>6. Rows' = [b \in Acts |-> Row(b)']
  BY DEF Rows
<1>7. Rows' = R
  <2> HIDE DEF R
  <2> QED
    BY <1>2, <1>5, <1>6
<1> QED
  BY <1>1, <1>7

LEMMA NoRow ==
  ASSUME Acts' = Acts,
         \A b \in Acts : acts'[b].task = acts[b].task /\ acts'[b].tr = acts[b].tr,
         \A b \in Acts : StateOf(b)' = StateOf(b)
  PROVE  Rows' = Rows
<1>1. \A b \in Acts : Row(b)' = Row(b)
  BY DEF Row
<1>2. Rows' = [b \in Acts |-> Row(b)']
  BY DEF Rows
<1> QED
  BY <1>1, <1>2 DEF Rows

LEMMA NewRow ==
  ASSUME IInv, NEW n, NEW t, NEW tr, Submits(n, t, tr)
  PROVE  Rows' = Append(Rows, [task |-> t, tr |-> tr, state |-> "submitted"])
<1> USE DEF Submits
<1>1. PICK r : r = [task |-> t, tr |-> tr, state |-> "submitted"]
  OBVIOUS
<1>2. Acts = 1 .. Len(acts) /\ Len(acts) \in Nat /\ n = Len(acts) + 1 /\ Acts' = 1 .. n
  OBVIOUS
<1>3. IsSequence(Rows) /\ Len(Rows) = Len(acts)
  <2> DEFINE R == {Row(a) : a \in Acts}
  <2>1. Rows \in [1 .. Len(acts) -> R] /\ DOMAIN Rows = 1 .. Len(acts)
    BY <1>2 DEF Rows
  <2> HIDE DEF R
  <2>2. Rows \in Seq(R)
    <3>1. Seq(R) = UNION {[1 .. k -> R] : k \in Nat}
      BY SeqDef
    <3>2. [1 .. Len(acts) -> R] \in {[1 .. k -> R] : k \in Nat}
      BY <1>2
    <3> QED
      BY <2>1, <3>1, <3>2
  <2>3. IsSequence(Rows) /\ Len(Rows) \in Nat /\ DOMAIN Rows = 1 .. Len(Rows)
    BY <2>2, SequenceIsOne
  <2>4. Len(Rows) = Len(acts)
    BY <1>2, <2>1, <2>3
  <2> QED
    BY <2>3, <2>4
<1>4. PICK s : s = Append(Rows, r)
  OBVIOUS
<1>5. /\ IsSequence(s) /\ DOMAIN s = 1 .. n
      /\ \A a \in Acts : s[a] = Row(a)
      /\ s[n] = r
  <2>1. IsSequence(Rows)
    BY <1>3
  <2>2. /\ IsSequence(Append(Rows, r))
        /\ DOMAIN Append(Rows, r) = 1..(Len(Rows) + 1)
        /\ \A i \in 1..Len(Rows) : Append(Rows, r)[i] = Rows[i]
        /\ Append(Rows, r)[Len(Rows) + 1] = r
    BY <2>1, AppendPositions
  <2>3. \A a \in Acts : Rows[a] = Row(a)
    BY DEF Rows
  <2> QED
    BY <1>2, <1>3, <1>4, <2>2, <2>3
<1>6. s = [a \in 1 .. n |-> s[a]]
  BY <1>5, LenProperties DEF IsSequence
<1>7. \A a \in 1 .. n : Row(a)' = s[a]
  <2>1. \A a : todo[Team] # <<Moved(a)>> /\ todo'[Team] # <<Moved(a)>>
    BY OutcomeMovesNone
  <2>2. \A a \in Acts : Row(a)' = Row(a)
    BY <2>1 DEF Row, StateOf
  <2>3. StateOf(n)' = "submitted"
    BY <2>1 DEF StateOf
  <2>4. Row(n)' = r
    BY <1>1, <2>3 DEF Row
  <2>5. \A a \in 1 .. n : a \in Acts \/ a = n
    BY <1>2
  <2> QED
    BY <1>5, <2>2, <2>4, <2>5
<1>8. Rows' = [a \in Acts' |-> Row(a)']
  BY DEF Rows
<1> QED
  BY <1>1, <1>2, <1>4, <1>6, <1>7, <1>8

\* A step of the act path is one of the ledger, or none.
LedgerStep ==
  \/ \E t \in Task, tr \in Transition :
       /\ Rows' = Append(Rows, [task |-> t, tr |-> tr, state |-> "submitted"])
       /\ UNCHANGED status
  \/ \E a \in DOMAIN Rows :
       /\ Rows[a].state \in {"submitted", "pending"}
       /\ \/ Rows' = [Rows EXCEPT ![a].state = "deny"] /\ UNCHANGED status
          \/ /\ Rows[a].state = "submitted"
             /\ \A b \in DOMAIN Rows : Rows[b].task = Rows[a].task => Rows[b].state # "pending"
             /\ Rows' = [Rows EXCEPT ![a].state = "pending"] /\ UNCHANGED status
          \/ /\ status[Rows[a].task] \in Moves[Rows[a].tr].from
             /\ Rows' = [Rows EXCEPT ![a].state = "allow"]
             /\ status' = [status EXCEPT ![Rows[a].task] = Moves[Rows[a].tr].to]
          \/ Rows' = [Rows EXCEPT ![a].state = "allow"] /\ UNCHANGED status
  \/ UNCHANGED <<Rows, status>>

\* Steps that take no decision and no effect.
LEMMA SilentRows ==
  ASSUME acts' = acts, status' = status,
         \A a \in Acts : todo[Team] # <<Moved(a)>> /\ todo'[Team] # <<Moved(a)>>
  PROVE  LedgerStep
<1>1. Acts' = Acts
  BY DEF Acts
<1>2. \A a \in Acts : StateOf(a)' = StateOf(a)
  BY DEF StateOf
<1>3. Rows' = Rows
  BY <1>1, <1>2, NoRow
<1> QED
  BY <1>3 DEF LedgerStep

LEMMA DecisionRow ==
  ASSUME IInv, DInv, ~Idle(Team), WriteDecision(Team)
  PROVE  LedgerStep
<1>1. PICK a \in Acts, type \in {"act_decided", "act_resolved"}, d \in {"allow", "deny", "pending"} :
        WritesDecision(a, type, d)
  BY DecisionAhead
<1>2. /\ acts' = [acts EXCEPT ![a].state = d,
                              ![a].waiting = IF d = "pending" THEN Waiting(a, acts[a].tr) ELSE @]
      /\ status' = status
      /\ todo[Team] = Outcome(type, a, d)
      /\ acts[a].state = IF type = "act_decided" THEN "submitted" ELSE "pending"
      /\ d = "pending" => type = "act_decided" /\ ~OtherPending(a, acts[a].task)
  BY <1>1 DEF WritesDecision
<1>3. /\ Acts' = Acts
      /\ \A b \in Acts : acts'[b].task = acts[b].task /\ acts'[b].tr = acts[b].tr
      /\ \A b \in Acts : b # a => acts'[b] = acts[b]
      /\ acts'[a].state = d
      /\ d # "pending" => acts'[a].waiting = acts[a].waiting
  BY <1>2, ActsAre DEF IInv, Acts, Act
<1>4. \A b : todo[Team] # <<Moved(b)>>
  BY <1>2, OutcomeMovesNone
<1>5. \A b \in Acts : StateOf(b) = acts[b].state
  BY <1>4 DEF StateOf
<1>6. /\ d = "allow" => todo'[Team] = <<Moved(a)>>
      /\ d # "allow" => \A b : todo'[Team] # <<Moved(b)>>
  <2>1. d \in {"deny", "pending"} => Asking(todo'[Team])
    BY <1>1, RequestsAsk, NothingAsks DEF WritesDecision
  <2> QED
    BY <1>1, <2>1, AskingMovesNone DEF WritesDecision
<1>7. \A b \in Acts : b # a => StateOf(b)' = StateOf(b)
  <2> SUFFICES ASSUME NEW b \in Acts, b # a
               PROVE  StateOf(b)' = StateOf(b)
    OBVIOUS
  <2>1. todo'[Team] # <<Moved(b)>>
    BY <1>6, MovedIs
  <2> QED
    BY <1>3, <1>5, <2>1 DEF StateOf
<1>8. DOMAIN Rows = Acts /\ \A b \in Acts : Rows[b].task = acts[b].task /\ Rows[b].state = acts[b].state
  BY <1>5 DEF Rows, Row
<1>9. CASE d = "allow"
  <2>1. StateOf(a)' = IF acts'[a].waiting = {} THEN "submitted" ELSE "pending"
    BY <1>6, <1>9 DEF StateOf
  <2>2. acts'[a].waiting = {} <=> type = "act_decided"
    BY <1>2, <1>3, <1>9 DEF DInv, WaitingFits
  <2>3. StateOf(a)' = acts[a].state
    BY <1>2, <2>1, <2>2
  <2>4. \A b \in Acts : StateOf(b)' = StateOf(b)
    BY <1>5, <1>7, <2>3
  <2>5. Rows' = Rows
    BY <1>3, <2>4, NoRow
  <2> QED
    BY <1>2, <2>5 DEF LedgerStep
<1>10. CASE d # "allow"
  <2>1. StateOf(a)' = d
    BY <1>3, <1>6, <1>10 DEF StateOf
  <2>2. Rows' = [Rows EXCEPT ![a].state = d]
    BY <1>3, <1>7, <2>1, OneRow
  <2>3. Rows[a].state \in {"submitted", "pending"}
    BY <1>2, <1>8
  <2>4. CASE d = "deny"
    BY <1>2, <1>8, <2>2, <2>3, <2>4 DEF LedgerStep
  <2>5. CASE d = "pending"
    <3>1. Rows[a].state = "submitted"
      BY <1>2, <1>8, <2>5
    <3>2. \A b \in DOMAIN Rows : Rows[b].task = Rows[a].task => Rows[b].state # "pending"
      <4> SUFFICES ASSUME NEW b \in Acts, acts[b].task = acts[a].task, acts[b].state = "pending"
                   PROVE  FALSE
        BY <1>8
      <4>1. b # a
        BY <1>8, <3>1
      <4> QED
        BY <1>2, <2>5, <4>1 DEF OtherPending, Pending
    <3> QED
      BY <1>2, <1>8, <2>2, <2>3, <2>5, <3>1, <3>2 DEF LedgerStep
  <2> QED
    BY <1>10, <2>4, <2>5
<1> QED
  BY <1>9, <1>10

\* The act whose effect is to come takes it, or loses it.
LEMMA EffectRow ==
  ASSUME IInv, DInv, NEW a \in Acts, todo[Team] = <<Moved(a)>>, acts[a].state = "allow",
         Acts' = Acts, \A b \in Acts : /\ acts'[b].task = acts[b].task /\ acts'[b].tr = acts[b].tr
                                      /\ acts'[b].state = acts[b].state,
         todo'[Team] = <<>>,
         status' \in {status, [status EXCEPT ![acts[a].task] = Moves[acts[a].tr].to]}
  PROVE  LedgerStep
<1>1. \A b \in Acts : todo'[Team] # <<Moved(b)>>
  BY NothingAsks, AskingMovesNone
<1>2. \A b \in Acts : b # a => todo[Team] # <<Moved(b)>>
  BY MovedIs
<1>3. \A b \in Acts : b # a => StateOf(b)' = StateOf(b)
  BY <1>1, <1>2 DEF StateOf
<1>4. StateOf(a)' = "allow" /\ StateOf(a) \in {"submitted", "pending"}
  BY <1>1 DEF StateOf
<1>5. /\ Rows' = [Rows EXCEPT ![a].state = "allow"]
      /\ Rows[a] = Row(a) /\ a \in DOMAIN Rows
  BY <1>3, <1>4, OneRow
<1>6. Rows[a].task = acts[a].task /\ Rows[a].tr = acts[a].tr /\ Rows[a].state = StateOf(a)
  BY <1>5 DEF Row
<1>7. status[acts[a].task] \in Moves[acts[a].tr].from
  BY DEF DInv, EffectHolds, MayMove
<1> QED
  BY <1>4, <1>5, <1>6, <1>7 DEF LedgerStep

LEMMA RowsStep ==
  ASSUME Proc = {Team}, IInv, DInv, [Next]_vars
  PROVE  LedgerStep
<1>1. CASE Submit(Team)
  <2>1. PICK t \in Task, tr \in Transition, n \in Nat : Submits(n, t, tr)
    BY <1>1, SubmitAhead
  <2>2. Rows' = Append(Rows, [task |-> t, tr |-> tr, state |-> "submitted"])
    BY <2>1, NewRow
  <2>3. status' = status
    BY <2>1 DEF Submits
  <2> QED
    BY <2>2, <2>3 DEF LedgerStep
<1>2. CASE ~Idle(Team) /\ WriteDecision(Team)
  BY <1>2, DecisionRow
<1>3. CASE ~Idle(Team) /\ WriteStatus(Team)
  <2>1. PICK a \in Acts : WritesEffect(a)
    BY <1>3, EffectAhead
  <2>2. /\ Acts' = Acts
        /\ \A b \in Acts : /\ acts'[b].task = acts[b].task /\ acts'[b].tr = acts[b].tr
                           /\ acts'[b].state = acts[b].state
    BY <2>1, ActsAre DEF WritesEffect, IInv, Acts, Act
  <2>3. /\ todo[Team] = <<Moved(a)>> /\ acts[a].state = "allow" /\ todo'[Team] = <<>>
        /\ status' = [status EXCEPT ![acts[a].task] = Moves[acts[a].tr].to]
    BY <2>1 DEF WritesEffect
  <2> QED
    BY <2>2, <2>3, EffectRow
<1>4. CASE ~Idle(Team) /\ WriteRequest(Team)
  <2>1. Asking(todo[Team]) /\ Asking(todo'[Team]) /\ acts' = acts /\ status' = status
    BY <1>4, AskAhead
  <2> QED
    BY <2>1, AskingMovesNone, SilentRows
<1>5. \A a : <<>> # <<Moved(a)>>
  OBVIOUS
<1>6. CASE Amend(Team)
  BY <1>5, <1>6, SilentRows DEF Amend, Idle
<1>7. CASE Crash(Team)
  <2>1. todo'[Team] = <<>> /\ acts' = acts /\ status' = status
    BY <1>7 DEF Crash, IInv, store
  <2>2. CASE \E a \in Acts : todo[Team] = <<Moved(a)>>
    <3>1. PICK a \in Acts : todo[Team] = <<Moved(a)>>
      BY <2>2
    <3>2. acts[a].state = "allow"
      <4>1. ~Asking(todo[Team]) /\ \A b : ~Deciding(todo[Team], b)
        BY <3>1, AskingMovesNone, DecidingMovesNone
      <4>2. PICK b \in Acts : todo[Team] = <<Moved(b)>> /\ acts[b].state = "allow"
        BY <4>1 DEF IInv, AboutTo
      <4> QED
        BY <3>1, <4>2, MovedIs
    <3>3. Acts' = Acts
      BY <2>1 DEF Acts
    <3> QED
      BY <2>1, <3>1, <3>2, <3>3, EffectRow
  <2>3. CASE ~\E a \in Acts : todo[Team] = <<Moved(a)>>
    BY <1>5, <2>1, <2>3, SilentRows
  <2> QED
    BY <2>2, <2>3
<1>8. ASSUME NEW a \in Acts, Decide(Team, a)
      PROVE  LedgerStep
  <2>1. PICK d \in {"approved", "rejected"} :
          todo' = [todo EXCEPT ![Team] = <<Event("approval_decided", a, d, 0)>>]
    BY <1>8 DEF Decide
  <2>2. todo'[Team] = <<Event("approval_decided", a, d, 0)>>
    BY <2>1 DEF IInv
  <2>3. Asking(todo'[Team])
    BY <2>2, ApprovalOnlyAsks
  <2>4. todo[Team] = <<>> /\ acts' = acts /\ status' = status
    BY <1>8 DEF Decide, Idle, store
  <2> QED
    BY <1>5, <2>3, <2>4, AskingMovesNone, SilentRows
<1>9. ASSUME NEW a \in Acts, Resolve(Team, a)
      PROVE  LedgerStep
  <2>1. PICK d : d = Decision(a, acts[a].task, acts[a].tr)
    OBVIOUS
  <2>2. todo'[Team] = IF d = "pending" THEN Requests(a, acts[a].tr) ELSE Outcome("act_resolved", a, d)
    BY <1>9, <2>1 DEF Resolve, IInv
  <2>3. \A b : todo'[Team] # <<Moved(b)>>
    BY <2>2, RequestsAsk, AskingMovesNone, OutcomeMovesNone
  <2>4. todo[Team] = <<>> /\ acts' = acts /\ status' = status
    BY <1>9 DEF Resolve, Idle, store
  <2> QED
    BY <1>5, <2>3, <2>4, SilentRows
<1>10. ASSUME NEW i \in DOMAIN vals, Validated(i)
       PROVE  LedgerStep
  BY <1>5, <1>10, SilentRows DEF Validated, Idle
<1>11. CASE UNCHANGED vars
  <2>1. UNCHANGED <<acts, todo, status>>
    BY <1>11 DEF vars, store
  <2>2. Acts' = Acts /\ \A a \in Acts : StateOf(a)' = StateOf(a)
    BY <2>1 DEF Acts, StateOf
  <2>3. Rows' = Rows
    BY <2>1, <2>2, NoRow
  <2> QED
    BY <2>1, <2>3 DEF LedgerStep
<1> QED
  BY <1>1, <1>2, <1>3, <1>4, <1>6, <1>7, <1>8, <1>9, <1>10, <1>11 DEF Next, Write

LEMMA LedgerTakesIt ==
  ASSUME LedgerNow = Rows, LedgerNow' = Rows', LedgerStep
  PROVE  [Ledger!LedgerNext]_(Ledger!lvars)
<1>1. CASE \E t \in Task, tr \in Transition :
             /\ Rows' = Append(Rows, [task |-> t, tr |-> tr, state |-> "submitted"])
             /\ UNCHANGED status
  <2>1. PICK t \in Task, tr \in Transition :
          /\ Rows' = Append(Rows, [task |-> t, tr |-> tr, state |-> "submitted"])
          /\ UNCHANGED status
    BY <1>1
  <2>2. LedgerNow' = Append(LedgerNow, [task |-> t, tr |-> tr, state |-> "submitted"])
    BY <2>1
  <2>3. Ledger!Submitted(t, tr)
    BY <2>1, <2>2 DEF Ledger!Submitted, LedgerNow
  <2> QED
    BY <2>3 DEF Ledger!LedgerNext, Transition
<1>2. ASSUME NEW a \in DOMAIN LedgerNow, LedgerNow[a].state \in {"submitted", "pending"},
             NEW x, LedgerNow' = [LedgerNow EXCEPT ![a].state = x]
      PROVE  Ledger!Decided(a, x)
  BY <1>2 DEF Ledger!Decided, Ledger!Open, LedgerNow
<1>3. CASE \E a \in DOMAIN Rows :
       /\ Rows[a].state \in {"submitted", "pending"}
       /\ \/ Rows' = [Rows EXCEPT ![a].state = "deny"] /\ UNCHANGED status
          \/ /\ Rows[a].state = "submitted"
             /\ \A b \in DOMAIN Rows : Rows[b].task = Rows[a].task => Rows[b].state # "pending"
             /\ Rows' = [Rows EXCEPT ![a].state = "pending"] /\ UNCHANGED status
          \/ /\ status[Rows[a].task] \in Moves[Rows[a].tr].from
             /\ Rows' = [Rows EXCEPT ![a].state = "allow"]
             /\ status' = [status EXCEPT ![Rows[a].task] = Moves[Rows[a].tr].to]
          \/ Rows' = [Rows EXCEPT ![a].state = "allow"] /\ UNCHANGED status
  <2>1. PICK a \in DOMAIN LedgerNow :
       /\ LedgerNow[a].state \in {"submitted", "pending"}
       /\ \/ LedgerNow' = [LedgerNow EXCEPT ![a].state = "deny"] /\ UNCHANGED status
          \/ /\ LedgerNow[a].state = "submitted"
             /\ \A b \in DOMAIN LedgerNow :
                  LedgerNow[b].task = LedgerNow[a].task => LedgerNow[b].state # "pending"
             /\ LedgerNow' = [LedgerNow EXCEPT ![a].state = "pending"] /\ UNCHANGED status
          \/ /\ status[LedgerNow[a].task] \in Moves[LedgerNow[a].tr].from
             /\ LedgerNow' = [LedgerNow EXCEPT ![a].state = "allow"]
             /\ status' = [status EXCEPT ![LedgerNow[a].task] = Moves[LedgerNow[a].tr].to]
          \/ LedgerNow' = [LedgerNow EXCEPT ![a].state = "allow"] /\ UNCHANGED status
    BY <1>3
  <2>2. CASE LedgerNow' = [LedgerNow EXCEPT ![a].state = "deny"] /\ UNCHANGED status
    <3>1. Ledger!Decided(a, "deny")
      BY <1>2, <2>1, <2>2
    <3>2. Ledger!Denied(a)
      BY <2>2, <3>1 DEF Ledger!Denied
    <3> QED
      BY <2>1, <3>2 DEF Ledger!LedgerNext, LedgerNow
  <2>3. CASE /\ LedgerNow[a].state = "submitted"
             /\ \A b \in DOMAIN LedgerNow :
                  LedgerNow[b].task = LedgerNow[a].task => LedgerNow[b].state # "pending"
             /\ LedgerNow' = [LedgerNow EXCEPT ![a].state = "pending"] /\ UNCHANGED status
    <3>1. Ledger!Decided(a, "pending")
      BY <1>2, <2>1, <2>3
    <3>2. Ledger!Waits(a)
      BY <2>3, <3>1 DEF Ledger!Waits, LedgerNow
    <3> QED
      BY <2>1, <3>2 DEF Ledger!LedgerNext, LedgerNow
  <2>4. CASE /\ status[LedgerNow[a].task] \in Moves[LedgerNow[a].tr].from
             /\ LedgerNow' = [LedgerNow EXCEPT ![a].state = "allow"]
             /\ status' = [status EXCEPT ![LedgerNow[a].task] = Moves[LedgerNow[a].tr].to]
    <3>1. Ledger!Decided(a, "allow")
      BY <1>2, <2>1, <2>4
    <3>2. Ledger!Allowed(a)
      BY <2>4, <3>1 DEF Ledger!Allowed, LedgerNow
    <3> QED
      BY <2>1, <3>2 DEF Ledger!LedgerNext, LedgerNow
  <2>5. CASE LedgerNow' = [LedgerNow EXCEPT ![a].state = "allow"] /\ UNCHANGED status
    <3>1. Ledger!Decided(a, "allow")
      BY <1>2, <2>1, <2>5
    <3>2. Ledger!Lost(a)
      BY <2>5, <3>1 DEF Ledger!Lost
    <3> QED
      BY <2>1, <3>2 DEF Ledger!LedgerNext, LedgerNow
  <2> QED
    BY <2>1, <2>2, <2>3, <2>4, <2>5
<1>4. CASE UNCHANGED <<Rows, status>>
  <2>1. LedgerNow' = LedgerNow /\ status' = status
    BY <1>4
  <2> QED
    BY <2>1 DEF Ledger!lvars, LedgerNow
<1> QED
  BY <1>1, <1>3, <1>4 DEF LedgerStep

(* Of one process, the decision and the effect of an act are one step for  *)
(* whoever reads the log, and its path implements the ledger of acts: for  *)
(* any tasks, rules and deaths.  What it waits for, is asked, and answered *)
(* in between does not show.                                               *)
THEOREM PathIsALedger ==
  ASSUME Proc = {Team}
  PROVE  Spec => ImplementsLedger
<1>1. Init => Ledger!LedgerInit
  <2> SUFFICES ASSUME Init
               PROVE  Ledger!LedgerInit
    OBVIOUS
  <2>1. Acts = {} /\ status = [t \in Task |-> "in_progress"]
    BY DEF Init, Acts
  <2>2. LedgerNow = <<>>
    BY <2>1 DEF LedgerNow
  <2> QED
    BY <2>1, <2>2 DEF Ledger!LedgerInit, LedgerNow
<1>2. IInv => LedgerNow = Rows
  BY LedgerIs
<1>3. IInv /\ DInv /\ LedgerNow = Rows /\ (LedgerNow = Rows)' /\ [Next]_vars
        => [Ledger!LedgerNext]_(Ledger!lvars)
  <2> SUFFICES ASSUME IInv, DInv, LedgerNow = Rows, (LedgerNow = Rows)', [Next]_vars
               PROVE  [Ledger!LedgerNext]_(Ledger!lvars)
    OBVIOUS
  <2>1. LedgerStep
    BY RowsStep
  <2> QED
    BY <2>1, LedgerTakesIt
<1> QED
  BY <1>1, <1>2, <1>3, InvariantHolds, DecisionsHold, PTL DEF Spec, ImplementsLedger, Ledger!LedgerSpec
=============================================================================
