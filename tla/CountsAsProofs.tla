--------------------------- MODULE CountsAsProofs ---------------------------
(***************************************************************************)
(* One process that settles never pays twice, for any tasks, members and   *)
(* deaths.  Two may: each checks what is owed before it records.  And how  *)
(* late it records makes no difference to the facts and the payments.      *)
(***************************************************************************)
EXTENDS CountsAs, SequenceTheorems, FiniteSetTheorems, TLAPS

-----------------------------------------------------------------------------
(* Facts on sequences that grow.                                           *)

\* A sequence of whatever: of its own elements.
IsSequence(s) == s \in Seq({s[i] : i \in DOMAIN s})

\* Whatever set a sequence was taken from, it is one of its own elements.
LEMMA SequenceIsOne ==
  ASSUME NEW T, NEW s \in Seq(T)
  PROVE  /\ IsSequence(s)
         /\ Len(s) \in Nat
         /\ DOMAIN s = 1..Len(s)
BY SeqOfRange, LenProperties DEF IsSequence, Range

LEMMA EmptyIsSequence == IsSequence(<<>>) /\ Len(<<>>) = 0 /\ DOMAIN <<>> = {}
<1>1. <<>> \in Seq({}) /\ Len(<<>>) = 0
  BY EmptySeq
<1>2. 1..0 = {}
  OBVIOUS
<1> QED
  BY <1>1, <1>2, SequenceIsOne

\* What Append does to the positions of a sequence.
LEMMA AppendPositions ==
  ASSUME NEW s, IsSequence(s), NEW r
  PROVE  /\ IsSequence(Append(s, r))
         /\ Len(s) \in Nat
         /\ DOMAIN s = 1..Len(s)
         /\ DOMAIN Append(s, r) = 1..(Len(s) + 1)
         /\ \A i \in 1..Len(s) : Append(s, r)[i] = s[i]
         /\ Append(s, r)[Len(s) + 1] = r
<1> DEFINE T == {s[i] : i \in DOMAIN s} \cup {r}
<1>1. s \in Seq(T) /\ r \in T
  BY DEF IsSequence
<1> HIDE DEF T
<1>2. /\ Append(s, r) \in Seq(T) /\ Len(Append(s, r)) = Len(s) + 1
      /\ \A i \in 1..Len(s) : Append(s, r)[i] = s[i]
      /\ Append(s, r)[Len(s) + 1] = r
  BY <1>1, AppendProperties
<1>3. IsSequence(Append(s, r)) /\ DOMAIN Append(s, r) = 1..Len(Append(s, r))
  BY <1>2, SequenceIsOne
<1>4. Len(s) \in Nat /\ DOMAIN s = 1..Len(s)
  BY <1>1, LenProperties
<1> QED
  BY <1>2, <1>3, <1>4

-----------------------------------------------------------------------------
\* Causes are events of the log, and no event is the cause of two entries, be
\* they recorded or owed.
CausesArePast ==
  /\ seq \in Nat /\ IsSequence(ledger)
  /\ \A o \in owed : o.cause \in 1..seq /\ o.type \in {"establish", "revoke", "ledger"}
  /\ \A i \in DOMAIN ledger : ledger[i].cause \in 1..seq

OwedOnce ==
  /\ \A o, x \in owed : o.type = "ledger" /\ x.type = "ledger" /\ o.cause = x.cause => o = x
  /\ \A o \in owed, i \in DOMAIN ledger : o.type = "ledger" => ledger[i].cause # o.cause

\* What the process is about to record is still owed.
HeldIsOwed ==
  /\ holding \in [Proc -> SUBSET owed]
  /\ \A p \in Proc : \A o, x \in holding[p] : o = x

IInv == CausesArePast /\ OwedOnce /\ HeldIsOwed /\ PaidOnce

\* An act may come to owe facts, and no entry.
LEMMA ChangeKeepsIt ==
  ASSUME IInv, NEW t, NEW to, Change(t, to)
  PROVE  IInv'
<1>1. /\ seq' = seq + 1 /\ owed' = owed \cup Derived(t, to)
      /\ UNCHANGED <<ledger, holding>>
  BY DEF Change
<1>2. \A o \in Derived(t, to) : o.cause = seq + 1 /\ o.type \in {"establish", "revoke"}
  BY DEF Derived, Owed
<1>3. CausesArePast'
  BY <1>1, <1>2 DEF IInv, CausesArePast
<1>4. OwedOnce'
  BY <1>1, <1>2 DEF IInv, OwedOnce
<1>5. HeldIsOwed'
  BY <1>1 DEF IInv, HeldIsOwed
<1> QED
  BY <1>1, <1>3, <1>4, <1>5 DEF IInv, PaidOnce

LEMMA PickKeepsIt ==
  ASSUME IInv, NEW p \in Proc, Pick(p)
  PROVE  IInv'
<1>1. UNCHANGED <<seq, owed, ledger>>
  BY DEF Pick, fold
<1>2. PICK o \in owed : holding' = [holding EXCEPT ![p] = {o}]
  BY DEF Pick
<1>3. HeldIsOwed'
  BY <1>1, <1>2 DEF IInv, HeldIsOwed
<1> QED
  BY <1>1, <1>3 DEF IInv, CausesArePast, OwedOnce, PaidOnce

\* A record of a fact comes to owe an entry for it, and one of an entry settles it.
LEMMA RecordKeepsIt ==
  ASSUME IInv, Proc = {Team}, NEW p \in Proc, Record(p)
  PROVE  IInv'
<1>1. PICK o \in holding[p] : Folded(o)
  BY DEF Record
<1>2. seq' = seq + 1 /\ holding' = [holding EXCEPT ![p] = {}]
  BY DEF Record
<1>3. o \in owed
  BY DEF IInv, HeldIsOwed
<1>4. HeldIsOwed'
  <2>1. \A q \in Proc : holding'[q] = {}
    BY <1>2 DEF IInv, HeldIsOwed
  <2>2. holding' \in [Proc -> SUBSET owed']
    BY <1>2, <2>1 DEF IInv, HeldIsOwed
  <2> QED
    BY <2>1, <2>2 DEF HeldIsOwed
<1>5. CASE o.type \in {"establish", "revoke"}
  <2>1. /\ UNCHANGED ledger
        /\ owed' \subseteq (owed \ {o}) \cup {Owed("ledger", o.task, assignee[o.task], seq + 1)}
    BY <1>1, <1>5 DEF Folded
  <2>2. \A x \in owed' : x \in owed \/ (x.cause = seq + 1 /\ x.type = "ledger"
                                        /\ x = Owed("ledger", o.task, assignee[o.task], seq + 1))
    BY <2>1 DEF Owed
  <2>3. CausesArePast'
    BY <1>2, <2>1, <2>2 DEF IInv, CausesArePast
  <2>4. OwedOnce'
    <3>1. \A x \in owed : x.cause # seq + 1
      BY DEF IInv, CausesArePast
    <3>2. \A i \in DOMAIN ledger : ledger[i].cause # seq + 1
      BY DEF IInv, CausesArePast
    <3> QED
      BY <2>1, <2>2, <3>1, <3>2 DEF IInv, OwedOnce
  <2> QED
    BY <1>4, <2>1, <2>3, <2>4 DEF IInv, PaidOnce
<1>6. CASE o.type = "ledger"
  <2>1. ledger' = Append(ledger, o) /\ owed' = owed \ {o}
    BY <1>1, <1>6 DEF Folded
  <2>2. IsSequence(ledger)
    BY DEF IInv, CausesArePast
  <2>3. /\ IsSequence(ledger') /\ Len(ledger) \in Nat
        /\ DOMAIN ledger = 1..Len(ledger) /\ DOMAIN ledger' = 1..(Len(ledger) + 1)
        /\ \A i \in 1..Len(ledger) : ledger'[i] = ledger[i]
        /\ ledger'[Len(ledger) + 1] = o
    BY ONLY <2>1, <2>2, AppendPositions
  <2>4. CausesArePast'
    BY <1>2, <1>3, <2>1, <2>3 DEF IInv, CausesArePast
  <2>5. OwedOnce'
    BY <1>3, <1>6, <2>1, <2>3 DEF IInv, OwedOnce
  <2>6. PaidOnce'
    <3> SUFFICES ASSUME NEW i \in DOMAIN ledger', NEW j \in DOMAIN ledger',
                        ledger'[i].cause = ledger'[j].cause
                 PROVE  i = j
      BY DEF PaidOnce
    <3>1. \A k \in 1..Len(ledger) : ledger[k].cause # o.cause
      BY <1>3, <1>6, <2>3 DEF IInv, OwedOnce
    <3>2. CASE i \in 1..Len(ledger) /\ j \in 1..Len(ledger)
      BY <2>3, <3>2 DEF IInv, PaidOnce
    <3>3. CASE i = Len(ledger) + 1 \/ j = Len(ledger) + 1
      BY <2>3, <3>1, <3>3
    <3> QED
      BY <2>3, <3>2, <3>3
  <2> QED
    BY <1>4, <2>4, <2>5, <2>6 DEF IInv
<1> QED
  BY <1>3, <1>5, <1>6 DEF IInv, CausesArePast

\* Steps that leave what is owed, recorded and held alone, or let go of it.
LEMMA ElsewhereKeepsIt ==
  ASSUME IInv, UNCHANGED <<seq, owed, ledger>>,
         UNCHANGED holding \/ holding' = [holding EXCEPT ![Team] = {}]
  PROVE  IInv'
<1>1. HeldIsOwed'
  BY CountsAsAssumption DEF IInv, HeldIsOwed
<1> QED
  BY <1>1 DEF IInv, CausesArePast, OwedOnce, PaidOnce

LEMMA InvariantHolds == Init => IInv
<1> SUFFICES ASSUME Init PROVE IInv
  OBVIOUS
<1>1. IsSequence(ledger) /\ ledger = <<>>
  BY DEF Init, IsSequence
<1> QED
  BY <1>1 DEF Init, IInv, CausesArePast, OwedOnce, HeldIsOwed, PaidOnce

LEMMA InvariantStays == Proc = {Team} /\ IInv /\ [Next]_vars => IInv'
<1> SUFFICES ASSUME Proc = {Team}, IInv, [Next]_vars PROVE IInv'
  OBVIOUS
<1>1. ASSUME NEW t \in Task, Done(t) \/ Reopen(t) PROVE IInv'
  BY <1>1, ChangeKeepsIt DEF Done, Reopen
<1>2. ASSUME NEW p \in Proc, Settle(p) \/ Settled(p) PROVE IInv'
  BY <1>2, ElsewhereKeepsIt DEF Settle, Settled, fold
<1>3. ASSUME NEW p \in Proc, Pick(p) PROVE IInv'
  BY <1>3, PickKeepsIt
<1>4. ASSUME NEW p \in Proc, Record(p) PROVE IInv'
  BY <1>4, RecordKeepsIt
<1>5. CASE Crash
  BY <1>5, ElsewhereKeepsIt DEF Crash, fold
<1>6. CASE UNCHANGED vars
  BY <1>6, ElsewhereKeepsIt DEF vars, fold
<1> QED
  BY <1>1, <1>2, <1>3, <1>4, <1>5, <1>6 DEF Next

\* A single process that settles pays nobody twice for a fact, however often it
\* dies between deriving an entry and recording it (_write_owed).
THEOREM OneProcessPaysOnce == Proc = {Team} => (Spec => []PaidOnce)
<1> SUFFICES ASSUME Proc = {Team} PROVE Spec => []PaidOnce
  OBVIOUS
<1>1. Init => IInv
  BY InvariantHolds
<1>2. IInv /\ [Next]_vars => IInv'
  BY InvariantStays
<1>3. IInv => PaidOnce
  BY DEF IInv
<1> QED
  BY <1>1, <1>2, <1>3, PTL DEF Spec

-----------------------------------------------------------------------------
(* When it is recorded makes no difference.                                *)

PaidFor(m, t) == {i \in DOMAIN ledger : ledger[i].member = m /\ ledger[i].task = t}
EarnedFor(m, t) == {i \in DOMAIN earned : earned[i] = <<m, t>>}

\* What is still to be paid: an entry, or a fact that will be worth one.
DueTo(m, t) == {o \in owed : o.type \in {"establish", "ledger"} /\ o.task = t /\ o.member = m}

CountsShape ==
  /\ facts \subseteq Task /\ accepted \subseteq Task
  /\ assignee \in [Task -> Member]
  /\ IsSequence(earned)
  /\ \A o \in owed : o.task \in Task

\* A task has at most one thing owed for it, which changes what is recorded
\* and is for whoever the task is still assigned to.
OwedApart ==
  /\ \A o, x \in owed : o.task = x.task => o = x
  /\ \A o \in owed :
       /\ o.type = "establish" => o.task \notin facts
       /\ o.type = "revoke" => o.task \in facts
       /\ o.type # "revoke" => o.member = assignee[o.task]

\* What is recorded and what is owed make up what recording at once would give.
FactsAgree == \A t \in Task : HasFact(t) <=> t \in accepted

PaymentsAgree ==
  \A m \in Member, t \in Task :
    Cardinality(EarnedFor(m, t)) = Cardinality(PaidFor(m, t)) + (IF DueTo(m, t) = {} THEN 0 ELSE 1)

AInv ==
  /\ CountsShape
  /\ prompt => OwedApart /\ FactsAgree /\ PaymentsAgree

\* A new position of a sequence is one more.
LEMMA OneMore ==
  ASSUME NEW n \in Nat, NEW A, A \subseteq 1..n
  PROVE  Cardinality(A) \in Nat /\ Cardinality(A \cup {n + 1}) = Cardinality(A) + 1
<1>1. IsFiniteSet(A)
  <2>1. IsFiniteSet(1..n)
    BY FS_Interval
  <2> QED
    BY <2>1, FS_Subset
<1>2. n + 1 \notin A
  OBVIOUS
<1> QED
  BY <1>1, <1>2, FS_AddElement, FS_CardinalityType


LEMMA PaymentsAreCounted ==
  ASSUME IInv, NEW m, NEW t
  PROVE  PaidFor(m, t) \subseteq 1..Len(ledger) /\ Cardinality(PaidFor(m, t)) \in Nat
<1>1. Len(ledger) \in Nat /\ DOMAIN ledger = 1..Len(ledger)
  BY AppendPositions DEF IInv, CausesArePast
<1>2. PaidFor(m, t) \subseteq 1..Len(ledger)
  BY <1>1 DEF PaidFor
<1> QED
  BY <1>1, <1>2, OneMore

LEMMA InitAgrees == Init => AInv
<1> SUFFICES ASSUME Init PROVE AInv
  OBVIOUS
<1>1. owed = {} /\ facts = {} /\ accepted = {} /\ ledger = <<>> /\ earned = <<>>
  BY DEF Init
<1>2. CountsShape
  BY <1>1, EmptyIsSequence DEF Init, CountsShape
<1>3. OwedApart /\ FactsAgree
  BY <1>1 DEF OwedApart, FactsAgree, HasFact
<1>4. PaymentsAgree
  <2>1. \A m, t : PaidFor(m, t) = {} /\ EarnedFor(m, t) = {} /\ DueTo(m, t) = {}
    BY <1>1, EmptyIsSequence DEF PaidFor, EarnedFor, DueTo
  <2>2. Cardinality({}) = 0
    BY FS_EmptySet
  <2> QED
    BY <2>1, <2>2 DEF PaymentsAgree
<1> QED
  BY <1>2, <1>3, <1>4 DEF AInv

\* Who has a fact is decided by what is owed for the task alone.
LEMMA OthersAgree ==
  ASSUME NEW t, NEW u, u # t,
         u \in facts' <=> u \in facts,
         \A o : o.task # t => (o \in owed' <=> o \in owed)
  PROVE  (HasFact(u))' <=> HasFact(u)
BY DEF HasFact

\* A task is done that counts: the fact and its payment are owed.
LEMMA CountingAgrees ==
  ASSUME AInv, IInv, prompt, NEW t \in Task, t \notin accepted,
         \A o \in owed : o.task # t,
         owed' = owed \cup {Owed("establish", t, assignee[t], seq + 1)},
         accepted' = accepted \cup {t},
         earned' = Append(earned, <<assignee[t], t>>),
         UNCHANGED <<facts, ledger, assignee>>
  PROVE  AInv'
<1> DEFINE e == Owed("establish", t, assignee[t], seq + 1)
<1>1. e.type = "establish" /\ e.task = t /\ e.member = assignee[t]
  BY DEF Owed
<1>2. CountsShape /\ OwedApart /\ FactsAgree /\ PaymentsAgree
  BY DEF AInv
<1>3. owed' = owed \cup {e}
  OBVIOUS
<1> HIDE DEF e
<1>4. IsSequence(earned)
  BY <1>2 DEF CountsShape
<1>5. /\ IsSequence(earned') /\ Len(earned) \in Nat
      /\ DOMAIN earned = 1..Len(earned) /\ DOMAIN earned' = 1..(Len(earned) + 1)
      /\ \A i \in 1..Len(earned) : earned'[i] = earned[i]
      /\ earned'[Len(earned) + 1] = <<assignee[t], t>>
  <2>1. earned' = Append(earned, <<assignee[t], t>>)
    OBVIOUS
  <2> QED
    BY ONLY <1>4, <2>1, AppendPositions
<1>6. CountsShape'
  BY <1>1, <1>2, <1>3, <1>5 DEF CountsShape
<1>7. t \notin facts
  BY <1>2 DEF FactsAgree, HasFact
<1>8. OwedApart'
  BY <1>1, <1>2, <1>3, <1>7 DEF OwedApart
<1>9. FactsAgree'
  <2>1. (HasFact(t))'
    BY <1>1, <1>3, <1>7 DEF HasFact
  <2>2. \A u \in Task \ {t} : (HasFact(u))' <=> HasFact(u)
    BY <1>1, <1>3, OthersAgree
  <2> QED
    BY <1>2, <2>1, <2>2 DEF FactsAgree
<1>10. PaymentsAgree'
  <2> SUFFICES ASSUME NEW m \in Member, NEW u \in Task
               PROVE  (Cardinality(EarnedFor(m, u))
                        = Cardinality(PaidFor(m, u)) + (IF DueTo(m, u) = {} THEN 0 ELSE 1))'
    BY DEF PaymentsAgree
  <2>1. (PaidFor(m, u))' = PaidFor(m, u)
    BY DEF PaidFor
  <2>2. Cardinality(EarnedFor(m, u)) = Cardinality(PaidFor(m, u)) + (IF DueTo(m, u) = {} THEN 0 ELSE 1)
    BY <1>2 DEF PaymentsAgree
  <2>3. CASE m = assignee[t] /\ u = t
    <3>1. DueTo(m, u) = {} /\ e \in (DueTo(m, u))'
      BY <1>1, <1>3, <2>3 DEF DueTo
    <3>2. (EarnedFor(m, u))' = EarnedFor(m, u) \cup {Len(earned) + 1}
      BY <1>5, <2>3 DEF EarnedFor
    <3>3. EarnedFor(m, u) \subseteq 1..Len(earned)
      BY <1>5 DEF EarnedFor
    <3>4. Cardinality(EarnedFor(m, u) \cup {Len(earned) + 1}) = Cardinality(EarnedFor(m, u)) + 1
      BY <1>5, <3>3, OneMore
    <3>5. Cardinality(PaidFor(m, u)) \in Nat
      BY PaymentsAreCounted
    <3> QED
      BY <2>1, <2>2, <3>1, <3>2, <3>4, <3>5
  <2>4. CASE ~(m = assignee[t] /\ u = t)
    <3>1. (DueTo(m, u))' = DueTo(m, u)
      BY <1>1, <1>3, <2>4 DEF DueTo
    <3>2. (EarnedFor(m, u))' = EarnedFor(m, u)
      BY <1>5, <2>4 DEF EarnedFor
    <3> QED
      BY <2>1, <2>2, <3>1, <3>2
  <2> QED
    BY <2>3, <2>4
<1> QED
  BY <1>6, <1>8, <1>9, <1>10 DEF AInv

\* A change of a task that counts as nothing new.
LEMMA IdleChangeAgrees ==
  ASSUME AInv, UNCHANGED <<facts, owed, ledger, assignee, accepted, earned>>
  PROVE  CountsShape' /\ (prompt => (OwedApart /\ FactsAgree /\ PaymentsAgree)')
<1>1. CountsShape'
  BY DEF AInv, CountsShape
<1>2. ASSUME prompt PROVE OwedApart'
  BY <1>2 DEF AInv, OwedApart
<1>3. ASSUME prompt PROVE FactsAgree'
  BY <1>3 DEF AInv, FactsAgree, HasFact
<1>4. ASSUME prompt PROVE PaymentsAgree'
  <2>1. \A m, t : (PaidFor(m, t))' = PaidFor(m, t) /\ (EarnedFor(m, t))' = EarnedFor(m, t)
                  /\ (DueTo(m, t))' = DueTo(m, t)
    BY DEF PaidFor, EarnedFor, DueTo
  <2> QED
    BY <1>4, <2>1 DEF AInv, PaymentsAgree
<1> QED
  BY <1>1, <1>2, <1>3, <1>4

LEMMA DoneAgrees ==
  ASSUME AInv, IInv, NEW t \in Task, Done(t)
  PROVE  AInv'
<1>1. /\ UNCHANGED <<assignee, facts, ledger>>
      /\ owed' = owed \cup Derived(t, "done")
      /\ prompt' = (prompt /\ \A o \in owed : o.task # t)
  BY DEF Done, Change
<1> DEFINE counts == t \notin accepted /\ \A k \in Task : Parent[k] = t => k \in accepted
<1>2. /\ accepted' = IF counts THEN accepted \cup {t} ELSE accepted
      /\ earned' = IF counts THEN Append(earned, <<assignee[t], t>>) ELSE earned
  BY DEF Done
<1>3. \A o \in Derived(t, "done") : o = Owed("establish", t, assignee[t], seq + 1)
  BY DEF Derived
<1>4. CASE ~prompt'
  <2>1. CountsShape'
    <3>1. IsSequence(earned')
      BY <1>2, AppendPositions DEF AInv, CountsShape
    <3>2. accepted' \subseteq Task
      BY <1>2 DEF AInv, CountsShape
    <3>3. \A o \in owed' : o.task \in Task
      BY <1>1, <1>3 DEF AInv, CountsShape, Owed
    <3> QED
      BY <1>1, <3>1, <3>2, <3>3 DEF AInv, CountsShape
  <2> QED
    BY <1>4, <2>1 DEF AInv
<1>5. CASE prompt'
  <2>1. prompt /\ \A o \in owed : o.task # t
    BY <1>1, <1>5
  <2>2. \A k \in Task : HasFact(k) <=> k \in accepted
    BY <2>1 DEF AInv, FactsAgree
  <2>3. ChildrenLacking(t) = {} <=> \A k \in Task : Parent[k] = t => k \in accepted
    BY <2>2 DEF ChildrenLacking
  <2>4. CASE counts
    <3>1. Derived(t, "done") = {Owed("establish", t, assignee[t], seq + 1)}
      BY <2>2, <2>3, <2>4 DEF Derived
    <3> QED
      BY <1>1, <1>2, <2>1, <2>4, <3>1, CountingAgrees
  <2>5. CASE ~counts
    <3>1. Derived(t, "done") = {}
      BY <2>2, <2>3, <2>5 DEF Derived
    <3>2. UNCHANGED <<facts, owed, ledger, assignee, accepted, earned>>
      BY <1>1, <1>2, <2>5, <3>1
    <3> QED
      BY <1>5, <2>1, <3>2, IdleChangeAgrees DEF AInv
  <2> QED
    BY <2>4, <2>5
<1> QED
  BY <1>4, <1>5

\* What a task that is reopened counted as is to be revoked; it is assigned anew
\* while nothing is owed for it.
LEMMA ReopenAgrees ==
  ASSUME AInv, IInv, NEW t \in Task, Reopen(t)
  PROVE  AInv'
<1>1. /\ UNCHANGED <<facts, ledger, earned>>
      /\ owed' = owed \cup Derived(t, "reopened")
      /\ prompt' = (prompt /\ \A o \in owed : o.task # t)
      /\ accepted' = accepted \ {t}
  BY DEF Reopen, Change
<1>2. PICK n \in Member : assignee' = [assignee EXCEPT ![t] = n]
  BY DEF Reopen
<1> DEFINE e == Owed("revoke", t, assignee[t], seq + 1)
<1>3. Derived(t, "reopened") = IF HasFact(t) THEN {e} ELSE {}
  BY DEF Derived
<1>4. e.type = "revoke" /\ e.task = t
  BY DEF Owed
<1> HIDE DEF e
<1>5. CountsShape'
  <2>1. \A o \in owed' : o.task \in Task
    BY <1>1, <1>3, <1>4 DEF AInv, CountsShape
  <2>2. assignee' \in [Task -> Member]
    BY <1>2 DEF AInv, CountsShape
  <2> QED
    BY <1>1, <2>1, <2>2 DEF AInv, CountsShape
<1>6. ASSUME prompt' PROVE (OwedApart /\ FactsAgree /\ PaymentsAgree)'
  <2>1. prompt /\ \A o \in owed : o.task # t
    BY <1>1, <1>6
  <2>2. CountsShape /\ OwedApart /\ FactsAgree /\ PaymentsAgree
    BY <2>1 DEF AInv
  <2>3. HasFact(t) <=> t \in facts
    BY <2>1 DEF HasFact
  <2>4. \A u \in Task \ {t} : assignee'[u] = assignee[u]
    BY <1>2, <2>2 DEF CountsShape
  <2>5. OwedApart'
    <3>1. \A o, x \in owed' : o.task = x.task => o = x
      BY <1>1, <1>3, <1>4, <2>1, <2>2 DEF OwedApart
    <3>2. \A o \in owed : o.type # "revoke" => o.member = assignee'[o.task]
      BY <2>1, <2>2, <2>4 DEF OwedApart, CountsShape
    <3>3. \A o \in owed' : /\ o.type = "establish" => o.task \notin facts'
                           /\ o.type = "revoke" => o.task \in facts'
      BY <1>1, <1>3, <1>4, <2>2, <2>3 DEF OwedApart
    <3>4. \A o \in owed' : o.type # "revoke" => o.member = assignee'[o.task]
      BY <1>1, <1>3, <1>4, <3>2
    <3> QED
      BY <3>1, <3>3, <3>4 DEF OwedApart
  <2>6. FactsAgree'
    <3>1. ~(HasFact(t))'
      BY <1>1, <1>3, <1>4, <2>1, <2>3 DEF HasFact
    <3>2. \A u \in Task \ {t} : (HasFact(u))' <=> HasFact(u)
      BY <1>1, <1>3, <1>4, OthersAgree
    <3> QED
      BY <1>1, <2>2, <3>1, <3>2 DEF FactsAgree
  <2>7. PaymentsAgree'
    <3>1. \A m, u : (PaidFor(m, u))' = PaidFor(m, u) /\ (EarnedFor(m, u))' = EarnedFor(m, u)
      BY <1>1 DEF PaidFor, EarnedFor
    <3>2. \A m, u : (DueTo(m, u))' = DueTo(m, u)
      BY <1>1, <1>3, <1>4 DEF DueTo
    <3> QED
      BY <2>2, <3>1, <3>2 DEF PaymentsAgree
  <2> QED
    BY <2>5, <2>6, <2>7
<1> QED
  BY <1>5, <1>6 DEF AInv

\* A fact is recorded: what is owed for its task is a payment from now on.
LEMMA FactRecordedAgrees ==
  ASSUME AInv, IInv, NEW o \in owed, o.type = "establish", Folded(o),
         UNCHANGED <<assignee, accepted, earned, prompt>>
  PROVE  AInv'
<1> DEFINE t == o.task
<1> DEFINE e == Owed("ledger", t, assignee[t], seq + 1)
<1>1. facts' = facts \cup {t} /\ owed' = (owed \ {o}) \cup {e} /\ UNCHANGED ledger
  BY DEF Folded
<1>2. e.type = "ledger" /\ e.task = t /\ e.member = assignee[t]
  BY DEF Owed
<1> HIDE DEF e
<1>3. t \in Task
  BY DEF AInv, CountsShape
<1>4. CountsShape'
  BY <1>1, <1>2, <1>3 DEF AInv, CountsShape
<1>5. ASSUME prompt PROVE (OwedApart /\ FactsAgree /\ PaymentsAgree)'
  <2>1. CountsShape /\ OwedApart /\ FactsAgree /\ PaymentsAgree
    BY <1>5 DEF AInv
  <2>2. \A x \in owed : x.task = t => x = o
    BY <2>1 DEF OwedApart
  <2>3. OwedApart'
    <3>1. \A x, y \in owed' : x.task = y.task => x = y
      BY <1>1, <1>2, <2>1, <2>2 DEF OwedApart
    <3>2. \A x \in owed' : x.type # "revoke" => x.member = assignee'[x.task]
      BY <1>1, <1>2, <2>1 DEF OwedApart
    <3>3. \A x \in owed' : /\ x.type = "establish" => x.task \notin facts'
                           /\ x.type = "revoke" => x.task \in facts'
      BY <1>1, <1>2, <2>1, <2>2 DEF OwedApart
    <3> QED
      BY <3>1, <3>2, <3>3 DEF OwedApart
  <2>4. FactsAgree'
    <3>1. HasFact(t)
      BY <2>1, <2>2 DEF HasFact, OwedApart
    <3>2. (HasFact(t))'
      BY <1>1, <1>2, <2>2 DEF HasFact
    <3>3. \A u \in Task \ {t} : (HasFact(u))' <=> HasFact(u)
      BY <1>1, <1>2, OthersAgree
    <3> QED
      BY <2>1, <3>1, <3>2, <3>3 DEF FactsAgree
  <2>5. PaymentsAgree'
    <3>1. \A m, u : (PaidFor(m, u))' = PaidFor(m, u) /\ (EarnedFor(m, u))' = EarnedFor(m, u)
      BY <1>1 DEF PaidFor, EarnedFor
    <3>2. o.member = assignee[t]
      BY <2>1 DEF OwedApart
    <3>3. \A m, u : (DueTo(m, u))' = {} <=> DueTo(m, u) = {}
      <4> SUFFICES ASSUME NEW m, NEW u PROVE (DueTo(m, u))' = {} <=> DueTo(m, u) = {}
        OBVIOUS
      <4>1. CASE m = assignee[t] /\ u = t
        <5>1. o \in DueTo(m, u) /\ e \in (DueTo(m, u))'
          BY <1>1, <1>2, <3>2, <4>1 DEF DueTo
        <5> QED
          BY <5>1
      <4>2. CASE ~(m = assignee[t] /\ u = t)
        <5>1. (DueTo(m, u))' = DueTo(m, u)
          BY <1>1, <1>2, <3>2, <4>2 DEF DueTo
        <5> QED
          BY <5>1
      <4> QED
        BY <4>1, <4>2
    <3> QED
      BY <2>1, <3>1, <3>3 DEF PaymentsAgree
  <2> QED
    BY <2>3, <2>4, <2>5
<1> QED
  BY <1>4, <1>5 DEF AInv

LEMMA RevocationRecordedAgrees ==
  ASSUME AInv, IInv, NEW o \in owed, o.type = "revoke", Folded(o),
         UNCHANGED <<assignee, accepted, earned, prompt>>
  PROVE  AInv'
<1> DEFINE t == o.task
<1>1. facts' = facts \ {t} /\ owed' = owed \ {o} /\ UNCHANGED ledger
  BY DEF Folded
<1>2. CountsShape'
  BY <1>1 DEF AInv, CountsShape
<1>3. ASSUME prompt PROVE (OwedApart /\ FactsAgree /\ PaymentsAgree)'
  <2>1. CountsShape /\ OwedApart /\ FactsAgree /\ PaymentsAgree
    BY <1>3 DEF AInv
  <2>2. \A x \in owed : x.task = t => x = o
    BY <2>1 DEF OwedApart
  <2>3. OwedApart'
    BY <1>1, <2>1, <2>2 DEF OwedApart
  <2>4. FactsAgree'
    <3>1. ~HasFact(t)
      BY <2>1, <2>2 DEF HasFact, OwedApart
    <3>2. ~(HasFact(t))'
      BY <1>1, <2>2 DEF HasFact
    <3>3. \A u \in Task \ {t} : (HasFact(u))' <=> HasFact(u)
      BY <1>1, OthersAgree
    <3> QED
      BY <2>1, <3>1, <3>2, <3>3 DEF FactsAgree
  <2>5. PaymentsAgree'
    <3>1. \A m, u : (PaidFor(m, u))' = PaidFor(m, u) /\ (EarnedFor(m, u))' = EarnedFor(m, u)
      BY <1>1 DEF PaidFor, EarnedFor
    <3>2. \A m, u : (DueTo(m, u))' = DueTo(m, u)
      BY <1>1 DEF DueTo
    <3> QED
      BY <2>1, <3>1, <3>2 DEF PaymentsAgree
  <2> QED
    BY <2>3, <2>4, <2>5
<1> QED
  BY <1>2, <1>3 DEF AInv

\* A payment is recorded, and owed no longer.
LEMMA PaymentRecordedAgrees ==
  ASSUME AInv, IInv, NEW o \in owed, o.type = "ledger", Folded(o),
         UNCHANGED <<assignee, accepted, earned, prompt>>
  PROVE  AInv'
<1> DEFINE t == o.task
<1>1. UNCHANGED facts /\ owed' = owed \ {o} /\ ledger' = Append(ledger, o)
  BY DEF Folded
<1>2. CountsShape'
  BY <1>1 DEF AInv, CountsShape
<1>3. IsSequence(ledger)
  BY DEF IInv, CausesArePast
<1>4. /\ Len(ledger) \in Nat
      /\ DOMAIN ledger = 1..Len(ledger) /\ DOMAIN ledger' = 1..(Len(ledger) + 1)
      /\ \A i \in 1..Len(ledger) : ledger'[i] = ledger[i]
      /\ ledger'[Len(ledger) + 1] = o
  BY ONLY <1>1, <1>3, AppendPositions
<1>5. ASSUME prompt PROVE (OwedApart /\ FactsAgree /\ PaymentsAgree)'
  <2>1. CountsShape /\ OwedApart /\ FactsAgree /\ PaymentsAgree
    BY <1>5 DEF AInv
  <2>2. \A x \in owed : x.task = t => x = o
    BY <2>1 DEF OwedApart
  <2>3. OwedApart'
    BY <1>1, <2>1 DEF OwedApart
  <2>4. FactsAgree'
    <3>1. \A u \in Task : (HasFact(u))' <=> HasFact(u)
      BY <1>1 DEF HasFact
    <3> QED
      BY <2>1, <3>1 DEF FactsAgree
  <2>5. PaymentsAgree'
    <3> SUFFICES ASSUME NEW m \in Member, NEW u \in Task
                 PROVE  (Cardinality(EarnedFor(m, u))
                          = Cardinality(PaidFor(m, u)) + (IF DueTo(m, u) = {} THEN 0 ELSE 1))'
      BY DEF PaymentsAgree
    <3>1. (EarnedFor(m, u))' = EarnedFor(m, u)
      BY DEF EarnedFor
    <3>2. Cardinality(EarnedFor(m, u)) = Cardinality(PaidFor(m, u)) + (IF DueTo(m, u) = {} THEN 0 ELSE 1)
      BY <2>1 DEF PaymentsAgree
    <3>3. o.member = assignee[t]
      BY <2>1 DEF OwedApart
    <3>4. CASE m = o.member /\ u = t
      <4>1. o \in DueTo(m, u) /\ (DueTo(m, u))' = {}
        BY <1>1, <2>2, <3>4 DEF DueTo
      <4>2. (PaidFor(m, u))' = PaidFor(m, u) \cup {Len(ledger) + 1}
        BY <1>4, <3>4 DEF PaidFor
      <4>3. /\ Cardinality(PaidFor(m, u)) \in Nat
            /\ Cardinality(PaidFor(m, u) \cup {Len(ledger) + 1}) = Cardinality(PaidFor(m, u)) + 1
        BY <1>4, PaymentsAreCounted, OneMore
      <4> QED
        BY <3>1, <3>2, <4>1, <4>2, <4>3
    <3>5. CASE ~(m = o.member /\ u = t)
      <4>1. (DueTo(m, u))' = DueTo(m, u)
        BY <1>1, <3>5 DEF DueTo
      <4>2. (PaidFor(m, u))' = PaidFor(m, u)
        BY <1>4, <3>5 DEF PaidFor
      <4> QED
        BY <3>1, <3>2, <4>1, <4>2
    <3> QED
      BY <3>4, <3>5
  <2> QED
    BY <2>3, <2>4, <2>5
<1> QED
  BY <1>2, <1>5 DEF AInv

LEMMA AgreementStays == AInv /\ IInv /\ [Next]_vars => AInv'
<1> SUFFICES ASSUME AInv, IInv, [Next]_vars PROVE AInv'
  OBVIOUS
<1>1. ASSUME NEW t \in Task, Done(t) \/ Reopen(t) PROVE AInv'
  BY <1>1, DoneAgrees, ReopenAgrees
<1>2. ASSUME NEW p \in Proc, Record(p) PROVE AInv'
  <2>1. PICK o \in holding[p] : Folded(o)
    BY <1>2 DEF Record
  <2>2. o \in owed
    BY DEF IInv, HeldIsOwed
  <2>3. UNCHANGED <<assignee, accepted, earned, prompt>>
    BY <1>2 DEF Record, history
  <2>4. o.type \in {"establish", "revoke", "ledger"}
    BY <2>2 DEF IInv, CausesArePast
  <2> QED
    BY <2>1, <2>2, <2>3, <2>4, FactRecordedAgrees, RevocationRecordedAgrees, PaymentRecordedAgrees
<1>3. CASE \/ \E p \in Proc : Settle(p) \/ Pick(p) \/ Settled(p)
           \/ Crash \/ UNCHANGED vars
  <2>1. UNCHANGED <<facts, owed, ledger, assignee, accepted, earned, prompt>>
    BY <1>3 DEF Settle, Pick, Settled, Crash, vars, fold, history
  <2> QED
    BY <2>1, IdleChangeAgrees DEF AInv
<1> QED
  BY <1>1, <1>2, <1>3 DEF Next

\* However late facts and payments are recorded and however often the process
\* dies before they are, it makes no difference to either, unless a task moves
\* again while something it counts as is owed (InstitutionView.derive, settle).
THEOREM LateIsAsGood == Proc = {Team} => (Spec => []AsIfAtOnce)
<1> SUFFICES ASSUME Proc = {Team} PROVE Spec => []AsIfAtOnce
  OBVIOUS
<1>1. Init => IInv /\ AInv
  BY InvariantHolds, InitAgrees
<1>2. IInv /\ AInv /\ [Next]_vars => (IInv /\ AInv)'
  BY InvariantStays, AgreementStays
<1>3. IInv /\ AInv => AsIfAtOnce
  <2> SUFFICES ASSUME IInv, AInv, prompt, owed = {}
               PROVE  /\ facts = accepted
                      /\ \A m \in Member, t \in Task :
                           Cardinality(PaidFor(m, t)) = Cardinality(EarnedFor(m, t))
    BY DEF AsIfAtOnce, PaidFor, EarnedFor
  <2>1. facts = accepted
    BY DEF AInv, CountsShape, FactsAgree, HasFact
  <2>2. ASSUME NEW m \in Member, NEW t \in Task
        PROVE  Cardinality(PaidFor(m, t)) = Cardinality(EarnedFor(m, t))
    <3>1. DueTo(m, t) = {}
      BY DEF DueTo
    <3>2. Cardinality(PaidFor(m, t)) \in Nat
      BY PaymentsAreCounted
    <3> QED
      BY <3>1, <3>2 DEF AInv, PaymentsAgree
  <2> QED
    BY <2>1, <2>2
<1> QED
  BY <1>1, <1>2, <1>3, PTL DEF Spec
=============================================================================
