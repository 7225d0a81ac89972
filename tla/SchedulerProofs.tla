-------------------------- MODULE SchedulerProofs --------------------------
(***************************************************************************)
(* Machine-checked facts about Scheduler, for any agents, limits, failures *)
(* and numbers of events, launches and deaths.                             *)
(***************************************************************************)
EXTENDS Scheduler, SequenceTheorems, WellFoundedInduction, FiniteSetTheorems, TLAPS

-----------------------------------------------------------------------------
(* Facts on sequences that grow and on natural numbers.                    *)

\* A sequence of whatever: of its own elements.
IsSequence(s) == s \in Seq({s[i] : i \in DOMAIN s})

\* Whatever set a sequence was taken from, it is one of its own elements.
LEMMA SequenceIsOne ==
  ASSUME NEW T, NEW s \in Seq(T)
  PROVE  /\ IsSequence(s)
         /\ Len(s) \in Nat
         /\ DOMAIN s = 1..Len(s)
BY SeqOfRange, LenProperties DEF IsSequence, Range

LEMMA EmptyIsSequence == IsSequence(<<>>) /\ Len(<<>>) = 0 /\ DOMAIN <<>> = {}
<1>1. <<>> \in Seq({}) /\ Len(<<>>) = 0
  BY EmptySeq
<1>2. 1..0 = {}
  OBVIOUS
<1> QED
  BY <1>1, <1>2, SequenceIsOne

\* What Append does to the positions of a sequence.
LEMMA AppendPositions ==
  ASSUME NEW s, IsSequence(s), NEW r
  PROVE  /\ IsSequence(Append(s, r))
         /\ Len(s) \in Nat
         /\ DOMAIN s = 1..Len(s)
         /\ DOMAIN Append(s, r) = 1..(Len(s) + 1)
         /\ \A i \in 1..Len(s) : Append(s, r)[i] = s[i]
         /\ Append(s, r)[Len(s) + 1] = r
<1> DEFINE T == {s[i] : i \in DOMAIN s} \cup {r}
<1>1. s \in Seq(T) /\ r \in T
  BY DEF IsSequence
<1> HIDE DEF T
<1>2. /\ Append(s, r) \in Seq(T) /\ Len(Append(s, r)) = Len(s) + 1
      /\ \A i \in 1..Len(s) : Append(s, r)[i] = s[i]
      /\ Append(s, r)[Len(s) + 1] = r
  BY <1>1, AppendProperties
<1>3. IsSequence(Append(s, r)) /\ DOMAIN Append(s, r) = 1..Len(Append(s, r))
  BY <1>2, SequenceIsOne
<1>4. Len(s) \in Nat /\ DOMAIN s = 1..Len(s)
  BY <1>1, LenProperties
<1> QED
  BY <1>2, <1>3, <1>4

\* One sequence after another.
LEMMA ConcatPositions ==
  ASSUME NEW s, IsSequence(s), NEW t, IsSequence(t)
  PROVE  /\ IsSequence(s \o t)
         /\ Len(s) \in Nat /\ Len(t) \in Nat /\ Len(s \o t) = Len(s) + Len(t)
         /\ \A i \in 1..Len(s) : (s \o t)[i] = s[i]
         /\ \A i \in 1..Len(t) : (s \o t)[Len(s) + i] = t[i]
<1> DEFINE U == {s[i] : i \in DOMAIN s} \cup {t[i] : i \in DOMAIN t}
<1>1. s \in Seq(U) /\ t \in Seq(U)
  BY DEF IsSequence
<1> HIDE DEF U
<1>2. Len(s) \in Nat /\ Len(t) \in Nat
  BY <1>1, LenProperties
<1>3. /\ s \o t \in Seq(U) /\ Len(s \o t) = Len(s) + Len(t)
      /\ \A i \in 1..Len(s) + Len(t) :
           (s \o t)[i] = IF i <= Len(s) THEN s[i] ELSE t[i - Len(s)]
  BY <1>1, ConcatProperties
<1>4. IsSequence(s \o t)
  BY <1>3, SequenceIsOne
<1>5. \A i \in 1..Len(t) : Len(s) + i \in 1..Len(s) + Len(t) /\ ~(Len(s) + i <= Len(s))
                           /\ Len(s) + i - Len(s) = i
  BY <1>2
<1>6. \A i \in 1..Len(s) : i \in 1..Len(s) + Len(t) /\ i <= Len(s)
  BY <1>2
<1> QED
  BY <1>2, <1>3, <1>4, <1>5, <1>6

\* Induction over the natural numbers, in the form a set takes.
LEMMA LeastNatural ==
  ASSUME NEW S, S \subseteq Nat, S # {}
  PROVE  \E n \in S : \A m \in S : n <= m
<1>1. PICK n \in S : \A m \in S : <<m, n>> \notin OpToRel(<, Nat)
  BY NatLessThanWellFounded, WFMin, Zenon
<1>2. \A m \in S : ~(m < n)
  BY <1>1, Zenon DEF OpToRel
<1> QED
  BY <1>2

-----------------------------------------------------------------------------
(* The inductive invariant.                                                *)

\* The events of activations.
Acts == {"started", "incoming", "finished"}
Shows == {"started", "incoming"}
Of(i, type, a) == log[i].type = type /\ log[i].agent = a

\* Each event of an activation names an agent and an id that was given out, and
\* an id is of one agent.
EventsOK ==
  /\ IsSequence(log) /\ aids \in Nat
  /\ \A i \in Seqs : log[i].type \in Acts => log[i].agent \in Agent /\ log[i].aid \in 1..aids
  /\ \A i, j \in Seqs :
       {log[i].type, log[j].type} \subseteq Acts /\ log[i].aid = log[j].aid
       => log[i].agent = log[j].agent

\* Nothing of an activation follows its end.
EndIsEnd ==
  \A i, j \in Seqs : i < j /\ log[i].type = "finished" /\ log[j].type \in Acts
    => log[j].aid # log[i].aid

\* Between the start of an activation and what its agent starts or ends next lies
\* its end.
OneAtATime ==
  \A i, j \in Seqs :
    (/\ i < j /\ log[i].type = "started" /\ log[i].agent = log[j].agent
     /\ \/ log[j].type = "started"
        \/ log[j].type = "finished" /\ log[j].aid # log[i].aid)
    => \E k \in i..j : k < j /\ log[k].type = "finished" /\ log[k].aid = log[i].aid

LogOK == EventsOK /\ EndIsEnd /\ OneAtATime /\ ShownOnce

\* The first n events leave activation x of a open.
EndedBy(x, n) == \E k \in 1..n : log[k].type = "finished" /\ log[k].aid = x
OpenAt(a, x, n) == ~EndedBy(x, n) /\ \E j \in 1..n : Of(j, "started", a) /\ log[j].aid = x

Fields == DOMAIN Blank

\* A memory of the scheduler: what was delivered to an agent is not pending.
Sane(m) ==
  /\ DOMAIN m = Fields /\ m.running \in [Agent -> Nat]
  /\ DOMAIN m.pending = Agent /\ DOMAIN m.delivered = Agent
  /\ IsFiniteSet(m.timers)
  /\ \A a \in Agent : m.pending[a] \cap m.delivered[a] = {}

\* It has read the log up to its cursor, and knows what was put in each context.
MemOK(m) ==
  /\ Sane(m) /\ m.cursor \in 0..Len(log)
  /\ \A a \in Agent, j \in 1..m.cursor :
       log[j].type \in Shows /\ log[j].agent = a => log[j].seqs \subseteq m.delivered[a]

\* The fold alone: who runs is who the log leaves open.
Folded(m) ==
  \A a \in Agent, x \in Nat \ {0} : m.running[a] = x <=> OpenAt(a, x, m.cursor)

InLoop == pc \in {"loop", "wait", "breakers", "start", "decide"}

\* The task of activation x agrees with what the log says of it.
TaskOK(x) ==
  LET t == tasks[x] IN
  /\ x \in 1..aids
  /\ DOMAIN t = {"agent", "phase", "seqs", "exc"}
  /\ t.agent \in Agent /\ t.phase \in {"spawned", "resuming", "running", "ended"}
  /\ \A i \in Seqs : log[i].type \in Acts /\ log[i].aid = x => log[i].agent = t.agent
  /\ t.phase # "ended" => ~HasFinished(x)
  /\ t.phase \in {"resuming", "running"} =>
       \E i \in Seqs : log[i].type = "started" /\ log[i].aid = x
  /\ t.phase = "spawned" =>
       /\ \A i \in Seqs : log[i].type \in Acts => log[i].aid # x
       /\ t.seqs \cap Shown(t.agent) = {}

\* An activation that has not ended is the one its agent runs, now and after
\* whatever the scheduler has still to read.
Driven(x) ==
  LET a == tasks[x].agent IN
  /\ mem.running[a] = x
  /\ \A j \in mem.cursor + 1 .. Len(log) :
       /\ Of(j, "started", a) => log[j].aid = x
       /\ ~Of(j, "finished", a)

TasksOK ==
  /\ \A x \in DOMAIN tasks : TaskOK(x) /\ (HasFinished(x) \/ Driven(x))
  /\ ~InLoop => DOMAIN tasks = {} /\ Folded(mem)
  /\ InLoop =>
       \A i \in Seqs : log[i].type = "started" =>
         HasFinished(log[i].aid) \/ log[i].aid \in DOMAIN tasks
  /\ pc \in {"breakers", "start"} =>
       \A j \in mem.cursor + 1 .. Len(log) : log[j].type \notin Acts
  /\ pc \in {"off", "boot", "resume"} \/ InLoop

IInv == LogOK /\ MemOK(mem) /\ TasksOK

-----------------------------------------------------------------------------
(* What catching up does to the memory.                                    *)

\* The memories between the first event that is read and the last one.
LEMMA CatchUpIsFold ==
  ASSUME NEW m, m.cursor \in Nat, Len(log) \in Nat, m.cursor <= Len(log)
  PROVE  \E f : /\ f[m.cursor] = m /\ CatchUp(m) = f[Len(log)]
                /\ \A n \in m.cursor + 1 .. Len(log) : f[n] = Fold(f[n - 1], n)
<1> DEFINE c == m.cursor
           Next1(f, n) == IF n = c THEN m ELSE Fold(f[n - 1], n)
           Upto(f, k) == f = [n \in c..k |-> Next1(f, n)]
           Bad == {k \in c..Len(log) : ~ \E f : Upto(f, k)}
<1>1. Bad = {}
  <2>1. SUFFICES ASSUME Bad # {} PROVE FALSE
    OBVIOUS
  <2>2. PICK k \in Bad : \A l \in Bad : k <= l
    <3>1. Bad \subseteq Nat
      OBVIOUS
    <3> QED
      BY <2>1, <3>1, LeastNatural
  <2>3. k # c
    <3> DEFINE g == [n \in c..c |-> m]
    <3>1. Upto(g, c)
      OBVIOUS
    <3> QED
      BY <2>2, <3>1
  <2>4. PICK f : Upto(f, k - 1)
    <3>1. k - 1 \in c..Len(log) /\ k - 1 \notin Bad
      BY <2>2, <2>3
    <3> QED
      BY <3>1
  <2> DEFINE g == [n \in c..k |-> IF n = k THEN Fold(f[k - 1], k) ELSE f[n]]
  <2>5. \A n \in c..k : g[n] = Next1(g, n)
    <3>1. k \in Nat /\ c \in Nat /\ c < k
      BY <2>2, <2>3
    <3>2. \A n \in c..k - 1 : f[n] = Next1(f, n)
      BY <2>4
    <3>3. \A n \in c..k : n # c => g[n - 1] = f[n - 1]
      BY <3>1
    <3> HIDE DEF g
    <3>4. \A n \in c..k : g[n] = IF n = k THEN Fold(f[k - 1], k) ELSE f[n]
      BY DEF g
    <3> QED
      BY <3>1, <3>2, <3>3, <3>4
  <2>6. Upto(g, k)
    <3>1. g = [n \in c..k |-> g[n]]
      OBVIOUS
    <3> HIDE DEF g
    <3> QED
      BY <2>5, <3>1
  <2> QED
    BY <2>2, <2>6
<1>2. \E f : Upto(f, Len(log))
  BY <1>1
<1> DEFINE h == CHOOSE f : Upto(f, Len(log))
<1>3. Upto(h, Len(log))
  BY <1>2
<1>4. CatchUp(m) = h[Len(log)]
  BY DEF CatchUp
<1> HIDE DEF h
<1>5. h[c] = m
  BY <1>3
<1>6. \A n \in c + 1 .. Len(log) : h[n] = Fold(h[n - 1], n)
  BY <1>3
<1> QED
  BY <1>4, <1>5, <1>6

\* One event, read.
Reads(m, n, e) ==
  /\ \A a \in Agent :
       /\ n.running[a] = IF e.agent # a THEN m.running[a]
                         ELSE CASE e.type = "started" -> e.aid
                                [] e.type = "finished" -> 0
                                [] OTHER -> m.running[a]
       /\ n.delivered[a] = m.delivered[a]
            \cup (IF e.type \in Shows /\ e.agent = a THEN e.seqs ELSE {})

LEMMA DeliverReads ==
  ASSUME NEW m, Sane(m), NEW a \in Agent, NEW seqs
  PROVE  LET n == Deliver(m, a, seqs)
         IN  /\ Sane(n) /\ n.running = m.running /\ n.cursor = m.cursor
             /\ \A b \in Agent : n.delivered[b] =
                  m.delivered[b] \cup (IF b = a THEN seqs ELSE {})
  BY DEF Deliver, Sane, Fields, Blank

LEMMA IngestReads ==
  ASSUME NEW m, Sane(m), NEW e, NEW i,
         e.type \in Acts => e.agent \in Agent /\ e.aid \in Nat
  PROVE  Sane(Ingest(m, e, i)) /\ Reads(m, Ingest(m, e, i), e)
<1> DEFINE n == Ingest(m, e, i)
<1> USE DEF Fields, Blank
<1>1. CASE e.type = "started"
  <2> DEFINE r == [m EXCEPT !.running[e.agent] = e.aid]
  <2>1. e.agent \in Agent /\ e.aid \in Nat
    BY <1>1 DEF Acts
  <2>2. /\ Sane(r) /\ r.delivered = m.delivered
        /\ r.running = [m.running EXCEPT ![e.agent] = e.aid]
    BY <2>1 DEF Sane
  <2>3. n = Deliver(r, e.agent, e.seqs)
    BY <1>1 DEF Ingest, IngestStart
  <2> HIDE DEF r
  <2>4. /\ Sane(n) /\ n.running = r.running
        /\ \A b \in Agent : n.delivered[b] =
             r.delivered[b] \cup (IF b = e.agent THEN e.seqs ELSE {})
    BY <2>1, <2>2, <2>3, DeliverReads
  <2> QED
    BY <1>1, <2>1, <2>2, <2>4 DEF Reads, Sane, Shows
<1>2. CASE e.type = "incoming"
  <2>1. e.agent \in Agent
    BY <1>2 DEF Acts
  <2>2. n = Deliver(m, e.agent, e.seqs)
    BY <1>2 DEF Ingest
  <2> QED
    BY <1>2, <2>1, <2>2, DeliverReads DEF Reads, Shows
<1>3. CASE e.type = "finished"
  <2>1. e.agent \in Agent
    BY <1>3 DEF Acts
  <2>2. n = Finished(m, e)
    BY <1>3 DEF Ingest
  <2>3. /\ DOMAIN n = Fields /\ n.running = [m.running EXCEPT ![e.agent] = 0]
        /\ n.delivered = m.delivered /\ n.pending = m.pending /\ n.timers = m.timers
    BY <2>2 DEF Finished, Sane
  <2> QED
    BY <1>3, <2>1, <2>3 DEF Reads, Shows, Sane
<1>4. CASE e.type \notin Acts
  <2>1. /\ DOMAIN n = Fields /\ n.running = m.running
        /\ n.delivered = m.delivered /\ n.pending = m.pending
    BY <1>4 DEF Ingest, Acts, Sane
  <2>2. IsFiniteSet(n.timers)
    <3>1. n.timers \in {m.timers, m.timers \cup {i}, m.timers \ e.seqs}
      BY <1>4 DEF Ingest, Acts, Sane
    <3>2. IsFiniteSet(m.timers)
      BY DEF Sane
    <3>3. IsFiniteSet(m.timers \cup {i})
      BY <3>2, FS_AddElement
    <3>4. IsFiniteSet(m.timers \ e.seqs)
      BY <3>2, FS_Difference
    <3> QED
      BY <3>1, <3>2, <3>3, <3>4
  <2> QED
    BY <1>4, <2>1, <2>2 DEF Reads, Shows, Sane, Acts
<1> QED
  BY <1>1, <1>2, <1>3, <1>4 DEF Acts

LEMMA FoldReads ==
  ASSUME NEW m, Sane(m), NEW i,
         log[i].type \in Acts => log[i].agent \in Agent /\ log[i].aid \in Nat
  PROVE  /\ Sane(Fold(m, i)) /\ Reads(m, Fold(m, i), log[i])
         /\ Fold(m, i).cursor = i
<1> DEFINE e == log[i]
           n == Ingest(m, e, i)
           r == AddItem(n, e, i)
<1>1. Sane(n) /\ Reads(m, n, e)
  BY IngestReads
<1>2. Fold(m, i) = [r EXCEPT !.cursor = i]
  BY DEF Fold
<1> HIDE DEF n
<1>3. Sane(r) /\ r.running = n.running /\ r.delivered = n.delivered
  BY <1>1 DEF AddItem, Sane, Fields, Blank
<1> HIDE DEF r
<1> QED
  BY <1>1, <1>2, <1>3 DEF Sane, Fields, Blank, Reads

\* Whoever is said to run is said to run after one more event of its own agent.
LEMMA FoldKeepsFolded ==
  ASSUME LogOK, NEW i \in Seqs, NEW m, NEW n, Reads(m, n, log[i]),
         Folded(m), m.cursor = i - 1, n.cursor = i
  PROVE  Folded(n)
<1> DEFINE e == log[i]
<1>0. Len(log) \in Nat /\ Seqs = 1..Len(log) /\ i \in Nat /\ i > 0
  BY SequenceIsOne DEF LogOK, EventsOK, IsSequence, Seqs
<1>1. SUFFICES ASSUME NEW a \in Agent, NEW x \in Nat \ {0}
               PROVE  n.running[a] = x <=> OpenAt(a, x, i)
  BY DEF Folded
<1>2. m.running[a] = x <=> OpenAt(a, x, i - 1)
  BY DEF Folded
<1>3. EndedBy(x, i) <=> EndedBy(x, i - 1) \/ (e.type = "finished" /\ e.aid = x)
  BY <1>0 DEF EndedBy
<1>4. CASE e.type = "started" /\ e.agent = a
  <2>1. n.running[a] = e.aid
    BY <1>4 DEF Reads
  <2>2. OpenAt(a, x, i) => x = e.aid
    <3>1. SUFFICES ASSUME NEW j \in 1..i, Of(j, "started", a), log[j].aid = x,
                          ~EndedBy(x, i), j # i
                   PROVE  FALSE
      BY <1>0, <1>4 DEF OpenAt
    <3>2. PICK k \in j..i : k < i /\ log[k].type = "finished" /\ log[k].aid = x
      BY <1>0, <1>4, <3>1 DEF LogOK, OneAtATime, Of
    <3> QED
      BY <1>0, <3>1, <3>2 DEF EndedBy
  <2>3. ~EndedBy(e.aid, i)
    BY <1>0, <1>4 DEF EndedBy, LogOK, EndIsEnd, Acts
  <2> QED
    BY <1>0, <1>4, <2>1, <2>2, <2>3 DEF OpenAt, Of
<1>5. CASE e.type = "finished" /\ e.agent = a
  <2>1. n.running[a] = 0
    BY <1>5 DEF Reads
  <2>2. SUFFICES ASSUME NEW j \in 1..i, Of(j, "started", a), log[j].aid = x,
                        ~EndedBy(x, i)
                 PROVE  FALSE
    BY <2>1 DEF OpenAt
  <2>3. j # i /\ e.aid # x
    BY <1>3, <1>5, <2>2 DEF Of
  <2>4. PICK k \in j..i : k < i /\ log[k].type = "finished" /\ log[k].aid = x
    BY <1>0, <1>5, <2>2, <2>3, SMTT(30) DEF LogOK, OneAtATime, Of
  <2> QED
    BY <1>0, <2>2, <2>4 DEF EndedBy
<1>6. CASE e.agent # a \/ e.type \notin {"started", "finished"}
  <2>1. n.running[a] = m.running[a]
    BY <1>6 DEF Reads
  <2>2. \A j \in 1..i : Of(j, "started", a) => j \in 1..i - 1
    BY <1>0, <1>6 DEF Of
  <2>3. OpenAt(a, x, i - 1) => ~(e.type = "finished" /\ e.aid = x)
    <3>1. SUFFICES ASSUME NEW j \in 1..i - 1, Of(j, "started", a), log[j].aid = x,
                          e.type = "finished", e.aid = x
                   PROVE  FALSE
      BY DEF OpenAt
    <3>2. log[j].agent = e.agent
      BY <1>0, <3>1 DEF LogOK, EventsOK, Of, Acts
    <3> QED
      BY <1>6, <3>1, <3>2 DEF Of
  <2> QED
    BY <1>0, <1>2, <1>3, <2>1, <2>2, <2>3 DEF OpenAt
<1> QED
  BY <1>4, <1>5, <1>6

\* A memory that catches up has read everything; it stays sane, it knows what was put
\* in each context, and it knows who runs.
LEMMA CatchUpReads ==
  ASSUME LogOK, NEW m, MemOK(m)
  PROVE  /\ MemOK(CatchUp(m)) /\ CatchUp(m).cursor = Len(log)
         /\ Folded(m) => Folded(CatchUp(m))
         /\ \A a \in Agent, x \in Nat :
              (/\ m.running[a] = x
               /\ \A j \in m.cursor + 1 .. Len(log) :
                    (Of(j, "started", a) => log[j].aid = x) /\ ~Of(j, "finished", a))
              => CatchUp(m).running[a] = x
<1> DEFINE c == m.cursor
<1>0. Len(log) \in Nat /\ Seqs = 1..Len(log) /\ c \in 0..Len(log)
  BY SequenceIsOne DEF LogOK, EventsOK, IsSequence, Seqs, MemOK
<1>1. PICK f : /\ f[c] = m /\ CatchUp(m) = f[Len(log)]
               /\ \A n \in c + 1 .. Len(log) : f[n] = Fold(f[n - 1], n)
  BY <1>0, CatchUpIsFold
<1> DEFINE Good(n) ==
      /\ Sane(f[n]) /\ f[n].cursor = n
      /\ \A a \in Agent, j \in 1..n :
           log[j].type \in Shows /\ log[j].agent = a => log[j].seqs \subseteq f[n].delivered[a]
      /\ Folded(m) => Folded(f[n])
      /\ \A a \in Agent, x \in Nat :
           (/\ m.running[a] = x
            /\ \A j \in c + 1 .. n :
                 (Of(j, "started", a) => log[j].aid = x) /\ ~Of(j, "finished", a))
           => f[n].running[a] = x
<1>2. Good(c)
  BY <1>0, <1>1 DEF MemOK
<1>3. ASSUME NEW n \in c + 1 .. Len(log), Good(n - 1) PROVE Good(n)
  <2>1. n \in Seqs /\ n - 1 \in Nat /\ n \in Nat
    BY <1>0
  <2>2. log[n].type \in Acts => log[n].agent \in Agent /\ log[n].aid \in Nat
    BY <2>1 DEF LogOK, EventsOK
  <2>3. Sane(f[n]) /\ Reads(f[n - 1], f[n], log[n]) /\ f[n].cursor = n
    BY <1>1, <1>3, <2>2, FoldReads
  <2>4. Folded(m) => Folded(f[n])
    BY <1>3, <2>1, <2>3, FoldKeepsFolded
  <2>5. ASSUME NEW a \in Agent, NEW j \in 1..n, log[j].type \in Shows, log[j].agent = a
        PROVE  log[j].seqs \subseteq f[n].delivered[a]
    <3>1. CASE j = n
      BY <2>3, <2>5, <3>1 DEF Reads
    <3>2. CASE j # n
      <4>1. j \in 1..n - 1
        BY <2>1, <3>2
      <4> QED
        BY <1>3, <2>3, <2>5, <4>1 DEF Reads
    <3> QED
      BY <3>1, <3>2
  <2>6. ASSUME NEW a \in Agent, NEW x \in Nat, m.running[a] = x,
               \A j \in c + 1 .. n :
                 (Of(j, "started", a) => log[j].aid = x) /\ ~Of(j, "finished", a)
        PROVE  f[n].running[a] = x
    <3>1. f[n - 1].running[a] = x
      <4>1. \A j \in c + 1 .. n - 1 : j \in c + 1 .. n
        BY <1>0, <2>1
      <4> QED
        BY <1>3, <2>6, <4>1
    <3>2. n \in c + 1 .. n
      BY <1>0
    <3>3. (Of(n, "started", a) => log[n].aid = x) /\ ~Of(n, "finished", a)
      BY <2>6, <3>2
    <3> QED
      BY <2>3, <3>1, <3>3 DEF Reads, Of
  <2> QED
    BY <2>3, <2>4, <2>5, <2>6
<1> HIDE DEF Good
<1>4. \A n \in c..Len(log) : Good(n)
  <2> DEFINE Bad == {n \in c..Len(log) : ~Good(n)}
  <2>1. SUFFICES ASSUME Bad # {} PROVE FALSE
    OBVIOUS
  <2>2. Bad \subseteq Nat
    BY <1>0
  <2>3. PICK k \in Bad : \A l \in Bad : k <= l
    BY <2>1, <2>2, LeastNatural
  <2>4. k # c
    BY <1>2
  <2>5. k - 1 \in c..Len(log) /\ k \in c + 1 .. Len(log) /\ ~(k <= k - 1)
    BY <1>0, <2>4
  <2>6. Good(k - 1)
    BY <2>3, <2>5
  <2> QED
    BY <1>3, <2>5, <2>6
<1>5. Good(Len(log))
  BY <1>0, <1>4
<1> QED
  BY <1>0, <1>1, <1>5 DEF Good, MemOK

-----------------------------------------------------------------------------
(* Steps that append nothing of an activation.                             *)

\* The log only grows.
Grows ==
  /\ IsSequence(log') /\ Len(log) \in Nat /\ Len(log') \in Nat /\ Len(log) <= Len(log')
  /\ DOMAIN log = 1..Len(log) /\ DOMAIN log' = 1..Len(log')
  /\ \A i \in 1..Len(log) : log'[i] = log[i]

GrowsQuietly ==
  Grows /\ \A i \in Len(log) + 1 .. Len(log') : log'[i].type \notin Acts

LEMMA SameLog == ASSUME LogOK, UNCHANGED log PROVE GrowsQuietly
  BY SequenceIsOne DEF LogOK, EventsOK, GrowsQuietly, Grows, IsSequence, Acts

LEMMA AppendGrows ==
  ASSUME LogOK, NEW e, Append1(e)
  PROVE  Grows /\ Len(log') = Len(log) + 1 /\ log'[Len(log) + 1] = e
  BY AppendPositions, SequenceIsOne DEF LogOK, EventsOK, Grows, Append1

LEMMA QuietAppend ==
  ASSUME LogOK, NEW e, Append1(e), e.type \notin Acts
  PROVE  GrowsQuietly
<1>1. Grows /\ Len(log') = Len(log) + 1 /\ log'[Len(log) + 1] = e
  BY AppendGrows
<1> QED
  BY <1>1 DEF GrowsQuietly, Grows

LEMMA QuietConcat ==
  ASSUME LogOK, NEW t, IsSequence(t), \A i \in 1..Len(t) : t[i].type \notin Acts,
         log' = log \o t
  PROVE  /\ GrowsQuietly
         /\ \A i \in Len(log) + 1 .. Len(log') : \E k \in 1..Len(t) : log'[i] = t[k]
<1>1. IsSequence(log) /\ DOMAIN log = 1..Len(log)
  BY SequenceIsOne DEF LogOK, EventsOK, IsSequence
<1>2. /\ IsSequence(log \o t) /\ Len(log) \in Nat /\ Len(t) \in Nat
      /\ Len(log \o t) = Len(log) + Len(t)
      /\ \A i \in 1..Len(log) : (log \o t)[i] = log[i]
      /\ \A i \in 1..Len(t) : (log \o t)[Len(log) + i] = t[i]
  BY <1>1, ConcatPositions
<1>3. /\ IsSequence(log') /\ Len(log') = Len(log) + Len(t)
      /\ \A i \in 1..Len(log) : log'[i] = log[i]
      /\ \A i \in 1..Len(t) : log'[Len(log) + i] = t[i]
  BY <1>2
<1>4. DOMAIN log' = 1..Len(log')
  BY <1>3, SequenceIsOne DEF IsSequence
<1>5. \A i \in Len(log) + 1 .. Len(log') :
        i - Len(log) \in 1..Len(t) /\ Len(log) + (i - Len(log)) = i
  BY <1>2, <1>3
<1>6. \A i \in Len(log) + 1 .. Len(log') : \E k \in 1..Len(t) : log'[i] = t[k]
  BY <1>3, <1>5
<1> QED
  BY <1>1, <1>2, <1>3, <1>4, <1>6 DEF GrowsQuietly, Grows

\* What a memory has read stays as it was.
LEMMA MemoryStays ==
  ASSUME LogOK, Grows, MemOK(mem')
  PROVE  MemOK(mem)'
  BY DEF MemOK, Grows, Sane

LEMMA QuietLogOK ==
  ASSUME LogOK, GrowsQuietly, aids' \in Nat, aids <= aids'
  PROVE  LogOK'
<1> DEFINE n == Len(log)
<1>0. /\ aids \in Nat /\ n \in Nat /\ Seqs = 1..n
      /\ \A i \in Seqs' : log'[i].type \in Acts => i \in 1..n /\ log'[i] = log[i]
  BY DEF GrowsQuietly, Grows, Seqs, LogOK, EventsOK
<1>1. EventsOK'
  BY <1>0, SMTT(30) DEF GrowsQuietly, Grows, LogOK, EventsOK
<1>2. EndIsEnd'
  BY <1>0 DEF LogOK, EndIsEnd, Acts
<1>3. OneAtATime'
  <2>1. SUFFICES ASSUME NEW i \in Seqs', NEW j \in Seqs', i < j, log'[i].type = "started",
                        log'[i].agent = log'[j].agent,
                        \/ log'[j].type = "started"
                        \/ log'[j].type = "finished" /\ log'[j].aid # log'[i].aid
                 PROVE  \E k \in i..j : k < j /\ log'[k].type = "finished"
                                              /\ log'[k].aid = log'[i].aid
    BY DEF OneAtATime
  <2>2. i \in 1..n /\ j \in 1..n /\ log'[i] = log[i] /\ log'[j] = log[j]
    BY <1>0, <2>1 DEF Acts
  <2>3. PICK k \in i..j : k < j /\ log[k].type = "finished" /\ log[k].aid = log[i].aid
    BY <1>0, <2>1, <2>2 DEF LogOK, OneAtATime
  <2>4. log'[k] = log[k]
    BY <1>0, <2>2 DEF GrowsQuietly, Grows
  <2> QED
    BY <2>2, <2>3, <2>4
<1>4. ShownOnce'
  BY <1>0 DEF LogOK, ShownOnce, Acts
<1> QED
  BY <1>1, <1>2, <1>3, <1>4 DEF LogOK

\* What the log says of activations is what it said.
LEMMA QuietFacts ==
  ASSUME LogOK, GrowsQuietly
  PROVE  /\ \A x : HasFinished(x)' <=> HasFinished(x)
         /\ \A a : Shown(a)' = Shown(a)
         /\ \A i \in Seqs' : log'[i].type \in Acts => i \in Seqs /\ log'[i] = log[i]
         /\ \A i \in Seqs : i \in Seqs' /\ log'[i] = log[i]
<1> DEFINE n == Len(log)
<1>1. \A i \in Seqs' : log'[i].type \in Acts => i \in Seqs /\ log'[i] = log[i]
  BY DEF GrowsQuietly, Grows, Seqs
<1>2. \A i \in Seqs : i \in Seqs' /\ log'[i] = log[i]
  BY DEF GrowsQuietly, Grows, Seqs
<1>3. ASSUME NEW a PROVE Shown(a)' = Shown(a)
  <2> DEFINE Now == {j \in Seqs : log[j].type \in {"started", "incoming"} /\ log[j].agent = a}
             Then == {j \in Seqs' : log'[j].type \in {"started", "incoming"}
                                     /\ log'[j].agent = a}
  <2>1. Then = Now
    BY <1>1, <1>2 DEF Acts
  <2>2. {log'[i].seqs : i \in Then} = {log[i].seqs : i \in Now}
    BY <1>2, <2>1
  <2> QED
    BY <2>2 DEF Shown
<1>4. \A x : HasFinished(x)' <=> HasFinished(x)
  BY <1>1, <1>2 DEF HasFinished, Acts
<1> QED
  BY <1>1, <1>2, <1>3, <1>4

\* Who runs, by what was read, does not depend on what came since.
LEMMA FoldedStays ==
  ASSUME LogOK, Grows, MemOK(mem'), Folded(mem')
  PROVE  Folded(mem)'
<1>1. mem'.cursor \in 0..Len(log)
  BY DEF MemOK
<1>2. \A i \in 1..mem'.cursor : log'[i] = log[i]
  BY <1>1 DEF Grows
<1>3. \A a \in Agent, x \in Nat \ {0} : OpenAt(a, x, mem.cursor)' <=> OpenAt(a, x, mem'.cursor)
  BY <1>2 DEF OpenAt, EndedBy, Of
<1> QED
  BY <1>3 DEF Folded

\* The task of activation x goes on, changes its phase or is marked.
Goes(x) ==
  /\ DOMAIN tasks'[x] = {"agent", "phase", "seqs", "exc"}
  /\ tasks'[x].agent = tasks[x].agent /\ tasks'[x].seqs = tasks[x].seqs
  /\ \/ tasks'[x].phase = tasks[x].phase
     \/ tasks'[x].phase = "ended"
     \/ tasks[x].phase = "resuming" /\ tasks'[x].phase = "running"

InLoopToo == InLoop /\ InLoop'
BeforeLoop == ~InLoop /\ pc' \in {"off", "boot", "resume"} /\ Folded(mem')

\* A step that appends nothing of an activation, and reads what it likes.
LEMMA QuietStep ==
  ASSUME IInv, GrowsQuietly, UNCHANGED aids, MemOK(mem'), mem.cursor <= mem'.cursor,
         DOMAIN tasks' = DOMAIN tasks, \A x \in DOMAIN tasks : Goes(x),
         \A x \in DOMAIN tasks : Driven(x) => mem'.running[tasks[x].agent] = x,
         InLoopToo \/ BeforeLoop,
         pc' \in {"breakers", "start"} =>
           \/ pc \in {"breakers", "start"} /\ mem'.cursor = mem.cursor
           \/ mem'.cursor = Len(log)
  PROVE  IInv'
<1>0. /\ LogOK /\ aids \in Nat /\ Grows /\ MemOK(mem) /\ Len(log) \in Nat
      /\ Seqs = 1..Len(log) /\ Seqs' = 1..Len(log')
  BY DEF IInv, LogOK, EventsOK, GrowsQuietly, Grows, Seqs
<1>1. LogOK' /\ MemOK(mem)'
  BY <1>0, QuietLogOK, MemoryStays
<1>2. /\ \A x : HasFinished(x)' <=> HasFinished(x)
      /\ \A a : Shown(a)' = Shown(a)
      /\ \A i \in Seqs' : log'[i].type \in Acts => i \in Seqs /\ log'[i] = log[i]
      /\ \A i \in Seqs : i \in Seqs' /\ log'[i] = log[i]
  BY <1>0, QuietFacts
<1>3. ASSUME NEW x \in DOMAIN tasks, TaskOK(x) PROVE TaskOK(x)'
  <2>1. Goes(x) /\ aids' = aids
    OBVIOUS
  <2>2. \A i \in Seqs' : log'[i].type \in Acts /\ log'[i].aid = x =>
          log'[i].agent = tasks'[x].agent
    BY <1>2, <1>3, <2>1 DEF TaskOK, Goes
  <2>3. tasks'[x].phase # "ended" => ~HasFinished(x)'
    BY <1>2, <1>3, <2>1 DEF TaskOK, Goes
  <2>4. tasks'[x].phase \in {"resuming", "running"} =>
          \E i \in Seqs' : log'[i].type = "started" /\ log'[i].aid = x
    BY <1>2, <1>3, <2>1 DEF TaskOK, Goes
  <2>5. tasks'[x].phase = "spawned" =>
          /\ \A i \in Seqs' : log'[i].type \in Acts => log'[i].aid # x
          /\ tasks'[x].seqs \cap Shown(tasks[x].agent)' = {}
    BY <1>2, <1>3, <2>1 DEF TaskOK, Goes
  <2> QED
    BY <1>3, <2>1, <2>2, <2>3, <2>4, <2>5 DEF TaskOK, Goes
<1>4. ASSUME NEW x \in DOMAIN tasks, Driven(x) PROVE Driven(x)'
  <2>1. mem'.running[tasks[x].agent] = x /\ tasks'[x].agent = tasks[x].agent
    BY <1>4 DEF Goes
  <2>2. \A j \in mem'.cursor + 1 .. Len(log') : log'[j].type \in Acts =>
          j \in mem.cursor + 1 .. Len(log) /\ log'[j] = log[j]
    BY <1>0, <1>2 DEF MemOK
  <2> QED
    BY <1>4, <2>1, <2>2 DEF Driven, Of, Acts
<1>5. \A x \in DOMAIN tasks' : TaskOK(x)' /\ (HasFinished(x)' \/ Driven(x)')
  BY <1>2, <1>3, <1>4 DEF IInv, TasksOK
<1>6. ~InLoop' => DOMAIN tasks' = {} /\ Folded(mem)'
  BY <1>0, FoldedStays DEF IInv, TasksOK, InLoopToo, BeforeLoop
<1>7. InLoop' => \A i \in Seqs' : log'[i].type = "started" =>
        HasFinished(log[i].aid)' \/ log'[i].aid \in DOMAIN tasks'
  <2>1. SUFFICES ASSUME InLoop', NEW i \in Seqs', log'[i].type = "started"
                 PROVE  HasFinished(log[i].aid)' \/ log'[i].aid \in DOMAIN tasks'
    OBVIOUS
  <2>2. i \in Seqs /\ log'[i] = log[i]
    BY <1>2, <2>1 DEF Acts
  <2>3. InLoop
    BY <2>1 DEF InLoopToo, BeforeLoop, InLoop
  <2>4. HasFinished(log[i].aid) \/ log[i].aid \in DOMAIN tasks
    BY <2>1, <2>2, <2>3 DEF IInv, TasksOK
  <2> QED
    BY <1>2, <2>2, <2>4 DEF HasFinished
<1>8. pc' \in {"breakers", "start"} =>
        \A j \in mem'.cursor + 1 .. Len(log') : log'[j].type \notin Acts
  <2>1. SUFFICES ASSUME pc' \in {"breakers", "start"},
                        NEW j \in mem'.cursor + 1 .. Len(log'), log'[j].type \in Acts
                 PROVE  FALSE
    OBVIOUS
  <2>2. j \in Seqs /\ log'[j] = log[j]
    BY <1>0, <1>2, <2>1 DEF MemOK
  <2> QED
    BY <1>0, <2>1, <2>2 DEF MemOK, IInv, TasksOK
<1>9. pc' \in {"off", "boot", "resume"} \/ InLoop'
  BY DEF InLoopToo, BeforeLoop
<1>10. TasksOK'
  BY <1>5, <1>6, <1>7, <1>8, <1>9 DEF TasksOK
<1> QED
  BY <1>1, <1>10 DEF IInv

\* The process ends, or dies.
LEMMA BlankStep ==
  ASSUME IInv, GrowsQuietly, UNCHANGED aids, pc' = "off", mem' = Blank, DOMAIN tasks' = {}
  PROVE  IInv'
<1>0. LogOK /\ aids \in Nat /\ Grows
  BY DEF IInv, LogOK, EventsOK, GrowsQuietly
<1>1. LogOK'
  BY <1>0, QuietLogOK
<1>2. Sane(Blank)
  BY FS_EmptySet DEF Sane, Fields, Blank
<1>3. MemOK(mem')
  BY <1>0, <1>2 DEF MemOK, Blank, Grows
<1>4. MemOK(mem)'
  BY <1>0, <1>3, MemoryStays
<1>5. Folded(mem)'
  BY DEF Folded, Blank, OpenAt
<1>6. TasksOK'
  BY <1>5 DEF TasksOK, InLoop
<1> QED
  BY <1>1, <1>4, <1>6 DEF IInv

-----------------------------------------------------------------------------
(* Steps of activations and of the scheduler that concern them.            *)

\* An agent runs one activation at a time.
LEMMA OneDriven ==
  ASSUME NEW x \in DOMAIN tasks, NEW y \in DOMAIN tasks, Driven(x), Driven(y),
         tasks[x].agent = tasks[y].agent
  PROVE  x = y
  BY DEF Driven

\* What is said in the log of an agent's other activations has ended.
LEMMA OthersEnded ==
  ASSUME IInv, InLoop, NEW x \in DOMAIN tasks, Driven(x),
         NEW i \in Seqs, Of(i, "started", tasks[x].agent), log[i].aid # x
  PROVE  \E k \in i..Len(log) : k # i /\ log[k].type = "finished" /\ log[k].aid = log[i].aid
<1>0. Len(log) \in Nat /\ Seqs = 1..Len(log)
  BY SequenceIsOne DEF IInv, LogOK, EventsOK, IsSequence, Seqs
<1>1. HasFinished(log[i].aid)
  <2>1. SUFFICES ASSUME ~HasFinished(log[i].aid) PROVE FALSE
    OBVIOUS
  <2>2. log[i].aid \in DOMAIN tasks
    BY <2>1 DEF IInv, TasksOK, Of
  <2>3. Driven(log[i].aid) /\ TaskOK(log[i].aid)
    BY <2>1, <2>2 DEF IInv, TasksOK
  <2>4. tasks[log[i].aid].agent = tasks[x].agent
    BY <2>3 DEF TaskOK, Of, Acts
  <2> QED
    BY <2>2, <2>3, <2>4, OneDriven
<1>2. PICK k \in Seqs : log[k].type = "finished" /\ log[k].aid = log[i].aid
  BY <1>1 DEF HasFinished
<1>3. ~(k < i) /\ k # i
  BY <1>2 DEF IInv, LogOK, EndIsEnd, Acts, Of
<1> QED
  BY <1>0, <1>2, <1>3

\* An event of the activation that an agent runs may be appended as long as the
\* activation has not ended, when what it shows is new and a start is the first.
LEMMA ActLogOK ==
  ASSUME IInv, pc = "wait", UNCHANGED aids,
         NEW x \in DOMAIN tasks, ~HasFinished(x), NEW e, Append1(e),
         e.type \in Acts, e.aid = x, e.agent = tasks[x].agent,
         e.type = "started" => \A i \in Seqs : log[i].type \in Acts => log[i].aid # x,
         e.type \in Shows => e.seqs \cap Shown(e.agent) = {}
  PROVE  LogOK'
<1> DEFINE n == Len(log)
<1>0. /\ Grows /\ Len(log') = n + 1 /\ log'[n + 1] = e /\ n \in Nat
      /\ Seqs = 1..n /\ Seqs' = 1..n + 1 /\ \A i \in 1..n : log'[i] = log[i]
  BY AppendGrows DEF IInv, Grows, Seqs
<1>1. TaskOK(x) /\ Driven(x) /\ LogOK
  BY DEF IInv, TasksOK
<1>2. EventsOK'
  BY <1>0, <1>1, SMTT(30) DEF LogOK, EventsOK, TaskOK, Grows
<1>3. EndIsEnd'
  <2>1. SUFFICES ASSUME NEW i \in Seqs', NEW j \in Seqs', i < j, log'[i].type = "finished",
                        log'[j].type \in Acts
                 PROVE  log'[j].aid # log'[i].aid
    BY DEF EndIsEnd
  <2>2. i \in 1..n
    BY <1>0, <2>1
  <2>3. CASE j = n + 1
    BY <1>0, <2>1, <2>2, <2>3 DEF HasFinished
  <2>4. CASE j # n + 1
    BY <1>0, <1>1, <2>1, <2>2, <2>4 DEF LogOK, EndIsEnd
  <2> QED
    BY <2>3, <2>4
<1>4. OneAtATime'
  <2>1. SUFFICES ASSUME NEW i \in Seqs', NEW j \in Seqs', i < j, log'[i].type = "started",
                        log'[i].agent = log'[j].agent,
                        \/ log'[j].type = "started"
                        \/ log'[j].type = "finished" /\ log'[j].aid # log'[i].aid
                 PROVE  \E k \in i..j : k < j /\ log'[k].type = "finished"
                                              /\ log'[k].aid = log'[i].aid
    BY DEF OneAtATime
  <2>2. i \in 1..n /\ log'[i] = log[i]
    BY <1>0, <2>1
  <2>3. CASE j = n + 1
    <3>1. log[i].aid # x /\ Of(i, "started", tasks[x].agent)
      BY <1>0, <2>1, <2>2, <2>3 DEF Of, Acts
    <3>2. PICK k \in i..n : k # i /\ log[k].type = "finished" /\ log[k].aid = log[i].aid
      BY <1>0, <1>1, <2>2, <3>1, OthersEnded DEF InLoop
    <3> QED
      BY <1>0, <2>2, <2>3, <3>2
  <2>4. CASE j # n + 1
    <3>1. j \in 1..n /\ log'[j] = log[j]
      BY <1>0, <2>4
    <3>2. PICK k \in i..j : k < j /\ log[k].type = "finished" /\ log[k].aid = log[i].aid
      BY <1>0, <1>1, <2>1, <2>2, <3>1 DEF LogOK, OneAtATime
    <3> QED
      BY <1>0, <2>2, <3>1, <3>2
  <2> QED
    BY <2>3, <2>4
<1>5. ShownOnce'
  <2>1. SUFFICES ASSUME NEW i \in Seqs', NEW j \in Seqs', i < j, log'[i].agent = log'[j].agent,
                        log'[i].type \in Shows, log'[j].type \in Shows
                 PROVE  log'[i].seqs \cap log'[j].seqs = {}
    BY DEF ShownOnce, Shows
  <2>2. i \in 1..n /\ log'[i] = log[i]
    BY <1>0, <2>1
  <2>3. CASE j = n + 1
    <3>1. log[i].seqs \subseteq Shown(e.agent)
      BY <1>0, <2>1, <2>2, <2>3 DEF Shown, Shows
    <3> QED
      BY <1>0, <2>1, <2>2, <2>3, <3>1
  <2>4. CASE j # n + 1
    BY <1>0, <1>1, <2>1, <2>2, <2>4 DEF LogOK, ShownOnce, Shows
  <2> QED
    BY <2>3, <2>4
<1> QED
  BY <1>2, <1>3, <1>4, <1>5 DEF LogOK

\* What such an event leaves as it was for the other tasks.
LEMMA OtherTasks ==
  ASSUME IInv, pc = "wait", UNCHANGED aids,
         NEW x \in DOMAIN tasks, ~HasFinished(x), NEW e, Append1(e),
         e.type \in Acts, e.aid = x, e.agent = tasks[x].agent,
         NEW y \in DOMAIN tasks, y # x, y \in DOMAIN tasks', tasks'[y] = tasks[y],
         mem.cursor <= mem'.cursor, mem'.cursor \in Nat,
         Driven(y) => mem'.running[tasks[y].agent] = y
  PROVE  TaskOK(y)' /\ (HasFinished(y)' \/ Driven(y)')
<1> DEFINE n == Len(log)
<1>0. /\ Grows /\ Len(log') = n + 1 /\ log'[n + 1] = e /\ n \in Nat /\ mem.cursor \in Nat
      /\ Seqs = 1..n /\ Seqs' = 1..n + 1 /\ \A i \in 1..n : log'[i] = log[i]
  BY AppendGrows DEF IInv, Grows, Seqs, MemOK
<1>1. TaskOK(x) /\ Driven(x) /\ LogOK /\ TaskOK(y) /\ (HasFinished(y) \/ Driven(y))
  BY DEF IInv, TasksOK
<1>2. HasFinished(y)' <=> HasFinished(y)
  BY <1>0 DEF HasFinished
<1>3. Driven(y) => tasks[y].agent # tasks[x].agent
  BY <1>1, OneDriven
<1>4. Driven(y) => Driven(y)'
  <2>1. SUFFICES ASSUME Driven(y) PROVE Driven(y)'
    OBVIOUS
  <2>2. \A j \in mem'.cursor + 1 .. Len(log') : log'[j].agent = tasks[y].agent =>
          j \in mem.cursor + 1 .. Len(log) /\ log'[j] = log[j]
    BY <1>0, <1>3, <2>1
  <2> QED
    BY <2>1, <2>2 DEF Driven, Of
<1>5. tasks[y].phase = "spawned" => Shown(tasks[y].agent)' = Shown(tasks[y].agent)
  <2>1. SUFFICES ASSUME tasks[y].phase = "spawned"
                 PROVE  Shown(tasks[y].agent)' = Shown(tasks[y].agent)
    OBVIOUS
  <2> DEFINE a == tasks[y].agent
             Now == {j \in Seqs : log[j].type \in {"started", "incoming"} /\ log[j].agent = a}
  <2>2. tasks[y].agent # tasks[x].agent
    BY <1>1, <1>3, <2>1 DEF TaskOK
  <2>3. {j \in Seqs' : log'[j].type \in {"started", "incoming"}
                        /\ log'[j].agent = tasks'[y].agent} = Now
    BY <1>0, <2>2
  <2>4. {log'[i].seqs : i \in Now} = {log[i].seqs : i \in Now}
    BY <1>0
  <2> QED
    BY <2>3, <2>4 DEF Shown
<1>6. TaskOK(y)'
  <2>1. \A i \in Seqs' : log'[i].type \in Acts /\ log'[i].aid = y => i \in Seqs /\ log'[i] = log[i]
    BY <1>0
  <2>2. \A i \in Seqs : i \in Seqs' /\ log'[i] = log[i]
    BY <1>0
  <2>3. tasks'[y].phase = "spawned" =>
          tasks'[y].seqs \cap Shown(tasks[y].agent)' = {}
    BY <1>1, <1>5 DEF TaskOK
  <2> QED
    BY <1>1, <1>2, <2>1, <2>2, <2>3 DEF TaskOK
<1> QED
  BY <1>1, <1>2, <1>4, <1>6

\* The activation records its start, what it was handed, or its end.
LEMMA ActStep ==
  ASSUME IInv, pc = "wait", UNCHANGED <<pc, aids>>,
         NEW x \in DOMAIN tasks, ~HasFinished(x), NEW e, Append1(e),
         e.type \in Acts, e.aid = x, e.agent = tasks[x].agent,
         e.type = "started" => \A i \in Seqs : log[i].type \in Acts => log[i].aid # x,
         e.type = "incoming" => tasks[x].phase = "running",
         e.type \in Shows => e.seqs \cap Shown(e.agent) = {},
         MemOK(mem'), mem.cursor <= mem'.cursor,
         \A y \in DOMAIN tasks : Driven(y) => mem'.running[tasks[y].agent] = y,
         \A y \in DOMAIN tasks : y # x => y \in DOMAIN tasks' /\ tasks'[y] = tasks[y],
         DOMAIN tasks' \subseteq DOMAIN tasks,
         x \notin DOMAIN tasks' => e.type = "finished",
         x \in DOMAIN tasks' =>
           /\ DOMAIN tasks'[x] = {"agent", "phase", "seqs", "exc"}
           /\ tasks'[x].agent = tasks[x].agent
           /\ tasks'[x].phase = IF e.type = "finished" THEN "ended" ELSE "running"
  PROVE  IInv'
<1> DEFINE n == Len(log)
<1>0. /\ Grows /\ Len(log') = n + 1 /\ log'[n + 1] = e /\ n \in Nat
      /\ mem.cursor \in 0..n /\ mem'.cursor \in 0..n
      /\ Seqs = 1..n /\ Seqs' = 1..n + 1 /\ \A i \in 1..n : log'[i] = log[i]
  BY AppendGrows DEF IInv, Grows, Seqs, MemOK
<1>1. TaskOK(x) /\ Driven(x) /\ LogOK
  BY DEF IInv, TasksOK
<1>2. LogOK' /\ MemOK(mem)'
  BY <1>0, <1>1, ActLogOK, MemoryStays
<1>3. ASSUME NEW y \in DOMAIN tasks', y # x
      PROVE  TaskOK(y)' /\ (HasFinished(y)' \/ Driven(y)')
  BY <1>0, <1>3, OtherTasks
<1>4. ASSUME x \in DOMAIN tasks' PROVE TaskOK(x)' /\ (HasFinished(x)' \/ Driven(x)')
  <2>1. \A i \in Seqs' : log'[i].type \in Acts /\ log'[i].aid = x =>
          log'[i].agent = tasks'[x].agent
    BY <1>0, <1>1, <1>4 DEF TaskOK
  <2>2. CASE e.type = "finished"
    <3>1. HasFinished(x)'
      BY <1>0, <2>2 DEF HasFinished
    <3> QED
      BY <1>1, <1>4, <2>1, <2>2, <3>1 DEF TaskOK
  <2>3. CASE e.type # "finished"
    <3>1. ~HasFinished(x)'
      BY <1>0, <2>3 DEF HasFinished
    <3>2. \E i \in Seqs' : log'[i].type = "started" /\ log'[i].aid = x
      <4>1. CASE e.type = "started"
        BY <1>0, <4>1
      <4>2. CASE e.type = "incoming"
        BY <1>0, <1>1, <4>2 DEF TaskOK
      <4> QED
        BY <2>3, <4>1, <4>2 DEF Acts
    <3>3. TaskOK(x)'
      BY <1>1, <1>4, <2>1, <2>3, <3>1, <3>2 DEF TaskOK
    <3>4. \A j \in mem'.cursor + 1 .. Len(log') :
            j = n + 1 \/ (j \in mem.cursor + 1 .. Len(log) /\ log'[j] = log[j])
      BY <1>0
    <3>5. Driven(x)'
      BY <1>0, <1>1, <1>4, <2>3, <3>4, SMTT(30) DEF Driven, Of
    <3> QED
      BY <3>3, <3>5
  <2> QED
    BY <2>2, <2>3
<1>5. \A i \in Seqs' : log'[i].type = "started" =>
        HasFinished(log[i].aid)' \/ log'[i].aid \in DOMAIN tasks'
  <2>1. SUFFICES ASSUME NEW i \in Seqs', log'[i].type = "started"
                 PROVE  HasFinished(log[i].aid)' \/ log'[i].aid \in DOMAIN tasks'
    OBVIOUS
  <2>2. CASE log'[i].aid = x
    <3>1. e.type = "finished" => HasFinished(x)'
      BY <1>0 DEF HasFinished
    <3> QED
      BY <2>2, <3>1 DEF HasFinished
  <2>3. CASE log'[i].aid # x
    <3>1. i \in Seqs /\ log'[i] = log[i]
      BY <1>0, <2>3
    <3>2. HasFinished(log[i].aid) \/ log[i].aid \in DOMAIN tasks
      BY <2>1, <3>1 DEF IInv, TasksOK, InLoop
    <3>3. HasFinished(log[i].aid) => HasFinished(log[i].aid)'
      BY <1>0, <3>1 DEF HasFinished
    <3> QED
      BY <2>3, <3>1, <3>2, <3>3
  <2> QED
    BY <2>2, <2>3
<1>6. TasksOK'
  BY <1>3, <1>4, <1>5 DEF TasksOK, InLoop
<1> QED
  BY <1>2, <1>6 DEF IInv

\* The memory of the scheduler once it has caught up, or has not moved.
LEMMA CaughtUp ==
  ASSUME IInv
  PROVE  /\ MemOK(CatchUp(mem)) /\ CatchUp(mem).cursor = Len(log)
         /\ mem.cursor <= Len(log)
         /\ Folded(mem) => Folded(CatchUp(mem))
         /\ \A x \in DOMAIN tasks : Driven(x) =>
              CatchUp(mem).running[tasks[x].agent] = x
<1>1. /\ MemOK(CatchUp(mem)) /\ CatchUp(mem).cursor = Len(log)
      /\ Folded(mem) => Folded(CatchUp(mem))
      /\ \A a \in Agent, x \in Nat :
           (/\ mem.running[a] = x
            /\ \A j \in mem.cursor + 1 .. Len(log) :
                 (Of(j, "started", a) => log[j].aid = x) /\ ~Of(j, "finished", a))
           => CatchUp(mem).running[a] = x
  BY CatchUpReads DEF IInv
<1>2. mem.cursor <= Len(log)
  BY SequenceIsOne DEF IInv, LogOK, EventsOK, IsSequence, MemOK
<1>3. ASSUME NEW x \in DOMAIN tasks, Driven(x)
      PROVE  CatchUp(mem).running[tasks[x].agent] = x
  <2>1. tasks[x].agent \in Agent /\ x \in Nat
    BY DEF IInv, TasksOK, TaskOK
  <2> QED
    BY <1>1, <1>3, <2>1 DEF Driven
<1> QED
  BY <1>1, <1>2, <1>3

\* What the scheduler decides between two folds changes neither what it knows of who
\* runs nor of what was delivered.
Kept(m, n) ==
  /\ DOMAIN n = DOMAIN m /\ n.cursor = m.cursor /\ n.running = m.running
  /\ n.delivered = m.delivered /\ n.timers = m.timers
  /\ DOMAIN n.pending = DOMAIN m.pending
  /\ \A a \in Agent : n.pending[a] \subseteq m.pending[a]

\* Nor what it has counted, and what it takes back need not be shown now: a continue item,
\* or one that is void.
Decides(m, n) ==
  /\ Kept(m, n) /\ n.errors = m.errors /\ n.handoffs = m.handoffs /\ n.faulted = m.faulted
  /\ m.stopRequested => n.stopRequested
  /\ \A a \in Agent : \A i \in m.pending[a] \ n.pending[a] :
       Kind(i) = "continue" \/ ~Relevant(i, m.cursor)

LEMMA KeptIsOK == ASSUME NEW m, MemOK(m), NEW n, Kept(m, n) PROVE MemOK(n)
<1>1. Sane(m)
  BY DEF MemOK
<1>2. Sane(n)
  BY <1>1 DEF Sane, Kept
<1> QED
  BY <1>2 DEF MemOK, Kept

LEMMA DecidesNothing == ASSUME NEW m PROVE Decides(m, m)
  BY DEF Decides, Kept

LEMMA DecidesTwice ==
  ASSUME NEW m, NEW n, NEW o, Decides(m, n), Decides(n, o)
  PROVE  Decides(m, o)
<1>1. Kept(m, o) /\ n.cursor = m.cursor
  BY DEF Decides, Kept
<1>2. ASSUME NEW a \in Agent, NEW i \in m.pending[a] \ o.pending[a]
      PROVE  Kind(i) = "continue" \/ ~Relevant(i, m.cursor)
  <2>1. i \in m.pending[a] \ n.pending[a] \/ i \in n.pending[a] \ o.pending[a]
    OBVIOUS
  <2> QED
    BY <1>1, <2>1 DEF Decides
<1> QED
  BY <1>1, <1>2 DEF Decides

LEMMA PruneDecides ==
  ASSUME NEW m, Sane(m), NEW as
  PROVE  Decides(m, Prune(m, as))
<1> DEFINE n == Prune(m, as)
           kept == [a \in Agent |-> IF a \in as THEN Live(m, a) ELSE m.pending[a]]
<1>1. n = [m EXCEPT !.pending = kept] /\ DOMAIN m = Fields
  BY DEF Prune, Sane
<1>2. /\ DOMAIN kept = Agent
      /\ \A a \in Agent : kept[a] \subseteq m.pending[a]
      /\ \A a \in Agent : \A i \in m.pending[a] \ kept[a] : ~Relevant(i, m.cursor)
  BY DEF Live
<1> HIDE DEF n, kept
<1>3. /\ DOMAIN n = DOMAIN m /\ n.pending = kept /\ n.cursor = m.cursor
      /\ n.running = m.running /\ n.delivered = m.delivered /\ n.timers = m.timers
      /\ n.errors = m.errors /\ n.handoffs = m.handoffs /\ n.faulted = m.faulted
      /\ n.stopRequested = m.stopRequested
  BY <1>1 DEF Fields, Blank
<1>4. Decides(m, n)
  BY <1>2, <1>3 DEF Decides, Kept, Sane
<1> QED
  BY <1>4 DEF n

LEMMA DropDecides ==
  ASSUME NEW m, Sane(m), NEW b
  PROVE  Decides(m, [m EXCEPT !.pending[b] = @ \ Dropped(m, b)])
<1>1. \A i \in Dropped(m, b) : Kind(i) = "continue"
  BY DEF Dropped
<1> QED
  BY <1>1 DEF Decides, Kept, Sane, Fields, Blank

\* The breakers change no count, and no item but what is void of an agent that may start.
LEMMA CheckDecides ==
  ASSUME IInv, CheckBreakers
  PROVE  /\ pc = "breakers" /\ pc' = "start" /\ UNCHANGED <<tasks, aids>>
         /\ Decides(mem, mem')
         /\ UNCHANGED log \/ \E kind : Append1(Plain("breaker_tripped", kind))
<1>1. pc = "breakers" /\ pc' = "start" /\ UNCHANGED <<tasks, aids>>
  BY DEF CheckBreakers
<1>2. Sane(mem)
  BY DEF IInv, MemOK
<1>3. PICK kind \in Trips(mem) :
        IF kind = "no"
          THEN LET m == [mem EXCEPT !.chat = IF @ > StormLimit /\ mem.paused = "no"
                                               THEN 0 ELSE @]
               IN  mem' = Prune(m, Startable(m)) /\ UNCHANGED log
          ELSE /\ Append1(Plain("breaker_tripped", kind))
               /\ mem' = [mem EXCEPT !.paused = kind,
                                     !.stopRequested = @ \/ EndsRun(kind)]
  BY DEF CheckBreakers
<1>4. CASE kind = "no"
  <2> DEFINE m == [mem EXCEPT !.chat = IF @ > StormLimit /\ mem.paused = "no" THEN 0 ELSE @]
  <2>1. mem' = Prune(m, Startable(m)) /\ UNCHANGED log
    BY <1>3, <1>4
  <2>2. Decides(mem, m) /\ Sane(m)
    BY <1>2 DEF Decides, Kept, Sane, Fields, Blank
  <2> HIDE DEF m
  <2>3. Decides(m, mem')
    BY <2>1, <2>2, PruneDecides
  <2> QED
    BY <1>1, <2>1, <2>2, <2>3, DecidesTwice
<1>5. CASE kind # "no"
  <2>1. /\ Append1(Plain("breaker_tripped", kind))
        /\ mem' = [mem EXCEPT !.paused = kind, !.stopRequested = @ \/ EndsRun(kind)]
    BY <1>3, <1>5
  <2>2. Decides(mem, mem')
    BY <1>2, <2>1 DEF Decides, Kept, Sane, Fields, Blank
  <2> QED
    BY <1>1, <2>1, <2>2
<1> QED
  BY <1>4, <1>5

LEMMA LogDecides ==
  ASSUME IInv, LogQuiescent
  PROVE  /\ pc = "decide" /\ pc' = "decide" /\ UNCHANGED <<tasks, aids>>
         /\ Append1(Plain("quiescent", "")) /\ Decides(mem, mem')
<1>1. /\ pc = "decide" /\ pc' = "decide" /\ UNCHANGED <<tasks, aids>>
      /\ Append1(Plain("quiescent", "")) /\ mem' = [mem EXCEPT !.logged = TRUE]
  BY DEF LogQuiescent
<1>2. Decides(mem, mem')
  BY <1>1 DEF Decides, Kept, IInv, MemOK, Sane, Fields, Blank
<1> QED
  BY <1>1, <1>2

\* An activation's poll reads, decides for its agent, and hands it what wakes it or says
\* that it dropped the agent's continue items.
LEMMA PollDecides ==
  ASSUME IInv, NEW x, Poll(x) \/ PollDrops(x)
  PROVE  LET a == tasks[x].agent IN
         /\ x \in DOMAIN tasks /\ pc = "wait" /\ tasks[x].phase = "running"
         /\ UNCHANGED <<pc, tasks, aids>>
         /\ \/ /\ Decides(CatchUp(mem), mem')
               /\ UNCHANGED log \/ Append1(Event("handoff_limit", a, "", 0, {}))
            \/ \E m, items :
                 /\ Decides(CatchUp(mem), m) /\ items \subseteq m.pending[a]
                 /\ mem' = Deliver(m, a, items)
                 /\ Append1(Event("incoming", a, "", x, items))
<1> DEFINE a == tasks[x].agent
           m == Prune(CatchUp(mem), {a})
           items == {i \in Waking(m, a) : Kind(i) \notin {"continue", "retry", "timer"}}
<1>1. /\ x \in DOMAIN tasks /\ pc = "wait" /\ tasks[x].phase = "running"
      /\ UNCHANGED <<pc, tasks, aids>>
  BY DEF Poll, PollDrops, Running, Phase
<1>2. Sane(CatchUp(mem))
  BY CaughtUp DEF MemOK
<1>3. Decides(CatchUp(mem), m)
  BY <1>2, PruneDecides
<1>4. CASE Poll(x)
  <2>1. \/ mem' = m /\ UNCHANGED log
        \/ mem' = Deliver(m, a, items) /\ Append1(Event("incoming", a, "", x, items))
    BY <1>4 DEF Poll
  <2>2. items \subseteq m.pending[a]
    BY DEF Waking, Live
  <2> HIDE DEF m, items
  <2> QED
    BY <1>1, <1>3, <2>1, <2>2
<1>5. CASE PollDrops(x)
  <2>1. /\ mem' = [m EXCEPT !.pending[a] = @ \ Dropped(m, a)]
        /\ Append1(Event("handoff_limit", a, "", 0, {}))
    BY <1>5 DEF PollDrops
  <2> HIDE DEF m
  <2>2. Sane(m)
    <3>1. MemOK(CatchUp(mem))
      BY CaughtUp
    <3> QED
      BY <1>3, <3>1, KeptIsOK DEF Decides, MemOK
  <2>3. Decides(m, mem')
    BY <2>1, <2>2, DropDecides
  <2> QED
    BY <1>1, <1>3, <2>1, <2>3, DecidesTwice
<1> QED
  BY <1>4, <1>5

\* Other processes only append, and no event of an activation.
LEMMA EnvironmentAppends ==
  ASSUME Environment
  PROVE  \E e : /\ Append1(e) /\ UNCHANGED <<pc, mem, tasks, aids>>
                /\ e.type \in {"message", "task_assigned", "task_closed", "agent_reset",
                               "stop_requested", "breaker_reset"}
                /\ e.type = "agent_reset" => e.what = ""
<1> DEFINE Other(e) ==
      /\ e.type \in {"message", "task_assigned", "task_closed", "agent_reset",
                     "stop_requested", "breaker_reset"}
      /\ e.type = "agent_reset" => e.what = ""
<1> SUFFICES \E e : Append1(e) /\ UNCHANGED <<pc, mem, tasks, aids>> /\ Other(e)
  OBVIOUS
<1>1. \A a, what : /\ Other(Event("message", a, what, 0, {}))
                   /\ Other(Event("task_assigned", a, what, 0, {}))
                   /\ Other(Event("task_closed", a, what, 0, {}))
                   /\ Other(Event("agent_reset", a, "", 0, {}))
  BY DEF Event
<1>2. Other(Plain("stop_requested", "")) /\ Other(Plain("breaker_reset", ""))
  BY DEF Plain, Event
<1> HIDE DEF Other
<1>3. ASSUME NEW a \in Agent, Post(a, "dm") \/ Post(a, "room") \/ ResetAgent(a)
      PROVE  \E e : Append1(e) /\ UNCHANGED <<pc, mem, tasks, aids>> /\ Other(e)
  BY <1>1, <1>3 DEF Post, ResetAgent, Outside
<1>4. ASSUME NEW t \in BoardTask, (\E a \in Agent : AssignTask(a, t)) \/ CloseTask(t)
      PROVE  \E e : Append1(e) /\ UNCHANGED <<pc, mem, tasks, aids>> /\ Other(e)
  BY <1>1, <1>4 DEF AssignTask, CloseTask, Outside
<1>5. ASSUME NEW t \in BoardTask, ReopenTask(t)
      PROVE  \E e : Append1(e) /\ UNCHANGED <<pc, mem, tasks, aids>> /\ Other(e)
  BY <1>1, <1>5 DEF ReopenTask
<1>6. CASE RequestStop \/ ResetBreaker
  BY <1>2, <1>6 DEF RequestStop, ResetBreaker, Outside
<1> QED
  BY <1>3, <1>4, <1>5, <1>6 DEF Environment

LEMMA BeginKeeps ==
  ASSUME IInv, NEW x \in 1..MaxActivations, Begin(x)
  PROVE  IInv'
<1> DEFINE e == Event("started", tasks[x].agent, "", x, tasks[x].seqs)
<1>1. /\ x \in DOMAIN tasks /\ pc = "wait" /\ tasks[x].phase = "spawned"
      /\ tasks' = [tasks EXCEPT ![x].phase = "running"]
      /\ Append1(e) /\ UNCHANGED <<pc, mem, aids>>
  BY DEF Begin, Phase
<1>2. TaskOK(x) /\ ~HasFinished(x)
  BY <1>1 DEF IInv, TasksOK, TaskOK
<1>3. MemOK(mem') /\ mem.cursor <= mem'.cursor
  <2>1. mem' = mem /\ MemOK(mem) /\ Len(log) \in Nat
    BY <1>1, SequenceIsOne DEF IInv, LogOK, EventsOK, IsSequence
  <2> QED
    BY <2>1 DEF MemOK
<1>4. e.type = "started" /\ e.aid = x /\ e.agent = tasks[x].agent /\ e.seqs = tasks[x].seqs
  BY DEF Event
<1> HIDE DEF e
<1>5. \A y \in DOMAIN tasks : Driven(y) => mem'.running[tasks[y].agent] = y
  BY <1>1 DEF Driven
<1>6. /\ DOMAIN tasks' = DOMAIN tasks /\ tasks'[x].phase = "running"
      /\ DOMAIN tasks'[x] = {"agent", "phase", "seqs", "exc"}
      /\ tasks'[x].agent = tasks[x].agent
      /\ \A y \in DOMAIN tasks : y # x => tasks'[y] = tasks[y]
  BY <1>1, <1>2 DEF TaskOK
<1> QED
  BY <1>1, <1>2, <1>3, <1>4, <1>5, <1>6, ActStep DEF Acts, TaskOK

\* The end of an activation, written by the harness or by the done callback.
LEMMA EndKeeps ==
  ASSUME IInv, NEW x \in DOMAIN tasks, pc = "wait", ~HasFinished(x), NEW what, NEW exc,
         Append1(Event("finished", tasks[x].agent, what, x, {})), UNCHANGED <<pc, mem, aids>>,
         EndTask(x, exc) \/ tasks' = [y \in DOMAIN tasks \ {x} |-> tasks[y]]
  PROVE  IInv'
<1> DEFINE e == Event("finished", tasks[x].agent, what, x, {})
<1>2. TaskOK(x)
  BY DEF IInv, TasksOK
<1>3. MemOK(mem') /\ mem.cursor <= mem'.cursor
  BY SequenceIsOne DEF IInv, MemOK, LogOK, EventsOK, IsSequence
<1>4. e.type = "finished" /\ e.aid = x /\ e.agent = tasks[x].agent
  BY DEF Event
<1>5. Append1(e)
  OBVIOUS
<1> HIDE DEF e
<1>6. \A y \in DOMAIN tasks : Driven(y) => mem'.running[tasks[y].agent] = y
  BY DEF Driven
<1>7. /\ DOMAIN tasks' \subseteq DOMAIN tasks
      /\ \A y \in DOMAIN tasks : y # x => y \in DOMAIN tasks' /\ tasks'[y] = tasks[y]
      /\ x \in DOMAIN tasks' =>
           /\ DOMAIN tasks'[x] = {"agent", "phase", "seqs", "exc"}
           /\ tasks'[x].agent = tasks[x].agent /\ tasks'[x].phase = "ended"
  BY <1>2 DEF TaskOK, EndTask
<1> QED
  BY <1>3, <1>4, <1>5, <1>6, <1>7, ActStep DEF Acts, Shows

\* The done callback finds that the activation has recorded its end.
LEMMA DoneKeeps ==
  ASSUME IInv, NEW x \in 1..MaxActivations, Done(x)
  PROVE  IInv'
<1>1. x \in DOMAIN tasks /\ pc = "wait" /\ tasks' = [y \in DOMAIN tasks \ {x} |-> tasks[y]]
      /\ UNCHANGED <<pc, mem, aids>>
  BY DEF Done, Phase
<1>2. CASE ~HasFinished(x)
  <2>1. Append1(Event("finished", tasks[x].agent, tasks[x].exc, x, {}))
    BY <1>2 DEF Done
  <2> QED
    BY <1>1, <1>2, <2>1, EndKeeps
<1>3. CASE HasFinished(x)
  <2>1. UNCHANGED log
    BY <1>3 DEF Done
  <2>2. LogOK' /\ MemOK(mem)'
    <3>1. LogOK /\ MemOK(mem) /\ aids \in Nat
      BY DEF IInv, LogOK, EventsOK
    <3>2. LogOK'
      BY <1>1, <2>1, <3>1, SameLog, QuietLogOK
    <3> QED
      BY <1>1, <2>1, <3>1, <3>2 DEF MemOK, Sane
  <2>3. \A y \in DOMAIN tasks' : /\ y \in DOMAIN tasks /\ tasks'[y] = tasks[y]
                                 /\ TaskOK(y) /\ (HasFinished(y) \/ Driven(y))
    BY <1>1 DEF IInv, TasksOK
  <2>4. \A y \in DOMAIN tasks' : TaskOK(y)' /\ (HasFinished(y)' \/ Driven(y)')
    BY <1>1, <2>1, <2>3 DEF TaskOK, HasFinished, Driven, Of, Shown, Seqs
  <2>5. \A i \in Seqs' : log'[i].type = "started" =>
          HasFinished(log[i].aid)' \/ log'[i].aid \in DOMAIN tasks'
    <3>1. \A i \in Seqs : log[i].type = "started" =>
            HasFinished(log[i].aid) \/ log[i].aid \in DOMAIN tasks
      BY <1>1 DEF IInv, TasksOK, InLoop
    <3> QED
      BY <1>1, <1>3, <2>1, <3>1 DEF HasFinished, Seqs
  <2>6. TasksOK'
    BY <1>1, <2>4, <2>5 DEF TasksOK, InLoop
  <2> QED
    BY <2>2, <2>6 DEF IInv
<1> QED
  BY <1>2, <1>3

\* A new activation: its items are neither shown nor handed to another one.
LEMMA StartKeeps ==
  ASSUME IInv, NEW a \in Agent, Start(a)
  PROVE  IInv'
<1>0. PICK new : new = aids + 1
  OBVIOUS
<1> DEFINE items == Live(mem, a)
           m == [mem EXCEPT !.running[a] = new]
<1>1. /\ pc = "start" /\ mem.running[a] = 0 /\ UNCHANGED <<log, pc>> /\ aids' = new
      /\ aids' = aids + 1 /\ mem' = Deliver(m, a, items)
      /\ tasks' = [x \in DOMAIN tasks \cup {new} |->
                     IF x = new THEN Task(a, "spawned", items) ELSE tasks[x]]
  BY <1>0 DEF Start, MayStart, Candidates
<1>2. LogOK /\ MemOK(mem) /\ aids \in Nat /\ new = aids + 1 /\ Seqs = 1..Len(log) /\ Len(log) \in Nat
  BY <1>0, SequenceIsOne DEF IInv, LogOK, EventsOK, IsSequence, Seqs
<1>3. /\ Sane(m) /\ m.delivered = mem.delivered /\ m.pending = mem.pending
      /\ m.running = [mem.running EXCEPT ![a] = new] /\ m.cursor = mem.cursor
  BY <1>2 DEF MemOK, Sane, Fields, Blank
<1>4. items \subseteq mem.pending[a]
  BY DEF Live
<1> HIDE DEF m, items
<1>5. /\ Sane(mem') /\ mem'.cursor = mem.cursor /\ mem'.running = [mem.running EXCEPT ![a] = new]
      /\ \A b \in Agent : mem.delivered[b] \subseteq mem'.delivered[b]
  BY <1>1, <1>3, DeliverReads
<1>6. LogOK'
  BY <1>1, <1>2, SameLog, QuietLogOK
<1>7. MemOK(mem)'
  BY <1>1, <1>2, <1>5 DEF MemOK, Sane
<1>8. \A j \in Seqs : log[j].type \in Acts => j \in 1..mem.cursor /\ log[j].aid # new
  <2>1. \A j \in mem.cursor + 1 .. Len(log) : log[j].type \notin Acts
    BY <1>1 DEF IInv, TasksOK
  <2>2. \A j \in Seqs : log[j].type \in Acts => log[j].aid \in 1..aids
    BY <1>2 DEF LogOK, EventsOK
  <2> QED
    BY <1>2, <2>1, <2>2 DEF MemOK
<1>9. items \cap Shown(a) = {}
  <2>1. Shown(a) \subseteq mem.delivered[a]
    BY <1>2, <1>8 DEF Shown, MemOK, Shows, Acts
  <2> QED
    BY <1>2, <1>4, <2>1 DEF MemOK, Sane
<1>10. \A b : Shown(b)' = Shown(b)
  BY <1>1 DEF Shown, Seqs
<1>11. \A x : HasFinished(x)' <=> HasFinished(x)
  BY <1>1 DEF HasFinished, Seqs
<1>12. TaskOK(new)' /\ Driven(new)'
  <2>1. /\ tasks'[new].agent = a /\ tasks'[new].phase = "spawned" /\ tasks'[new].seqs = items
        /\ DOMAIN tasks'[new] = {"agent", "phase", "seqs", "exc"}
    BY <1>1 DEF Task
  <2>2. ~HasFinished(new)
    BY <1>8 DEF HasFinished, Acts
  <2>3. TaskOK(new)'
    <3>1. new \in 1..new
      BY <1>2
    <3>2. tasks'[new].seqs \cap Shown(a)' = {}
      BY <1>9, <1>10, <2>1
    <3> QED
      BY <1>1, <1>8, <1>11, <2>1, <2>2, <3>1, <3>2 DEF TaskOK, Seqs
  <2>4. mem'.running[a] = new
    BY <1>2, <1>5 DEF MemOK, Sane
  <2>5. \A j \in mem.cursor + 1 .. Len(log) : log[j].type \notin Acts
    BY <1>1 DEF IInv, TasksOK
  <2> QED
    BY <1>1, <1>5, <2>1, <2>3, <2>4, <2>5 DEF Driven, Of, Acts, Seqs
<1>13. ASSUME NEW y \in DOMAIN tasks PROVE TaskOK(y)' /\ (HasFinished(y)' \/ Driven(y)')
  <2>1. TaskOK(y) /\ (HasFinished(y) \/ Driven(y)) /\ y # new /\ y # 0
    BY <1>2 DEF IInv, TasksOK, TaskOK
  <2>2. tasks'[y] = tasks[y]
    BY <1>1, <2>1
  <2>3. TaskOK(y)'
    <3>1. y \in 1..aids'
      BY <1>1, <1>2, <2>1 DEF TaskOK, Seqs
    <3> QED
      BY <1>1, <1>10, <1>11, <2>1, <2>2, <3>1 DEF TaskOK, Seqs
  <2>4. Driven(y) => Driven(y)'
    <3>1. SUFFICES ASSUME Driven(y) PROVE Driven(y)'
      OBVIOUS
    <3>2. tasks[y].agent \in Agent /\ tasks[y].agent # a
      BY <1>1, <2>1, <3>1 DEF Driven, TaskOK
    <3>3. mem'.running[tasks[y].agent] = y
      BY <1>2, <1>5, <3>1, <3>2 DEF Driven, MemOK, Sane
    <3> QED
      BY <1>1, <1>5, <2>2, <3>1, <3>3 DEF Driven, Of
  <2> QED
    BY <1>11, <2>1, <2>3, <2>4
<1>14. \A i \in Seqs' : log'[i].type = "started" =>
         HasFinished(log[i].aid)' \/ log'[i].aid \in DOMAIN tasks'
  <2>1. \A i \in Seqs : log[i].type = "started" =>
          HasFinished(log[i].aid) \/ log[i].aid \in DOMAIN tasks
    BY <1>1 DEF IInv, TasksOK, InLoop
  <2> QED
    BY <1>1, <2>1 DEF HasFinished, Seqs
<1>15. \A y \in DOMAIN tasks' : TaskOK(y)' /\ (HasFinished(y)' \/ Driven(y)')
  BY <1>1, <1>12, <1>13
<1>16. \A j \in mem'.cursor + 1 .. Len(log') : log'[j].type \notin Acts
  BY <1>1, <1>5 DEF IInv, TasksOK
<1>17. TasksOK'
  BY <1>1, <1>14, <1>15, <1>16 DEF TasksOK, InLoop
<1> QED
  BY <1>6, <1>7, <1>17 DEF IInv

\* Exactly the activations that the log leaves open go on.
LEMMA ResumeKeeps ==
  ASSUME IInv, ResumeUnfinished
  PROVE  IInv'
<1> DEFINE m == CatchUp(mem)
           open == {a \in Agent : m.running[a] # 0}
           agentOf(x) == CHOOSE a \in open : m.running[a] = x
<1>1. /\ pc = "resume" /\ pc' = "loop" /\ mem' = m /\ UNCHANGED <<log, aids>>
      /\ tasks' = [x \in {m.running[a] : a \in open} |-> Task(agentOf(x), "resuming", {})]
  BY DEF ResumeUnfinished
<1>2. LogOK /\ aids \in Nat /\ Seqs = 1..Len(log) /\ Len(log) \in Nat
  BY SequenceIsOne DEF IInv, LogOK, EventsOK, IsSequence, Seqs
<1>3. MemOK(m) /\ m.cursor = Len(log) /\ Folded(m)
  BY <1>1, CaughtUp DEF IInv, TasksOK, InLoop
<1> HIDE DEF m
<1>4. LogOK' /\ MemOK(mem)'
  BY <1>1, <1>2, <1>3, SameLog, QuietLogOK, MemoryStays DEF GrowsQuietly
<1>5. ASSUME NEW x \in DOMAIN tasks' PROVE TaskOK(x)' /\ Driven(x)'
  <2> DEFINE a == agentOf(x)
  <2>1. \E b \in open : m.running[b] = x
    BY <1>1, <1>5
  <2>2. a \in open /\ m.running[a] = x
    BY <2>1
  <2>3. /\ tasks'[x].agent = a /\ tasks'[x].phase = "resuming"
        /\ DOMAIN tasks'[x] = {"agent", "phase", "seqs", "exc"}
    BY <1>1, <1>5 DEF Task
  <2> HIDE DEF a
  <2>4. a \in Agent /\ x \in Nat \ {0}
    BY <1>3, <2>2 DEF MemOK, Sane
  <2>5. OpenAt(a, x, Len(log))
    BY <1>3, <2>2, <2>4 DEF Folded
  <2>6. PICK i \in Seqs : Of(i, "started", a) /\ log[i].aid = x
    BY <1>2, <2>5 DEF OpenAt
  <2>7. ~HasFinished(x)
    BY <1>2, <2>5 DEF OpenAt, EndedBy, HasFinished
  <2>8. /\ x \in 1..aids
        /\ \A j \in Seqs : log[j].type \in Acts /\ log[j].aid = x => log[j].agent = a
    BY <1>2, <2>6 DEF LogOK, EventsOK, Of, Acts
  <2>9. TaskOK(x)'
    BY <1>1, <2>3, <2>4, <2>6, <2>7, <2>8 DEF TaskOK, HasFinished, Of, Seqs
  <2>10. Driven(x)'
    <3>1. mem'.running[tasks'[x].agent] = x
      BY <1>1, <2>2, <2>3
    <3>2. mem'.cursor + 1 .. Len(log') = {}
      BY <1>1, <1>2, <1>3
    <3> QED
      BY <3>1, <3>2 DEF Driven
  <2> QED
    BY <2>9, <2>10
<1>6. \A i \in Seqs' : log'[i].type = "started" =>
        HasFinished(log[i].aid)' \/ log'[i].aid \in DOMAIN tasks'
  <2>1. SUFFICES ASSUME NEW i \in Seqs, log[i].type = "started", ~HasFinished(log[i].aid)
                 PROVE  log[i].aid \in DOMAIN tasks'
    BY <1>1 DEF HasFinished, Seqs
  <2>2. log[i].agent \in Agent /\ log[i].aid \in Nat \ {0}
    BY <1>2, <2>1 DEF LogOK, EventsOK, Acts
  <2>3. OpenAt(log[i].agent, log[i].aid, Len(log))
    BY <1>2, <2>1 DEF OpenAt, EndedBy, HasFinished, Of
  <2>4. m.running[log[i].agent] = log[i].aid
    BY <1>3, <2>2, <2>3 DEF Folded
  <2> QED
    BY <1>1, <2>2, <2>4
<1>7. TasksOK'
  BY <1>1, <1>5, <1>6 DEF TasksOK, InLoop
<1> QED
  BY <1>4, <1>7 DEF IInv

-----------------------------------------------------------------------------
(* The other steps, one by one.                                            *)

\* Every task that has not ended is still its agent's.
StillDriven == \A x \in DOMAIN tasks : Driven(x) => mem'.running[tasks[x].agent] = x
AllGo == DOMAIN tasks' = DOMAIN tasks /\ \A x \in DOMAIN tasks : Goes(x)

LEMMA LogFacts == ASSUME IInv PROVE LogOK /\ MemOK(mem) /\ Len(log) \in Nat /\ mem.cursor \in Nat
  BY SequenceIsOne DEF IInv, LogOK, EventsOK, IsSequence, MemOK

LEMMA SameTasks == ASSUME IInv, UNCHANGED tasks PROVE AllGo
  BY DEF IInv, TasksOK, TaskOK, AllGo, Goes

LEMMA EndedTask == ASSUME IInv, NEW x \in DOMAIN tasks, NEW exc, EndTask(x, exc) PROVE AllGo
  BY DEF IInv, TasksOK, TaskOK, AllGo, Goes, EndTask

LEMMA SameMemory ==
  ASSUME IInv, UNCHANGED mem
  PROVE  MemOK(mem') /\ mem.cursor <= mem'.cursor /\ StillDriven
<1>1. MemOK(mem) /\ mem' = mem /\ mem.cursor \in Nat
  BY LogFacts
<1> QED
  BY <1>1 DEF Driven, StillDriven

LEMMA ReadMemory ==
  ASSUME IInv, mem' = CatchUp(mem)
  PROVE  MemOK(mem') /\ mem.cursor <= mem'.cursor /\ mem'.cursor = Len(log) /\ StillDriven
  BY CaughtUp DEF StillDriven

LEMMA KeptMemory ==
  ASSUME IInv, Kept(mem, mem')
  PROVE  MemOK(mem') /\ mem.cursor <= mem'.cursor /\ mem'.cursor = mem.cursor /\ StillDriven
<1>1. MemOK(mem) /\ mem.cursor \in Nat
  BY LogFacts
<1> QED
  BY <1>1, KeptIsOK DEF Kept, StillDriven, Driven

\* A step of the loop or of an activation that appends nothing of an activation.
LEMMA LoopStep ==
  ASSUME IInv, GrowsQuietly, UNCHANGED aids, AllGo, StillDriven, MemOK(mem'),
         mem.cursor <= mem'.cursor, InLoop, InLoop',
         pc' \in {"breakers", "start"} =>
           \/ pc \in {"breakers", "start"} /\ mem'.cursor = mem.cursor
           \/ mem'.cursor = Len(log)
  PROVE  IInv'
  BY QuietStep DEF AllGo, StillDriven, InLoopToo

LEMMA BootKeeps ==
  ASSUME IInv, Boot \/ Launch
  PROVE  IInv'
<1>1. ~InLoop /\ DOMAIN tasks = {} /\ Folded(mem) /\ LogOK /\ UNCHANGED <<tasks, aids>>
  BY DEF Boot, Launch, InLoop, IInv, TasksOK
<1>2. CASE Launch
  <2>1. GrowsQuietly
    BY <1>1, <1>2, SameLog DEF Launch
  <2>2. AllGo /\ MemOK(mem') /\ mem.cursor <= mem'.cursor /\ StillDriven /\ Folded(mem')
    BY <1>1, <1>2, SameTasks, SameMemory DEF Launch
  <2>3. pc' = "boot"
    BY <1>2 DEF Launch
  <2> QED
    BY <1>1, <2>1, <2>2, <2>3, QuietStep DEF AllGo, StillDriven, BeforeLoop
<1>3. CASE Boot
  <2>1. \/ UNCHANGED log
        \/ Append1(Plain("resumed", CatchUp(mem).stopped))
    BY <1>3 DEF Boot
  <2>2. Plain("resumed", CatchUp(mem).stopped).type \notin Acts
    BY DEF Plain, Event, Acts
  <2>3. GrowsQuietly
    BY <1>1, <2>1, <2>2, SameLog, QuietAppend
  <2>4. CASE mem' = Blank /\ pc' = "off"
    BY <1>1, <2>3, <2>4, BlankStep
  <2>5. CASE mem' = CatchUp(mem) /\ pc' = "resume"
    <3>1. AllGo /\ MemOK(mem') /\ mem.cursor <= mem'.cursor /\ StillDriven /\ Folded(mem')
      BY <1>1, <2>5, SameTasks, ReadMemory, CaughtUp
    <3> QED
      BY <1>1, <2>3, <2>5, <3>1, QuietStep DEF AllGo, StillDriven, BeforeLoop
  <2> QED
    BY <1>3, <2>4, <2>5 DEF Boot
<1> QED
  BY <1>2, <1>3

\* The timers that fire together, whatever their order.
LEMMA FiredIsSequence ==
  ASSUME NEW due, Cardinality(due) \in Nat
  PROVE  LET fired == [k \in 1..Cardinality(due) |->
                         LET i == SetToSeq(due)[k]
                         IN  Event("timer_fired", log[i].agent, "", 0, {i})]
         IN  /\ IsSequence(fired) /\ Len(fired) = Cardinality(due)
             /\ \A k \in 1..Len(fired) : fired[k].type = "timer_fired"
<1> DEFINE fired == [k \in 1..Cardinality(due) |->
                       LET i == SetToSeq(due)[k]
                       IN  Event("timer_fired", log[i].agent, "", 0, {i})]
           E == {fired[k] : k \in 1..Cardinality(due)}
<1>1. fired \in [1..Cardinality(due) -> E] /\ DOMAIN fired = 1..Cardinality(due)
  OBVIOUS
<1>2. \A k \in 1..Cardinality(due) : fired[k].type = "timer_fired"
  BY DEF Event
<1> HIDE DEF fired
<1>3. fired \in Seq(E)
  BY <1>1, SeqDef
<1> HIDE DEF E
<1>4. IsSequence(fired) /\ Len(fired) = Cardinality(due)
  BY <1>1, <1>3, SequenceIsOne, LenProperties
<1> QED
  BY <1>2, <1>4 DEF fired

LEMMA FireTimersGrows ==
  ASSUME IInv, FireTimers
  PROVE  /\ GrowsQuietly
         /\ \A i \in Len(log) + 1 .. Len(log') : log'[i].type = "timer_fired"
<1>1. PICK due \in SUBSET CatchUp(mem).timers :
        log' = log \o [k \in 1..Cardinality(due) |->
                 LET i == SetToSeq(due)[k]
                 IN  Event("timer_fired", log[i].agent, "", 0, {i})]
  BY DEF FireTimers
<1> DEFINE fired == [k \in 1..Cardinality(due) |->
                       LET i == SetToSeq(due)[k]
                       IN  Event("timer_fired", log[i].agent, "", 0, {i})]
<1>2. Cardinality(due) \in Nat
  <2>1. IsFiniteSet(due)
    BY CaughtUp, FS_Subset DEF MemOK, Sane
  <2> QED
    BY <2>1, FS_CardinalityType
<1>3. IsSequence(fired) /\ \A k \in 1..Len(fired) : fired[k].type = "timer_fired"
  BY <1>2, FiredIsSequence
<1> HIDE DEF fired
<1>4. log' = log \o fired
  BY <1>1 DEF fired
<1>5. \A k \in 1..Len(fired) : fired[k].type \notin Acts
  BY <1>3 DEF Acts
<1>6. /\ GrowsQuietly
      /\ \A i \in Len(log) + 1 .. Len(log') : \E k \in 1..Len(fired) : log'[i] = fired[k]
  BY <1>3, <1>4, <1>5, QuietConcat, LogFacts
<1> QED
  BY <1>3, <1>6

LEMMA FireTimersKeeps ==
  ASSUME IInv, FireTimers
  PROVE  IInv'
<1>1. /\ pc \in {"loop", "wait"} /\ pc' = "breakers" /\ mem' = CatchUp(mem)
      /\ UNCHANGED <<tasks, aids>>
  BY DEF FireTimers
<1>2. /\ MemOK(mem') /\ mem.cursor <= mem'.cursor /\ mem'.cursor = Len(log) /\ StillDriven
      /\ AllGo
  BY <1>1, ReadMemory, SameTasks
<1> QED
  BY <1>1, <1>2, FireTimersGrows, LoopStep DEF InLoop

LEMMA LoopKeeps ==
  ASSUME IInv, Loop, ~Boot, ~ResumeUnfinished, ~FireTimers, \A a \in Agent : ~Start(a)
  PROVE  IInv'
<1> USE LogFacts
<1>1. CASE CheckBreakers
  <2>1. /\ pc = "breakers" /\ pc' = "start" /\ UNCHANGED <<tasks, aids>>
        /\ Kept(mem, mem')
        /\ UNCHANGED log \/ \E kind : Append1(Plain("breaker_tripped", kind))
    BY <1>1, CheckDecides DEF Decides
  <2>2. \A kind : Plain("breaker_tripped", kind).type \notin Acts
    BY DEF Plain, Event, Acts
  <2>3. GrowsQuietly
    BY <2>1, <2>2, SameLog, QuietAppend
  <2> QED
    BY <2>1, <2>3, SameTasks, KeptMemory, LoopStep DEF InLoop
<1>2. ASSUME NEW a \in Agent, DropContinues(a) PROVE IInv'
  <2>1. /\ pc = "start" /\ pc' = "start" /\ UNCHANGED <<tasks, aids>>
        /\ mem' = [mem EXCEPT !.pending[a] = @ \ Dropped(mem, a)]
        /\ Append1(Event("handoff_limit", a, "", 0, {}))
    BY <1>2 DEF DropContinues, MayStart
  <2>2. Kept(mem, mem')
    BY <2>1, DropDecides DEF Decides, MemOK
  <2>3. GrowsQuietly
    BY <2>1, QuietAppend DEF Event, Acts
  <2> QED
    BY <2>1, <2>2, <2>3, SameTasks, KeptMemory, LoopStep DEF InLoop
<1>3. CASE StartsDone
  <2>1. pc = "start" /\ pc' = "decide" /\ mem' = CatchUp(mem) /\ UNCHANGED <<log, tasks, aids>>
    BY <1>3 DEF StartsDone
  <2> QED
    BY <2>1, SameLog, SameTasks, ReadMemory, LoopStep DEF InLoop
<1>4. CASE StopAsked \/ StopQuiescent
  <2>1. DOMAIN tasks = {} /\ UNCHANGED <<tasks, aids>>
    BY <1>4 DEF StopAsked, StopQuiescent, Idle, Quiescent
  <2>2. PICK reason : Append1(Plain("stopped", reason)) /\ pc' = "off" /\ mem' = Blank
    BY <1>4 DEF StopAsked, StopQuiescent, Stop
  <2>3. GrowsQuietly
    BY <2>2, QuietAppend DEF Plain, Event, Acts
  <2> QED
    BY <2>1, <2>2, <2>3, BlankStep
<1>5. CASE CancelTasks
  <2>1. pc = "decide" /\ pc' = "wait" /\ UNCHANGED <<log, mem, aids>>
    BY <1>5 DEF CancelTasks
  <2>2. AllGo
    BY <1>5 DEF CancelTasks, IInv, TasksOK, TaskOK, AllGo, Goes
  <2> QED
    BY <2>1, <2>2, SameLog, SameMemory, LoopStep DEF InLoop
<1>6. CASE LogQuiescent
  <2>1. /\ pc = "decide" /\ pc' = "decide" /\ UNCHANGED <<tasks, aids>>
        /\ Append1(Plain("quiescent", "")) /\ Kept(mem, mem')
    BY <1>6, LogDecides DEF Decides
  <2>2. GrowsQuietly
    BY <2>1, QuietAppend DEF Plain, Event, Acts
  <2> QED
    BY <2>1, <2>2, SameTasks, KeptMemory, LoopStep DEF InLoop
<1>7. CASE Wait
  <2>1. pc = "decide" /\ pc' = "wait" /\ UNCHANGED <<log, mem, tasks, aids>>
    BY <1>7 DEF Wait
  <2> QED
    BY <2>1, SameLog, SameTasks, SameMemory, LoopStep DEF InLoop
<1> QED
  BY <1>1, <1>2, <1>3, <1>4, <1>5, <1>6, <1>7 DEF Loop

LEMMA PollKeeps ==
  ASSUME IInv, NEW x \in 1..MaxActivations, Poll(x) \/ PollDrops(x)
  PROVE  IInv'
<1> DEFINE a == tasks[x].agent
<1>1. /\ x \in DOMAIN tasks /\ pc = "wait" /\ tasks[x].phase = "running"
      /\ UNCHANGED <<pc, tasks, aids>>
      /\ \/ /\ Decides(CatchUp(mem), mem')
            /\ UNCHANGED log \/ Append1(Event("handoff_limit", a, "", 0, {}))
         \/ \E m, items :
              /\ Decides(CatchUp(mem), m) /\ items \subseteq m.pending[a]
              /\ mem' = Deliver(m, a, items) /\ Append1(Event("incoming", a, "", x, items))
  BY PollDecides
<1>2. TaskOK(x) /\ ~HasFinished(x) /\ a \in Agent /\ Len(log) \in Nat /\ Seqs = 1..Len(log)
  <2>1. TaskOK(x) /\ ~HasFinished(x) /\ a \in Agent
    BY <1>1 DEF IInv, TasksOK, TaskOK
  <2>2. Len(log) \in Nat /\ Seqs = 1..Len(log)
    BY SequenceIsOne DEF IInv, LogOK, EventsOK, IsSequence, Seqs
  <2> QED
    BY <2>1, <2>2
<1>3. ASSUME NEW m, Decides(CatchUp(mem), m)
      PROVE  /\ MemOK(m) /\ m.cursor = Len(log) /\ mem.cursor <= Len(log)
             /\ \A y \in DOMAIN tasks : Driven(y) => m.running[tasks[y].agent] = y
  BY <1>3, CaughtUp, KeptIsOK DEF Decides, Kept
<1>4. CASE /\ Decides(CatchUp(mem), mem')
           /\ UNCHANGED log \/ Append1(Event("handoff_limit", a, "", 0, {}))
  <2>1. MemOK(mem') /\ mem.cursor <= mem'.cursor /\ StillDriven
    BY <1>3, <1>4 DEF StillDriven
  <2>2. GrowsQuietly
    <3>1. Event("handoff_limit", a, "", 0, {}).type \notin Acts
      BY DEF Event, Acts
    <3> QED
      BY <1>4, <3>1, LogFacts, SameLog, QuietAppend
  <2> QED
    BY <1>1, <2>1, <2>2, SameTasks, LoopStep DEF InLoop
<1>5. ASSUME NEW m, NEW items, Decides(CatchUp(mem), m), items \subseteq m.pending[a],
             mem' = Deliver(m, a, items), Append1(Event("incoming", a, "", x, items))
      PROVE  IInv'
  <2> DEFINE e == Event("incoming", a, "", x, items)
  <2>1. /\ MemOK(m) /\ m.cursor = Len(log) /\ mem.cursor <= Len(log)
        /\ \A y \in DOMAIN tasks : Driven(y) => m.running[tasks[y].agent] = y
    BY <1>3, <1>5
  <2>2. items \cap Shown(a) = {}
    <3>1. Shown(a) \subseteq m.delivered[a]
      BY <1>2, <2>1 DEF Shown, MemOK, Shows
    <3> QED
      BY <1>2, <1>5, <2>1, <3>1 DEF MemOK, Sane
  <2>3. /\ Sane(mem') /\ mem'.running = m.running /\ mem'.cursor = m.cursor
        /\ \A b \in Agent : m.delivered[b] \subseteq mem'.delivered[b]
    <3>1. Sane(m) /\ a \in Agent
      BY <1>2, <2>1 DEF MemOK
    <3> HIDE DEF a
    <3>2. LET n == Deliver(m, a, items)
          IN  /\ Sane(n) /\ n.running = m.running /\ n.cursor = m.cursor
              /\ \A b \in Agent : n.delivered[b] =
                   m.delivered[b] \cup (IF b = a THEN items ELSE {})
      BY <3>1, DeliverReads
    <3> QED
      BY <1>5, <3>2
  <2>4. MemOK(mem')
    BY <1>2, <2>1, <2>3 DEF MemOK
  <2>5. e.type = "incoming" /\ e.aid = x /\ e.agent = a /\ e.seqs = items /\ Append1(e)
    BY <1>5 DEF Event
  <2>6. DOMAIN tasks[x] = {"agent", "phase", "seqs", "exc"}
    BY <1>2 DEF TaskOK
  <2> HIDE DEF e
  <2>7. \A y \in DOMAIN tasks : Driven(y) => mem'.running[tasks[y].agent] = y
    BY <2>1, <2>3
  <2>8. mem.cursor <= mem'.cursor
    BY <2>1, <2>3
  <2>9. /\ e.type \in Acts /\ e.type # "started" /\ e.type # "finished"
        /\ e.seqs \cap Shown(e.agent) = {}
    BY <2>2, <2>5 DEF Acts
  <2>10. /\ \A y \in DOMAIN tasks : y # x => y \in DOMAIN tasks' /\ tasks'[y] = tasks[y]
         /\ DOMAIN tasks' = DOMAIN tasks /\ tasks'[x] = tasks[x]
    BY <1>1
  <2>11. pc = "wait" /\ UNCHANGED <<pc, aids>> /\ x \in DOMAIN tasks /\ e.agent = tasks[x].agent
         /\ tasks[x].phase = "running"
    BY <1>1, <2>5
  <2> HIDE DEF a
  <2> QED
    BY <1>2, <2>4, <2>5, <2>6, <2>7, <2>8, <2>9, <2>10, <2>11, ActStep
<1> QED
  BY <1>1, <1>4, <1>5

LEMMA ActivationKeeps ==
  ASSUME IInv, NEW x \in 1..MaxActivations, Activation(x)
  PROVE  IInv'
<1> USE LogFacts
<1>1. CASE Resume(x)
  <2>1. /\ x \in DOMAIN tasks /\ pc = "wait" /\ tasks[x].phase = "resuming"
        /\ tasks' = [tasks EXCEPT ![x].phase = "running"] /\ UNCHANGED <<log, pc, mem, aids>>
    BY <1>1 DEF Resume, Phase
  <2>2. AllGo
    BY <2>1 DEF IInv, TasksOK, TaskOK, AllGo, Goes
  <2> QED
    BY <2>1, <2>2, SameLog, SameMemory, LoopStep DEF InLoop
<1>2. CASE RunnerFails(x)
  <2>1. /\ x \in DOMAIN tasks /\ pc = "wait" /\ EndTask(x, "runner_error")
        /\ UNCHANGED <<log, pc, mem, aids>>
    BY <1>2 DEF RunnerFails, Phase
  <2> QED
    BY <2>1, EndedTask, SameLog, SameMemory, LoopStep DEF InLoop
<1>3. CASE Poll(x) \/ PollDrops(x)
  BY <1>3, PollKeeps
<1>4. CASE SetTimer(x)
  <2>1. /\ pc = "wait" /\ UNCHANGED <<pc, mem, tasks, aids>>
        /\ Append1(Event("timer_set", tasks[x].agent, "", 0, {}))
    BY <1>4 DEF SetTimer, Running, Phase
  <2>2. GrowsQuietly
    BY <2>1, QuietAppend DEF Event, Acts
  <2> QED
    BY <2>1, <2>2, SameTasks, SameMemory, LoopStep DEF InLoop
<1>5. CASE Finish(x)
  <2>1. x \in DOMAIN tasks /\ pc = "wait" /\ tasks[x].phase = "running" /\ EndTask(x, "none")
        /\ UNCHANGED <<pc, mem, aids>>
    BY <1>5 DEF Finish, Running, Phase
  <2>2. PICK what \in Outcomes : Append1(Event("finished", tasks[x].agent, what, x, {}))
    BY <1>5 DEF Finish
  <2>3. ~HasFinished(x)
    BY <2>1 DEF IInv, TasksOK, TaskOK
  <2> QED
    BY <2>1, <2>2, <2>3, EndKeeps
<1>6. CASE Cancelled(x)
  <2>1. x \in DOMAIN tasks /\ pc = "wait" /\ tasks[x].phase # "ended" /\ EndTask(x, "cancelled")
        /\ UNCHANGED <<pc, mem, aids>>
    BY <1>6 DEF Cancelled
  <2>2. CASE tasks[x].phase = "running"
    <3>1. Append1(Event("finished", tasks[x].agent, "cancelled", x, {}))
      BY <1>6, <2>2 DEF Cancelled
    <3>2. ~HasFinished(x)
      BY <2>1 DEF IInv, TasksOK, TaskOK
    <3> QED
      BY <2>1, <3>1, <3>2, EndKeeps
  <2>3. CASE tasks[x].phase # "running"
    <3>1. UNCHANGED log
      BY <1>6, <2>3 DEF Cancelled
    <3> QED
      BY <2>1, <3>1, EndedTask, SameLog, SameMemory, LoopStep DEF InLoop
  <2> QED
    BY <2>2, <2>3
<1> QED
  BY <1>1, <1>2, <1>3, <1>4, <1>5, <1>6, BeginKeeps, DoneKeeps DEF Activation

LEMMA EnvironmentKeeps ==
  ASSUME IInv, Environment \/ Crash
  PROVE  IInv'
<1> USE LogFacts
<1>2. CASE Environment
  <2>1. PICK e : /\ Append1(e) /\ UNCHANGED <<pc, mem, tasks, aids>>
                 /\ e.type \in {"message", "task_assigned", "task_closed", "agent_reset",
                                "stop_requested", "breaker_reset"}
    BY <1>2, EnvironmentAppends
  <2>2. GrowsQuietly /\ AllGo /\ MemOK(mem') /\ mem.cursor <= mem'.cursor /\ StillDriven
    BY <2>1, QuietAppend, SameTasks, SameMemory DEF Acts
  <2>3. ~InLoop => Folded(mem') /\ pc' \in {"off", "boot", "resume"}
    BY <2>1 DEF IInv, TasksOK
  <2>4. InLoopToo \/ BeforeLoop
    BY <2>1, <2>3 DEF InLoopToo, BeforeLoop, InLoop
  <2> QED
    BY <2>1, <2>2, <2>4, QuietStep DEF AllGo, StillDriven
<1>3. CASE Crash
  <2>1. pc' = "off" /\ mem' = Blank /\ tasks' = <<>> /\ UNCHANGED <<log, aids>>
    BY <1>3 DEF Crash
  <2>2. DOMAIN tasks' = {}
    BY <2>1, EmptyIsSequence
  <2> QED
    BY <2>1, <2>2, SameLog, BlankStep
<1> QED
  BY <1>2, <1>3

LEMMA InitIInv == Init => IInv
<1> SUFFICES ASSUME Init PROVE IInv
  OBVIOUS
<1>1. IsSequence(log) /\ Len(log) = 0 /\ Seqs = {} /\ DOMAIN tasks = {}
  BY EmptyIsSequence DEF Init, Seqs
<1>2. LogOK
  BY <1>1 DEF Init, LogOK, EventsOK, EndIsEnd, OneAtATime, ShownOnce
<1>3. MemOK(mem)
  BY <1>1, FS_EmptySet DEF Init, MemOK, Sane, Fields, Blank
<1>4. Folded(mem)
  BY DEF Init, Folded, Blank, OpenAt
<1>5. TasksOK
  BY <1>1, <1>4 DEF Init, TasksOK, InLoop
<1> QED
  BY <1>2, <1>3, <1>5 DEF IInv

LEMMA StepIInv == IInv /\ [Next]_vars => IInv'
<1> SUFFICES ASSUME IInv, [Next]_vars PROVE IInv'
  OBVIOUS
<1>1. CASE Launch \/ Boot
  BY <1>1, BootKeeps
<1>2. CASE ResumeUnfinished
  BY <1>2, ResumeKeeps
<1>3. CASE FireTimers
  BY <1>3, FireTimersKeeps
<1>4. ASSUME NEW a \in Agent, Start(a) PROVE IInv'
  BY <1>4, StartKeeps
<1>5. CASE Loop
  BY <1>1, <1>2, <1>3, <1>4, <1>5, LoopKeeps
<1>6. ASSUME NEW x \in 1..MaxActivations, Activation(x) PROVE IInv'
  BY <1>6, ActivationKeeps
<1>7. CASE Environment \/ Crash
  BY <1>7, EnvironmentKeeps
<1>8. CASE UNCHANGED vars
  BY <1>8 DEF vars, IInv, LogOK, EventsOK, EndIsEnd, OneAtATime, ShownOnce, MemOK, Sane,
              TasksOK, TaskOK, Driven, Folded, OpenAt, EndedBy, HasFinished, Shown, Of,
              InLoop, Seqs
<1> QED
  BY <1>1, <1>5, <1>6, <1>7, <1>8 DEF Next

THEOREM WhoRunsIsKept == Spec => []IInv
  BY InitIInv, StepIInv, PTL DEF Spec

-----------------------------------------------------------------------------
(* The properties.                                                         *)

\* No item is put in an agent's context twice, whatever the scheduler's process forgets
\* when it dies, and however restarts, polls and finishing activations interleave
\* (scheduler.py: _start, poll_incoming, _deliver, catch_up).
THEOREM NothingIsShownTwice == Spec => []ShownOnce
<1>1. IInv => ShownOnce
  BY DEF IInv, LogOK
<1> QED
  BY <1>1, WhoRunsIsKept, PTL

LEMMA AtMostOneOpen ==
  ASSUME IInv, NEW a \in Agent
  PROVE  Cardinality(OpenActivations(a)) <= 1
<1>1. \A x, y \in OpenActivations(a) : x = y
  <2>1. SUFFICES ASSUME NEW i \in Seqs, NEW j \in Seqs, i < j,
                        Of(i, "started", a), Of(j, "started", a),
                        \A k \in Seqs : log[k].type = "finished" => log[k].aid # log[i].aid
                 PROVE  FALSE
    <3>1. Seqs \subseteq Int
      BY LogFacts, SequenceIsOne DEF LogOK, EventsOK, Seqs, IsSequence
    <3> QED
      BY <2>1, <3>1 DEF OpenActivations, Of
  <2>2. Len(log) \in Nat /\ Seqs = 1..Len(log)
    BY SequenceIsOne DEF IInv, LogOK, EventsOK, Seqs, IsSequence
  <2>3. PICK k \in i..j : k < j /\ log[k].type = "finished" /\ log[k].aid = log[i].aid
    BY <2>1 DEF IInv, LogOK, OneAtATime, Of
  <2> QED
    BY <2>1, <2>2, <2>3
<1>2. CASE OpenActivations(a) = {}
  BY <1>2, FS_EmptySet
<1>3. CASE OpenActivations(a) # {}
  <2>1. PICK x : OpenActivations(a) = {x}
    BY <1>1, <1>3
  <2> QED
    BY <2>1, FS_Singleton
<1> QED
  BY <1>2, <1>3

\* An agent is one conversation at a time, for any number of agents, failures,
\* cancellations, deaths and launches (scheduler.py: tick, _start, _resume_unfinished,
\* the done callback of _spawn).
THEOREM AgentsRunOneActivation == Spec => []OneActivation
<1>1. ASSUME IInv PROVE OneActivation
  <2>1. \A x, y \in DOMAIN tasks :
          (/\ tasks[x].agent = tasks[y].agent
           /\ tasks[x].phase # "ended" /\ tasks[y].phase # "ended") => x = y
    BY <1>1, OneDriven DEF IInv, TasksOK, TaskOK
  <2>2. \A i, j \in Seqs :
          log[i].type = "finished" /\ i < j
          => ~(log[j].aid = log[i].aid /\ log[j].type \in {"started", "incoming", "finished"})
    BY <1>1 DEF IInv, LogOK, EndIsEnd, Acts
  <2> QED
    BY <1>1, <2>1, <2>2, AtMostOneOpen DEF OneActivation
<1>2. IInv => OneActivation
  BY <1>1
<1> QED
  BY <1>2, WhoRunsIsKept, PTL

-----------------------------------------------------------------------------
(* Runs that stop.                                                         *)

LEMMA LastOfAppend ==
  ASSUME IInv, NEW e, Append1(e)
  PROVE  log'[Len(log')] = e
  BY AppendGrows, LogFacts

LEMMA IsItsPositions ==
  ASSUME NEW s, IsSequence(s)
  PROVE  s = [i \in 1..Len(s) |-> s[i]]
  BY LenProperties DEF IsSequence

\* No other step says that the run is over.
LEMMA WhoSaysSo ==
  ASSUME IInv, Next, log' # log
  PROVE  /\ log'[Len(log')].type = "stopped" => StopAsked \/ StopQuiescent
         /\ log'[Len(log')].type = "quiescent" => LogQuiescent
<1> DEFINE last == log'[Len(log')]
           Goal == /\ last.type = "stopped" => StopAsked \/ StopQuiescent
                   /\ last.type = "quiescent" => LogQuiescent
<1> SUFFICES Goal
  OBVIOUS
<1>0. ASSUME NEW e, Append1(e), e.type \notin {"stopped", "quiescent"}
      PROVE  Goal
  BY <1>0, LastOfAppend
<1> HIDE DEF Goal
<1>1. CASE Boot
  <2>1. Plain("resumed", CatchUp(mem).stopped).type \notin {"stopped", "quiescent"}
    BY DEF Plain, Event
  <2> QED
    BY <1>0, <1>1, <2>1 DEF Boot
<1>2. CASE FireTimers
  <2>1. /\ Grows /\ \A i \in Len(log) + 1 .. Len(log') : log'[i].type = "timer_fired"
    BY <1>2, FireTimersGrows DEF GrowsQuietly
  <2>2. Len(log') # Len(log)
    <3>1. SUFFICES ASSUME Len(log') = Len(log) PROVE log' = log
      OBVIOUS
    <3>2. /\ log = [i \in 1..Len(log) |-> log[i]]
          /\ log' = [i \in 1..Len(log') |-> log'[i]]
      BY <2>1, IsItsPositions DEF IInv, LogOK, EventsOK, Grows
    <3> QED
      BY <2>1, <3>1, <3>2 DEF Grows
  <2>3. Len(log') \in Len(log) + 1 .. Len(log')
    <3>1. Len(log) \in Nat /\ Len(log') \in Nat /\ Len(log) <= Len(log')
      BY <2>1 DEF Grows
    <3> QED
      BY <2>2, <3>1
  <2>4. last.type = "timer_fired"
    BY <2>1, <2>3
  <2> QED
    BY <2>4 DEF Goal
<1>3. CASE CheckBreakers
  <2>1. PICK kind : Append1(Plain("breaker_tripped", kind))
    BY <1>3 DEF CheckBreakers
  <2>2. Plain("breaker_tripped", kind).type \notin {"stopped", "quiescent"}
    BY DEF Plain, Event
  <2> QED
    BY <1>0, <2>1, <2>2
<1>4. ASSUME NEW a \in Agent, DropContinues(a) \/ Start(a) PROVE Goal
  <2>1. Event("handoff_limit", a, "", 0, {}).type \notin {"stopped", "quiescent"}
    BY DEF Event
  <2> QED
    BY <1>0, <1>4, <2>1 DEF DropContinues, Start
<1>5. CASE LogQuiescent \/ StopAsked \/ StopQuiescent
  <2>1. CASE LogQuiescent
    <3>1. last = Plain("quiescent", "")
      BY <2>1, LastOfAppend DEF LogQuiescent
    <3>2. Plain("quiescent", "").type = "quiescent"
      BY DEF Plain, Event
    <3> QED
      BY <2>1, <3>1, <3>2 DEF Goal
  <2>2. CASE StopAsked \/ StopQuiescent
    <3>1. PICK reason : Append1(Plain("stopped", reason))
      BY <2>2 DEF StopAsked, StopQuiescent, Stop
    <3>2. last = Plain("stopped", reason)
      BY <3>1, LastOfAppend
    <3> QED
      BY <2>2, <3>2 DEF Plain, Event, Goal
  <2> QED
    BY <1>5, <2>1, <2>2
<1>6. CASE ResumeUnfinished \/ StartsDone \/ CancelTasks \/ Wait \/ Launch \/ Crash
  BY <1>6 DEF ResumeUnfinished, StartsDone, CancelTasks, Wait, Launch, Crash
<1>7. ASSUME NEW x \in 1..MaxActivations, Activation(x) PROVE Goal
  <2> DEFINE a == tasks[x].agent
  <2>1. CASE Resume(x) \/ RunnerFails(x)
    BY <2>1 DEF Resume, RunnerFails
  <2>2. CASE Begin(x)
    <3>1. Event("started", a, "", x, tasks[x].seqs).type \notin {"stopped", "quiescent"}
      BY DEF Event
    <3> QED
      BY <1>0, <2>2, <3>1 DEF Begin
  <2>3. CASE SetTimer(x)
    <3>1. Event("timer_set", a, "", 0, {}).type \notin {"stopped", "quiescent"}
      BY DEF Event
    <3> QED
      BY <1>0, <2>3, <3>1 DEF SetTimer
  <2>4. CASE Poll(x)
    <3>1. PICK items : Append1(Event("incoming", a, "", x, items))
      BY <2>4 DEF Poll
    <3>2. Event("incoming", a, "", x, items).type \notin {"stopped", "quiescent"}
      BY DEF Event
    <3> QED
      BY <1>0, <3>1, <3>2
  <2>5. CASE PollDrops(x)
    <3>1. Event("handoff_limit", a, "", 0, {}).type \notin {"stopped", "quiescent"}
      BY DEF Event
    <3> QED
      BY <1>0, <2>5, <3>1 DEF PollDrops
  <2>6. CASE Finish(x) \/ Cancelled(x) \/ Done(x)
    <3>1. PICK what : Append1(Event("finished", a, what, x, {}))
      BY <2>6 DEF Finish, Cancelled, Done
    <3>2. Event("finished", a, what, x, {}).type \notin {"stopped", "quiescent"}
      BY DEF Event
    <3> QED
      BY <1>0, <3>1, <3>2
  <2> QED
    BY <1>7, <2>1, <2>2, <2>3, <2>4, <2>5, <2>6 DEF Activation
<1>8. CASE Environment
  BY <1>0, <1>8, EnvironmentAppends
<1> QED
  BY <1>1, <1>2, <1>3, <1>4, <1>5, <1>6, <1>7, <1>8 DEF Next, Loop

\* With no task left, each activation that started has ended.
LEMMA NothingOpen ==
  ASSUME IInv, InLoop, DOMAIN tasks = {}, NEW a \in Agent
  PROVE  OpenActivations(a) = {}
  BY DEF IInv, TasksOK, OpenActivations, HasFinished

\* A run that says it stopped has no activation open, for any agents and limits and
\* whatever was cancelled, failed or died before (scheduler.py: run, _stop).
THEOREM StoppedRunsAreOver == Spec => StoppedIsOver
<1>1. ASSUME IInv, Next, log' # log, log'[Len(log')].type = "stopped", NEW a \in Agent
      PROVE  OpenActivations(a) = {}
  <2>1. StopAsked \/ StopQuiescent
    BY <1>1, WhoSaysSo
  <2>2. pc = "decide" /\ DOMAIN tasks = {}
    BY <2>1 DEF StopAsked, StopQuiescent, Idle, Quiescent
  <2> QED
    BY <1>1, <2>2, NothingOpen DEF InLoop
<1>2. IInv /\ [Next]_vars =>
        [(log' # log /\ log'[Len(log')].type = "stopped")
           => \A a \in Agent : OpenActivations(a) = {}]_vars
  BY <1>1 DEF vars
<1> QED
  BY <1>2, WhoRunsIsKept, PTL DEF Spec, StoppedIsOver

-----------------------------------------------------------------------------
(* Runs that say they have nothing left to do.                             *)

\* What the activations were handed that have not begun.
Handed(a) ==
  UNION {tasks[x].seqs : x \in {y \in DOMAIN tasks :
           /\ tasks[y].agent = a /\ tasks[y].phase = "spawned" /\ tasks[y].exc = "none"}}

\* Each item that was read is pending or was delivered: by what the log alone says, and in
\* the memory of a process, which may have forgotten what was void for a while.
IsDue(i) == Kind(i) \notin {"none", "continue"}
NothingLost(m) ==
  \A a \in Agent, i \in 1..m.cursor :
    log[i].agent = a /\ IsDue(i) => i \in m.pending[a] \cup m.delivered[a]
NoneForgotten(m) ==
  \A a \in Agent, i \in 1..m.cursor :
    log[i].agent = a /\ IsDue(i) /\ Standing(i, m.cursor)
    => i \in m.pending[a] \cup m.delivered[a]

\* What was delivered is in a context, or on its way there, until a stop is requested;
\* and a request is not forgotten before the process ends.
Accounted ==
  \/ InLoop /\ mem.stopRequested
  \/ \A a \in Agent : mem.delivered[a] \subseteq Shown(a) \cup Handed(a)
NotResumed == InLoop => \A j \in mem.cursor + 1 .. Len(log) : log[j].type # "resumed"

JInv == NoneForgotten(mem) /\ Accounted /\ NotResumed

\* What the fold of one event keeps of that.
LEMMA FoldServes ==
  ASSUME NEW m, Sane(m), NEW i,
         log[i].type \in Acts => log[i].agent \in Agent /\ log[i].aid \in Nat
  PROVE  /\ \A a \in Agent :
              m.pending[a] \cup m.delivered[a]
                \subseteq Fold(m, i).pending[a] \cup Fold(m, i).delivered[a]
         /\ \A a \in Agent : log[i].agent = a /\ Kind(i) # "none" =>
              i \in Fold(m, i).pending[a] \cup Fold(m, i).delivered[a]
         /\ m.stopRequested = TRUE /\ log[i].type # "resumed" =>
              Fold(m, i).stopRequested = TRUE
<1> DEFINE e == log[i]
           n == Ingest(m, e, i)
           r == AddItem(n, e, i)
<1> USE DEF Fields, Blank
<1>1. Sane(n)
  BY IngestReads
<1>2. \A a \in Agent : m.pending[a] \cup m.delivered[a] \subseteq n.pending[a] \cup n.delivered[a]
  <2>1. CASE e.type = "started"
    <3> DEFINE q == [m EXCEPT !.running[e.agent] = e.aid]
    <3>1. n = Deliver(q, e.agent, e.seqs)
      BY <2>1 DEF Ingest, IngestStart
    <3>2. q.pending = m.pending /\ q.delivered = m.delivered /\ DOMAIN q = Fields
      BY DEF Sane
    <3> HIDE DEF q, n
    <3>3. /\ n.delivered = [m.delivered EXCEPT ![e.agent] = @ \cup e.seqs]
          /\ n.pending = [m.pending EXCEPT ![e.agent] = @ \ (m.delivered[e.agent] \cup e.seqs)]
      BY <3>1, <3>2 DEF Deliver
    <3> QED
      BY <3>3 DEF Sane
  <2>2. CASE e.type = "incoming"
    <3>1. n = Deliver(m, e.agent, e.seqs)
      BY <2>2 DEF Ingest
    <3> HIDE DEF n
    <3>2. /\ n.delivered = [m.delivered EXCEPT ![e.agent] = @ \cup e.seqs]
          /\ n.pending = [m.pending EXCEPT ![e.agent] = @ \ (m.delivered[e.agent] \cup e.seqs)]
      BY <3>1 DEF Deliver, Sane
    <3> QED
      BY <3>2 DEF Sane
  <2>3. CASE e.type = "finished"
    BY <2>3 DEF Ingest, Finished, Sane
  <2>4. CASE e.type \notin Acts
    BY <2>4 DEF Ingest, Sane, Acts
  <2> QED
    BY <2>1, <2>2, <2>3, <2>4 DEF Acts
<1>3. m.stopRequested = TRUE /\ e.type # "resumed" => n.stopRequested = TRUE
  <2>1. CASE e.type = "started"
    BY <2>1 DEF Ingest, IngestStart, Deliver, Sane
  <2>2. CASE e.type = "incoming"
    BY <2>2 DEF Ingest, Deliver, Sane
  <2>3. CASE e.type = "finished"
    BY <2>3 DEF Ingest, Finished, Sane
  <2>4. CASE e.type \notin Acts
    BY <2>4 DEF Ingest, Sane, Acts
  <2> QED
    BY <2>1, <2>2, <2>3, <2>4 DEF Acts
<1>4. Fold(m, i) = [r EXCEPT !.cursor = i]
  BY DEF Fold
<1> HIDE DEF n
<1>5. /\ DOMAIN r = Fields /\ r.delivered = n.delivered /\ r.stopRequested = n.stopRequested
      /\ \A a \in Agent : n.pending[a] \subseteq r.pending[a]
      /\ \A a \in Agent : e.agent = a /\ Kind(i) # "none" =>
           i \in r.pending[a] \cup r.delivered[a]
  BY <1>1 DEF AddItem, Sane, Kind
<1> HIDE DEF r
<1> QED
  BY <1>2, <1>3, <1>4, <1>5

LEMMA CatchUpServes ==
  ASSUME LogOK, NEW m, MemOK(m)
  PROVE  /\ NothingLost(m) => NothingLost(CatchUp(m))
         /\ NoneForgotten(m) => NoneForgotten(CatchUp(m))
         /\ \A a \in Agent : CatchUp(m).delivered[a] \subseteq m.delivered[a] \cup Shown(a)
         /\ (/\ m.stopRequested = TRUE
             /\ \A j \in m.cursor + 1 .. Len(log) : log[j].type # "resumed")
            => CatchUp(m).stopRequested = TRUE
<1> DEFINE c == m.cursor
<1>0. Len(log) \in Nat /\ Seqs = 1..Len(log) /\ c \in 0..Len(log)
  BY SequenceIsOne DEF LogOK, EventsOK, IsSequence, Seqs, MemOK
<1>1. PICK f : /\ f[c] = m /\ CatchUp(m) = f[Len(log)]
               /\ \A n \in c + 1 .. Len(log) : f[n] = Fold(f[n - 1], n)
  BY <1>0, CatchUpIsFold
<1> DEFINE Good(n) ==
      /\ Sane(f[n]) /\ f[n].cursor = n
      /\ NothingLost(m) => NothingLost(f[n])
      /\ NoneForgotten(m) => NoneForgotten(f[n])
      /\ \A a \in Agent : f[n].delivered[a] \subseteq m.delivered[a] \cup Shown(a)
      /\ (/\ m.stopRequested = TRUE
          /\ \A j \in c + 1 .. n : log[j].type # "resumed")
         => f[n].stopRequested = TRUE
<1>2. Good(c)
  BY <1>0, <1>1 DEF MemOK
<1>3. ASSUME NEW n \in c + 1 .. Len(log), Good(n - 1) PROVE Good(n)
  <2>1. n \in Seqs /\ n - 1 \in Nat /\ n \in Nat /\ n \in 1..n /\ n \in c + 1 .. n
        /\ \A j \in c + 1 .. n - 1 : j \in c + 1 .. n
    BY <1>0
  <2>2. log[n].type \in Acts => log[n].agent \in Agent /\ log[n].aid \in Nat
    BY <2>1 DEF LogOK, EventsOK
  <2>3. Sane(f[n]) /\ Reads(f[n - 1], f[n], log[n]) /\ f[n].cursor = n
    BY <1>1, <1>3, <2>2, FoldReads
  <2>4. /\ \A a \in Agent : f[n - 1].pending[a] \cup f[n - 1].delivered[a]
                              \subseteq f[n].pending[a] \cup f[n].delivered[a]
        /\ \A a \in Agent : log[n].agent = a /\ Kind(n) # "none" =>
             n \in f[n].pending[a] \cup f[n].delivered[a]
        /\ f[n - 1].stopRequested = TRUE /\ log[n].type # "resumed" =>
             f[n].stopRequested = TRUE
    <3>1. Sane(f[n - 1]) /\ f[n] = Fold(f[n - 1], n)
      BY <1>1, <1>3
    <3> QED
      BY <2>2, <3>1, FoldServes
  <2>5. NothingLost(f[n - 1]) => NothingLost(f[n])
    <3>1. SUFFICES ASSUME NothingLost(f[n - 1]), NEW a \in Agent, NEW i \in 1..n,
                          log[i].agent = a, IsDue(i)
                   PROVE  i \in f[n].pending[a] \cup f[n].delivered[a]
      BY <2>3 DEF NothingLost
    <3>2. CASE i = n
      BY <2>4, <3>1, <3>2 DEF IsDue
    <3>3. CASE i # n
      <4>1. i \in 1..n - 1
        BY <2>1, <3>3
      <4>2. i \in f[n - 1].pending[a] \cup f[n - 1].delivered[a]
        BY <1>3, <3>1, <4>1 DEF NothingLost
      <4> QED
        BY <2>4, <4>2
    <3> QED
      BY <3>2, <3>3
  <2>6. NoneForgotten(f[n - 1]) => NoneForgotten(f[n])
    <3>1. SUFFICES ASSUME NoneForgotten(f[n - 1]), NEW a \in Agent, NEW i \in 1..n,
                          log[i].agent = a, IsDue(i), Standing(i, n)
                   PROVE  i \in f[n].pending[a] \cup f[n].delivered[a]
      BY <2>3 DEF NoneForgotten
    <3>2. CASE i = n
      BY <2>4, <3>1, <3>2 DEF IsDue
    <3>3. CASE i # n
      <4>1. i \in 1..n - 1 /\ i..n - 1 \subseteq i..n
        BY <2>1, <3>3
      <4>2. Standing(i, n - 1)
        BY <3>1, <4>1 DEF Standing
      <4>3. i \in f[n - 1].pending[a] \cup f[n - 1].delivered[a]
        BY <1>3, <3>1, <4>1, <4>2 DEF NoneForgotten
      <4> QED
        BY <2>4, <4>3
    <3> QED
      BY <3>2, <3>3
  <2>7. ASSUME NEW a \in Agent
        PROVE  f[n].delivered[a] \subseteq m.delivered[a] \cup Shown(a)
    <3>1. log[n].type \in Shows /\ log[n].agent = a => log[n].seqs \subseteq Shown(a)
      BY <2>1 DEF Shown, Shows
    <3> QED
      BY <1>3, <2>3, <3>1 DEF Reads
  <2> QED
    BY <1>3, <2>1, <2>3, <2>4, <2>5, <2>6, <2>7
<1> HIDE DEF Good
<1>4. \A n \in c..Len(log) : Good(n)
  <2> DEFINE Bad == {n \in c..Len(log) : ~Good(n)}
  <2>1. SUFFICES ASSUME Bad # {} PROVE FALSE
    OBVIOUS
  <2>2. Bad \subseteq Nat
    BY <1>0
  <2>3. PICK k \in Bad : \A l \in Bad : k <= l
    BY <2>1, <2>2, LeastNatural
  <2>4. k # c
    BY <1>2
  <2>5. k - 1 \in c..Len(log) /\ k \in c + 1 .. Len(log) /\ ~(k <= k - 1)
    BY <1>0, <2>4
  <2>6. Good(k - 1)
    BY <2>3, <2>5
  <2> QED
    BY <1>3, <2>5, <2>6
<1>5. Good(Len(log))
  BY <1>0, <1>4
<1> QED
  BY <1>0, <1>1, <1>5 DEF Good

\* What the first n events say is void stays void when the log grows.
LEMMA StandingStays ==
  ASSUME Grows, NEW n \in 0..Len(log), Len(log) \in Nat, NEW i \in 1..n
  PROVE  Standing(i, n)' <=> Standing(i, n)
<1>1. \A k \in 1..n : log'[k] = log[k]
  BY DEF Grows
<1>2. ASSUME NEW k \in i..n
      PROVE  Relevant(i, k)' <=> Relevant(i, k)
  <2>1. k \in 1..n /\ 1..k \subseteq 1..n
    OBVIOUS
  <2>2. \A j \in 1..k : log'[j] = log[j]
    BY <1>1, <2>1
  <2>3. \A j \in 1..k : Latest(j, k)' <=> Latest(j, k)
    <3>1. SUFFICES ASSUME NEW j \in 1..k PROVE Latest(j, k)' <=> Latest(j, k)
      OBVIOUS
    <3>2. \A l \in j + 1 .. k : l \in 1..k
      OBVIOUS
    <3> QED
      BY <2>2, <3>2 DEF Latest
  <2>4. Kind(i)' = Kind(i) /\ log'[i] = log[i]
    BY <1>1 DEF Kind
  <2> QED
    BY <2>2, <2>3, <2>4 DEF Relevant
<1> QED
  BY <1>2 DEF Standing

\* What a memory has kept is kept when the log grows.
LEMMA NoneForgottenStays ==
  ASSUME LogOK, Grows, MemOK(mem'), NoneForgotten(mem')
  PROVE  NoneForgotten(mem)'
<1>0. Len(log) \in Nat /\ mem'.cursor \in 0..Len(log)
  BY SequenceIsOne DEF MemOK, LogOK, EventsOK, IsSequence
<1>1. PICK c : c = mem'.cursor
  OBVIOUS
<1>2. \A i \in 1..c : log'[i] = log[i]
  BY <1>0, <1>1 DEF Grows
<1>3. \A i \in 1..c : Standing(i, c)' <=> Standing(i, c)
  BY <1>0, <1>1, StandingStays
<1>4. \A i \in 1..c : (IsDue(i)' <=> IsDue(i)) /\ log'[i].agent = log[i].agent
  BY <1>2 DEF IsDue, Kind
<1>5. NoneForgotten(mem)' <=>
        \A a \in Agent, i \in 1..c : log'[i].agent = a /\ IsDue(i)' /\ Standing(i, c)'
                                      => i \in mem'.pending[a] \cup mem'.delivered[a]
  BY <1>1 DEF NoneForgotten
<1> QED
  BY <1>1, <1>3, <1>4, <1>5 DEF NoneForgotten

LEMMA ShownGrows ==
  ASSUME Grows, NEW a
  PROVE  Shown(a) \subseteq Shown(a)'
  BY DEF Grows, Shown, Seqs

\* A step in which nothing is lost.
LEMMA ServedStep ==
  ASSUME IInv, JInv, Grows, MemOK(mem'), NoneForgotten(mem'), mem.cursor <= mem'.cursor,
         \A a \in Agent : mem'.delivered[a] \subseteq mem.delivered[a] \cup Shown(a)'
                                                        \cup Handed(a)',
         \A a \in Agent : Handed(a) \subseteq Handed(a)' \cup Shown(a)',
         InLoop /\ mem.stopRequested => InLoop' /\ mem'.stopRequested,
         InLoop' => \A j \in Len(log) + 1 .. Len(log') : log'[j].type # "resumed",
         InLoop' => InLoop \/ mem'.cursor = Len(log)
  PROVE  JInv'
<1>0. LogOK /\ Len(log) \in Nat /\ mem.cursor \in Nat /\ mem'.cursor \in 0..Len(log)
  BY LogFacts DEF MemOK
<1>1. NoneForgotten(mem)'
  BY <1>0, NoneForgottenStays
<1>2. Accounted'
  <2>1. \A a \in Agent : Shown(a) \subseteq Shown(a)'
    BY ShownGrows
  <2>2. CASE InLoop /\ mem.stopRequested
    BY <2>2 DEF Accounted
  <2>3. CASE \A a \in Agent : mem.delivered[a] \subseteq Shown(a) \cup Handed(a)
    BY <2>1, <2>3 DEF Accounted
  <2> QED
    BY <2>2, <2>3 DEF JInv, Accounted
<1>3. NotResumed'
  <2>1. SUFFICES ASSUME InLoop', NEW j \in mem'.cursor + 1 .. Len(log'), j \in 1..Len(log)
                 PROVE  log'[j].type # "resumed"
    BY <1>0 DEF NotResumed, Grows
  <2>2. InLoop /\ j \in mem.cursor + 1 .. Len(log)
    BY <1>0, <2>1
  <2> QED
    BY <2>1, <2>2 DEF JInv, NotResumed, Grows
<1> QED
  BY <1>1, <1>2, <1>3 DEF JInv

\* What a decision takes back is void now.
LEMMA DecisionServes ==
  ASSUME NEW m, MemOK(m), NoneForgotten(m), NEW n, Decides(m, n)
  PROVE  NoneForgotten(n)
<1>1. SUFFICES ASSUME NEW a \in Agent, NEW i \in 1..m.cursor, log[i].agent = a, IsDue(i),
                      Standing(i, m.cursor)
               PROVE  i \in n.pending[a] \cup n.delivered[a]
  BY DEF NoneForgotten, Decides, Kept
<1>2. m.cursor \in i..m.cursor
  BY <1>1 DEF MemOK
<1>3. Relevant(i, m.cursor)
  BY <1>1, <1>2 DEF Standing
<1>4. i \in m.pending[a] \cup m.delivered[a] /\ n.delivered = m.delivered
  BY <1>1 DEF NoneForgotten, Decides, Kept
<1> QED
  BY <1>1, <1>3, <1>4 DEF Decides, IsDue

\* A step that reads or not, drops or not, appends no start and hands out nothing.
LEMMA ServedQuietly ==
  ASSUME IInv, JInv, Grows, InLoop, InLoop', NEW m,
         m = mem \/ m = CatchUp(mem), Decides(m, mem'),
         \A a \in Agent : Handed(a) \subseteq Handed(a)',
         \A j \in Len(log) + 1 .. Len(log') : log'[j].type # "resumed"
  PROVE  JInv'
<1>1. LogOK /\ MemOK(mem) /\ mem.cursor \in Nat
  BY LogFacts
<1>2. /\ MemOK(m) /\ NoneForgotten(m) /\ mem.cursor <= m.cursor
      /\ \A a \in Agent : m.delivered[a] \subseteq mem.delivered[a] \cup Shown(a)
      /\ mem.stopRequested => m.stopRequested
  <2>1. CASE m = mem
    BY <1>1, <2>1 DEF JInv
  <2>2. CASE m = CatchUp(mem)
    <3>1. NoneForgotten(mem) /\ \A j \in mem.cursor + 1 .. Len(log) : log[j].type # "resumed"
      BY DEF JInv, NotResumed
    <3>2. MemOK(m) /\ mem.cursor <= m.cursor
      BY <2>2, CaughtUp
    <3>3. /\ NoneForgotten(m)
          /\ \A a \in Agent : m.delivered[a] \subseteq mem.delivered[a] \cup Shown(a)
          /\ mem.stopRequested = TRUE => m.stopRequested = TRUE
      BY <1>1, <2>2, <3>1, CatchUpServes
    <3> QED
      BY <3>2, <3>3
  <2> QED
    BY <2>1, <2>2
<1>3. MemOK(mem') /\ NoneForgotten(mem')
  BY <1>2, KeptIsOK, DecisionServes DEF Decides
<1>4. \A a \in Agent : mem'.delivered[a] \subseteq mem.delivered[a] \cup Shown(a)'
  BY <1>2, ShownGrows DEF Decides, Kept
<1>5. mem.stopRequested => mem'.stopRequested
  BY <1>2 DEF Decides
<1>6. mem.cursor <= mem'.cursor
  BY <1>2 DEF Decides, Kept
<1> QED
  BY <1>3, <1>4, <1>5, <1>6, ServedStep

\* The end of the process forgets everything.
LEMMA BlankServes ==
  ASSUME IInv, Grows, pc' = "off", mem' = Blank
  PROVE  JInv'
<1>1. NoneForgotten(mem)' /\ NotResumed'
  BY DEF NoneForgotten, Blank, NotResumed, InLoop
<1>2. Accounted'
  BY DEF Accounted, Blank
<1> QED
  BY <1>1, <1>2 DEF JInv

LEMMA SayMore ==
  ASSUME IInv, NEW e, Append1(e), e.type # "resumed"
  PROVE  Grows /\ \A j \in Len(log) + 1 .. Len(log') : log'[j].type # "resumed"
<1>1. Grows /\ Len(log') = Len(log) + 1 /\ log'[Len(log) + 1] = e
  BY AppendGrows, LogFacts
<1>2. Len(log) \in Nat
  BY LogFacts
<1> QED
  BY <1>1, <1>2

LEMMA SayNothing ==
  ASSUME IInv, UNCHANGED log
  PROVE  Grows /\ \A j \in Len(log) + 1 .. Len(log') : log'[j].type # "resumed"
<1>1. Grows
  BY SameLog, LogFacts DEF GrowsQuietly
<1>2. Len(log) \in Nat /\ Len(log') = Len(log)
  BY LogFacts
<1> QED
  BY <1>1, <1>2

LEMMA HandedStays ==
  ASSUME \A y \in DOMAIN tasks : tasks[y].phase = "spawned" /\ tasks[y].exc = "none" =>
           y \in DOMAIN tasks' /\ tasks'[y] = tasks[y]
  PROVE  \A a \in Agent : Handed(a) \subseteq Handed(a)'
  BY DEF Handed

\* What each step of the loop does to what was read, delivered and handed out.
LEMMA LoopServes ==
  ASSUME IInv, JInv, Loop, \A a \in Agent : ~Start(a)
  PROVE  JInv'
<1> USE LogFacts
<1>0. UNCHANGED tasks => \A a \in Agent : Handed(a) \subseteq Handed(a)'
  BY DEF Handed
<1>1. CASE Boot
  <2>1. ~InLoop /\ ~InLoop' /\ UNCHANGED tasks
    BY <1>1 DEF Boot, InLoop
  <2>2. Grows
    <3>1. UNCHANGED log \/ Append1(Plain("resumed", CatchUp(mem).stopped))
      BY <1>1 DEF Boot
    <3> QED
      BY <3>1, SameLog, AppendGrows DEF GrowsQuietly
  <2>3. CASE mem' = Blank /\ pc' = "off"
    BY <2>2, <2>3, BlankServes
  <2>4. CASE mem' = CatchUp(mem)
    <3>1. /\ MemOK(mem') /\ mem.cursor <= mem'.cursor /\ NoneForgotten(mem')
          /\ \A a \in Agent : mem'.delivered[a] \subseteq mem.delivered[a] \cup Shown(a)
      BY <2>4, ReadMemory, CatchUpServes DEF JInv
    <3>2. \A a \in Agent : mem'.delivered[a] \subseteq mem.delivered[a] \cup Shown(a)'
      BY <2>2, <3>1, ShownGrows
    <3> QED
      BY <1>0, <2>1, <2>2, <3>1, <3>2, ServedStep
  <2> QED
    BY <1>1, <2>3, <2>4 DEF Boot
<1>2. CASE ResumeUnfinished
  <2>1. pc = "resume" /\ pc' = "loop" /\ mem' = CatchUp(mem) /\ UNCHANGED log
    BY <1>2 DEF ResumeUnfinished
  <2>2. /\ MemOK(mem') /\ mem.cursor <= mem'.cursor /\ NoneForgotten(mem')
        /\ mem'.cursor = Len(log)
        /\ \A a \in Agent : mem'.delivered[a] \subseteq mem.delivered[a] \cup Shown(a)
    BY <2>1, ReadMemory, CatchUpServes DEF JInv
  <2>3. \A a \in Agent : Handed(a) = {} /\ Shown(a) \subseteq Shown(a)'
    <3>1. DOMAIN tasks = {}
      BY <2>1 DEF IInv, TasksOK, InLoop
    <3> QED
      BY <2>1, <3>1, SayNothing, ShownGrows DEF Handed
  <2>4. ~InLoop
    BY <2>1 DEF InLoop
  <2> QED
    BY <2>1, <2>2, <2>3, <2>4, SayNothing, ServedStep
<1>3. CASE FireTimers
  <2>1. /\ pc \in {"loop", "wait"} /\ pc' = "breakers" /\ mem' = CatchUp(mem)
        /\ UNCHANGED tasks
    BY <1>3 DEF FireTimers
  <2>2. Grows /\ \A j \in Len(log) + 1 .. Len(log') : log'[j].type # "resumed"
    BY <1>3, FireTimersGrows DEF GrowsQuietly
  <2> QED
    BY <1>0, <2>1, <2>2, DecidesNothing, ServedQuietly DEF InLoop
<1>4. CASE CheckBreakers
  <2>1. /\ pc = "breakers" /\ pc' = "start" /\ UNCHANGED tasks
        /\ Decides(mem, mem')
        /\ UNCHANGED log \/ \E kind : Append1(Plain("breaker_tripped", kind))
    BY <1>4, CheckDecides
  <2>2. \A kind : Plain("breaker_tripped", kind).type # "resumed"
    BY DEF Plain, Event
  <2>3. Grows /\ \A j \in Len(log) + 1 .. Len(log') : log'[j].type # "resumed"
    BY <2>1, <2>2, SayNothing, SayMore
  <2> QED
    BY <1>0, <2>1, <2>3, ServedQuietly DEF InLoop
<1>5. ASSUME NEW a \in Agent, DropContinues(a) PROVE JInv'
  <2>1. /\ pc = "start" /\ pc' = "start" /\ UNCHANGED tasks
        /\ mem' = [mem EXCEPT !.pending[a] = @ \ Dropped(mem, a)]
        /\ Append1(Event("handoff_limit", a, "", 0, {}))
    BY <1>5 DEF DropContinues, MayStart
  <2>2. Decides(mem, mem')
    BY <2>1, DropDecides DEF MemOK
  <2>3. Event("handoff_limit", a, "", 0, {}).type # "resumed"
    BY DEF Event
  <2>4. Grows /\ \A j \in Len(log) + 1 .. Len(log') : log'[j].type # "resumed"
    BY <2>1, <2>3, SayMore
  <2> QED
    BY <1>0, <2>1, <2>2, <2>4, ServedQuietly DEF InLoop
<1>6. CASE StartsDone
  <2>1. pc = "start" /\ pc' = "decide" /\ mem' = CatchUp(mem) /\ UNCHANGED <<log, tasks>>
    BY <1>6 DEF StartsDone
  <2> QED
    BY <1>0, <2>1, SayNothing, DecidesNothing, ServedQuietly DEF InLoop
<1>7. CASE StopAsked \/ StopQuiescent
  <2>1. PICK reason : Append1(Plain("stopped", reason)) /\ pc' = "off" /\ mem' = Blank
    BY <1>7 DEF StopAsked, StopQuiescent, Stop
  <2> QED
    BY <2>1, AppendGrows, BlankServes
<1>8. CASE CancelTasks
  <2>1. /\ pc = "decide" /\ pc' = "wait" /\ mem.stopRequested /\ mem' = mem /\ UNCHANGED log
    BY <1>8 DEF CancelTasks
  <2>2. NoneForgotten(mem)'
    BY <2>1, SayNothing, NoneForgottenStays DEF JInv
  <2>3. Accounted' /\ NotResumed'
    BY <2>1 DEF JInv, Accounted, NotResumed, InLoop
  <2> QED
    BY <2>2, <2>3 DEF JInv
<1>9. CASE LogQuiescent
  <2>1. /\ pc = "decide" /\ pc' = "decide" /\ UNCHANGED tasks
        /\ Append1(Plain("quiescent", "")) /\ Decides(mem, mem')
    BY <1>9, LogDecides
  <2>2. Plain("quiescent", "").type # "resumed"
    BY DEF Plain, Event
  <2>3. Grows /\ \A j \in Len(log) + 1 .. Len(log') : log'[j].type # "resumed"
    BY <2>1, <2>2, SayMore
  <2> QED
    BY <1>0, <2>1, <2>3, ServedQuietly DEF InLoop
<1>10. CASE Wait
  <2>1. pc = "decide" /\ pc' = "wait" /\ UNCHANGED <<log, mem, tasks>>
    BY <1>10 DEF Wait
  <2> QED
    BY <1>0, <2>1, SayNothing, DecidesNothing, ServedQuietly DEF InLoop
<1> QED
  BY <1>1, <1>2, <1>3, <1>4, <1>5, <1>6, <1>7, <1>8, <1>9, <1>10 DEF Loop

LEMMA StartServes ==
  ASSUME IInv, JInv, NEW a \in Agent, Start(a)
  PROVE  JInv'
<1> USE LogFacts
<1>0. PICK new : new = aids + 1
  OBVIOUS
<1> DEFINE items == Live(mem, a)
           m == [mem EXCEPT !.running[a] = new]
<1>1. /\ pc = "start" /\ UNCHANGED <<log, pc>> /\ mem' = Deliver(m, a, items)
      /\ tasks' = [x \in DOMAIN tasks \cup {new} |->
                     IF x = new THEN Task(a, "spawned", items) ELSE tasks[x]]
  BY <1>0 DEF Start, MayStart, Candidates
<1>2. \A x \in DOMAIN tasks : x # new
  BY <1>0 DEF IInv, TasksOK, TaskOK, LogOK, EventsOK
<1> HIDE DEF items
<1>3. /\ mem'.cursor = mem.cursor /\ mem'.stopRequested = mem.stopRequested
      /\ \A b \in Agent :
           /\ mem'.delivered[b] = mem.delivered[b] \cup (IF b = a THEN items ELSE {})
           /\ mem.pending[b] \subseteq mem'.pending[b] \cup mem'.delivered[b]
  BY <1>1 DEF Deliver, MemOK, Sane, Fields, Blank
<1>4. /\ tasks'[new].agent = a /\ tasks'[new].phase = "spawned" /\ tasks'[new].exc = "none"
      /\ tasks'[new].seqs = items /\ new \in DOMAIN tasks'
  BY <1>1 DEF Task
<1>5. items \subseteq Handed(a)'
  BY <1>4 DEF Handed
<1>6. \A b \in Agent : Handed(b) \subseteq Handed(b)'
  <2>1. \A y \in DOMAIN tasks : y \in DOMAIN tasks' /\ tasks'[y] = tasks[y]
    BY <1>1, <1>2
  <2> QED
    BY <2>1, HandedStays
<1>7. NoneForgotten(mem')
  BY <1>3 DEF JInv, NoneForgotten
<1>8. MemOK(mem')
  <2>1. MemOK(mem)' /\ log' = log
    BY <1>1, StartKeeps DEF IInv
  <2> QED
    BY <2>1 DEF MemOK, Sane
<1> QED
  BY <1>1, <1>3, <1>5, <1>6, <1>7, <1>8, SayNothing, ServedStep DEF InLoop

LEMMA PollServes ==
  ASSUME IInv, JInv, NEW x \in 1..MaxActivations, Poll(x) \/ PollDrops(x)
  PROVE  JInv'
<1> USE LogFacts
<1> DEFINE a == tasks[x].agent
<1>1. /\ x \in DOMAIN tasks /\ pc = "wait" /\ UNCHANGED <<pc, tasks>>
      /\ \/ /\ Decides(CatchUp(mem), mem')
            /\ UNCHANGED log \/ Append1(Event("handoff_limit", a, "", 0, {}))
         \/ \E m, items :
              /\ Decides(CatchUp(mem), m) /\ items \subseteq m.pending[a]
              /\ mem' = Deliver(m, a, items) /\ Append1(Event("incoming", a, "", x, items))
  BY PollDecides
<1>2. a \in Agent
  BY <1>1 DEF IInv, TasksOK, TaskOK
<1>3. CASE /\ Decides(CatchUp(mem), mem')
           /\ UNCHANGED log \/ Append1(Event("handoff_limit", a, "", 0, {}))
  <2>1. Event("handoff_limit", a, "", 0, {}).type # "resumed"
    BY DEF Event
  <2>2. Grows /\ \A j \in Len(log) + 1 .. Len(log') : log'[j].type # "resumed"
    BY <1>3, <2>1, SayMore, SayNothing
  <2>3. \A b \in Agent : Handed(b) \subseteq Handed(b)'
    BY <1>1 DEF Handed
  <2> QED
    BY <1>1, <1>3, <2>2, <2>3, ServedQuietly DEF InLoop
<1>4. ASSUME NEW m, NEW items, Decides(CatchUp(mem), m),
             mem' = Deliver(m, a, items), Append1(Event("incoming", a, "", x, items))
      PROVE  JInv'
  <2> DEFINE e == Event("incoming", a, "", x, items)
  <2>1. /\ MemOK(CatchUp(mem)) /\ CatchUp(mem).cursor = Len(log) /\ mem.cursor <= Len(log)
    BY CaughtUp
  <2>2. /\ NoneForgotten(CatchUp(mem))
        /\ \A b \in Agent : CatchUp(mem).delivered[b] \subseteq mem.delivered[b] \cup Shown(b)
        /\ mem.stopRequested = TRUE => CatchUp(mem).stopRequested = TRUE
    BY <1>1, CatchUpServes DEF JInv, NotResumed, InLoop
  <2>3. /\ MemOK(m) /\ m.cursor = Len(log) /\ NoneForgotten(m)
        /\ \A b \in Agent : m.delivered[b] \subseteq mem.delivered[b] \cup Shown(b)
        /\ mem.stopRequested => m.stopRequested
    BY <1>4, <2>1, <2>2, KeptIsOK, DecisionServes DEF Decides, Kept
  <2>4. /\ mem'.cursor = m.cursor /\ mem'.stopRequested = m.stopRequested
        /\ \A b \in Agent :
             /\ mem'.delivered[b] = m.delivered[b] \cup (IF b = a THEN items ELSE {})
             /\ m.pending[b] \subseteq mem'.pending[b] \cup mem'.delivered[b]
    BY <1>4, <2>3 DEF Deliver, MemOK, Sane, Fields, Blank
  <2>5. e.type = "incoming" /\ e.agent = a /\ e.seqs = items /\ Append1(e)
    BY <1>4 DEF Event
  <2> HIDE DEF e
  <2>6. Grows /\ \A j \in Len(log) + 1 .. Len(log') : log'[j].type # "resumed"
    BY <2>5, SayMore
  <2>7. items \subseteq Shown(a)'
    <3>1. Len(log') = Len(log) + 1 /\ log'[Len(log) + 1] = e
      BY <2>5, AppendGrows
    <3>2. Len(log) + 1 \in Seqs'
      <4>1. DOMAIN log' = 1..Len(log') /\ Len(log) \in Nat
        BY <2>6 DEF Grows
      <4> QED
        BY <3>1, <4>1 DEF Seqs
    <3>3. Shown(a)' = UNION {log'[i].seqs : i \in {j \in Seqs' :
                         log'[j].type \in {"started", "incoming"} /\ log'[j].agent = a}}
      BY <1>1 DEF Shown
    <3> QED
      BY <2>5, <3>1, <3>2, <3>3
  <2>8. NoneForgotten(mem')
    BY <2>3, <2>4 DEF NoneForgotten
  <2>9. MemOK(mem')
    <3>1. Sane(m)
      BY <2>3 DEF MemOK
    <3> HIDE DEF a
    <3>2. Sane(mem')
      BY <1>2, <1>4, <3>1, DeliverReads
    <3>3. \A b \in Agent : m.delivered[b] \subseteq mem'.delivered[b]
      BY <2>4
    <3> QED
      BY <2>3, <2>4, <3>2, <3>3 DEF MemOK
  <2>10. \A b \in Agent : /\ Handed(b) \subseteq Handed(b)' /\ Shown(b) \subseteq Shown(b)'
                           /\ mem'.delivered[b] \subseteq mem.delivered[b] \cup Shown(b)'
    <3>1. \A b \in Agent : Handed(b) \subseteq Handed(b)'
      BY <1>1 DEF Handed
    <3>2. \A b \in Agent : Shown(b) \subseteq Shown(b)'
      BY <2>6, ShownGrows
    <3>3. ASSUME NEW b \in Agent
          PROVE  mem'.delivered[b] \subseteq mem.delivered[b] \cup Shown(b)'
      <4>1. CASE b = a
        <5>1. Shown(b)' = Shown(a)'
          BY <1>1, <4>1 DEF Shown
        <5> QED
          BY <2>3, <2>4, <2>7, <3>2, <4>1, <5>1
      <4>2. CASE b # a
        BY <2>3, <2>4, <3>2, <4>2
      <4> QED
        BY <4>1, <4>2
    <3> QED
      BY <3>1, <3>2, <3>3
  <2>11. mem.cursor <= mem'.cursor /\ (InLoop /\ mem.stopRequested => mem'.stopRequested)
    BY <2>1, <2>3, <2>4
  <2> QED
    BY <1>1, <2>6, <2>8, <2>9, <2>10, <2>11, ServedStep DEF InLoop
<1> QED
  BY <1>1, <1>3, <1>4

LEMMA BeginServes ==
  ASSUME IInv, JInv, NEW x \in 1..MaxActivations, Begin(x)
  PROVE  JInv'
<1> USE LogFacts
<1>0. PICK a : a = tasks[x].agent
  OBVIOUS
<1>1. /\ x \in DOMAIN tasks /\ pc = "wait" /\ UNCHANGED <<pc, mem>>
      /\ tasks' = [tasks EXCEPT ![x].phase = "running"]
      /\ Append1(Event("started", a, "", x, tasks[x].seqs))
  BY <1>0 DEF Begin, Phase
<1> DEFINE e == Event("started", a, "", x, tasks[x].seqs)
<1>2. e.type = "started" /\ e.agent = a /\ e.seqs = tasks[x].seqs /\ Append1(e)
  BY <1>1 DEF Event
<1> HIDE DEF e
<1>3. Grows /\ Len(log') = Len(log) + 1 /\ log'[Len(log) + 1] = e
  BY <1>2, AppendGrows
<1>4. tasks[x].seqs \subseteq Shown(a)'
  <2>1. Len(log) + 1 \in Seqs'
    <3>1. DOMAIN log' = 1..Len(log') /\ Len(log) \in Nat
      BY <1>3 DEF Grows
    <3> QED
      BY <1>3, <3>1 DEF Seqs
  <2>2. Shown(a)' = UNION {log'[i].seqs : i \in {j \in Seqs' :
                       log'[j].type \in {"started", "incoming"} /\ log'[j].agent = a}}
    BY DEF Shown
  <2> QED
    BY <1>2, <1>3, <2>1, <2>2
<1>5. \A b \in Agent : Handed(b) \subseteq Handed(b)' \cup Shown(b)'
  BY <1>0, <1>1, <1>4 DEF Handed
<1>6. Grows /\ \A j \in Len(log) + 1 .. Len(log') : log'[j].type # "resumed"
  BY <1>2, SayMore
<1>7. NoneForgotten(mem') /\ MemOK(mem') /\ mem.cursor <= mem'.cursor
      /\ \A b \in Agent : mem'.delivered[b] \subseteq mem.delivered[b]
  <2>1. mem' = mem /\ MemOK(mem) /\ mem.cursor \in Nat /\ NoneForgotten(mem)
    BY <1>1 DEF JInv
  <2> QED
    BY <2>1
<1> QED
  BY <1>1, <1>5, <1>6, <1>7, ServedStep DEF InLoop

LEMMA ActivationServes ==
  ASSUME IInv, JInv, ~RunnerFailures, NEW x \in 1..MaxActivations, Activation(x)
  PROVE  JInv'
<1> USE LogFacts
<1> DEFINE a == tasks[x].agent
<1>0. UNCHANGED tasks => \A b \in Agent : Handed(b) \subseteq Handed(b)'
  BY DEF Handed
<1>1. CASE Resume(x)
  <2>1. /\ x \in DOMAIN tasks /\ pc = "wait" /\ tasks[x].phase = "resuming"
        /\ tasks' = [tasks EXCEPT ![x].phase = "running"] /\ UNCHANGED <<log, pc, mem>>
    BY <1>1 DEF Resume, Phase
  <2>2. \A b \in Agent : Handed(b) \subseteq Handed(b)'
    BY <2>1, HandedStays
  <2> QED
    BY <2>1, <2>2, SayNothing, DecidesNothing, ServedQuietly DEF InLoop
<1>2. CASE Poll(x) \/ PollDrops(x)
  BY <1>2, PollServes
<1>3. CASE SetTimer(x)
  <2>1. /\ pc = "wait" /\ UNCHANGED <<pc, mem, tasks>>
        /\ Append1(Event("timer_set", a, "", 0, {}))
    BY <1>3 DEF SetTimer, Running, Phase
  <2>2. Event("timer_set", a, "", 0, {}).type # "resumed"
    BY DEF Event
  <2>3. Grows /\ \A j \in Len(log) + 1 .. Len(log') : log'[j].type # "resumed"
    BY <2>1, <2>2, SayMore
  <2> QED
    BY <1>0, <2>1, <2>3, DecidesNothing, ServedQuietly DEF InLoop
<1>4. CASE Finish(x) \/ Cancelled(x) \/ Done(x)
  <2>1. /\ x \in DOMAIN tasks /\ pc = "wait" /\ UNCHANGED <<pc, mem>>
        /\ tasks[x].phase # "spawned" \/ tasks[x].exc # "none"
    BY <1>4 DEF Finish, Cancelled, Done, Running, Phase
  <2>2. \A y \in DOMAIN tasks : y # x => y \in DOMAIN tasks' /\ tasks'[y] = tasks[y]
    BY <1>4 DEF Finish, Cancelled, Done, EndTask
  <2>3. \A b \in Agent : Handed(b) \subseteq Handed(b)'
    BY <2>1, <2>2, HandedStays
  <2>4. CASE UNCHANGED log
    BY <2>1, <2>3, <2>4, SayNothing, DecidesNothing, ServedQuietly DEF InLoop
  <2>5. CASE \E what : Append1(Event("finished", a, what, x, {}))
    <3>1. PICK what : Append1(Event("finished", a, what, x, {}))
      BY <2>5
    <3>2. Event("finished", a, what, x, {}).type # "resumed"
      BY DEF Event
    <3>3. Grows /\ \A j \in Len(log) + 1 .. Len(log') : log'[j].type # "resumed"
      BY <3>1, <3>2, SayMore
    <3> QED
      BY <2>1, <2>3, <3>3, DecidesNothing, ServedQuietly DEF InLoop
  <2> QED
    BY <1>4, <2>4, <2>5 DEF Finish, Cancelled, Done
<1>5. ~RunnerFails(x)
  BY DEF RunnerFails
<1> QED
  BY <1>1, <1>2, <1>3, <1>4, <1>5, BeginServes DEF Activation

LEMMA EnvironmentServes ==
  ASSUME IInv, JInv, Environment \/ Crash \/ Launch
  PROVE  JInv'
<1> USE LogFacts
<1>1. ASSUME Grows, \A j \in Len(log) + 1 .. Len(log') : log'[j].type # "resumed",
             UNCHANGED <<mem, tasks>>, InLoop \/ ~InLoop', InLoop => InLoop'
      PROVE  JInv'
  BY <1>1, ServedStep DEF JInv, Handed
<1>3. CASE Environment
  <2>1. PICK e : Append1(e) /\ UNCHANGED <<pc, mem, tasks>> /\ e.type # "resumed"
    BY <1>3, EnvironmentAppends
  <2> QED
    BY <1>1, <2>1, SayMore DEF InLoop
<1>4. CASE Crash
  <2>1. pc' = "off" /\ mem' = Blank /\ UNCHANGED log
    BY <1>4 DEF Crash
  <2> QED
    BY <2>1, SayNothing, BlankServes
<1>5. CASE Launch
  <2>1. pc = "off" /\ pc' = "boot" /\ UNCHANGED <<log, mem, tasks>>
    BY <1>5 DEF Launch
  <2> QED
    BY <1>1, <2>1, SayNothing DEF InLoop
<1> QED
  BY <1>3, <1>4, <1>5

LEMMA StepJInv == ~RunnerFailures /\ IInv /\ JInv /\ [Next]_vars => JInv'
<1> SUFFICES ASSUME ~RunnerFailures, IInv, JInv, [Next]_vars PROVE JInv'
  OBVIOUS
<1>1. ASSUME NEW a \in Agent, Start(a) PROVE JInv'
  BY <1>1, StartServes
<1>2. CASE Loop
  BY <1>1, <1>2, LoopServes
<1>3. ASSUME NEW x \in 1..MaxActivations, Activation(x) PROVE JInv'
  BY <1>3, ActivationServes
<1>4. CASE Environment \/ Crash \/ Launch
  BY <1>4, EnvironmentServes
<1>5. CASE UNCHANGED vars
  BY <1>5 DEF vars, JInv, NoneForgotten, Standing, Relevant, Latest, IsDue, Kind, Accounted, Shown, Handed, NotResumed,
              InLoop, Seqs
<1> QED
  BY <1>2, <1>3, <1>4, <1>5 DEF Next

\* When no sandbox or harness fails to start, a run is only declared quiescent when each
\* agent that is not faulted has seen whatever should wake it and was never void, and runs nothing, for any
\* agents and limits, deaths and launches (scheduler.py: quiescent, tick, _start,
\* poll_incoming).  A runner that fails to start takes the items it was handed with it,
\* and the retry that follows does not bring them back.
THEOREM QuiescentRunsAreIdle == ~RunnerFailures => (Spec => QuiescentIsIdle)
<1> SUFFICES ASSUME ~RunnerFailures PROVE Spec => QuiescentIsIdle
  OBVIOUS
<1>1. Init => JInv
  BY DEF Init, JInv, NoneForgotten, Blank, Accounted, NotResumed, InLoop
<1>2. IInv /\ JInv /\ [Next]_vars => JInv'
  BY StepJInv
<1>3. ASSUME IInv, JInv, Next, log' # log, log'[Len(log')].type = "quiescent",
             NEW a \in Agent
      PROVE  mem.faulted[a] \/ (Unserved(a) = {} /\ OpenActivations(a) = {})
  <2>1. LogQuiescent
    BY <1>3, WhoSaysSo
  <2>2. /\ pc = "decide" /\ ~mem.stopRequested /\ DOMAIN tasks = {}
        /\ mem.faulted[a] \/ \A i \in Live(mem, a) : ~Wakes(i)
    BY <2>1 DEF LogQuiescent, Idle, Quiescent
  <2>3. OpenActivations(a) = {}
    BY <1>3, <2>2, NothingOpen DEF InLoop
  <2>4. mem.delivered[a] \subseteq Shown(a)
    BY <1>3, <2>2 DEF JInv, Accounted, Handed
  <2>5. ASSUME NEW i \in Unserved(a) PROVE i \in Live(mem, a) /\ Wakes(i)
    <3>1. i \in mem.pending[a] \cup mem.delivered[a]
      BY <1>3 DEF Unserved, JInv, NoneForgotten, IsDue
    <3>2. mem.cursor \in i..mem.cursor
      BY <1>3, LogFacts DEF Unserved
    <3>3. Relevant(i, mem.cursor)
      BY <3>2 DEF Unserved, Standing
    <3> QED
      BY <2>4, <3>1, <3>3 DEF Unserved, Live
  <2> QED
    BY <2>2, <2>3, <2>5
<1>4. IInv /\ JInv /\ [Next]_vars =>
        [(log' # log /\ log'[Len(log')].type = "quiescent")
           => \A a \in Agent :
                mem.faulted[a] \/ (Unserved(a) = {} /\ OpenActivations(a) = {})]_vars
  BY <1>3 DEF vars
<1> QED
  BY <1>1, <1>2, <1>4, WhoRunsIsKept, PTL DEF Spec, QuiescentIsIdle

-----------------------------------------------------------------------------
(* No agent is driven for ever.                                            *)

Failures == {"error", "provider", "runner_error"}
FailedLast(a, n) == Cardinality(InARow(a, n, Failures))
HandedOffLast(a, n) == Cardinality(InARow(a, n, {"handoff"}))

\* A memory has counted the rows among the events it has read, and faults an agent
\* that failed once too often.
Counted(m) ==
  /\ DOMAIN m.errors = Agent /\ DOMAIN m.handoffs = Agent /\ DOMAIN m.faulted = Agent
  /\ \A a \in Agent :
       /\ m.pending[a] \subseteq 1..m.cursor
       /\ m.errors[a] = FailedLast(a, m.cursor)
       /\ m.handoffs[a] = HandedOffLast(a, m.cursor)
       /\ m.faulted[a] \/ m.errors[a] <= ErrorRetries

\* What the log says of the rows.
RowsOK ==
  /\ \A i \in Seqs : log[i].type = "agent_reset" => log[i].what \notin Failures \cup {"handoff"}
  /\ \A a \in Agent, n \in 0..Len(log) : FailedLast(a, n) <= ErrorRetries + 1
  /\ \A i \in Seqs : log[i].type = "started" => log[i].seqs \subseteq Seqs

\* A handoff of a's own is among what it is handed; what a may still do.
Continues(seqs) == \E j \in seqs : Kind(j) = "continue"
MayFail(a) == FailedLast(a, Len(log)) <= ErrorRetries
MayContinue(a) == HandedOffLast(a, Len(log)) < HandoffLimit

\* An activation that has not ended can still fail once; one that was handed a handoff
\* to continue and has not begun does not go beyond the limit.
ActivationsMay ==
  /\ \A x \in DOMAIN tasks :
       /\ ~HasFinished(x) => MayFail(tasks[x].agent)
       /\ tasks[x].phase = "spawned" =>
            /\ tasks[x].seqs \subseteq Seqs
            /\ Continues(tasks[x].seqs) => MayContinue(tasks[x].agent)
  /\ \A i \in Seqs : log[i].type = "started" /\ ~HasFinished(log[i].aid) =>
       MayFail(log[i].agent)

KInv == Counted(mem) /\ RowsOK /\ HandoffsBounded /\ ActivationsMay

-----------------------------------------------------------------------------
(* Rows of outcomes.                                                       *)

LEMMA RowIsFinite ==
  ASSUME NEW a, NEW n \in Nat, NEW K
  PROVE  IsFiniteSet(InARow(a, n, K)) /\ Cardinality(InARow(a, n, K)) \in Nat
<1>1. IsFiniteSet(1..n) /\ InARow(a, n, K) \subseteq 1..n
  BY FS_Interval DEF InARow
<1> QED
  BY <1>1, FS_Subset, FS_CardinalityType

\* An outcome of one of the kinds makes the row longer by one, another one ends it, and
\* nothing else touches it.
LEMMA RowGoesOn ==
  ASSUME NEW a, NEW n \in Nat \ {0}, NEW K
  PROVE  /\ ~IsOutcome(n, a) => InARow(a, n, K) = InARow(a, n - 1, K)
         /\ IsOutcome(n, a) /\ log[n].what \in K =>
              Cardinality(InARow(a, n, K)) = Cardinality(InARow(a, n - 1, K)) + 1
         /\ IsOutcome(n, a) /\ log[n].what \notin K => Cardinality(InARow(a, n, K)) = 0
<1> DEFINE Before == InARow(a, n - 1, K)
<1>0. n - 1 \in Nat /\ n \notin 1..n - 1 /\ 1..n = (1..n - 1) \cup {n}
  OBVIOUS
<1>1. \A i \in 1..n - 1 : i..n = (i..n - 1) \cup {n}
  OBVIOUS
<1>2. CASE ~IsOutcome(n, a)
  BY <1>0, <1>1, <1>2 DEF InARow
<1>3. CASE IsOutcome(n, a) /\ log[n].what \in K
  <2>1. InARow(a, n, K) = Before \cup {n}
    BY <1>0, <1>1, <1>3 DEF InARow
  <2>2. n \notin Before /\ IsFiniteSet(Before)
    BY <1>0, RowIsFinite DEF InARow
  <2> QED
    BY <1>3, <2>1, <2>2, FS_AddElement
<1>4. CASE IsOutcome(n, a) /\ log[n].what \notin K
  <2>1. \A i \in 1..n : n \in i..n
    BY <1>0
  <2>2. InARow(a, n, K) = {}
    BY <1>4, <2>1 DEF InARow
  <2> QED
    BY <1>4, <2>2, FS_EmptySet
<1> QED
  BY <1>2, <1>3, <1>4

\* The rows of the events that were there stay as they were.
LEMMA RowsStay ==
  ASSUME Grows, NEW a, NEW n \in 0..Len(log), NEW K
  PROVE  InARow(a, n, K)' = InARow(a, n, K)
<1>1. \A i \in 1..n : log'[i] = log[i]
  BY DEF Grows
<1>2. \A i \in 1..n : IsOutcome(i, a)' <=> IsOutcome(i, a)
  BY <1>1 DEF IsOutcome
<1>3. \A i \in 1..n : \A j \in i..n : j \in 1..n
  BY DEF Grows
<1> QED
  BY <1>1, <1>2, <1>3 DEF InARow

\* No row gets longer without an end of an activation.
Resets(e) == e.type = "agent_reset" => e.what \notin Failures \cup {"handoff"}
LEMMA RowsShrink ==
  ASSUME NEW a, NEW c \in Nat, NEW n \in Nat, c <= n, NEW K,
         K \subseteq Failures \cup {"handoff"},
         \A i \in c + 1 .. n : log[i].type # "finished" /\ Resets(log[i])
  PROVE  Cardinality(InARow(a, n, K)) <= Cardinality(InARow(a, c, K))
<1>1. InARow(a, n, K) \subseteq InARow(a, c, K)
  <2>1. SUFFICES ASSUME NEW i \in InARow(a, n, K) PROVE i \in InARow(a, c, K)
    OBVIOUS
  <2>2. /\ i \in 1..n /\ IsOutcome(i, a) /\ i \in i..n
        /\ \A j \in i..n : IsOutcome(j, a) => log[j].what \in K
    BY <2>1 DEF InARow
  <2>3. i \in 1..c
    <3>1. SUFFICES ASSUME i \in c + 1 .. n PROVE FALSE
      BY <2>2
    <3>2. log[i].type = "agent_reset" /\ log[i].what \in K
      BY <2>2, <3>1 DEF IsOutcome
    <3> QED
      BY <3>1, <3>2 DEF Resets
  <2>4. \A j \in i..c : j \in i..n
    BY <2>2
  <2> QED
    BY <2>2, <2>3, <2>4 DEF InARow
<1> QED
  BY <1>1, RowIsFinite, FS_Subset

-----------------------------------------------------------------------------
(* What the fold counts.                                                   *)

LEMMA FoldCounts ==
  ASSUME NEW m, Sane(m), Counted(m), NEW i \in Nat \ {0}, m.cursor = i - 1,
         log[i].type \in Acts => log[i].agent \in Agent, Resets(log[i])
  PROVE  Counted(Fold(m, i))
<1> DEFINE e == log[i]
           n == Ingest(m, e, i)
           r == AddItem(n, e, i)
<1> USE DEF Fields, Blank
<1>0. /\ DOMAIN m = Fields /\ DOMAIN m.pending = Agent
      /\ DOMAIN m.errors = Agent /\ DOMAIN m.handoffs = Agent /\ DOMAIN m.faulted = Agent
  BY DEF Sane, Counted
<1>1. \A a \in Agent : m.errors[a] \in Nat /\ m.handoffs[a] \in Nat
  BY RowIsFinite DEF Counted, FailedLast, HandedOffLast
<1>2. /\ DOMAIN n = Fields /\ DOMAIN n.pending = Agent
      /\ DOMAIN n.errors = Agent /\ DOMAIN n.handoffs = Agent /\ DOMAIN n.faulted = Agent
      /\ \A a \in Agent : n.pending[a] \subseteq m.pending[a]
  BY <1>0 DEF Ingest, IngestStart, Finished, Deliver
<1>3. ASSUME e.type \notin {"finished", "agent_reset"}
      PROVE  n.errors = m.errors /\ n.handoffs = m.handoffs /\ n.faulted = m.faulted
  BY <1>0, <1>3 DEF Ingest, IngestStart, Deliver
<1>4. ASSUME e.type = "finished"
      PROVE  \A a \in Agent :
               IF a # e.agent
                 THEN /\ n.errors[a] = m.errors[a] /\ n.handoffs[a] = m.handoffs[a]
                      /\ n.faulted[a] = m.faulted[a]
                 ELSE /\ n.errors[a] = IF e.what \in Failures THEN m.errors[a] + 1 ELSE 0
                      /\ n.handoffs[a] = IF e.what = "handoff" THEN m.handoffs[a] + 1 ELSE 0
                      /\ n.faulted[a] = (m.faulted[a] \/ n.errors[a] > ErrorRetries)
  <2>1. n = Finished(m, e)
    BY <1>4 DEF Ingest
  <2> QED
    BY <1>0, <2>1 DEF Finished, Failures
<1>5. ASSUME e.type = "agent_reset"
      PROVE  \A a \in Agent :
               IF a # e.agent
                 THEN /\ n.errors[a] = m.errors[a] /\ n.handoffs[a] = m.handoffs[a]
                      /\ n.faulted[a] = m.faulted[a]
                 ELSE n.errors[a] = 0 /\ n.handoffs[a] = 0 /\ n.faulted[a] = FALSE
  BY <1>0, <1>5 DEF Ingest
<1> HIDE DEF n
<1>6. /\ r.errors = n.errors /\ r.handoffs = n.handoffs /\ r.faulted = n.faulted
      /\ DOMAIN r = Fields
      /\ \A a \in Agent : r.pending[a] \subseteq n.pending[a] \cup {i}
  BY <1>2 DEF AddItem
<1> HIDE DEF r
<1>7. Fold(m, i) = [r EXCEPT !.cursor = i]
  BY DEF Fold, r, n
<1> DEFINE f == Fold(m, i)
<1>8. /\ f.errors = n.errors /\ f.handoffs = n.handoffs /\ f.faulted = n.faulted
      /\ f.pending = r.pending /\ f.cursor = i
  BY <1>6, <1>7
<1> HIDE DEF f
<1>9. ASSUME NEW a \in Agent
      PROVE  /\ f.errors[a] = FailedLast(a, i) /\ f.handoffs[a] = HandedOffLast(a, i)
             /\ f.faulted[a] \/ f.errors[a] <= ErrorRetries
  <2>1. /\ m.errors[a] = FailedLast(a, i - 1) /\ m.handoffs[a] = HandedOffLast(a, i - 1)
        /\ m.faulted[a] \/ m.errors[a] <= ErrorRetries
    BY DEF Counted
  <2>2. /\ ~IsOutcome(i, a) => /\ FailedLast(a, i) = FailedLast(a, i - 1)
                               /\ HandedOffLast(a, i) = HandedOffLast(a, i - 1)
        /\ IsOutcome(i, a) =>
             /\ FailedLast(a, i) = IF e.what \in Failures THEN FailedLast(a, i - 1) + 1 ELSE 0
             /\ HandedOffLast(a, i) =
                  IF e.what = "handoff" THEN HandedOffLast(a, i - 1) + 1 ELSE 0
    BY RowGoesOn DEF FailedLast, HandedOffLast
  <2>3. CASE ~IsOutcome(i, a)
    <3>1. /\ n.errors[a] = m.errors[a] /\ n.handoffs[a] = m.handoffs[a]
          /\ n.faulted[a] = m.faulted[a]
      BY <1>3, <1>4, <1>5, <2>3 DEF IsOutcome
    <3> QED
      BY <1>8, <2>1, <2>2, <2>3, <3>1
  <2>4. CASE IsOutcome(i, a) /\ e.type = "finished"
    <3>1. a = e.agent
      BY <2>4 DEF IsOutcome
    <3>2. /\ f.errors[a] = FailedLast(a, i) /\ f.handoffs[a] = HandedOffLast(a, i)
      BY <1>4, <1>8, <2>1, <2>2, <2>4, <3>1
    <3>3. f.errors[a] \in Nat /\ ErrorRetries \in Nat
      BY <3>2, RowIsFinite, SchedulerAssumption DEF FailedLast
    <3>4. f.faulted[a] = (m.faulted[a] \/ f.errors[a] > ErrorRetries)
      BY <1>4, <1>8, <2>4, <3>1
    <3>5. CASE f.errors[a] > ErrorRetries
      <4>1. f.faulted[a] = TRUE
        BY <3>4, <3>5, Zenon
      <4> QED
        BY <3>2, <4>1, Zenon
    <3>6. CASE ~(f.errors[a] > ErrorRetries)
      <4>1. f.errors[a] <= ErrorRetries
        BY <3>3, <3>6
      <4> QED
        BY <3>2, <4>1, Zenon
    <3> QED
      BY <3>5, <3>6
  <2>5. CASE IsOutcome(i, a) /\ e.type = "agent_reset"
    <3>1. a = e.agent /\ e.what \notin Failures /\ e.what # "handoff"
      BY <2>5 DEF IsOutcome, Resets
    <3>2. n.errors[a] = 0 /\ n.handoffs[a] = 0
      BY <1>5, <2>5, <3>1
    <3>3. 0 <= ErrorRetries
      BY SchedulerAssumption
    <3> QED
      BY <1>8, <2>2, <2>5, <3>1, <3>2, <3>3
  <2> QED
    BY <2>3, <2>4, <2>5 DEF IsOutcome
<1>10. ASSUME NEW a \in Agent PROVE f.pending[a] \subseteq 1..i
  <2>1. m.pending[a] \subseteq 1..i - 1
    BY DEF Counted
  <2> QED
    BY <1>2, <1>6, <1>8, <2>1
<1> QED
  BY <1>2, <1>8, <1>9, <1>10 DEF Counted, f

LEMMA CatchUpCounts ==
  ASSUME LogOK, NEW m, MemOK(m), Counted(m), RowsOK
  PROVE  Counted(CatchUp(m))
<1> DEFINE c == m.cursor
<1>0. Len(log) \in Nat /\ Seqs = 1..Len(log) /\ c \in 0..Len(log)
  BY SequenceIsOne DEF LogOK, EventsOK, IsSequence, Seqs, MemOK
<1>1. PICK f : /\ f[c] = m /\ CatchUp(m) = f[Len(log)]
               /\ \A n \in c + 1 .. Len(log) : f[n] = Fold(f[n - 1], n)
  BY <1>0, CatchUpIsFold
<1> DEFINE Good(n) == Sane(f[n]) /\ f[n].cursor = n /\ Counted(f[n])
<1>2. Good(c)
  BY <1>0, <1>1 DEF MemOK
<1>3. ASSUME NEW n \in c + 1 .. Len(log), Good(n - 1) PROVE Good(n)
  <2>1. n \in Seqs /\ n \in Nat \ {0}
    BY <1>0
  <2>2. log[n].type \in Acts => log[n].agent \in Agent /\ log[n].aid \in Nat
    BY <2>1 DEF LogOK, EventsOK
  <2>3. Resets(log[n])
    BY <2>1 DEF RowsOK, Resets
  <2>4. f[n] = Fold(f[n - 1], n)
    BY <1>1
  <2>5. Sane(f[n]) /\ f[n].cursor = n
    BY <1>3, <2>2, <2>4, FoldReads
  <2> QED
    BY <1>3, <2>1, <2>2, <2>3, <2>4, <2>5, FoldCounts
<1> HIDE DEF Good
<1>4. \A n \in c..Len(log) : Good(n)
  <2> DEFINE Bad == {n \in c..Len(log) : ~Good(n)}
  <2>1. SUFFICES ASSUME Bad # {} PROVE FALSE
    OBVIOUS
  <2>2. Bad \subseteq Nat
    BY <1>0
  <2>3. PICK k \in Bad : \A l \in Bad : k <= l
    BY <2>1, <2>2, LeastNatural
  <2>4. k # c
    BY <1>2
  <2>5. k - 1 \in c..Len(log) /\ k \in c + 1 .. Len(log) /\ ~(k <= k - 1)
    BY <1>0, <2>4
  <2>6. Good(k - 1)
    BY <2>3, <2>5
  <2> QED
    BY <1>3, <2>5, <2>6
<1>5. Good(Len(log))
  BY <1>0, <1>4
<1> QED
  BY <1>1, <1>5 DEF Good

\* What a memory has counted is still so when the log grows.
LEMMA CountedStays ==
  ASSUME LogOK, Grows, MemOK(mem'), Counted(mem')
  PROVE  Counted(mem)'
<1>1. PICK c : c = mem'.cursor
  OBVIOUS
<1>2. c \in 0..Len(log)
  BY <1>1 DEF MemOK
<1>3. ASSUME NEW a \in Agent
      PROVE  /\ FailedLast(a, c)' = FailedLast(a, c)
             /\ HandedOffLast(a, c)' = HandedOffLast(a, c)
  BY <1>2, RowsStay DEF FailedLast, HandedOffLast
<1>4. \A a \in Agent :
        /\ mem'.pending[a] \subseteq 1..mem'.cursor
        /\ mem'.errors[a] = FailedLast(a, c)' /\ mem'.handoffs[a] = HandedOffLast(a, c)'
        /\ mem'.faulted[a] \/ mem'.errors[a] <= ErrorRetries
  BY <1>1, <1>3 DEF Counted
<1> QED
  BY <1>1, <1>4 DEF Counted, FailedLast, HandedOffLast

\* What a step appends that ends nothing: a reset does not count as a failure, and who
\* starts may fail once more, and may continue what it was handed.
EndsNothing ==
  \A i \in Len(log) + 1 .. Len(log') :
    /\ log'[i].type # "finished" /\ Resets(log'[i])
    /\ log'[i].type = "started" =>
         /\ log'[i].seqs \subseteq Seqs /\ MayFail(log'[i].agent)
         /\ Continues(log'[i].seqs) => MayContinue(log'[i].agent)

\* A task of the next state was one of this state, or may fail and continue.
TasksMayToo ==
  \A x \in DOMAIN tasks' :
    \/ /\ x \in DOMAIN tasks /\ tasks'[x].agent = tasks[x].agent
       /\ tasks'[x].phase = "spawned" =>
            tasks[x].phase = "spawned" /\ tasks'[x].seqs = tasks[x].seqs
    \/ /\ ~HasFinished(x)' => MayFail(tasks'[x].agent)
       /\ tasks'[x].phase = "spawned" =>
            /\ tasks'[x].seqs \subseteq Seqs
            /\ Continues(tasks'[x].seqs) => MayContinue(tasks'[x].agent)

LEMMA RowsGrow ==
  ASSUME Grows, EndsNothing, NEW a
  PROVE  /\ \A n \in Len(log) .. Len(log') :
              /\ FailedLast(a, n)' \in Nat /\ FailedLast(a, n)' <= FailedLast(a, Len(log))
              /\ MayContinue(a) => HandedOffLast(a, n)' < HandoffLimit
         /\ MayFail(a) => MayFail(a)'
         /\ MayContinue(a) => MayContinue(a)'
<1>1. PICK c \in Nat : c = Len(log)
  BY DEF Grows
<1>2. ASSUME NEW n \in Nat, c <= n, n <= Len(log'), NEW K, K \subseteq Failures \cup {"handoff"}
      PROVE  /\ Cardinality(InARow(a, n, K)') \in Nat
             /\ Cardinality(InARow(a, n, K)') <= Cardinality(InARow(a, c, K))
  <2>1. \A i \in c + 1 .. n : log'[i].type # "finished" /\ Resets(log'[i])
    BY <1>1, <1>2 DEF EndsNothing, Grows
  <2>2. InARow(a, n, K)' \subseteq InARow(a, c, K)
    <3>1. SUFFICES ASSUME NEW i \in InARow(a, n, K)' PROVE i \in InARow(a, c, K)
      OBVIOUS
    <3>2. /\ i \in 1..n /\ IsOutcome(i, a)' /\ i \in i..n
          /\ \A j \in i..n : IsOutcome(j, a)' => log'[j].what \in K
      BY <3>1 DEF InARow
    <3>3. i \in 1..c
      <4>1. SUFFICES ASSUME i \in c + 1 .. n PROVE FALSE
        BY <3>2
      <4>2. log'[i].type = "agent_reset" /\ log'[i].what \in K
        BY <2>1, <3>2, <4>1 DEF IsOutcome
      <4> QED
        BY <1>2, <2>1, <4>1, <4>2 DEF Resets
    <3>4. \A j \in i..c : j \in i..n /\ log'[j] = log[j]
      BY <1>1, <1>2, <3>2 DEF Grows
    <3>5. \A j \in i..c : IsOutcome(j, a)' <=> IsOutcome(j, a)
      BY <3>4 DEF IsOutcome
    <3>6. i \in i..c
      BY <3>3
    <3> QED
      BY <3>2, <3>3, <3>4, <3>5, <3>6 DEF InARow
  <2> QED
    BY <2>2, RowIsFinite, FS_Subset, FS_CardinalityType
<1>3. ASSUME NEW n \in Len(log) .. Len(log')
      PROVE  /\ FailedLast(a, n)' \in Nat /\ FailedLast(a, n)' <= FailedLast(a, Len(log))
             /\ MayContinue(a) => HandedOffLast(a, n)' < HandoffLimit
  <2>1. n \in Nat /\ c <= n /\ n <= Len(log')
    BY <1>1 DEF Grows
  <2>2. /\ FailedLast(a, n)' \in Nat /\ FailedLast(a, n)' <= FailedLast(a, c)
        /\ HandedOffLast(a, n)' \in Nat /\ HandedOffLast(a, n)' <= HandedOffLast(a, c)
    BY <1>2, <2>1 DEF FailedLast, HandedOffLast
  <2>3. HandedOffLast(a, c) \in Nat
    BY RowIsFinite DEF HandedOffLast
  <2> QED
    BY <1>1, <2>2, <2>3, SchedulerAssumption DEF MayContinue
<1>4. PICK d \in Nat : d = Len(log') /\ c <= d
  BY <1>1 DEF Grows
<1>5. /\ FailedLast(a, d)' \in Nat /\ FailedLast(a, d)' <= FailedLast(a, c)
      /\ HandedOffLast(a, d)' \in Nat /\ HandedOffLast(a, d)' <= HandedOffLast(a, c)
  BY <1>2, <1>4 DEF FailedLast, HandedOffLast
<1>6. FailedLast(a, c) \in Nat /\ HandedOffLast(a, c) \in Nat
  BY RowIsFinite DEF FailedLast, HandedOffLast
<1>7. MayFail(a) => FailedLast(a, d)' <= ErrorRetries
  BY <1>1, <1>5, <1>6, SchedulerAssumption DEF MayFail
<1>8. MayContinue(a) => HandedOffLast(a, d)' < HandoffLimit
  BY <1>1, <1>5, <1>6, SchedulerAssumption DEF MayContinue
<1>9. /\ MayFail(a) => MayFail(a)'
      /\ MayContinue(a) => MayContinue(a)'
  BY <1>4, <1>7, <1>8 DEF MayFail, MayContinue, FailedLast, HandedOffLast
<1> QED
  BY <1>3, <1>9

\* A step in which no activation ends.
LEMMA RowStep ==
  ASSUME IInv, KInv, Grows, MemOK(mem'), Counted(mem'), EndsNothing, TasksMayToo
  PROVE  KInv'
<1> USE LogFacts
<1>0. PICK n \in Nat : n = Len(log)
  OBVIOUS
<1>1. /\ Seqs = 1..n /\ Seqs' = 1..Len(log') /\ Len(log') \in Nat /\ n <= Len(log')
      /\ \A i \in Seqs : i \in Seqs' /\ log'[i] = log[i]
      /\ \A i \in Seqs' : i \in Seqs \/ i \in n + 1 .. Len(log')
  BY <1>0 DEF Grows, Seqs
<1>2. Counted(mem)'
  BY CountedStays
<1>3. \A x : HasFinished(x) => HasFinished(x)'
  BY <1>1 DEF HasFinished
<1>4. \A seqs : seqs \subseteq Seqs /\ Continues(seqs)' => Continues(seqs)
  BY <1>1 DEF Continues, Kind
<1>5. ASSUME NEW a
      PROVE  /\ \A k \in n .. Len(log') :
                  /\ FailedLast(a, k)' \in Nat /\ FailedLast(a, k)' <= FailedLast(a, n)
                  /\ MayContinue(a) => HandedOffLast(a, k)' < HandoffLimit
             /\ MayFail(a) => MayFail(a)'
             /\ MayContinue(a) => MayContinue(a)'
  BY <1>0, RowsGrow
<1>6. ASSUME NEW a, NEW k \in 0..n
      PROVE  /\ FailedLast(a, k)' = FailedLast(a, k)
             /\ HandedOffLast(a, k)' = HandedOffLast(a, k)
  BY <1>0, RowsStay DEF FailedLast, HandedOffLast
<1>7. RowsOK'
  <2>1. ASSUME NEW i \in Seqs', log'[i].type = "agent_reset"
        PROVE  log'[i].what \notin Failures \cup {"handoff"}
    <3>1. CASE i \in Seqs
      BY <1>1, <2>1, <3>1 DEF KInv, RowsOK
    <3>2. CASE i \notin Seqs
      BY <1>0, <1>1, <2>1, <3>2 DEF EndsNothing, Resets
    <3> QED
      BY <3>1, <3>2
  <2>2. ASSUME NEW a \in Agent, NEW k \in 0..Len(log')
        PROVE  FailedLast(a, k)' <= ErrorRetries + 1
    <3>1. \A j \in 0..n : FailedLast(a, j) <= ErrorRetries + 1 /\ FailedLast(a, j) \in Nat
      BY <1>0, RowIsFinite DEF KInv, RowsOK, FailedLast
    <3>2. CASE k \in 0..n
      BY <1>6, <3>1, <3>2
    <3>3. CASE k \in n .. Len(log')
      <4>1. FailedLast(a, k)' \in Nat /\ FailedLast(a, k)' <= FailedLast(a, n)
        BY <1>5, <3>3
      <4>2. FailedLast(a, n) <= ErrorRetries + 1 /\ FailedLast(a, n) \in Nat
        BY <3>1
      <4> QED
        BY <4>1, <4>2, SchedulerAssumption
    <3> QED
      BY <1>1, <3>2, <3>3
  <2>3. ASSUME NEW i \in Seqs', log'[i].type = "started"
        PROVE  log'[i].seqs \subseteq Seqs'
    <3>1. log'[i].seqs \subseteq Seqs
      BY <1>0, <1>1, <2>3 DEF KInv, RowsOK, EndsNothing
    <3> QED
      BY <1>1, <3>1
  <2> QED
    BY <2>1, <2>2, <2>3 DEF RowsOK, FailedLast, InARow, IsOutcome
<1>8. HandoffsBounded'
  <2>1. SUFFICES ASSUME NEW i \in Seqs', log'[i].type = "started", Continues(log[i].seqs)',
                        NEW a, a = log'[i].agent
                 PROVE  HandedOffLast(a, i)' < HandoffLimit
    BY DEF HandoffsBounded, Continues, HandedOffLast, InARow, IsOutcome, Kind
  <2>2. CASE i \in Seqs
    <3>1. log'[i] = log[i] /\ log[i].seqs \subseteq Seqs /\ i \in 0..n
      BY <1>1, <2>1, <2>2 DEF KInv, RowsOK
    <3>2. Continues(log[i].seqs)
      <4>1. PICK s : s = log[i].seqs
        OBVIOUS
      <4>2. Continues(s)'
        BY <2>1, <3>1, <4>1 DEF Continues
      <4> QED
        BY <1>4, <3>1, <4>1, <4>2
    <3>3. HandedOffLast(a, i) < HandoffLimit
      BY <2>1, <2>2, <3>1, <3>2 DEF KInv, HandoffsBounded, Continues, HandedOffLast
    <3> QED
      BY <1>6, <3>1, <3>3
  <2>3. CASE i \in n + 1 .. Len(log')
    <3>1. PICK s : s = log'[i].seqs
      OBVIOUS
    <3>2. s \subseteq Seqs /\ (Continues(s) => MayContinue(a))
      BY <1>0, <2>1, <2>3, <3>1 DEF EndsNothing
    <3>3. Continues(s)'
      BY <2>1, <3>1 DEF Continues
    <3>4. MayContinue(a)
      BY <1>4, <3>2, <3>3
    <3> QED
      BY <1>1, <1>5, <2>3, <3>4
  <2> QED
    BY <1>1, <2>2, <2>3
<1>9. ASSUME NEW x \in DOMAIN tasks'
      PROVE  /\ ~HasFinished(x)' => MayFail(tasks[x].agent)'
             /\ tasks'[x].phase = "spawned" =>
                  /\ tasks'[x].seqs \subseteq Seqs'
                  /\ Continues(tasks[x].seqs)' => MayContinue(tasks[x].agent)'
  <2>1. PICK a : a = tasks'[x].agent
    OBVIOUS
  <2>2. PICK s : s = tasks'[x].seqs
    OBVIOUS
  <2>3. /\ ~HasFinished(x)' => MayFail(a)
        /\ tasks'[x].phase = "spawned" => s \subseteq Seqs /\ (Continues(s) => MayContinue(a))
    BY <1>3, <2>1, <2>2 DEF TasksMayToo, KInv, ActivationsMay
  <2>4. /\ ~HasFinished(x)' => MayFail(a)'
        /\ tasks'[x].phase = "spawned" =>
             s \subseteq Seqs' /\ (Continues(s)' => MayContinue(a)')
    BY <1>1, <1>4, <1>5, <2>3
  <2> QED
    BY <2>1, <2>2, <2>4
<1>10. ASSUME NEW i \in Seqs', log'[i].type = "started", ~HasFinished(log[i].aid)'
       PROVE  MayFail(log[i].agent)'
  <2>1. PICK a : a = log'[i].agent
    OBVIOUS
  <2>2. MayFail(a)
    <3>1. CASE i \in Seqs
      <4>1. log'[i] = log[i]
        BY <1>1, <3>1
      <4> QED
        BY <1>3, <1>10, <2>1, <3>1, <4>1 DEF KInv, ActivationsMay
    <3>2. CASE i \notin Seqs
      BY <1>0, <1>1, <1>10, <2>1, <3>2 DEF EndsNothing
    <3> QED
      BY <3>1, <3>2
  <2> QED
    BY <1>5, <2>1, <2>2
<1>11. ActivationsMay'
  BY <1>9, <1>10 DEF ActivationsMay, MayFail, MayContinue, HasFinished
<1> QED
  BY <1>2, <1>7, <1>8, <1>11 DEF KInv

LEMMA RowGoesOnNext ==
  ASSUME NEW a, NEW n \in Nat \ {0}, NEW K
  PROVE  (/\ ~IsOutcome(n, a) => InARow(a, n, K) = InARow(a, n - 1, K)
          /\ IsOutcome(n, a) /\ log[n].what \in K =>
               Cardinality(InARow(a, n, K)) = Cardinality(InARow(a, n - 1, K)) + 1
          /\ IsOutcome(n, a) /\ log[n].what \notin K => Cardinality(InARow(a, n, K)) = 0)'
<1>1. /\ ~IsOutcome(n, a) => InARow(a, n, K) = InARow(a, n - 1, K)
      /\ IsOutcome(n, a) /\ log[n].what \in K =>
           Cardinality(InARow(a, n, K)) = Cardinality(InARow(a, n - 1, K)) + 1
      /\ IsOutcome(n, a) /\ log[n].what \notin K => Cardinality(InARow(a, n, K)) = 0
  BY RowGoesOn
<1> QED
  BY <1>1, PTL

\* The end of an activation, once.
LEMMA EndRow ==
  ASSUME IInv, KInv, pc = "wait", NEW x \in DOMAIN tasks, ~HasFinished(x), NEW what,
         Append1(Event("finished", tasks[x].agent, what, x, {})), UNCHANGED mem,
         \A y \in DOMAIN tasks' :
           y \in DOMAIN tasks /\ IF y = x THEN tasks'[y].phase = "ended"
                                          ELSE tasks'[y] = tasks[y]
  PROVE  KInv'
<1> USE LogFacts
<1> DEFINE e == Event("finished", tasks[x].agent, what, x, {})
<1>0. PICK n \in Nat : n = Len(log)
  OBVIOUS
<1>1. PICK a : a = tasks[x].agent
  OBVIOUS
<1>2. e.type = "finished" /\ e.agent = a /\ e.aid = x /\ Append1(e)
  BY <1>1 DEF Event
<1> HIDE DEF e
<1>3. /\ Grows /\ Len(log') = n + 1 /\ log'[n + 1] = e
      /\ Seqs = 1..n /\ Seqs' = 1..n + 1 /\ \A i \in Seqs : i \in Seqs' /\ log'[i] = log[i]
      /\ \A i \in Seqs' : i \in Seqs \/ i = n + 1
  <2>1. Grows /\ Len(log') = n + 1 /\ log'[n + 1] = e
    BY <1>0, <1>2, AppendGrows
  <2> QED
    BY <1>0, <2>1 DEF Grows, Seqs
<1>4. TaskOK(x) /\ Driven(x)
  BY DEF IInv, TasksOK
<1>5. Counted(mem)'
  BY <1>3, CountedStays DEF KInv
<1>6. /\ \A y : HasFinished(y) => HasFinished(y)'
      /\ HasFinished(x)'
  BY <1>2, <1>3 DEF HasFinished
<1>7. \A seqs : seqs \subseteq Seqs /\ Continues(seqs)' => Continues(seqs)
  BY <1>3 DEF Continues, Kind
<1>8. ASSUME NEW b, NEW k \in 0..n
      PROVE  /\ FailedLast(b, k)' = FailedLast(b, k)
             /\ HandedOffLast(b, k)' = HandedOffLast(b, k)
  BY <1>0, <1>3, RowsStay DEF FailedLast, HandedOffLast
<1>9. ASSUME NEW b, b # a
      PROVE  /\ FailedLast(b, n + 1)' = FailedLast(b, n)
             /\ MayFail(b) => MayFail(b)'
             /\ MayContinue(b) => MayContinue(b)'
  <2>1. ~IsOutcome(n + 1, b)'
    BY <1>2, <1>3, <1>9 DEF IsOutcome
  <2>2. \A K : InARow(b, n + 1, K)' = InARow(b, n, K)'
    BY <2>1, RowGoesOnNext
  <2>3. /\ FailedLast(b, n + 1)' = FailedLast(b, n)
        /\ HandedOffLast(b, n + 1)' = HandedOffLast(b, n)
    BY <1>8, <2>2 DEF FailedLast, HandedOffLast
  <2>4. /\ MayFail(b) => FailedLast(b, n + 1)' <= ErrorRetries
        /\ MayContinue(b) => HandedOffLast(b, n + 1)' < HandoffLimit
    BY <1>0, <2>3 DEF MayFail, MayContinue
  <2>5. PICK d : d = n + 1
    OBVIOUS
  <2> QED
    BY <1>3, <2>3, <2>4, <2>5 DEF MayFail, MayContinue, FailedLast, HandedOffLast
<1>10. FailedLast(a, n + 1)' <= ErrorRetries + 1
  <2>1. FailedLast(a, n) <= ErrorRetries /\ FailedLast(a, n) \in Nat
    BY <1>0, <1>1, RowIsFinite DEF KInv, ActivationsMay, MayFail, FailedLast
  <2>2. IsOutcome(n + 1, a)'
    BY <1>2, <1>3 DEF IsOutcome
  <2>3. \/ FailedLast(a, n + 1)' = FailedLast(a, n)' + 1
        \/ FailedLast(a, n + 1)' = 0
    BY <2>2, RowGoesOnNext DEF FailedLast
  <2>4. FailedLast(a, n)' = FailedLast(a, n)
    BY <1>8
  <2> QED
    BY <2>1, <2>3, <2>4, SchedulerAssumption
<1>11. RowsOK'
  <2>1. \A i \in Seqs' : log'[i].type = "agent_reset" =>
          log'[i].what \notin Failures \cup {"handoff"}
    BY <1>2, <1>3 DEF KInv, RowsOK
  <2>2. ASSUME NEW b \in Agent, NEW k \in 0..Len(log')
        PROVE  FailedLast(b, k)' <= ErrorRetries + 1
    <3>1. \A j \in 0..n : FailedLast(b, j) <= ErrorRetries + 1
      BY <1>0 DEF KInv, RowsOK
    <3>2. CASE k \in 0..n
      BY <1>8, <3>1, <3>2
    <3>3. CASE k = n + 1
      <4>1. b # a => FailedLast(b, n + 1)' <= ErrorRetries + 1
        BY <1>9, <3>1
      <4> QED
        BY <1>10, <3>3, <4>1
    <3> QED
      BY <1>3, <3>2, <3>3
  <2>3. \A i \in Seqs' : log'[i].type = "started" => log'[i].seqs \subseteq Seqs'
    BY <1>2, <1>3 DEF KInv, RowsOK
  <2> QED
    BY <2>1, <2>2, <2>3 DEF RowsOK, FailedLast, InARow, IsOutcome
<1>12. HandoffsBounded'
  <2>1. SUFFICES ASSUME NEW i \in Seqs', log'[i].type = "started", Continues(log[i].seqs)',
                        NEW b, b = log'[i].agent
                 PROVE  HandedOffLast(b, i)' < HandoffLimit
    BY DEF HandoffsBounded, Continues, HandedOffLast, InARow, IsOutcome, Kind
  <2>2. log'[i] = log[i] /\ i \in Seqs /\ log[i].seqs \subseteq Seqs /\ i \in 0..n
    BY <1>2, <1>3, <2>1 DEF KInv, RowsOK
  <2>3. Continues(log[i].seqs)
    <3>1. PICK s : s = log[i].seqs
      OBVIOUS
    <3>2. Continues(s)'
      BY <2>1, <2>2, <3>1 DEF Continues
    <3> QED
      BY <1>7, <2>2, <3>1, <3>2
  <2>4. HandedOffLast(b, i) < HandoffLimit
    BY <2>1, <2>2, <2>3 DEF KInv, HandoffsBounded, Continues, HandedOffLast
  <2> QED
    BY <1>8, <2>2, <2>4
<1>13. ASSUME NEW y \in DOMAIN tasks'
       PROVE  /\ ~HasFinished(y)' => MayFail(tasks[y].agent)'
              /\ tasks'[y].phase = "spawned" =>
                   /\ tasks'[y].seqs \subseteq Seqs'
                   /\ Continues(tasks[y].seqs)' => MayContinue(tasks[y].agent)'
  <2>1. CASE y = x
    BY <1>6, <2>1
  <2>2. CASE y # x
    <3>1. y \in DOMAIN tasks /\ tasks'[y] = tasks[y]
      BY <2>2
    <3>2. PICK b : b = tasks[y].agent
      OBVIOUS
    <3>3. PICK s : s = tasks[y].seqs
      OBVIOUS
    <3>4. /\ ~HasFinished(y) => MayFail(b)
          /\ tasks[y].phase = "spawned" => s \subseteq Seqs /\ (Continues(s) => MayContinue(b))
      BY <3>1, <3>2, <3>3 DEF KInv, ActivationsMay
    <3>5. ~HasFinished(y) => b # a
      BY <1>1, <1>4, <2>2, <3>1, <3>2, OneDriven DEF IInv, TasksOK
    <3>6. tasks[y].phase = "spawned" => ~HasFinished(y)
      BY <3>1 DEF IInv, TasksOK, TaskOK
    <3>7. /\ ~HasFinished(y)' => MayFail(b)'
          /\ tasks[y].phase = "spawned" =>
               s \subseteq Seqs' /\ (Continues(s)' => MayContinue(b)')
      BY <1>3, <1>6, <1>7, <1>9, <3>4, <3>5, <3>6
    <3> QED
      BY <3>1, <3>2, <3>3, <3>7
  <2> QED
    BY <2>1, <2>2
<1>14. ASSUME NEW i \in Seqs', log'[i].type = "started", ~HasFinished(log[i].aid)'
       PROVE  MayFail(log[i].agent)'
  <2>1. i \in Seqs /\ log'[i] = log[i]
    BY <1>2, <1>3, <1>14
  <2>2. PICK b : b = log[i].agent
    OBVIOUS
  <2>3. PICK y : y = log[i].aid
    OBVIOUS
  <2>4. ~HasFinished(y)' /\ ~HasFinished(y) /\ y # x
    <3>1. ~HasFinished(y)'
      BY <1>14, <2>1, <2>3 DEF HasFinished
    <3> QED
      BY <1>6, <3>1
  <2>5. MayFail(b)
    BY <1>14, <2>1, <2>2, <2>3, <2>4 DEF KInv, ActivationsMay
  <2>6. y \in DOMAIN tasks
    BY <1>14, <2>1, <2>3, <2>4 DEF IInv, TasksOK, InLoop
  <2>7. tasks[y].agent = b /\ Driven(y)
    BY <1>14, <2>1, <2>2, <2>3, <2>4, <2>6 DEF IInv, TasksOK, TaskOK, Acts
  <2>8. b # a
    BY <1>1, <1>4, <2>4, <2>6, <2>7, OneDriven
  <2> QED
    BY <1>9, <2>1, <2>2, <2>5, <2>8
<1>15. ActivationsMay'
  BY <1>13, <1>14 DEF ActivationsMay, MayFail, MayContinue, HasFinished
<1> QED
  BY <1>5, <1>11, <1>12, <1>15 DEF KInv

\* What ends nothing.
LEMMA QuietRow ==
  ASSUME IInv, NEW e, Append1(e), e.type \notin {"finished", "started"}, Resets(e)
  PROVE  Grows /\ EndsNothing
<1> USE LogFacts
<1>1. Grows /\ Len(log') = Len(log) + 1 /\ log'[Len(log) + 1] = e
  BY AppendGrows
<1> QED
  BY <1>1 DEF EndsNothing

LEMMA NoRow ==
  ASSUME IInv, UNCHANGED log
  PROVE  Grows /\ EndsNothing
<1> USE LogFacts
<1>1. Grows /\ Len(log') = Len(log)
  BY SameLog DEF GrowsQuietly
<1> QED
  BY <1>1 DEF EndsNothing

LEMMA TasksStayMay ==
  ASSUME \A x \in DOMAIN tasks' :
           /\ x \in DOMAIN tasks /\ tasks'[x].agent = tasks[x].agent
           /\ tasks'[x].phase = "spawned" =>
                tasks[x].phase = "spawned" /\ tasks'[x].seqs = tasks[x].seqs
  PROVE  TasksMayToo
  BY DEF TasksMayToo

\* A decision of the scheduler leaves what was counted.
LEMMA DecisionCounts ==
  ASSUME NEW m, MemOK(m), Counted(m), NEW n, Decides(m, n)
  PROVE  MemOK(n) /\ Counted(n)
<1>1. MemOK(n)
  BY KeptIsOK DEF Decides
<1>2. \A a \in Agent : n.pending[a] \subseteq 1..n.cursor
  BY DEF Decides, Kept, Counted
<1> QED
  BY <1>1, <1>2 DEF Decides, Kept, Counted

LEMMA ReadCounts ==
  ASSUME IInv, KInv
  PROVE  MemOK(CatchUp(mem)) /\ Counted(CatchUp(mem))
  BY CaughtUp, CatchUpCounts, LogFacts DEF KInv

LEMMA BlankCounts ==
  ASSUME IInv
  PROVE  MemOK(Blank) /\ Counted(Blank)
<1>1. MemOK(Blank)
  BY LogFacts, FS_EmptySet DEF MemOK, Sane, Fields, Blank
<1>2. \A a, K : InARow(a, 0, K) = {}
  BY DEF InARow
<1>3. \A a : FailedLast(a, 0) = 0 /\ HandedOffLast(a, 0) = 0
  BY <1>2, FS_EmptySet DEF FailedLast, HandedOffLast
<1>4. 0 <= ErrorRetries
  BY SchedulerAssumption
<1> QED
  BY <1>1, <1>3, <1>4 DEF Counted, Blank

\* The steps of the loop.
LEMMA LoopRows ==
  ASSUME IInv, IInv', KInv, Loop, \A a \in Agent : ~Start(a)
  PROVE  KInv'
<1> USE LogFacts
<1>0. MemOK(mem) /\ Counted(mem)
  BY DEF KInv
<1>1. CASE UNCHANGED tasks
  <2>0. TasksMayToo
    BY <1>1, TasksStayMay
  <2>1. CASE Boot
    <3>1. MemOK(mem') /\ Counted(mem')
      BY <2>1, ReadCounts, BlankCounts DEF Boot
    <3>2. Grows /\ EndsNothing
      <4>1. UNCHANGED log \/ Append1(Plain("resumed", CatchUp(mem).stopped))
        BY <2>1 DEF Boot
      <4>2. /\ Plain("resumed", CatchUp(mem).stopped).type \notin {"finished", "started"}
            /\ Resets(Plain("resumed", CatchUp(mem).stopped))
        BY DEF Plain, Event, Resets
      <4> QED
        BY <4>1, <4>2, NoRow, QuietRow
    <3> QED
      BY <2>0, <3>1, <3>2, RowStep
  <2>2. CASE FireTimers
    <3>1. mem' = CatchUp(mem)
      BY <2>2 DEF FireTimers
    <3>2. Grows /\ EndsNothing
      BY <2>2, FireTimersGrows DEF GrowsQuietly, EndsNothing, Resets
    <3> QED
      BY <2>0, <3>1, <3>2, ReadCounts, RowStep
  <2>3. CASE CheckBreakers
    <3>1. /\ Decides(mem, mem')
          /\ UNCHANGED log \/ \E kind : Append1(Plain("breaker_tripped", kind))
      BY <2>3, CheckDecides
    <3>2. \A kind : /\ Plain("breaker_tripped", kind).type \notin {"finished", "started"}
                    /\ Resets(Plain("breaker_tripped", kind))
      BY DEF Plain, Event, Resets
    <3>3. Grows /\ EndsNothing
      BY <3>1, <3>2, NoRow, QuietRow
    <3> QED
      BY <1>0, <2>0, <3>1, <3>3, DecisionCounts, RowStep
  <2>4. ASSUME NEW a \in Agent, DropContinues(a) PROVE KInv'
    <3>1. /\ mem' = [mem EXCEPT !.pending[a] = @ \ Dropped(mem, a)]
          /\ Append1(Event("handoff_limit", a, "", 0, {}))
      BY <2>4 DEF DropContinues
    <3>2. Decides(mem, mem')
      BY <3>1, DropDecides DEF MemOK
    <3>3. /\ Event("handoff_limit", a, "", 0, {}).type \notin {"finished", "started"}
          /\ Resets(Event("handoff_limit", a, "", 0, {}))
      BY DEF Event, Resets
    <3> QED
      BY <1>0, <2>0, <3>1, <3>2, <3>3, DecisionCounts, QuietRow, RowStep
  <2>5. CASE StartsDone
    <3>1. mem' = CatchUp(mem) /\ UNCHANGED log
      BY <2>5 DEF StartsDone
    <3> QED
      BY <2>0, <3>1, ReadCounts, NoRow, RowStep
  <2>6. CASE StopAsked \/ StopQuiescent
    <3>1. PICK reason : Append1(Plain("stopped", reason)) /\ mem' = Blank
      BY <2>6 DEF StopAsked, StopQuiescent, Stop
    <3>2. /\ Plain("stopped", reason).type \notin {"finished", "started"}
          /\ Resets(Plain("stopped", reason))
      BY DEF Plain, Event, Resets
    <3> QED
      BY <2>0, <3>1, <3>2, BlankCounts, QuietRow, RowStep
  <2>7. CASE LogQuiescent
    <3>1. Append1(Plain("quiescent", "")) /\ Decides(mem, mem')
      BY <2>7, LogDecides
    <3>2. /\ Plain("quiescent", "").type \notin {"finished", "started"}
          /\ Resets(Plain("quiescent", ""))
      BY DEF Plain, Event, Resets
    <3> QED
      BY <1>0, <2>0, <3>1, <3>2, DecisionCounts, QuietRow, RowStep
  <2>8. CASE Wait
    <3>1. UNCHANGED <<log, mem>>
      BY <2>8 DEF Wait
    <3> QED
      BY <1>0, <2>0, <3>1, NoRow, RowStep
  <2>9. CASE ResumeUnfinished \/ CancelTasks
    <3>1. UNCHANGED log /\ (mem' = CatchUp(mem) \/ mem' = mem)
      BY <2>9 DEF ResumeUnfinished, CancelTasks
    <3> QED
      BY <1>0, <2>0, <3>1, ReadCounts, NoRow, RowStep
  <2> QED
    BY <2>1, <2>2, <2>3, <2>4, <2>5, <2>6, <2>7, <2>8, <2>9 DEF Loop
<1>2. CASE ResumeUnfinished
  <2>1. mem' = CatchUp(mem) /\ UNCHANGED log /\ pc' = "loop"
    BY <1>2 DEF ResumeUnfinished
  <2>2. TasksMayToo
    <3>1. SUFFICES ASSUME NEW x \in DOMAIN tasks'
                   PROVE  /\ tasks'[x].phase = "resuming"
                          /\ ~HasFinished(x)' => MayFail(tasks'[x].agent)
      BY DEF TasksMayToo
    <3>2. tasks'[x].phase = "resuming"
      BY <1>2, <3>1 DEF ResumeUnfinished, Task
    <3>3. PICK i \in Seqs : /\ log[i].type = "started" /\ log[i].aid = x
                            /\ log[i].agent = tasks'[x].agent
      BY <2>1, <3>1, <3>2 DEF IInv, TasksOK, TaskOK, Acts, Seqs
    <3>4. HasFinished(x)' <=> HasFinished(x)
      BY <2>1 DEF HasFinished, Seqs
    <3>5. ~HasFinished(x)' => MayFail(tasks'[x].agent)
      BY <3>3, <3>4 DEF KInv, ActivationsMay
    <3> QED
      BY <3>2, <3>5
  <2> QED
    BY <2>1, <2>2, ReadCounts, NoRow, RowStep
<1>3. CASE CancelTasks
  <2>1. UNCHANGED <<log, mem>>
    BY <1>3 DEF CancelTasks
  <2>2. TasksMayToo
    BY <1>3, TasksStayMay DEF CancelTasks, IInv, TasksOK, TaskOK
  <2> QED
    BY <1>0, <2>1, <2>2, NoRow, RowStep
<1>4. Boot \/ FireTimers \/ CheckBreakers \/ (\E a \in Agent : DropContinues(a))
        \/ StartsDone \/ StopAsked \/ LogQuiescent \/ StopQuiescent \/ Wait
      => UNCHANGED tasks
  BY DEF Boot, FireTimers, CheckBreakers, DropContinues, StartsDone, StopAsked,
         LogQuiescent, StopQuiescent, Wait
<1> QED
  BY <1>1, <1>2, <1>3, <1>4 DEF Loop

\* Who is started has not failed too often, and is not continued too often.
LEMMA StartRows ==
  ASSUME IInv, KInv, NEW a \in Agent, Start(a)
  PROVE  KInv'
<1> USE LogFacts
<1>0. PICK new : new = aids + 1
  OBVIOUS
<1> DEFINE items == Live(mem, a)
           m == [mem EXCEPT !.running[a] = new]
<1>1. /\ pc = "start" /\ UNCHANGED log /\ mem' = Deliver(m, a, items)
      /\ ~mem.faulted[a] /\ mem.running[a] = 0 /\ Dropped(mem, a) = {}
      /\ tasks' = [x \in DOMAIN tasks \cup {new} |->
                     IF x = new THEN Task(a, "spawned", items) ELSE tasks[x]]
  BY <1>0 DEF Start, MayStart, Candidates, NothingToDrop
<1>2. MemOK(mem')
  <2>1. MemOK(mem)' /\ log' = log
    BY <1>1, StartKeeps DEF IInv
  <2> QED
    BY <2>1 DEF MemOK, Sane
<1>3. Counted(mem) /\ MemOK(mem) /\ Sane(mem)
  BY DEF KInv, MemOK
<1>4. items \subseteq mem.pending[a] /\ mem.pending[a] \subseteq 1..mem.cursor
  BY <1>3 DEF Live, Counted
<1>5. Continues(items) => mem.handoffs[a] < HandoffLimit
  <2>1. SUFFICES ASSUME NEW j \in items, Kind(j) = "continue"
                 PROVE  mem.handoffs[a] < HandoffLimit
    BY DEF Continues
  <2>2. ~(mem.handoffs[a] >= HandoffLimit)
    BY <1>1, <2>1 DEF Dropped, AtHandoffLimit
  <2>3. mem.handoffs[a] \in Nat
    BY <1>3, RowIsFinite DEF Counted, HandedOffLast
  <2> QED
    BY <2>2, <2>3, SchedulerAssumption
<1> HIDE DEF items
<1>6. /\ \A b \in Agent : mem'.pending[b] \subseteq mem.pending[b]
      /\ mem'.errors = mem.errors /\ mem'.handoffs = mem.handoffs
      /\ mem'.faulted = mem.faulted /\ mem'.cursor = mem.cursor
  BY <1>1, <1>3 DEF Deliver, Sane, Fields, Blank
<1>7. Counted(mem')
  BY <1>3, <1>6 DEF Counted
<1>8. /\ mem.cursor \in Nat /\ mem.cursor <= Len(log)
      /\ \A i \in mem.cursor + 1 .. Len(log) : log[i].type # "finished" /\ Resets(log[i])
  <2>1. \A i \in mem.cursor + 1 .. Len(log) : log[i].type \notin Acts
    BY <1>1 DEF IInv, TasksOK
  <2>2. mem.cursor \in 0..Len(log)
    BY <1>3 DEF MemOK
  <2>3. Seqs = 1..Len(log)
    BY SameLog, <1>1 DEF GrowsQuietly, Grows, Seqs
  <2>4. \A i \in Seqs : Resets(log[i])
    BY DEF KInv, RowsOK, Resets
  <2> QED
    BY <2>1, <2>2, <2>3, <2>4 DEF Acts
<1>9. /\ FailedLast(a, Len(log)) <= FailedLast(a, mem.cursor)
      /\ HandedOffLast(a, Len(log)) <= HandedOffLast(a, mem.cursor)
  BY <1>8, RowsShrink DEF FailedLast, HandedOffLast
<1>10. /\ FailedLast(a, Len(log)) \in Nat /\ FailedLast(a, mem.cursor) \in Nat
       /\ HandedOffLast(a, Len(log)) \in Nat /\ HandedOffLast(a, mem.cursor) \in Nat
  BY <1>8, RowIsFinite DEF FailedLast, HandedOffLast
<1>11. MayFail(a)
  <2>1. FailedLast(a, mem.cursor) <= ErrorRetries
    BY <1>1, <1>3 DEF Counted
  <2> QED
    BY <1>9, <1>10, <2>1, SchedulerAssumption DEF MayFail
<1>12. Continues(items) => MayContinue(a)
  <2>1. mem.handoffs[a] = HandedOffLast(a, mem.cursor)
    BY <1>3 DEF Counted
  <2> QED
    BY <1>5, <1>9, <1>10, <2>1, SchedulerAssumption DEF MayContinue
<1>13. items \subseteq Seqs
  <2>1. Seqs = 1..Len(log)
    BY SameLog, <1>1 DEF GrowsQuietly, Grows, Seqs
  <2> QED
    BY <1>4, <1>8, <2>1
<1>14. TasksMayToo
  BY <1>1, <1>11, <1>12, <1>13 DEF TasksMayToo, Task
<1> QED
  BY <1>1, <1>2, <1>7, <1>14, NoRow, RowStep

LEMMA PollRows ==
  ASSUME IInv, KInv, NEW x \in 1..MaxActivations, Poll(x) \/ PollDrops(x)
  PROVE  KInv'
<1> USE LogFacts
<1> DEFINE a == tasks[x].agent
<1>1. /\ x \in DOMAIN tasks /\ UNCHANGED tasks
      /\ \/ /\ Decides(CatchUp(mem), mem')
            /\ UNCHANGED log \/ Append1(Event("handoff_limit", a, "", 0, {}))
         \/ \E m, items :
              /\ Decides(CatchUp(mem), m)
              /\ mem' = Deliver(m, a, items) /\ Append1(Event("incoming", a, "", x, items))
  BY PollDecides
<1>2. TasksMayToo
  BY <1>1, TasksStayMay
<1>3. a \in Agent
  BY <1>1 DEF IInv, TasksOK, TaskOK
<1>4. \A m : Decides(CatchUp(mem), m) => MemOK(m) /\ Counted(m)
  BY ReadCounts, DecisionCounts
<1>5. CASE /\ Decides(CatchUp(mem), mem')
           /\ UNCHANGED log \/ Append1(Event("handoff_limit", a, "", 0, {}))
  <2>1. /\ Event("handoff_limit", a, "", 0, {}).type \notin {"finished", "started"}
        /\ Resets(Event("handoff_limit", a, "", 0, {}))
    BY DEF Event, Resets
  <2>2. Grows /\ EndsNothing
    BY <1>5, <2>1, NoRow, QuietRow
  <2> QED
    BY <1>2, <1>4, <1>5, <2>2, RowStep
<1>6. ASSUME NEW m, NEW items, Decides(CatchUp(mem), m),
             mem' = Deliver(m, a, items), Append1(Event("incoming", a, "", x, items))
      PROVE  KInv'
  <2>1. /\ Event("incoming", a, "", x, items).type \notin {"finished", "started"}
        /\ Resets(Event("incoming", a, "", x, items))
    BY DEF Event, Resets
  <2> HIDE DEF a
  <2>2. Grows /\ EndsNothing
    BY <1>6, <2>1, QuietRow
  <2>3. MemOK(m) /\ Counted(m) /\ Sane(m)
    BY <1>4, <1>6 DEF MemOK
  <2>4. MemOK(mem')
    <3>1. LET n == Deliver(m, a, items)
          IN  /\ Sane(n) /\ n.running = m.running /\ n.cursor = m.cursor
              /\ \A b \in Agent : n.delivered[b] =
                   m.delivered[b] \cup (IF b = a THEN items ELSE {})
      BY <1>3, <2>3, DeliverReads
    <3>2. /\ Sane(mem') /\ mem'.cursor = m.cursor
          /\ \A b \in Agent : m.delivered[b] \subseteq mem'.delivered[b]
      BY <1>6, <3>1
    <3> QED
      BY <2>3, <3>2 DEF MemOK
  <2>5. /\ \A b \in Agent : mem'.pending[b] \subseteq m.pending[b]
        /\ mem'.errors = m.errors /\ mem'.handoffs = m.handoffs
        /\ mem'.faulted = m.faulted /\ mem'.cursor = m.cursor
    BY <1>6, <2>3 DEF Deliver, Sane, Fields, Blank
  <2>6. Counted(mem')
    BY <2>3, <2>5 DEF Counted
  <2> QED
    BY <1>2, <2>2, <2>4, <2>6, RowStep
<1> QED
  BY <1>1, <1>5, <1>6

LEMMA ActivationRows ==
  ASSUME IInv, KInv, NEW x \in 1..MaxActivations, Activation(x)
  PROVE  KInv'
<1> USE LogFacts
<1>0. MemOK(mem) /\ Counted(mem)
  BY DEF KInv
<1>1. CASE Begin(x)
  <2> DEFINE e == Event("started", tasks[x].agent, "", x, tasks[x].seqs)
  <2>1. /\ x \in DOMAIN tasks /\ pc = "wait" /\ tasks[x].phase = "spawned" /\ UNCHANGED mem
        /\ tasks' = [tasks EXCEPT ![x].phase = "running"] /\ Append1(e)
    BY <1>1 DEF Begin, Phase
  <2>2. TaskOK(x) /\ ~HasFinished(x)
    BY <2>1 DEF IInv, TasksOK, TaskOK
  <2>3. e.type = "started" /\ e.agent = tasks[x].agent /\ e.seqs = tasks[x].seqs
    BY DEF Event
  <2> HIDE DEF e
  <2>4. Grows /\ Len(log') = Len(log) + 1 /\ log'[Len(log) + 1] = e
    BY <2>1, AppendGrows
  <2>5. /\ MayFail(e.agent) /\ e.seqs \subseteq Seqs
        /\ Continues(e.seqs) => MayContinue(e.agent)
    BY <2>1, <2>2, <2>3 DEF KInv, ActivationsMay
  <2>6. Resets(e) /\ e.type # "finished"
    BY <2>3 DEF Resets
  <2>7. EndsNothing
    BY <2>4, <2>5, <2>6 DEF EndsNothing
  <2>8. TasksMayToo
    BY <2>1, <2>2, TasksStayMay DEF IInv, TasksOK, TaskOK
  <2> QED
    BY <1>0, <2>1, <2>4, <2>7, <2>8, RowStep
<1>2. CASE Resume(x) \/ RunnerFails(x)
  <2>1. UNCHANGED <<log, mem>>
    BY <1>2 DEF Resume, RunnerFails
  <2>2. TasksMayToo
    BY <1>2, TasksStayMay
       DEF Resume, RunnerFails, EndTask, Phase, IInv, TasksOK, TaskOK
  <2> QED
    BY <1>0, <2>1, <2>2, NoRow, RowStep
<1>3. CASE Poll(x) \/ PollDrops(x)
  BY <1>3, PollRows
<1>4. CASE SetTimer(x)
  <2>1. UNCHANGED <<mem, tasks>> /\ Append1(Event("timer_set", tasks[x].agent, "", 0, {}))
    BY <1>4 DEF SetTimer
  <2>2. /\ Event("timer_set", tasks[x].agent, "", 0, {}).type \notin {"finished", "started"}
        /\ Resets(Event("timer_set", tasks[x].agent, "", 0, {}))
    BY DEF Event, Resets
  <2> QED
    BY <1>0, <2>1, <2>2, TasksStayMay, QuietRow, RowStep
<1>5. ASSUME NEW exc, EndTask(x, exc), x \in DOMAIN tasks
      PROVE  /\ \A y \in DOMAIN tasks' :
                  y \in DOMAIN tasks /\ IF y = x THEN tasks'[y].phase = "ended"
                                                 ELSE tasks'[y] = tasks[y]
             /\ TasksMayToo
  <2>1. TaskOK(x)
    BY <1>5 DEF IInv, TasksOK
  <2>2. \A y \in DOMAIN tasks' :
          /\ y \in DOMAIN tasks /\ tasks'[y].agent = tasks[y].agent
          /\ IF y = x THEN tasks'[y].phase = "ended" ELSE tasks'[y] = tasks[y]
    BY <1>5, <2>1 DEF EndTask, TaskOK
  <2> QED
    BY <2>2, TasksStayMay
<1>6. CASE Finish(x)
  <2>1. /\ x \in DOMAIN tasks /\ pc = "wait" /\ tasks[x].phase = "running" /\ UNCHANGED mem
        /\ EndTask(x, "none")
    BY <1>6 DEF Finish, Running, Phase
  <2>2. PICK what : Append1(Event("finished", tasks[x].agent, what, x, {}))
    BY <1>6 DEF Finish
  <2>3. ~HasFinished(x)
    BY <2>1 DEF IInv, TasksOK, TaskOK
  <2> QED
    BY <1>5, <2>1, <2>2, <2>3, EndRow
<1>7. CASE Cancelled(x)
  <2>1. /\ x \in DOMAIN tasks /\ pc = "wait" /\ tasks[x].phase # "ended" /\ UNCHANGED mem
        /\ EndTask(x, "cancelled")
    BY <1>7 DEF Cancelled
  <2>2. ~HasFinished(x)
    BY <2>1 DEF IInv, TasksOK, TaskOK
  <2>3. CASE Append1(Event("finished", tasks[x].agent, "cancelled", x, {}))
    BY <1>5, <2>1, <2>2, <2>3, EndRow
  <2>4. CASE UNCHANGED log
    BY <1>0, <1>5, <2>1, <2>4, NoRow, RowStep
  <2> QED
    BY <1>7, <2>3, <2>4 DEF Cancelled
<1>8. CASE Done(x)
  <2>1. /\ x \in DOMAIN tasks /\ pc = "wait" /\ UNCHANGED mem
        /\ tasks' = [y \in DOMAIN tasks \ {x} |-> tasks[y]]
    BY <1>8 DEF Done, Phase
  <2>2. \A y \in DOMAIN tasks' : y \in DOMAIN tasks /\ y # x /\ tasks'[y] = tasks[y]
    BY <2>1
  <2>3. CASE HasFinished(x)
    <3>1. UNCHANGED log
      BY <1>8, <2>3 DEF Done
    <3>2. TasksMayToo
      BY <2>2, TasksStayMay
    <3> QED
      BY <1>0, <2>1, <3>1, <3>2, NoRow, RowStep
  <2>4. CASE ~HasFinished(x)
    <3>1. Append1(Event("finished", tasks[x].agent, tasks[x].exc, x, {}))
      BY <1>8, <2>4 DEF Done
    <3> QED
      BY <2>1, <2>2, <2>4, <3>1, EndRow
  <2> QED
    BY <2>3, <2>4
<1> QED
  BY <1>1, <1>2, <1>3, <1>4, <1>6, <1>7, <1>8 DEF Activation

LEMMA EnvironmentRows ==
  ASSUME IInv, KInv, Environment \/ Crash \/ Launch
  PROVE  KInv'
<1> USE LogFacts
<1>0. MemOK(mem) /\ Counted(mem)
  BY DEF KInv
<1>2. CASE Environment
  <2>1. PICK e : /\ Append1(e) /\ UNCHANGED <<mem, tasks>>
                 /\ e.type \notin {"finished", "started"} /\ Resets(e)
    BY <1>2, EnvironmentAppends DEF Resets, Failures
  <2>2. TasksMayToo /\ Grows /\ EndsNothing
    BY <2>1, TasksStayMay, QuietRow
  <2> QED
    BY <1>0, <2>1, <2>2, RowStep
<1>3. CASE Crash
  <2>1. mem' = Blank /\ tasks' = <<>> /\ UNCHANGED log
    BY <1>3 DEF Crash
  <2>2. TasksMayToo
    BY <2>1, EmptyIsSequence DEF TasksMayToo
  <2> QED
    BY <2>1, <2>2, BlankCounts, NoRow, RowStep
<1>4. CASE Launch
  <2>1. UNCHANGED <<log, mem, tasks>>
    BY <1>4 DEF Launch
  <2> QED
    BY <1>0, <2>1, TasksStayMay, NoRow, RowStep
<1> QED
  BY <1>2, <1>3, <1>4

LEMMA InitKInv == Init => KInv
<1> SUFFICES ASSUME Init PROVE KInv
  OBVIOUS
<1>1. Len(log) = 0 /\ Seqs = {} /\ DOMAIN tasks = {} /\ mem = Blank
  BY EmptyIsSequence DEF Init, Seqs
<1>2. Counted(mem)
  BY <1>1, InitIInv, BlankCounts
<1>3. \A a \in Agent, n \in 0..Len(log) : FailedLast(a, n) <= ErrorRetries + 1
  <2>1. \A a : InARow(a, 0, Failures) = {}
    BY DEF InARow
  <2>2. \A a : FailedLast(a, 0) = 0
    BY <2>1, FS_EmptySet DEF FailedLast
  <2>3. 0 <= ErrorRetries + 1 /\ 0..Len(log) = {0}
    BY <1>1, SchedulerAssumption
  <2> QED
    BY <2>2, <2>3
<1> QED
  BY <1>1, <1>2, <1>3 DEF KInv, RowsOK, HandoffsBounded, ActivationsMay

LEMMA StepKInv == IInv /\ KInv /\ [Next]_vars => KInv'
<1> SUFFICES ASSUME IInv, KInv, [Next]_vars PROVE KInv'
  OBVIOUS
<1>1. ASSUME NEW a \in Agent, Start(a) PROVE KInv'
  BY <1>1, StartRows
<1>2. CASE Loop /\ \A a \in Agent : ~Start(a)
  <2>1. IInv'
    BY <1>2, StepIInv DEF Next
  <2> QED
    BY <1>2, <2>1, LoopRows
<1>3. ASSUME NEW x \in 1..MaxActivations, Activation(x) PROVE KInv'
  BY <1>3, ActivationRows
<1>4. CASE Environment \/ Crash \/ Launch
  BY <1>4, EnvironmentRows
<1>5. CASE UNCHANGED vars
  <2>1. UNCHANGED <<log, mem, tasks>>
    BY <1>5 DEF vars
  <2>2. MemOK(mem) /\ Counted(mem)
    BY DEF KInv, IInv
  <2> QED
    BY <2>1, <2>2, TasksStayMay, NoRow, RowStep
<1> QED
  BY <1>1, <1>2, <1>3, <1>4, <1>5 DEF Next

\* An agent that fails is retried so often and not once more until it is reset, and it
\* is not continued for its handoffs beyond their limit, for any agents, limits and
\* outcomes, although the counts are in memory only and every restart counts again
\* (scheduler.py: _finished, _waking, tick, catch_up).
THEOREM DrivesAreBounded == Spec => []DrivesBounded
<1>1. IInv /\ KInv => DrivesBounded
  <2> SUFFICES ASSUME IInv, KInv PROVE DrivesBounded
    OBVIOUS
  <2>1. Len(log) \in Nat /\ Seqs = 1..Len(log)
    BY SequenceIsOne DEF IInv, LogOK, EventsOK, IsSequence, Seqs
  <2> QED
    BY <2>1 DEF KInv, RowsOK, FailedLast, Failures, DrivesBounded, RetriesBounded
<1>2. IInv /\ KInv /\ [Next]_vars => KInv'
  BY StepKInv
<1> QED
  BY <1>1, <1>2, InitKInv, WhoRunsIsKept, PTL DEF Spec

-----------------------------------------------------------------------------
(* A memory that grew with the log, and one that is folded from nothing.   *)

\* r is what the first c events make of a memory that knows nothing.
Replayed(r, c) ==
  \E f : f[0] = Blank /\ f[c] = r /\ \A n \in 1..c : f[n] = Fold(f[n - 1], n)

\* The two have counted alike.
SameCounts(m, r) ==
  /\ m.cursor = r.cursor /\ m.timers = r.timers
  /\ m.errors = r.errors /\ m.handoffs = r.handoffs /\ m.faulted = r.faulted

\* Activation x is a's, and goes on; an end of an activation of a's is still to be read.
GoesOn(a, x) == x \in DOMAIN tasks /\ tasks[x].agent = a /\ ~HasFinished(x)
RunsOn(a) == GoesOn(a, mem.running[a])
EndsUnread(a, c) == \E j \in c + 1 .. Len(log) : Of(j, "finished", a)

\* They know the same activations to run, but for one that has been handed its items
\* and has not begun, and one whose end is still to be read.
SameRuns(m, r) ==
  \A a \in Agent :
    m.running[a] = r.running[a] \/ GoesOn(a, m.running[a]) \/ EndsUnread(a, m.cursor)

\* What is pending was raised for its agent by an event that was read.
Raised(m) ==
  \A a \in Agent : \A i \in m.pending[a] :
    i \in 1..m.cursor /\ log[i].agent = a /\ Kind(i) # "none"

Agrees(m, r) == Sane(r) /\ SameCounts(m, r) /\ SameRuns(m, r)
LInv == Raised(mem) /\ \E r : Replayed(r, mem.cursor) /\ Agrees(mem, r)

LEMMA FoldAgrees ==
  ASSUME NEW m, NEW r, Sane(m), Sane(r), SameCounts(m, r), NEW i
  PROVE  SameCounts(Fold(m, i), Fold(r, i))
<1> DEFINE e == log[i]
           n == Ingest(m, e, i)
           s == Ingest(r, e, i)
<1> USE DEF Fields, Blank
<1>0. DOMAIN m = Fields /\ DOMAIN r = Fields
  BY DEF Sane
<1>1. /\ DOMAIN n = Fields /\ DOMAIN s = Fields
      /\ n.timers = s.timers /\ n.errors = s.errors
      /\ n.handoffs = s.handoffs /\ n.faulted = s.faulted
  <2>1. CASE e.type = "started"
    BY <1>0, <2>1 DEF Ingest, IngestStart, Deliver, SameCounts
  <2>2. CASE e.type = "incoming"
    BY <1>0, <2>2 DEF Ingest, Deliver, SameCounts
  <2>3. CASE e.type = "finished"
    <3>1. n = Finished(m, e) /\ s = Finished(r, e)
      BY <2>3 DEF Ingest
    <3> QED
      BY <1>0, <3>1 DEF Finished, SameCounts
  <2>4. CASE e.type \notin Acts
    BY <1>0, <2>4 DEF Ingest, Acts, SameCounts
  <2> QED
    BY <2>1, <2>2, <2>3, <2>4 DEF Acts
<1> HIDE DEF n, s
<1>2. Fold(m, i) = [AddItem(n, e, i) EXCEPT !.cursor = i]
      /\ Fold(r, i) = [AddItem(s, e, i) EXCEPT !.cursor = i]
  BY DEF Fold, n, s
<1> QED
  BY <1>1, <1>2 DEF AddItem, SameCounts

LEMMA FoldRaises ==
  ASSUME NEW m, Sane(m), Raised(m), NEW i \in Nat \ {0}, m.cursor = i - 1
  PROVE  Raised(Fold(m, i))
<1> DEFINE e == log[i]
           n == Ingest(m, e, i)
           r == AddItem(n, e, i)
<1> USE DEF Fields, Blank
<1>0. DOMAIN m = Fields /\ DOMAIN m.pending = Agent
  BY DEF Sane
<1>1. DOMAIN n = Fields /\ DOMAIN n.pending = Agent
      /\ \A a \in Agent : n.pending[a] \subseteq m.pending[a]
  BY <1>0 DEF Ingest, IngestStart, Finished, Deliver
<1> HIDE DEF n
<1>2. /\ DOMAIN r = Fields
      /\ \A a \in Agent : \A j \in r.pending[a] :
           j \in n.pending[a] \/ (j = i /\ e.agent = a /\ KindOf(e) # "none")
  BY <1>1 DEF AddItem
<1> HIDE DEF r
<1>3. Fold(m, i) = [r EXCEPT !.cursor = i]
  BY DEF Fold, r, n
<1>4. Fold(m, i).pending = r.pending /\ Fold(m, i).cursor = i
  BY <1>2, <1>3
<1> QED
  BY <1>1, <1>2, <1>4 DEF Raised, Kind

\* Reading on, the two go on to agree; what was not known alike before is so now,
\* unless it is the activation of a task that goes on.
LEMMA CatchUpAgrees ==
  ASSUME LogOK, NEW m, MemOK(m), NEW r, Sane(r), SameCounts(m, r)
  PROVE  /\ Sane(CatchUp(r)) /\ SameCounts(CatchUp(m), CatchUp(r))
         /\ \A a \in Agent :
              \/ CatchUp(m).running[a] = CatchUp(r).running[a]
              \/ /\ CatchUp(m).running[a] = m.running[a] /\ m.running[a] # r.running[a]
                 /\ ~EndsUnread(a, m.cursor)
         /\ Raised(m) => Raised(CatchUp(m))
         /\ Replayed(r, m.cursor) => Replayed(CatchUp(r), Len(log))
<1> DEFINE c == m.cursor
<1>0. Len(log) \in Nat /\ Seqs = 1..Len(log) /\ c \in 0..Len(log) /\ r.cursor = c
  BY SequenceIsOne DEF LogOK, EventsOK, IsSequence, Seqs, MemOK, SameCounts
<1>1. PICK f : /\ f[c] = m /\ CatchUp(m) = f[Len(log)]
               /\ \A n \in c + 1 .. Len(log) : f[n] = Fold(f[n - 1], n)
  BY <1>0, CatchUpIsFold
<1>2. PICK g : /\ g[c] = r /\ CatchUp(r) = g[Len(log)]
               /\ \A n \in c + 1 .. Len(log) : g[n] = Fold(g[n - 1], n)
  <2>1. \E g : /\ g[r.cursor] = r /\ CatchUp(r) = g[Len(log)]
               /\ \A n \in r.cursor + 1 .. Len(log) : g[n] = Fold(g[n - 1], n)
    BY <1>0, CatchUpIsFold
  <2> QED
    BY <1>0, <2>1
<1> DEFINE Alike(n, a) ==
      \/ f[n].running[a] = g[n].running[a]
      \/ /\ f[n].running[a] = m.running[a] /\ m.running[a] # r.running[a]
         /\ \A j \in c + 1 .. n : ~Of(j, "finished", a)
    Good(n) ==
      /\ Sane(f[n]) /\ Sane(g[n]) /\ SameCounts(f[n], g[n]) /\ f[n].cursor = n
      /\ \A a \in Agent : Alike(n, a)
      /\ Raised(m) => Raised(f[n])
<1>3. Good(c)
  BY <1>0, <1>1, <1>2 DEF MemOK
<1>4. ASSUME NEW n \in c + 1 .. Len(log), Good(n - 1) PROVE Good(n)
  <2>1. n \in Seqs /\ n \in Nat \ {0} /\ f[n] = Fold(f[n - 1], n) /\ g[n] = Fold(g[n - 1], n)
    BY <1>0, <1>1, <1>2
  <2>2. log[n].type \in Acts => log[n].agent \in Agent /\ log[n].aid \in Nat
    BY <2>1 DEF LogOK, EventsOK
  <2>3. /\ Sane(f[n]) /\ Reads(f[n - 1], f[n], log[n]) /\ f[n].cursor = n
        /\ Sane(g[n]) /\ Reads(g[n - 1], g[n], log[n])
    BY <1>4, <2>1, <2>2, FoldReads
  <2>4. SameCounts(f[n], g[n])
    BY <1>4, <2>1, FoldAgrees
  <2>5. Raised(m) => Raised(f[n])
    BY <1>4, <2>1, FoldRaises
  <2>6. ASSUME NEW a \in Agent PROVE Alike(n, a)
    <3>1. CASE log[n].agent = a /\ log[n].type \in {"started", "finished"}
      BY <2>3, <3>1 DEF Reads
    <3>2. CASE ~(log[n].agent = a /\ log[n].type \in {"started", "finished"})
      <4>1. f[n].running[a] = f[n - 1].running[a] /\ g[n].running[a] = g[n - 1].running[a]
        BY <2>3, <3>2 DEF Reads
      <4>2. ~Of(n, "finished", a)
        BY <3>2 DEF Of
      <4>3. \A j \in c + 1 .. n : j = n \/ j \in c + 1 .. n - 1
        BY <1>0
      <4>4. Alike(n - 1, a)
        BY <1>4
      <4> QED
        BY <4>1, <4>2, <4>3, <4>4
    <3> QED
      BY <3>1, <3>2
  <2> QED
    BY <2>3, <2>4, <2>5, <2>6
<1> HIDE DEF Good
<1>5. \A n \in c..Len(log) : Good(n)
  <2> DEFINE Bad == {n \in c..Len(log) : ~Good(n)}
  <2>1. SUFFICES ASSUME Bad # {} PROVE FALSE
    OBVIOUS
  <2>2. Bad \subseteq Nat
    BY <1>0
  <2>3. PICK k \in Bad : \A l \in Bad : k <= l
    BY <2>1, <2>2, LeastNatural
  <2>4. k # c
    BY <1>3
  <2>5. k - 1 \in c..Len(log) /\ k \in c + 1 .. Len(log) /\ ~(k <= k - 1)
    BY <1>0, <2>4
  <2>6. Good(k - 1)
    BY <2>3, <2>5
  <2> QED
    BY <1>4, <2>5, <2>6
<1>6. Good(Len(log))
  BY <1>0, <1>5
<1>7. ASSUME Replayed(r, c) PROVE Replayed(CatchUp(r), Len(log))
  <2>1. PICK h : h[0] = Blank /\ h[c] = r /\ \A n \in 1..c : h[n] = Fold(h[n - 1], n)
    BY <1>7 DEF Replayed
  <2> DEFINE b == [n \in 0..Len(log) |-> IF n <= c THEN h[n] ELSE g[n]]
  <2>2. b[0] = Blank /\ b[Len(log)] = CatchUp(r)
    BY <1>0, <1>2, <2>1
  <2>3. ASSUME NEW n \in 1..Len(log) PROVE b[n] = Fold(b[n - 1], n)
    <3>1. CASE n <= c
      <4>1. b[n] = h[n] /\ b[n - 1] = h[n - 1] /\ n \in 1..c
        BY <1>0, <3>1
      <4> HIDE DEF b
      <4> QED
        BY <2>1, <4>1
    <3>2. CASE n = c + 1
      <4>1. b[n] = g[n] /\ b[n - 1] = g[n - 1] /\ n \in c + 1 .. Len(log)
        BY <1>0, <1>2, <2>1, <3>2
      <4> HIDE DEF b
      <4> QED
        BY <1>2, <4>1
    <3>3. CASE n > c + 1
      <4>1. b[n] = g[n] /\ b[n - 1] = g[n - 1] /\ n \in c + 1 .. Len(log)
        BY <1>0, <3>3
      <4> HIDE DEF b
      <4> QED
        BY <1>2, <4>1
    <3> QED
      BY <1>0, <3>1, <3>2, <3>3
  <2> HIDE DEF b
  <2> QED
    BY <2>2, <2>3 DEF Replayed
<1> QED
  BY <1>1, <1>2, <1>6, <1>7 DEF Good, EndsUnread

\* A replay of the whole log is the fold of a restart.
LEMMA ReplayIsRestart ==
  ASSUME LogOK, NEW r, Replayed(r, Len(log))
  PROVE  CatchUp(Blank) = r
<1>0. Len(log) \in Nat /\ Blank.cursor = 0
  BY SequenceIsOne DEF LogOK, EventsOK, IsSequence, Blank
<1>1. PICK f : f[0] = Blank /\ f[Len(log)] = r /\ \A n \in 1..Len(log) : f[n] = Fold(f[n - 1], n)
  BY DEF Replayed
<1>2. PICK g : /\ g[0] = Blank /\ CatchUp(Blank) = g[Len(log)]
               /\ \A n \in 1..Len(log) : g[n] = Fold(g[n - 1], n)
  <2>1. \E g : /\ g[Blank.cursor] = Blank /\ CatchUp(Blank) = g[Len(log)]
               /\ \A n \in Blank.cursor + 1 .. Len(log) : g[n] = Fold(g[n - 1], n)
    BY <1>0, CatchUpIsFold
  <2> QED
    BY <1>0, <2>1
<1>3. \A n \in 0..Len(log) : f[n] = g[n]
  <2> DEFINE Bad == {n \in 0..Len(log) : f[n] # g[n]}
  <2>1. SUFFICES ASSUME Bad # {} PROVE FALSE
    OBVIOUS
  <2>2. PICK k \in Bad : \A l \in Bad : k <= l
    <3>1. Bad \subseteq Nat
      OBVIOUS
    <3> QED
      BY <2>1, <3>1, LeastNatural
  <2>3. k # 0
    BY <1>1, <1>2, <2>2
  <2>4. k - 1 \in 0..Len(log) /\ k \in 1..Len(log) /\ ~(k <= k - 1)
    BY <1>0, <2>2, <2>3
  <2>5. f[k - 1] = g[k - 1]
    BY <2>2, <2>4
  <2> QED
    BY <1>1, <1>2, <2>2, <2>4, <2>5
<1> QED
  BY <1>0, <1>1, <1>2, <1>3

\* The log that was replayed stays as it was.
LEMMA ReplayStays ==
  ASSUME Grows, NEW c \in 0..Len(log), NEW r, Replayed(r, c)
  PROVE  Replayed(r, c)'
<1>1. PICK f : f[0] = Blank /\ f[c] = r /\ \A n \in 1..c : f[n] = Fold(f[n - 1], n)
  BY DEF Replayed
<1>2. \A n \in 1..c : log'[n] = log[n]
  BY DEF Grows
<1>3. \A n \in 1..c : f[n] = Fold(f[n - 1], n)'
  BY <1>1, <1>2 DEF Fold
<1> QED
  BY <1>1, <1>3 DEF Replayed

LEMMA RaisedStays ==
  ASSUME Grows, MemOK(mem'), Raised(mem')
  PROVE  Raised(mem)'
<1>1. mem'.cursor \in 0..Len(log)
  BY DEF MemOK
<1>2. \A i \in 1..mem'.cursor : log'[i] = log[i]
  BY <1>1 DEF Grows
<1> QED
  BY <1>2 DEF Raised, Kind

\* An activation goes on, or its end is appended.
TasksGoOn ==
  \A x \in DOMAIN tasks : ~HasFinished(x) =>
    \/ x \in DOMAIN tasks' /\ tasks'[x].agent = tasks[x].agent /\ ~HasFinished(x)'
    \/ \E j \in Len(log) + 1 .. Len(log') :
         log'[j].type = "finished" /\ log'[j].agent = tasks[x].agent

\* A memory that reads, or does not, and then decides what was not counted.
LEMMA AgreeingStep ==
  ASSUME IInv, LInv, Grows, TasksGoOn, MemOK(mem'), Raised(mem'),
         NEW m, m = mem \/ m = CatchUp(mem), SameCounts(m, mem'),
         \A a \in Agent : \/ mem'.running[a] = m.running[a]
                          \/ RunsOn(a)'
  PROVE  LInv'
<1> USE LogFacts
<1>1. PICK r : Replayed(r, mem.cursor) /\ Agrees(mem, r)
  BY DEF LInv
<1>2. PICK s : /\ Sane(s) /\ SameCounts(m, s) /\ Replayed(s, m.cursor)
               /\ m.cursor \in 0..Len(log)
               /\ \A a \in Agent :
                    m.running[a] = s.running[a] \/ GoesOn(a, m.running[a])
                      \/ EndsUnread(a, m.cursor)
  <2>1. CASE m = mem
    BY <1>1, <2>1 DEF Agrees, SameRuns, MemOK
  <2>2. CASE m = CatchUp(mem)
    <3>1. /\ Sane(CatchUp(r)) /\ SameCounts(m, CatchUp(r)) /\ Replayed(CatchUp(r), Len(log))
          /\ \A a \in Agent :
               \/ m.running[a] = CatchUp(r).running[a]
               \/ /\ m.running[a] = mem.running[a] /\ mem.running[a] # r.running[a]
                  /\ ~EndsUnread(a, mem.cursor)
      BY <1>1, <2>2, CatchUpAgrees DEF Agrees
    <3>2. m.cursor = Len(log)
      BY <2>2, CatchUpReads
    <3>3. \A a \in Agent : m.running[a] = CatchUp(r).running[a] \/ GoesOn(a, m.running[a])
      BY <1>1, <3>1 DEF Agrees, SameRuns
    <3> QED
      BY <3>1, <3>2, <3>3
  <2> QED
    BY <2>1, <2>2
<1>3. PICK c \in 0..Len(log) : c = m.cursor /\ mem'.cursor = c
  BY <1>2 DEF SameCounts
<1>4. Replayed(s, c)'
  BY <1>2, <1>3, ReplayStays
<1>5. Sane(s)' /\ SameCounts(mem', s)
  BY <1>2 DEF Sane, SameCounts
<1>6. ASSUME NEW a \in Agent
      PROVE  \/ mem'.running[a] = s.running[a] \/ RunsOn(a)'
             \/ EndsUnread(a, c)'
  <2>1. SUFFICES ASSUME mem'.running[a] = m.running[a]
                 PROVE  \/ mem'.running[a] = s.running[a] \/ RunsOn(a)'
                        \/ EndsUnread(a, c)'
    OBVIOUS
  <2>2. EndsUnread(a, c) => EndsUnread(a, c)'
    BY <1>3 DEF EndsUnread, Grows, Of
  <2>3. ASSUME GoesOn(a, m.running[a])
        PROVE  RunsOn(a)' \/ EndsUnread(a, c)'
    <3>1. PICK x : x = m.running[a]
      OBVIOUS
    <3>2. x \in DOMAIN tasks /\ tasks[x].agent = a /\ ~HasFinished(x)
      BY <2>3, <3>1 DEF GoesOn
    <3>3. \/ x \in DOMAIN tasks' /\ tasks'[x].agent = a /\ ~HasFinished(x)'
          \/ \E j \in Len(log) + 1 .. Len(log') :
               log'[j].type = "finished" /\ log'[j].agent = a
      BY <3>2 DEF TasksGoOn
    <3>4. CASE x \in DOMAIN tasks' /\ tasks'[x].agent = a /\ ~HasFinished(x)'
      <4>1. mem'.running[a] = x
        BY <2>1, <3>1
      <4> QED
        BY <3>4, <4>1 DEF RunsOn, GoesOn
    <3>5. CASE \E j \in Len(log) + 1 .. Len(log') :
                 log'[j].type = "finished" /\ log'[j].agent = a
      BY <1>3, <3>5 DEF EndsUnread, Of, Grows
    <3> QED
      BY <3>3, <3>4, <3>5
  <2> QED
    BY <1>2, <1>3, <2>1, <2>2, <2>3
<1>7. Agrees(mem, s)'
  <2>1. \A a \in Agent :
          mem'.running[a] = s.running[a] \/ GoesOn(a, mem.running[a])' \/ EndsUnread(a, mem.cursor)'
    BY <1>3, <1>6 DEF RunsOn, EndsUnread
  <2> QED
    BY <1>5, <2>1 DEF Agrees, SameCounts, SameRuns
<1>8. Replayed(s, mem.cursor)'
  BY <1>3, <1>4 DEF Replayed
<1>9. Raised(mem)'
  BY RaisedStays
<1> QED
  BY <1>7, <1>8, <1>9 DEF LInv

\* The end of the process forgets everything.
LEMMA BlankAgrees == mem = Blank => LInv
<1> SUFFICES ASSUME mem = Blank PROVE LInv
  OBVIOUS
<1>1. Replayed(Blank, 0)
  <2> DEFINE f == [n \in {0} |-> Blank]
  <2>1. f[0] = Blank /\ \A n \in 1..0 : f[n] = Fold(f[n - 1], n)
    OBVIOUS
  <2> QED
    BY <2>1 DEF Replayed
<1>2. Agrees(Blank, Blank)
  BY FS_EmptySet DEF Agrees, Sane, SameCounts, SameRuns, Blank, Fields
<1>3. Raised(Blank) /\ Blank.cursor = 0
  BY DEF Raised, Blank
<1> QED
  BY <1>1, <1>2, <1>3 DEF LInv

\* Nothing is lost of what was raised when the memory reads.
LEMMA ReadRaises ==
  ASSUME IInv, LInv, NEW m, m = mem \/ m = CatchUp(mem)
  PROVE  MemOK(m) /\ Raised(m)
<1>1. PICK r : Agrees(mem, r)
  BY DEF LInv
<1> QED
  BY <1>1, LogFacts, CaughtUp, CatchUpAgrees DEF LInv, Agrees

\* A step that reads or not, and takes back what it likes of what is pending.
LEMMA DecidingStep ==
  ASSUME IInv, LInv, Grows, TasksGoOn, NEW m, m = mem \/ m = CatchUp(mem),
         Decides(m, mem')
  PROVE  LInv'
<1>1. MemOK(m) /\ Raised(m)
  BY ReadRaises
<1>2. MemOK(mem') /\ SameCounts(m, mem') /\ \A a \in Agent : mem'.running[a] = m.running[a]
  BY <1>1, KeptIsOK DEF Decides, Kept, SameCounts
<1>3. Raised(mem')
  BY <1>1 DEF Decides, Kept, Raised
<1> QED
  BY <1>2, <1>3, AgreeingStep

\* Tasks that stay go on, whatever is appended that is not an end.
LEMMA TasksStay ==
  ASSUME Grows, \A i \in Len(log) + 1 .. Len(log') : log'[i].type # "finished",
         \A x \in DOMAIN tasks : x \in DOMAIN tasks' /\ tasks'[x].agent = tasks[x].agent
  PROVE  TasksGoOn
<1>1. \A x : HasFinished(x)' => HasFinished(x)
  BY DEF HasFinished, Grows, Seqs
<1> QED
  BY <1>1 DEF TasksGoOn

LEMMA NoEnd ==
  ASSUME IInv, UNCHANGED log
  PROVE  Grows /\ \A i \in Len(log) + 1 .. Len(log') : log'[i].type # "finished"
  BY NoRow DEF EndsNothing

LEMMA OtherEvent ==
  ASSUME IInv, NEW e, Append1(e), e.type # "finished"
  PROVE  Grows /\ \A i \in Len(log) + 1 .. Len(log') : log'[i].type # "finished"
<1>1. Grows /\ Len(log') = Len(log) + 1 /\ log'[Len(log) + 1] = e
  BY AppendGrows, LogFacts
<1> QED
  BY <1>1, LogFacts

\* The task that ends is the one whose end is appended.
LEMMA TaskEnds ==
  ASSUME IInv, NEW x \in DOMAIN tasks, NEW what,
         Append1(Event("finished", tasks[x].agent, what, x, {})),
         \A y \in DOMAIN tasks : y # x =>
           y \in DOMAIN tasks' /\ tasks'[y].agent = tasks[y].agent
  PROVE  Grows /\ TasksGoOn
<1> USE LogFacts
<1> DEFINE e == Event("finished", tasks[x].agent, what, x, {})
<1>1. e.type = "finished" /\ e.agent = tasks[x].agent /\ e.aid = x
  BY DEF Event
<1> HIDE DEF e
<1>2. Grows /\ Len(log') = Len(log) + 1 /\ log'[Len(log) + 1] = e
  BY AppendGrows DEF e
<1>3. \A y : y # x => (HasFinished(y)' => HasFinished(y))
  <2>1. SUFFICES ASSUME NEW y, y # x, NEW i \in Seqs', log'[i].type = "finished", log'[i].aid = y
                 PROVE  HasFinished(y)
    BY DEF HasFinished
  <2>2. i # Len(log) + 1
    BY <1>1, <1>2, <2>1
  <2>3. i \in Seqs /\ log'[i] = log[i]
    BY <1>2, <2>1, <2>2 DEF Grows, Seqs
  <2> QED
    BY <2>1, <2>3 DEF HasFinished
<1>4. \E j \in Len(log) + 1 .. Len(log') :
        log'[j].type = "finished" /\ log'[j].agent = tasks[x].agent
  BY <1>1, <1>2
<1> QED
  BY <1>2, <1>3, <1>4 DEF TasksGoOn

LEMMA ForgottenAgrees == mem' = Blank => LInv'
<1>1. (mem = Blank)' => LInv'
  BY BlankAgrees, PTL
<1> QED
  BY <1>1

LEMMA LoopAgrees ==
  ASSUME IInv, LInv, Loop, \A a \in Agent : ~Start(a)
  PROVE  LInv'
<1> USE LogFacts
<1>0. ASSUME UNCHANGED tasks, Grows,
             \A i \in Len(log) + 1 .. Len(log') : log'[i].type # "finished"
      PROVE  TasksGoOn
  BY <1>0, TasksStay
<1>1. CASE mem' = Blank
  BY <1>1, ForgottenAgrees
<1>2. CASE Boot /\ mem' # Blank
  <2>1. mem' = CatchUp(mem) /\ UNCHANGED tasks
    BY <1>2 DEF Boot
  <2>2. Plain("resumed", CatchUp(mem).stopped).type # "finished"
    BY DEF Plain, Event
  <2>3. Grows /\ \A i \in Len(log) + 1 .. Len(log') : log'[i].type # "finished"
    BY <1>2, <2>2, NoEnd, OtherEvent DEF Boot
  <2> QED
    BY <1>0, <2>1, <2>3, DecidesNothing, DecidingStep
<1>3. CASE ResumeUnfinished
  <2>1. mem' = CatchUp(mem) /\ UNCHANGED log
    BY <1>3 DEF ResumeUnfinished
  <2>2. TasksGoOn
    BY <1>3 DEF ResumeUnfinished, IInv, TasksOK, InLoop, TasksGoOn
  <2> QED
    BY <2>1, <2>2, NoEnd, DecidesNothing, DecidingStep
<1>4. CASE FireTimers
  <2>1. mem' = CatchUp(mem) /\ UNCHANGED tasks
    BY <1>4 DEF FireTimers
  <2>2. Grows /\ \A i \in Len(log) + 1 .. Len(log') : log'[i].type # "finished"
    BY <1>4, FireTimersGrows DEF GrowsQuietly
  <2> QED
    BY <1>0, <2>1, <2>2, DecidesNothing, DecidingStep
<1>5. CASE CheckBreakers
  <2>1. /\ Decides(mem, mem') /\ UNCHANGED tasks
        /\ UNCHANGED log \/ \E kind : Append1(Plain("breaker_tripped", kind))
    BY <1>5, CheckDecides
  <2>2. \A kind : Plain("breaker_tripped", kind).type # "finished"
    BY DEF Plain, Event
  <2>3. Grows /\ \A i \in Len(log) + 1 .. Len(log') : log'[i].type # "finished"
    BY <2>1, <2>2, NoEnd, OtherEvent
  <2> QED
    BY <1>0, <2>1, <2>3, DecidingStep
<1>6. ASSUME NEW a \in Agent, DropContinues(a) PROVE LInv'
  <2>1. /\ mem' = [mem EXCEPT !.pending[a] = @ \ Dropped(mem, a)] /\ UNCHANGED tasks
        /\ Append1(Event("handoff_limit", a, "", 0, {}))
    BY <1>6 DEF DropContinues
  <2>2. Decides(mem, mem')
    BY <2>1, DropDecides DEF MemOK
  <2>3. Event("handoff_limit", a, "", 0, {}).type # "finished"
    BY DEF Event
  <2>4. Grows /\ \A i \in Len(log) + 1 .. Len(log') : log'[i].type # "finished"
    BY <2>1, <2>3, OtherEvent
  <2> QED
    BY <1>0, <2>1, <2>2, <2>4, DecidingStep
<1>7. CASE StartsDone
  <2>1. mem' = CatchUp(mem) /\ UNCHANGED <<log, tasks>>
    BY <1>7 DEF StartsDone
  <2> QED
    BY <1>0, <2>1, NoEnd, DecidesNothing, DecidingStep
<1>8. CASE CancelTasks
  <2>1. UNCHANGED <<log, mem>>
    BY <1>8 DEF CancelTasks
  <2>2. \A x \in DOMAIN tasks : x \in DOMAIN tasks' /\ tasks'[x].agent = tasks[x].agent
    BY <1>8 DEF CancelTasks, IInv, TasksOK, TaskOK
  <2>3. Grows /\ TasksGoOn
    BY <2>1, <2>2, NoEnd, TasksStay
  <2> QED
    BY <2>1, <2>3, DecidesNothing, DecidingStep
<1>9. CASE LogQuiescent
  <2>1. Append1(Plain("quiescent", "")) /\ Decides(mem, mem') /\ UNCHANGED tasks
    BY <1>9, LogDecides
  <2>2. Plain("quiescent", "").type # "finished"
    BY DEF Plain, Event
  <2>3. Grows /\ \A i \in Len(log) + 1 .. Len(log') : log'[i].type # "finished"
    BY <2>1, <2>2, OtherEvent
  <2> QED
    BY <1>0, <2>1, <2>3, DecidingStep
<1>10. CASE Wait
  <2>1. UNCHANGED <<log, mem, tasks>>
    BY <1>10 DEF Wait
  <2> QED
    BY <1>0, <2>1, NoEnd, DecidesNothing, DecidingStep
<1>11. StopAsked \/ StopQuiescent => mem' = Blank
  BY DEF StopAsked, StopQuiescent, Stop
<1> QED
  BY <1>1, <1>2, <1>3, <1>4, <1>5, <1>6, <1>7, <1>8, <1>9, <1>10, <1>11 DEF Loop

\* What is handed out differs from what the log says, and begins or is cancelled.
LEMMA StartAgrees ==
  ASSUME IInv, LInv, NEW a \in Agent, Start(a)
  PROVE  LInv'
<1> USE LogFacts
<1>0. PICK new : new = aids + 1
  OBVIOUS
<1> DEFINE items == Live(mem, a)
           m == [mem EXCEPT !.running[a] = new]
<1>1. /\ UNCHANGED log /\ mem' = Deliver(m, a, items)
      /\ tasks' = [x \in DOMAIN tasks \cup {new} |->
                     IF x = new THEN Task(a, "spawned", items) ELSE tasks[x]]
  BY <1>0 DEF Start, MayStart, Candidates
<1>2. MemOK(mem')
  <2>1. MemOK(mem)' /\ log' = log
    BY <1>1, StartKeeps DEF IInv
  <2> QED
    BY <2>1 DEF MemOK, Sane
<1>3. \A x \in DOMAIN tasks : x # new
  BY <1>0 DEF IInv, TasksOK, TaskOK, LogOK, EventsOK
<1>4. ~HasFinished(new)
  BY <1>0 DEF IInv, LogOK, EventsOK, HasFinished, Acts
<1>5. TasksGoOn /\ Grows
  <2>1. \A x \in DOMAIN tasks : x \in DOMAIN tasks' /\ tasks'[x].agent = tasks[x].agent
    BY <1>1, <1>3
  <2> QED
    BY <1>1, <2>1, NoEnd, TasksStay
<1> HIDE DEF items
<1>6. /\ mem'.running = [mem.running EXCEPT ![a] = new]
      /\ \A b \in Agent : mem'.pending[b] \subseteq mem.pending[b]
      /\ SameCounts(mem, mem')
  BY <1>1 DEF Deliver, MemOK, Sane, Fields, Blank, SameCounts
<1>7. Raised(mem')
  BY <1>6 DEF LInv, Raised, SameCounts
<1>8. RunsOn(a)'
  <2>1. new \in DOMAIN tasks' /\ tasks'[new].agent = a
    BY <1>1 DEF Task
  <2>2. ~HasFinished(new)'
    BY <1>1, <1>4 DEF HasFinished, Seqs
  <2>3. mem'.running[a] = new
    BY <1>6 DEF MemOK, Sane
  <2> QED
    BY <2>1, <2>2, <2>3 DEF RunsOn, GoesOn
<1>9. \A b \in Agent : mem'.running[b] = mem.running[b] \/ RunsOn(b)'
  BY <1>6, <1>8
<1> QED
  BY <1>2, <1>5, <1>6, <1>7, <1>9, AgreeingStep

LEMMA PollAgrees ==
  ASSUME IInv, LInv, NEW x \in 1..MaxActivations, Poll(x) \/ PollDrops(x)
  PROVE  LInv'
<1> USE LogFacts
<1> DEFINE a == tasks[x].agent
<1>1. /\ x \in DOMAIN tasks /\ UNCHANGED tasks
      /\ \/ /\ Decides(CatchUp(mem), mem')
            /\ UNCHANGED log \/ Append1(Event("handoff_limit", a, "", 0, {}))
         \/ \E m, items :
              /\ Decides(CatchUp(mem), m)
              /\ mem' = Deliver(m, a, items) /\ Append1(Event("incoming", a, "", x, items))
  BY PollDecides
<1>2. a \in Agent
  BY <1>1 DEF IInv, TasksOK, TaskOK
<1>3. /\ Event("handoff_limit", a, "", 0, {}).type # "finished"
      /\ \A items : Event("incoming", a, "", x, items).type # "finished"
  BY DEF Event
<1>4. Grows /\ TasksGoOn
  <2>1. Grows /\ \A i \in Len(log) + 1 .. Len(log') : log'[i].type # "finished"
    BY <1>1, <1>3, NoEnd, OtherEvent
  <2> QED
    BY <1>1, <2>1, TasksStay
<1>5. CASE Decides(CatchUp(mem), mem')
  BY <1>4, <1>5, DecidingStep
<1>6. ASSUME NEW m, NEW items, Decides(CatchUp(mem), m), mem' = Deliver(m, a, items)
      PROVE  LInv'
  <2> DEFINE q == CatchUp(mem)
  <2>1. MemOK(q) /\ Raised(q)
    BY ReadRaises
  <2>2. q = CatchUp(mem) /\ Decides(q, m)
    BY <1>6
  <2> HIDE DEF a, q
  <2>3. MemOK(m) /\ Sane(m)
    BY <2>1, <2>2, KeptIsOK DEF Decides, MemOK
  <2>4. /\ m.running = q.running /\ m.cursor = q.cursor /\ m.timers = q.timers
        /\ m.errors = q.errors /\ m.handoffs = q.handoffs /\ m.faulted = q.faulted
        /\ \A b \in Agent : m.pending[b] \subseteq q.pending[b]
    BY <2>2 DEF Decides, Kept
  <2>5. LET n == Deliver(m, a, items)
        IN  /\ Sane(n) /\ n.running = m.running /\ n.cursor = m.cursor
            /\ \A b \in Agent : n.delivered[b] =
                 m.delivered[b] \cup (IF b = a THEN items ELSE {})
    BY <1>2, <2>3, DeliverReads
  <2>6. /\ Sane(mem') /\ mem'.cursor = m.cursor /\ mem'.running = m.running
        /\ \A b \in Agent : m.delivered[b] \subseteq mem'.delivered[b]
    BY <1>6, <2>5
  <2>7. MemOK(mem')
    BY <2>3, <2>6 DEF MemOK
  <2>8. /\ \A b \in Agent : mem'.pending[b] \subseteq m.pending[b]
        /\ mem'.timers = m.timers /\ mem'.errors = m.errors
        /\ mem'.handoffs = m.handoffs /\ mem'.faulted = m.faulted
    BY <1>6, <2>3 DEF Deliver, Sane, Fields, Blank
  <2>9. SameCounts(q, mem')
    BY <2>4, <2>6, <2>8 DEF SameCounts
  <2>10. Raised(mem')
    BY <2>1, <2>4, <2>6, <2>8 DEF Raised
  <2>11. \A b \in Agent : mem'.running[b] = q.running[b]
    BY <2>4, <2>6
  <2> QED
    BY <1>4, <2>2, <2>7, <2>9, <2>10, <2>11, AgreeingStep
<1> QED
  BY <1>1, <1>5, <1>6

LEMMA ActivationAgrees ==
  ASSUME IInv, LInv, NEW x \in 1..MaxActivations, Activation(x)
  PROVE  LInv'
<1> USE LogFacts
<1>1. CASE Begin(x)
  <2>1. /\ UNCHANGED mem
        /\ Append1(Event("started", tasks[x].agent, "", x, tasks[x].seqs))
    BY <1>1 DEF Begin, Phase
  <2>2. \A y \in DOMAIN tasks : y \in DOMAIN tasks' /\ tasks'[y].agent = tasks[y].agent
    <3>1. x \in DOMAIN tasks /\ tasks' = [tasks EXCEPT ![x].phase = "running"]
      BY <1>1 DEF Begin, Phase
    <3> QED
      BY <3>1 DEF IInv, TasksOK, TaskOK
  <2>3. Event("started", tasks[x].agent, "", x, tasks[x].seqs).type # "finished"
    BY DEF Event
  <2>4. Grows /\ TasksGoOn
    BY <2>1, <2>2, <2>3, OtherEvent, TasksStay
  <2> QED
    BY <2>1, <2>4, DecidesNothing, DecidingStep
<1>2. CASE Resume(x) \/ RunnerFails(x)
  <2>1. UNCHANGED <<log, mem>>
    BY <1>2 DEF Resume, RunnerFails
  <2>2. \A y \in DOMAIN tasks : y \in DOMAIN tasks' /\ tasks'[y].agent = tasks[y].agent
    BY <1>2 DEF Resume, RunnerFails, EndTask, Phase, IInv, TasksOK, TaskOK
  <2>3. Grows /\ TasksGoOn
    BY <2>1, <2>2, NoEnd, TasksStay
  <2> QED
    BY <2>1, <2>3, DecidesNothing, DecidingStep
<1>3. CASE Poll(x) \/ PollDrops(x)
  BY <1>3, PollAgrees
<1>4. CASE SetTimer(x)
  <2>1. UNCHANGED <<mem, tasks>> /\ Append1(Event("timer_set", tasks[x].agent, "", 0, {}))
    BY <1>4 DEF SetTimer
  <2>2. Event("timer_set", tasks[x].agent, "", 0, {}).type # "finished"
    BY DEF Event
  <2>3. Grows /\ TasksGoOn
    BY <2>1, <2>2, OtherEvent, TasksStay
  <2> QED
    BY <2>1, <2>3, DecidesNothing, DecidingStep
<1>5. CASE Finish(x) \/ Cancelled(x) \/ Done(x)
  <2>1. x \in DOMAIN tasks /\ UNCHANGED mem
    BY <1>5 DEF Finish, Cancelled, Done, Running, Phase
  <2>2. \A y \in DOMAIN tasks : y # x => y \in DOMAIN tasks' /\ tasks'[y] = tasks[y]
    BY <1>5 DEF Finish, Cancelled, Done, EndTask
  <2>3. CASE \E what : Append1(Event("finished", tasks[x].agent, what, x, {}))
    <3>1. Grows /\ TasksGoOn
      BY <2>1, <2>2, <2>3, TaskEnds
    <3> QED
      BY <2>1, <3>1, DecidesNothing, DecidingStep
  <2>4. CASE UNCHANGED log
    <3>1. \A y : HasFinished(y)' => HasFinished(y)
      BY <2>4 DEF HasFinished, Seqs
    <3>2. HasFinished(x) \/ (x \in DOMAIN tasks' /\ tasks'[x].agent = tasks[x].agent)
      <4>1. CASE Done(x)
        <5>1. ~HasFinished(x) => Append1(Event("finished", tasks[x].agent, tasks[x].exc, x, {}))
          BY <4>1 DEF Done
        <5>2. ASSUME NEW e, Append1(e) PROVE FALSE
          <6>1. Len(log') = Len(log) + 1
            BY <5>2, AppendGrows
          <6> QED
            BY <2>4, <6>1
        <5> QED
          BY <5>1, <5>2
      <4>2. CASE Finish(x) \/ Cancelled(x)
        BY <2>1, <4>2 DEF Finish, Cancelled, EndTask, IInv, TasksOK, TaskOK
      <4> QED
        BY <1>5, <4>1, <4>2
    <3>3. TasksGoOn
      BY <2>2, <3>1, <3>2 DEF TasksGoOn
    <3> QED
      BY <2>1, <2>4, <3>3, NoEnd, DecidesNothing, DecidingStep
  <2> QED
    BY <1>5, <2>3, <2>4 DEF Finish, Cancelled, Done
<1> QED
  BY <1>1, <1>2, <1>3, <1>4, <1>5 DEF Activation

LEMMA EnvironmentAgrees ==
  ASSUME IInv, LInv, Environment \/ Crash \/ Launch
  PROVE  LInv'
<1> USE LogFacts
<1>2. CASE Environment
  <2>1. PICK e : Append1(e) /\ UNCHANGED <<mem, tasks>> /\ e.type # "finished"
    BY <1>2, EnvironmentAppends
  <2>2. Grows /\ TasksGoOn
    BY <2>1, OtherEvent, TasksStay
  <2> QED
    BY <2>1, <2>2, DecidesNothing, DecidingStep
<1>3. Crash => mem' = Blank
  BY DEF Crash
<1>4. CASE Launch
  <2>1. UNCHANGED <<log, mem, tasks>>
    BY <1>4 DEF Launch
  <2>2. Grows /\ TasksGoOn
    BY <2>1, NoEnd, TasksStay
  <2> QED
    BY <2>1, <2>2, DecidesNothing, DecidingStep
<1> QED
  BY <1>2, <1>3, <1>4, ForgottenAgrees

LEMMA StepLInv == IInv /\ LInv /\ [Next]_vars => LInv'
<1> SUFFICES ASSUME IInv, LInv, [Next]_vars PROVE LInv'
  OBVIOUS
<1>1. ASSUME NEW a \in Agent, Start(a) PROVE LInv'
  BY <1>1, StartAgrees
<1>2. CASE Loop
  BY <1>1, <1>2, LoopAgrees
<1>3. ASSUME NEW x \in 1..MaxActivations, Activation(x) PROVE LInv'
  BY <1>3, ActivationAgrees
<1>4. CASE Environment \/ Crash \/ Launch
  BY <1>4, EnvironmentAgrees
<1>5. CASE UNCHANGED vars
  <2>1. UNCHANGED <<log, mem, tasks>>
    BY <1>5 DEF vars
  <2>2. Grows /\ TasksGoOn
    BY <2>1, NoEnd, TasksStay
  <2> QED
    BY <2>1, <2>2, DecidesNothing, DecidingStep
<1> QED
  BY <1>2, <1>3, <1>4, <1>5 DEF Next

\* What a memory that has read everything has pending of what is due was raised for its
\* agent and never put in its context, so no memory took it for delivered.
LEMMA PendingIsUnshown ==
  ASSUME IInv, NEW m, MemOK(m), Raised(m), m.cursor = Len(log),
         NEW a \in Agent, NEW i \in m.pending[a], Kind(i) # "continue",
         NEW n, n.delivered[a] \subseteq Shown(a)
  PROVE  i \in 1..Len(log) /\ log[i].agent = a /\ IsDue(i) /\ i \notin n.delivered[a]
<1>0. Seqs = 1..Len(log)
  BY SequenceIsOne DEF IInv, LogOK, EventsOK, IsSequence, Seqs
<1>1. Shown(a) \subseteq m.delivered[a]
  BY <1>0 DEF MemOK, Shown, Shows
<1>2. m.pending[a] \cap m.delivered[a] = {}
  BY DEF MemOK, Sane
<1>3. i \in 1..Len(log) /\ log[i].agent = a /\ Kind(i) # "none"
  BY DEF Raised
<1> QED
  BY <1>1, <1>2, <1>3 DEF IsDue

\* Whoever runs, once everything was read and each task has begun, has begun by the log.
LEMMA RunningIsOpen ==
  ASSUME IInv, LInv, InLoop, mem.cursor = Len(log), \A x \in DOMAIN tasks : HasBegun(x),
         NEW r, Agrees(mem, r), Folded(r), NEW a \in Agent
  PROVE  mem.running[a] = r.running[a]
<1> USE LogFacts
<1>0. r.cursor = Len(log) /\ Seqs = 1..Len(log) /\ r.running[a] \in Nat
      /\ \A x \in Nat \ {0} : r.running[a] = x <=> OpenAt(a, x, Len(log))
  <2>1. Seqs = 1..Len(log)
    BY SequenceIsOne DEF LogOK, EventsOK, IsSequence, Seqs
  <2>2. r.cursor = Len(log) /\ r.running[a] \in Nat
    BY DEF Agrees, SameCounts, Sane
  <2> QED
    BY <2>1, <2>2 DEF Folded
<1>1. ~EndsUnread(a, mem.cursor)
  BY DEF EndsUnread
<1>2. CASE GoesOn(a, mem.running[a])
  <2>1. PICK x : x = mem.running[a]
    OBVIOUS
  <2>2. x \in DOMAIN tasks /\ tasks[x].agent = a /\ ~HasFinished(x) /\ HasBegun(x)
    BY <1>2, <2>1 DEF GoesOn
  <2>3. PICK i \in Seqs : log[i].type = "started" /\ log[i].aid = x
    BY <2>2 DEF HasBegun, HasFinished
  <2>4. x \in Nat \ {0} /\ log[i].agent = a
    BY <2>2, <2>3 DEF IInv, TasksOK, TaskOK, Acts
  <2>5. OpenAt(a, x, Len(log))
    BY <1>0, <2>2, <2>3, <2>4 DEF OpenAt, EndedBy, HasFinished, Of
  <2> QED
    BY <1>0, <2>1, <2>4, <2>5
<1> QED
  BY <1>1, <1>2 DEF Agrees, SameRuns

\* A restart decides as the process would have that grew with the log: it knows the same
\* activations to run, failures, handoffs, faults and timers, it forgets no item that the
\* process would wake an agent for, and brings back none but what was void for a while
\* (_waking forgets it for good in memory only), for any agents, limits, outcomes, deaths
\* and launches (scheduler.py: catch_up, _ingest, _deliver, _finished, _waking,
\* poll_incoming).  A runner that fails to start is the exception: what it was handed
\* comes back at the next restart only.
THEOREM RestartsDecideAlike == ~RunnerFailures => (Spec => []RefoldAgrees)
<1> SUFFICES ASSUME ~RunnerFailures PROVE Spec => []RefoldAgrees
  OBVIOUS
<1>1. Init => JInv /\ LInv
  <2>1. Init => LInv
    BY BlankAgrees DEF Init
  <2> QED
    BY <2>1 DEF Init, JInv, NoneForgotten, Blank, Accounted, NotResumed, InLoop
<1>2. IInv /\ JInv /\ LInv /\ [Next]_vars => JInv' /\ LInv'
  BY StepJInv, StepLInv
<1>3. IInv /\ JInv /\ LInv => RefoldAgrees
  <2> USE LogFacts
  <2> SUFFICES ASSUME IInv, JInv, LInv, pc = "wait", mem.cursor = Len(log),
                      \A x \in DOMAIN tasks : HasBegun(x)
               PROVE  RefoldAgrees
    BY DEF RefoldAgrees
  <2>0. InLoop
    BY DEF InLoop
  <2>1. PICK r : Replayed(r, Len(log)) /\ Agrees(mem, r)
    BY DEF LInv
  <2>2. CatchUp(Blank) = r
    BY <2>1, ReplayIsRestart
  <2>3. MemOK(Blank)
    BY BlankCounts
  <2>4. MemOK(r) /\ Folded(r) /\ NothingLost(r) /\ r.cursor = Len(log)
        /\ \A b \in Agent : r.delivered[b] \subseteq Shown(b)
    <3>1. Folded(Blank)
      BY DEF Folded, Blank, OpenAt
    <3>2. NothingLost(Blank) /\ \A b \in Agent : Blank.delivered[b] = {}
      BY DEF NothingLost, Blank
    <3> QED
      BY <2>2, <2>3, <3>1, <3>2, CatchUpReads, CatchUpServes
  <2>5. Raised(r)
    <3>1. Raised(Blank) /\ Sane(Blank) /\ SameCounts(Blank, Blank)
      BY <2>3 DEF Raised, Blank, MemOK, SameCounts
    <3> QED
      BY <2>2, <2>3, <3>1, CatchUpAgrees
  <2>6. ASSUME NEW a \in Agent, ~mem.stopRequested
        PROVE  /\ WakingAnyway(mem, a) \subseteq WakingAnyway(r, a)
               /\ \A i \in WakingAnyway(r, a) \ WakingAnyway(mem, a) :
                    ~Standing(i, mem.cursor)
    <3>1. Handed(a) = {}
      <4>1. \A x \in DOMAIN tasks : tasks[x].phase # "spawned"
        <5>1. SUFFICES ASSUME NEW x \in DOMAIN tasks, tasks[x].phase = "spawned" PROVE FALSE
          OBVIOUS
        <5>2. TaskOK(x) /\ HasBegun(x)
          BY <5>1 DEF IInv, TasksOK
        <5> QED
          BY <5>1, <5>2 DEF TaskOK, HasBegun, Acts
      <4> QED
        BY <4>1 DEF Handed
    <3>2. mem.delivered[a] \subseteq Shown(a)
      BY <2>6, <3>1 DEF JInv, Accounted
    <3>3. \A m : WakingAnyway(m, a) = {i \in {j \in m.pending[a] : Kind(j) # "continue"} :
                                          Relevant(i, m.cursor) /\ Wakes(i)}
      BY DEF WakingAnyway, Waking, Live, Dropped
    <3>4. ASSUME NEW i \in mem.pending[a], Kind(i) # "continue" PROVE i \in r.pending[a]
      <4>1. i \in 1..Len(log) /\ log[i].agent = a /\ IsDue(i) /\ i \notin r.delivered[a]
        BY <2>4, <3>4, PendingIsUnshown DEF LInv
      <4> QED
        BY <2>4, <4>1 DEF NothingLost
    <3>5. ASSUME NEW i \in r.pending[a], Kind(i) # "continue", Standing(i, mem.cursor)
          PROVE  i \in mem.pending[a]
      <4>1. i \in 1..Len(log) /\ log[i].agent = a /\ IsDue(i) /\ i \notin mem.delivered[a]
        BY <2>4, <2>5, <3>2, <3>5, PendingIsUnshown
      <4> QED
        BY <3>5, <4>1 DEF JInv, NoneForgotten
    <3> QED
      BY <2>4, <3>3, <3>4, <3>5
  <2>7. SameCounts(mem, r) /\ \A a \in Agent : r.running[a] = mem.running[a]
    BY <2>0, <2>1, <2>4, RunningIsOpen DEF Agrees
  <2> QED
    BY <2>2, <2>6, <2>7 DEF RefoldAgrees, SameCounts
<1> QED
  BY <1>1, <1>2, <1>3, WhoRunsIsKept, PTL DEF Spec
=============================================================================
