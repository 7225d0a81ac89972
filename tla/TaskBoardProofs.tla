-------------------------- MODULE TaskBoardProofs --------------------------
(***************************************************************************)
(* Proofs about TaskBoard: what holds of every board that acts, deaths and *)
(* restarts can make, for every roster, policy and number of tasks.        *)
(***************************************************************************)
EXTENDS TaskBoard, SequenceTheorems, FiniteSetTheorems, TLAPS

-----------------------------------------------------------------------------
(* The inductive invariant.                                                *)

Statuses ==
  {"open", "assigned", "in_progress", "blocked", "in_review", "done", "cancelled"}

Names == {"assign", "claim", "unassign", "start", "block", "unblock", "submit",
          "approve", "reject", "reopen", "cancel"}

\* An open task is nobody's, and one that is being worked on is somebody's.
Fits(r) ==
  /\ r.status = "open" => r.assignee = None
  /\ r.status \in {"assigned", "in_progress", "blocked", "in_review"} => r.assignee \in Member

Record ==
  {r \in [status : Statuses, creator : Member, assignee : Member \cup {None},
          reviewer : Member \cup {None}, parent : Nat,
          deps : SUBSET [task : Nat, type : DepTypes]] : Fits(r)}

\* The transitions that make a task assigned or open, and who may make them.
Aims(e) ==
  /\ e.new.status = "assigned" => e.tr \in {"assign", "claim", "reopen", "update"}
  /\ e.new.status = "open" => e.tr \in {"create", "unassign", "reopen", "update"}
  /\ e.tr = "assign" => Policy["assign"] # {}
  /\ e.tr = "claim" => e.new.assignee = e.actor

Event ==
  {e \in [actor : Member, tr : Names \cup {"create", "update"}, task : Nat, new : Record] :
     Aims(e)}

\* Dependencies are on tasks of the board.
Within(r) == \A d \in r.deps : d.task \in Ids

BoardOK ==
  /\ tasks \in Seq(Record)
  /\ Len(tasks) <= MaxTasks
  /\ \A t \in Ids : Within(tasks[t])

\* What all events but creations and updates keep of a task.
Same(r, old) ==
  /\ r.deps = old.deps /\ r.parent = old.parent
  /\ r.creator = old.creator /\ r.reviewer = old.reviewer

\* A creation, and perhaps the assignment of the task created.
Creates ==
  /\ todo[1].tr = "create"
  /\ todo[1].task = Len(tasks) + 1
  /\ todo[1].task <= MaxTasks
  /\ todo[1].new.status = "open"
  /\ Within(todo[1].new)
  /\ \A i \in 2 .. Len(todo) : /\ todo[i].tr = "assign"
                               /\ todo[i].task = todo[1].task
                               /\ Same(todo[i].new, todo[1].new)

\* An update, of the reviewer and perhaps of the dependencies.
Updates ==
  /\ Len(todo) = 1
  /\ todo[1].tr = "update"
  /\ todo[1].task \in Ids
  /\ Within(todo[1].new)
  /\ LET new == todo[1].new
         old == tasks[todo[1].task]
     IN  /\ new.status = old.status /\ new.assignee = old.assignee
         /\ new.creator = old.creator /\ new.parent = old.parent
         /\ new.deps # old.deps => UpdatesDeps /\ ~WouldCycle(todo[1].task, new.deps)

\* Transitions.
Transits ==
  \A i \in 1 .. Len(todo) : /\ todo[i].tr \in Names
                            /\ todo[i].task \in Ids
                            /\ Same(todo[i].new, tasks[todo[i].task])

TodoOK ==
  /\ todo \in Seq(Event)
  /\ todo # <<>> => Creates \/ Updates \/ Transits

\* No set of tasks waits on itself: in each some task depends on none of it.
Acyclic ==
  \A S \in SUBSET Ids : S # {} => \E x \in S : \A d \in tasks[x].deps : d.task \notin S

\* A cancellation that is being carried out: all that lies below the task, and
\* nothing else, has ended or will be cancelled by an event still to append.
CancelOK ==
  act.kind = "cancel" =>
    /\ todo # <<>>
    /\ \A i \in 1 .. Len(todo) : todo[i].tr = "cancel" /\ todo[i].new.status = "cancelled"
    /\ \A i \in 1 .. Len(todo) : Below(todo[i].task, act.task)
    /\ \A d \in Ids : Below(d, act.task) =>
         tasks[d].status \in Terminal \/ \E i \in 1 .. Len(todo) : todo[i].task = d

IInv == BoardOK /\ TodoOK /\ Acyclic /\ CancelOK /\ crashes \in Nat

-----------------------------------------------------------------------------
(* What a walk over a graph reaches.                                       *)

\* Induction over the natural numbers, in the form a set takes.
LEMMA LeastNatural ==
  ASSUME NEW S, S \subseteq Nat, S # {}
  PROVE  \E n \in S : \A m \in S : n <= m
<1>1. PICK n \in S : \A m \in S : <<m, n>> \notin OpToRel(<, Nat)
  BY NatLessThanWellFounded, WFMin, Zenon
<1>2. \A m \in S : ~(m < n)
  BY <1>1, Zenon DEF OpToRel
<1> QED
  BY <1>2

\* The sets seen after 0, 1, ... steps of a walk.
LEMMA WalkSteps ==
  ASSUME NEW next, NEW S
  PROVE  \E f : /\ f[0] = S
                /\ \A k \in 1 .. MaxTasks : f[k] = f[k - 1] \cup UNION {next[x] : x \in f[k - 1]}
                /\ Walk(next, S) = f[MaxTasks]
<1> DEFINE Step(s) == s \cup UNION {next[x] : x \in s}
           Next1(f, k) == IF k = 0 THEN S ELSE Step(f[k - 1])
           Upto(f, n) == f = [k \in 0 .. n |-> Next1(f, k)]
           Bad == {n \in 0 .. MaxTasks : ~ \E f : Upto(f, n)}
<1>0. MaxTasks \in Nat
  BY BoardAssumption
<1>1. Bad = {}
  <2>1. SUFFICES ASSUME Bad # {} PROVE FALSE
    OBVIOUS
  <2>2. PICK n \in Bad : \A m \in Bad : n <= m
    <3>1. Bad \subseteq Nat
      OBVIOUS
    <3> QED
      BY <2>1, <3>1, LeastNatural
  <2>3. n # 0
    <3> DEFINE g == [k \in 0 .. 0 |-> S]
    <3>1. Upto(g, 0)
      OBVIOUS
    <3> QED
      BY <2>2, <3>1
  <2>4. PICK f : Upto(f, n - 1)
    <3> HIDE DEF Upto
    <3>1. n - 1 \in 0 .. MaxTasks /\ n - 1 \notin Bad
      BY <1>0, <2>2, <2>3
    <3> QED
      BY <3>1
  <2> DEFINE g == [k \in 0 .. n |-> IF k = n THEN Step(f[n - 1]) ELSE f[k]]
  <2>5. \A k \in 0 .. n : g[k] = Next1(g, k)
    <3>1. n \in Nat /\ 0 < n
      BY <2>2, <2>3
    <3> HIDE DEF Step
    <3>2. \A k \in 0 .. n - 1 : f[k] = Next1(f, k)
      BY <2>4
    <3>3. \A k \in 0 .. n : k # 0 => g[k - 1] = f[k - 1]
      BY <3>1
    <3> HIDE DEF g
    <3>4. \A k \in 0 .. n : g[k] = IF k = n THEN Step(f[n - 1]) ELSE f[k]
      BY DEF g
    <3> QED
      BY <3>1, <3>2, <3>3, <3>4
  <2>6. Upto(g, n)
    <3>1. g = [k \in 0 .. n |-> g[k]]
      OBVIOUS
    <3> HIDE DEF g
    <3> QED
      BY <2>5, <3>1
  <2> QED
    BY <2>2, <2>6
<1>2. \E f : Upto(f, MaxTasks)
  <2>1. MaxTasks \in 0 .. MaxTasks
    BY <1>0
  <2> HIDE DEF Upto
  <2> QED
    BY <1>1, <2>1
<1> DEFINE h == CHOOSE f : Upto(f, MaxTasks)
<1>3. Upto(h, MaxTasks)
  BY <1>2
<1>4. Walk(next, S) = h[MaxTasks]
  BY DEF Walk
<1> HIDE DEF h
<1>5. h[0] = S /\ \A k \in 1 .. MaxTasks : h[k] = Step(h[k - 1])
  BY <1>0, <1>3
<1> QED
  BY <1>4, <1>5

\* A walk over at most MaxTasks tasks goes far enough: it ends in a set of
\* tasks that no edge leaves.
LEMMA WalkCloses ==
  ASSUME NEW V, IsFiniteSet(V), Cardinality(V) <= MaxTasks,
         NEW next \in [V -> SUBSET V], NEW S \in SUBSET V
  PROVE  /\ S \subseteq Walk(next, S)
         /\ Walk(next, S) \in SUBSET V
         /\ \A x \in Walk(next, S) : next[x] \subseteq Walk(next, S)
<1>0. MaxTasks \in Nat /\ Cardinality(V) \in Nat
  BY BoardAssumption, FS_CardinalityType
<1>1. PICK f : /\ f[0] = S
               /\ \A k \in 1 .. MaxTasks :
                    f[k] = f[k - 1] \cup UNION {next[x] : x \in f[k - 1]}
               /\ Walk(next, S) = f[MaxTasks]
  BY WalkSteps
<1>2. \A k \in 0 .. MaxTasks : f[k] \in SUBSET V /\ S \subseteq f[k]
  <2> DEFINE Bad == {k \in 0 .. MaxTasks : ~(f[k] \in SUBSET V /\ S \subseteq f[k])}
  <2>1. SUFFICES ASSUME Bad # {} PROVE FALSE
    OBVIOUS
  <2>2. PICK k \in Bad : \A l \in Bad : k <= l
    <3>1. Bad \subseteq Nat
      OBVIOUS
    <3> QED
      BY <2>1, <3>1, LeastNatural
  <2>3. k # 0
    BY <1>1, <2>2
  <2>4. f[k - 1] \in SUBSET V /\ S \subseteq f[k - 1]
    <3>1. k - 1 \in 0 .. MaxTasks /\ k - 1 \notin Bad
      BY <1>0, <2>2, <2>3
    <3> QED
      BY <3>1
  <2>5. f[k] = f[k - 1] \cup UNION {next[x] : x \in f[k - 1]}
    BY <1>0, <1>1, <2>2, <2>3
  <2> QED
    BY <2>2, <2>4, <2>5
<1> DEFINE Closed(k) == \A x \in f[k] : next[x] \subseteq f[k]
<1>3. \A k \in 0 .. MaxTasks : Closed(k) \/ Cardinality(f[k]) > k
  <2> DEFINE Bad == {k \in 0 .. MaxTasks : ~(Closed(k) \/ Cardinality(f[k]) > k)}
  <2>1. SUFFICES ASSUME Bad # {} PROVE FALSE
    OBVIOUS
  <2>2. PICK k \in Bad : \A l \in Bad : k <= l
    <3>1. Bad \subseteq Nat
      OBVIOUS
    <3> QED
      BY <2>1, <3>1, LeastNatural
  <2>3. IsFiniteSet(f[k]) /\ Cardinality(f[k]) \in Nat
    <3>1. f[k] \in SUBSET V
      BY <1>2, <2>2
    <3> QED
      BY <3>1, FS_Subset, FS_CardinalityType
  <2>4. PICK x \in f[k] : ~(next[x] \subseteq f[k])
    BY <2>2
  <2>5. k # 0
    <3>1. Cardinality(f[k]) # 0
      BY <2>3, <2>4, FS_EmptySet
    <3> QED
      BY <2>2, <2>3, <3>1
  <2>6. k - 1 \in 0 .. MaxTasks /\ k - 1 \notin Bad
    BY <1>0, <2>2, <2>5
  <2>7. f[k] = f[k - 1] \cup UNION {next[y] : y \in f[k - 1]}
    BY <1>0, <1>1, <2>2, <2>5
  <2>8. ~Closed(k - 1)
    <3>1. Closed(k - 1) => f[k] = f[k - 1]
      BY <2>7
    <3> QED
      BY <2>4, <3>1
  <2>9. Cardinality(f[k - 1]) > k - 1
    BY <2>6, <2>8
  <2>10. f[k - 1] \in SUBSET f[k] /\ f[k - 1] # f[k]
    BY <2>7, <2>8
  <2>11. Cardinality(f[k - 1]) < Cardinality(f[k])
    <3>1. IsFiniteSet(f[k - 1]) /\ Cardinality(f[k - 1]) \in Nat
      BY <2>3, <2>10, FS_Subset, FS_CardinalityType
    <3> QED
      BY <2>3, <2>10, <3>1, FS_Subset
  <2>12. Cardinality(f[k - 1]) \in Nat
    BY <2>3, <2>10, FS_Subset, FS_CardinalityType
  <2> HIDE DEF Closed
  <2>13. k \in Nat /\ Cardinality(f[k]) > k
    BY <2>2, <2>3, <2>9, <2>11, <2>12
  <2> QED
    BY <2>2, <2>13
<1>4. Cardinality(f[MaxTasks]) <= Cardinality(V) /\ Cardinality(f[MaxTasks]) \in Nat
  <2>1. f[MaxTasks] \in SUBSET V
    BY <1>0, <1>2
  <2> QED
    BY <2>1, FS_Subset, FS_CardinalityType
<1>5. Closed(MaxTasks)
  <2>1. MaxTasks \in 0 .. MaxTasks /\ ~(Cardinality(f[MaxTasks]) > MaxTasks)
    BY <1>0, <1>4
  <2> QED
    BY <1>3, <2>1
<1>6. MaxTasks \in 0 .. MaxTasks
  BY <1>0
<1> QED
  BY <1>1, <1>2, <1>5, <1>6

\* And no further than it must: whatever holds what it starts from and is left
\* by no edge holds all that it reaches.
LEMMA WalkIsLeast ==
  ASSUME NEW next, NEW S, NEW C, S \subseteq C, \A x \in C : next[x] \subseteq C
  PROVE  Walk(next, S) \subseteq C
<1>0. MaxTasks \in Nat
  BY BoardAssumption
<1>1. PICK f : /\ f[0] = S
               /\ \A k \in 1 .. MaxTasks :
                    f[k] = f[k - 1] \cup UNION {next[x] : x \in f[k - 1]}
               /\ Walk(next, S) = f[MaxTasks]
  BY WalkSteps
<1> DEFINE Bad == {k \in 0 .. MaxTasks : ~(f[k] \subseteq C)}
<1>2. Bad = {}
  <2>1. SUFFICES ASSUME Bad # {} PROVE FALSE
    OBVIOUS
  <2>2. PICK k \in Bad : \A l \in Bad : k <= l
    <3>1. Bad \subseteq Nat
      OBVIOUS
    <3> QED
      BY <2>1, <3>1, LeastNatural
  <2>3. k # 0
    BY <1>1, <2>2
  <2>4. k - 1 \in 0 .. MaxTasks /\ k - 1 \notin Bad
    BY <1>0, <2>2, <2>3
  <2>5. f[k] = f[k - 1] \cup UNION {next[x] : x \in f[k - 1]}
    BY <1>0, <1>1, <2>2, <2>3
  <2> QED
    BY <2>2, <2>4, <2>5
<1>3. MaxTasks \in 0 .. MaxTasks
  BY <1>0
<1> QED
  BY <1>1, <1>2, <1>3

-----------------------------------------------------------------------------
(* Dependencies without a cycle.                                           *)

LEMMA Positions ==
  ASSUME BoardOK
  PROVE  /\ Len(tasks) \in Nat /\ Ids = 1 .. Len(tasks)
         /\ IsFiniteSet(Ids) /\ Cardinality(Ids) = Len(tasks) /\ Len(tasks) <= MaxTasks
         /\ \A t \in Ids : tasks[t] \in Record
<1>1. /\ tasks \in Seq(Record) /\ Len(tasks) <= MaxTasks
  BY DEF BoardOK
<1>2. Len(tasks) \in Nat /\ Ids = 1 .. Len(tasks) /\ \A t \in Ids : tasks[t] \in Record
  BY <1>1, LenProperties, ElementOfSeq DEF Ids
<1>3. IsFiniteSet(1 .. Len(tasks)) /\ Cardinality(1 .. Len(tasks)) = Len(tasks)
  <2>1. \A b \in Int : /\ IsFiniteSet(1 .. b)
                       /\ Cardinality(1 .. b) = IF 1 > b THEN 0 ELSE b - 1 + 1
    BY FS_Interval
  <2> DEFINE n == Len(tasks)
  <2>2. n \in Nat
    BY <1>2
  <2> HIDE DEF n
  <2>3. IsFiniteSet(1 .. n) /\ Cardinality(1 .. n) = n
    BY <2>1, <2>2
  <2> QED
    BY <2>3 DEF n
<1>4. IsFiniteSet(Ids) /\ Cardinality(Ids) = Len(tasks)
  BY <1>2, <1>3, Zenon
<1> QED
  BY <1>1, <1>2, <1>4

\* When the cycle test accepts dependencies, they lead to a set of tasks that
\* the task is not in and that depends on nothing else.
LEMMA CycleTestCloses ==
  ASSUME BoardOK, NEW t \in Ids, NEW deps,
         \A d \in deps : d.task \in Ids, ~WouldCycle(t, deps)
  PROVE  \E R \in SUBSET Ids :
           /\ t \notin R
           /\ \A d \in deps : d.task \in R
           /\ \A x \in R : \A d \in tasks[x].deps : d.task \in R
<1> DEFINE preds == [x \in Ids |-> {d.task : d \in IF x = t THEN deps ELSE tasks[x].deps}]
           R == Walk(preds, preds[t])
<1>1. \A x \in Ids : \A d \in tasks[x].deps : d.task \in Ids
  BY DEF BoardOK, Within
<1>2. preds \in [Ids -> SUBSET Ids]
  BY <1>1
<1>3. preds[t] \in SUBSET Ids /\ \A d \in deps : d.task \in preds[t]
  BY <1>2
<1>4. \A x \in Ids : x # t => \A d \in tasks[x].deps : d.task \in preds[x]
  OBVIOUS
<1>5. t \notin R
  BY DEF WouldCycle
<1> HIDE DEF preds
<1>6. preds[t] \subseteq R /\ R \in SUBSET Ids /\ \A x \in R : preds[x] \subseteq R
  BY <1>2, <1>3, Positions, WalkCloses
<1> HIDE DEF R
<1>7. \A x \in R : x \in Ids /\ x # t
  BY <1>5, <1>6
<1> QED
  BY <1>3, <1>4, <1>5, <1>6, <1>7

\* In order of what they depend on: the tasks of a set that depends on nothing
\* else, as far as they can be ordered, and one more of the rest.
LEMMA AcyclicIsRanked ==
  ASSUME BoardOK, Acyclic
  PROVE  DepsAcyclic
<1> DEFINE Size == Len(tasks)
           Orders(f, D) ==
             /\ f \in [D -> 1 .. Cardinality(D)]
             /\ \A x \in D : \A d \in tasks[x].deps : d.task \in D /\ f[d.task] < f[x]
           Left(D) == Size - Cardinality(D)
           Ordered == {D \in SUBSET Ids : \E f : Orders(f, D)}
           Rest == {Left(D) : D \in Ordered}
<1>1. /\ Size \in Nat /\ Ids = 1 .. Size /\ IsFiniteSet(Ids) /\ Cardinality(Ids) = Size
  BY Positions
<1>2. \A D \in SUBSET Ids : IsFiniteSet(D) /\ Cardinality(D) \in Nat /\ Cardinality(D) <= Size
  BY <1>1, FS_Subset, FS_CardinalityType
<1>3. Rest \subseteq Nat /\ Rest # {}
  <2>1. {} \in Ordered
    <3>1. Orders([x \in {} |-> 0], {})
      OBVIOUS
    <3> QED
      BY <3>1
  <2>2. \A D \in SUBSET Ids : Left(D) \in Nat
    BY <1>1, <1>2
  <2> QED
    BY <2>1, <2>2
<1>4. PICK n \in Rest : \A m \in Rest : n <= m
  BY <1>3, LeastNatural
<1>5. PICK D \in Ordered : n = Left(D)
  BY <1>4
<1>6. PICK f : Orders(f, D)
  BY <1>5
<1>7. D = Ids
  <2>1. SUFFICES ASSUME D # Ids PROVE FALSE
    OBVIOUS
  <2>2. PICK x \in Ids \ D : \A d \in tasks[x].deps : d.task \notin Ids \ D
    <3>1. Ids \ D \in SUBSET Ids /\ Ids \ D # {}
      BY <1>5, <2>1
    <3> QED
      BY <3>1 DEF Acyclic
  <2>3. \A d \in tasks[x].deps : d.task \in D
    BY <2>2 DEF BoardOK, Within
  <2> DEFINE E == D \cup {x}
             g == [y \in E |-> IF y = x THEN Cardinality(E) ELSE f[y]]
  <2>4. E \in SUBSET Ids /\ Cardinality(E) = Cardinality(D) + 1 /\ Cardinality(D) \in Nat
    BY <1>2, <1>5, <2>2, FS_AddElement
  <2>5. \A y \in D : f[y] \in 1 .. Cardinality(D)
    BY <1>6
  <2>6. Orders(g, E)
    <3>1. g \in [E -> 1 .. Cardinality(E)]
      <4>1. Cardinality(E) \in 1 .. Cardinality(E)
        BY <2>4
      <4>2. \A y \in D : f[y] \in 1 .. Cardinality(E)
        BY <2>4, <2>5
      <4> QED
        BY <4>1, <4>2
    <3>2. \A y \in D : y # x /\ g[y] = f[y]
      BY <2>2
    <3>3. \A y \in D : \A d \in tasks[y].deps : d.task \in D /\ f[d.task] < f[y]
      BY <1>6
    <3>4. g[x] = Cardinality(E)
      OBVIOUS
    <3> HIDE DEF g
    <3>5. \A d \in tasks[x].deps : g[d.task] < g[x]
      BY <2>3, <2>4, <2>5, <3>2, <3>4
    <3>6. \A y \in D : \A d \in tasks[y].deps : d.task \in E /\ g[d.task] < g[y]
      BY <3>2, <3>3
    <3> QED
      BY <2>3, <3>1, <3>5, <3>6
  <2> HIDE DEF g
  <2>7. Left(E) \in Rest
    BY <2>4, <2>6
  <2>8. Left(E) < Left(D) /\ Left(E) \in Int /\ Left(D) \in Int
    BY <1>1, <2>4
  <2> HIDE DEF Left, Rest
  <2> QED
    BY <1>4, <1>5, <2>7, <2>8
<1>8. f \in [Ids -> Ids] /\ \A t \in Ids : \A d \in tasks[t].deps : f[d.task] < f[t]
  BY <1>1, <1>6, <1>7
<1> QED
  BY <1>8 DEF DepsAcyclic

-----------------------------------------------------------------------------
(* What a transition makes of a task.                                      *)

LEMMA TransitionNames == DOMAIN Transitions = Names
  BY DEF Transitions, Names

LEMMA Targets ==
  ASSUME NEW r \in Record, NEW tr \in Names, r.status \in Transitions[tr].from
  PROVE  LET to == TargetState(r, tr) IN
         /\ to \in Statuses
         /\ to = "open" => tr = "unassign" \/ (tr = "reopen" /\ r.assignee = None)
         /\ to = "assigned" => tr \in {"assign", "claim"} \/ (tr = "reopen" /\ r.assignee # None)
         /\ to \in {"in_progress", "blocked", "in_review"} =>
              tr \notin {"assign", "claim", "unassign"} /\ r.assignee \in Member
         /\ tr = "cancel" => to = "cancelled"
<1> USE DEF TargetState, Transitions, Statuses
<1>0. Fits(r) /\ r.assignee \in Member \cup {None}
  BY DEF Record
<1>1. CASE tr = "assign"
  BY <1>1
<1>2. CASE tr = "claim"
  BY <1>2
<1>3. CASE tr = "unassign"
  BY <1>3
<1>4. CASE tr = "start"
  BY <1>0, <1>4 DEF Fits
<1>5. CASE tr = "block"
  BY <1>0, <1>5 DEF Fits
<1>6. CASE tr = "unblock"
  BY <1>0, <1>6 DEF Fits
<1>7. CASE tr = "submit"
  BY <1>0, <1>7 DEF Fits
<1>8. CASE tr = "approve"
  BY <1>0, <1>8 DEF Fits
<1>9. CASE tr = "reject"
  BY <1>0, <1>9 DEF Fits
<1>10. CASE tr = "reopen"
  BY <1>10
<1>11. CASE tr = "cancel"
  BY <1>11
<1> QED
  BY <1>1, <1>2, <1>3, <1>4, <1>5, <1>6, <1>7, <1>8, <1>9, <1>10, <1>11 DEF Names

\* The event of a transition that check_transition() and the policy allow.
LEMMA TransitionEvent ==
  ASSUME BoardOK, NEW m \in Member, NEW t \in Ids, NEW tr \in DOMAIN Transitions,
         NEW to \in IF tr = "assign" THEN Member ELSE {None},
         CheckTransition(t, tr, to), May(m, tr, tasks[t])
  PROVE  LET new == [tasks[t] EXCEPT !.status = TargetState(tasks[t], tr),
                                     !.assignee = Assignee(m, t, tr, to)]
         IN  /\ Change(m, tr, t, new) \in Event
             /\ Same(new, tasks[t])
             /\ tr = "cancel" => new.status = "cancelled"
<1> DEFINE r == tasks[t]
           s == TargetState(r, tr)
           a == Assignee(m, t, tr, to)
           new == [r EXCEPT !.status = s, !.assignee = a]
<1>1. tr \in Names /\ r \in Record /\ t \in Nat
  BY TransitionNames, Positions
<1>2. r.status \in Transitions[tr].from
  BY DEF CheckTransition
<1>3. /\ s \in Statuses
      /\ s = "open" => tr = "unassign" \/ (tr = "reopen" /\ r.assignee = None)
      /\ s = "assigned" => tr \in {"assign", "claim"} \/ (tr = "reopen" /\ r.assignee # None)
      /\ s \in {"in_progress", "blocked", "in_review"} =>
           tr \notin {"assign", "claim", "unassign"} /\ r.assignee \in Member
      /\ tr = "cancel" => s = "cancelled"
  BY <1>1, <1>2, Targets
<1>4. /\ tr \in {"assign", "claim"} => a \in Member
      /\ tr = "claim" => a = m
      /\ tr = "unassign" => a = None
      /\ tr \notin {"assign", "claim", "unassign"} => a = r.assignee
  BY DEF Assignee
<1>5. tr = "assign" => Policy["assign"] # {}
  BY DEF May
<1> HIDE DEF s, a
<1>6. r.assignee \in Member \cup {None} /\ r \in [status : Statuses, creator : Member,
        assignee : Member \cup {None}, reviewer : Member \cup {None}, parent : Nat,
        deps : SUBSET [task : Nat, type : DepTypes]]
  BY <1>1 DEF Record
<1> HIDE DEF r
<1>7. new.status = s /\ new.assignee = a /\ Same(new, r)
  BY <1>6 DEF Same
<1>8. new \in Record
  <2>1. a \in Member \cup {None}
    BY <1>4, <1>6
  <2>2. new \in [status : Statuses, creator : Member,
        assignee : Member \cup {None}, reviewer : Member \cup {None}, parent : Nat,
        deps : SUBSET [task : Nat, type : DepTypes]]
    BY <1>3, <1>6, <2>1
  <2>3. Fits(new)
    BY <1>3, <1>4, <1>6, <1>7 DEF Fits
  <2> QED
    BY <2>2, <2>3 DEF Record
<1> HIDE DEF new
<1>9. Change(m, tr, t, new) \in Event
  <2> DEFINE e == Change(m, tr, t, new)
  <2>1. e \in [actor : Member, tr : Names \cup {"create", "update"}, task : Nat, new : Record]
    BY <1>1, <1>8 DEF Change
  <2>2. e.tr = tr /\ e.new = new /\ e.actor = m
    BY DEF Change
  <2> HIDE DEF e
  <2>3. Aims(e)
    BY <1>3, <1>4, <1>5, <1>7, <2>2 DEF Aims
  <2> QED
    BY <2>1, <2>3 DEF Event, e
<1> QED
  BY <1>3, <1>7, <1>9 DEF new, r, s, a

\* The events of the tasks that are cancelled with the one above them.
LEMMA CascadeEvents ==
  ASSUME BoardOK, NEW m \in Member, NEW n \in Nat, NEW D \in SUBSET Ids, NEW order \in [1 .. n -> D]
  PROVE  LET c == Cascade(m, order) IN
         /\ c \in Seq(Event) /\ Len(c) = n
         /\ \A i \in 1 .. n : /\ c[i].tr = "cancel" /\ c[i].task = order[i]
                              /\ c[i].new.status = "cancelled"
                              /\ Same(c[i].new, tasks[order[i]])
<1> DEFINE Ev(d) == Change(m, "cancel", d, [tasks[d] EXCEPT !.status = "cancelled"])
           c == Cascade(m, order)
<1>1. ASSUME NEW d \in Ids
      PROVE  /\ Ev(d) \in Event
             /\ Ev(d).tr = "cancel" /\ Ev(d).task = d
             /\ Ev(d).new.status = "cancelled" /\ Same(Ev(d).new, tasks[d])
  <2> DEFINE r == tasks[d]
             new == [r EXCEPT !.status = "cancelled"]
             e == Ev(d)
  <2>1. r \in Record /\ d \in Nat
    BY Positions
  <2> HIDE DEF r
  <2>2. new \in Record /\ new.status = "cancelled" /\ Same(new, r)
    BY <2>1 DEF Record, Fits, Same, Statuses
  <2> HIDE DEF new
  <2>3. e = [actor |-> m, tr |-> "cancel", task |-> d, new |-> new]
    BY DEF Change, new, r
  <2> HIDE DEF e
  <2>4. e.new = new /\ e.tr = "cancel" /\ e.task = d
    BY <2>3
  <2>5. e \in [actor : Member, tr : Names \cup {"create", "update"}, task : Nat, new : Record]
    BY <2>1, <2>2, <2>3 DEF Names
  <2>6. Aims(e)
    BY <2>2, <2>4 DEF Aims
  <2>7. e \in Event
    BY <2>5, <2>6 DEF Event
  <2> QED
    BY <2>2, <2>4, <2>7 DEF e, r
<1>2. DOMAIN order = 1 .. n /\ \A i \in 1 .. n : order[i] \in Ids
  OBVIOUS
<1> HIDE DEF Ev
<1>3. c = [i \in 1 .. n |-> Ev(order[i])]
  BY <1>2 DEF Cascade, Ev
<1> HIDE DEF c
<1>4. c \in [1 .. n -> Event]
  BY <1>1, <1>2, <1>3
<1>5. c \in Seq(Event) /\ Len(c) = n
  <2>1. c \in Seq(Event)
    BY <1>4, SeqDef
  <2>2. DOMAIN c = 1 .. n
    BY <1>4
  <2> QED
    BY <2>1, <2>2, LenProperties
<1> QED
  BY <1>1, <1>2, <1>3, <1>5 DEF c

-----------------------------------------------------------------------------
(* Planning an act: what is still to append keeps the invariant.           *)

LEMMA FirstAndRest ==
  ASSUME NEW e \in Event, NEW s \in Seq(Event)
  PROVE  /\ <<e>> \o s \in Seq(Event) /\ <<e>> \o s # <<>>
         /\ Len(s) \in Nat /\ Len(<<e>> \o s) = Len(s) + 1
         /\ (<<e>> \o s)[1] = e
         /\ \A i \in 2 .. Len(s) + 1 : (<<e>> \o s)[i] = s[i - 1]
<1>1. <<e>> \in Seq(Event) /\ Len(<<e>>) = 1 /\ <<e>>[1] = e
  OBVIOUS
<1>2. Len(s) \in Nat
  BY LenProperties
<1>3. /\ <<e>> \o s \in Seq(Event)
      /\ Len(<<e>> \o s) = 1 + Len(s)
      /\ \A i \in 1 .. 1 + Len(s) :
           (<<e>> \o s)[i] = IF i <= 1 THEN <<e>>[i] ELSE s[i - 1]
  BY <1>1, ConcatProperties
<1>4. <<e>> \o s # <<>>
  BY <1>2, <1>3, EmptySeq
<1>5. 1 \in 1 .. 1 + Len(s) /\ \A i \in 2 .. Len(s) + 1 : i \in 1 .. 1 + Len(s) /\ ~(i <= 1)
  BY <1>2
<1> QED
  BY <1>1, <1>2, <1>3, <1>4, <1>5

LEMMA PlanKeeps ==
  ASSUME IInv, UNCHANGED <<tasks, crashes>>, todo' \in Seq(Event),
         (Creates \/ Updates \/ Transits)', CancelOK'
  PROVE  IInv'
<1>1. BoardOK'
  BY DEF IInv, BoardOK, Within, Ids
<1>2. Acyclic'
  BY DEF IInv, Acyclic, Ids
<1> QED
  BY <1>1, <1>2 DEF IInv, TodoOK

LEMMA DepsOfTasks ==
  ASSUME NEW deps \in Deps
  PROVE  deps \in SUBSET [task : Ids, type : DepTypes]
<1> DEFINE T == [task : Ids, type : DepTypes]
<1>1. PICK n \in 0 .. MaxDeps : deps \in kSubset(n, T)
  BY DEF Deps
<1>2. deps \in {s \in SUBSET T : Cardinality(s) = n}
  BY <1>1, Zenon DEF kSubset
<1> HIDE DEF T
<1> QED
  BY <1>2 DEF T

LEMMA CreateKeeps ==
  ASSUME IInv, NEW m \in Creator, PlanCreate(m)
  PROVE  IInv'
<1>1. PICK reviewer \in Reviewer, deps \in Deps, assignee \in Member \cup {None},
           parent \in {0} \cup (IF Subtasks THEN Ids ELSE {}) :
        LET t == Len(tasks) + 1
            new == Task(m, reviewer, parent, deps)
        IN  /\ t <= MaxTasks
            /\ assignee # None => May(m, "assign", new)
            /\ Begin(m, "create", t,
                 <<Change(m, "create", t, new)>>
                 \o (IF assignee = None THEN <<>>
                     ELSE <<Change(m, "assign", t,
                              [new EXCEPT !.status = "assigned", !.assignee = assignee])>>))
  BY DEF PlanCreate
<1> DEFINE t == Len(tasks) + 1
           new == Task(m, reviewer, parent, deps)
           given == [new EXCEPT !.status = "assigned", !.assignee = assignee]
           e == Change(m, "create", t, new)
           g == Change(m, "assign", t, given)
           rest == IF assignee = None THEN <<>> ELSE <<g>>
<1>2. /\ BoardOK /\ todo' = <<e>> \o rest /\ act'.kind = "create"
      /\ UNCHANGED <<tasks, crashes>> /\ t <= MaxTasks
      /\ assignee # None => May(m, "assign", new)
  BY <1>1 DEF Begin, IInv
<1>3. Ids \subseteq Nat /\ t \in Nat
  BY <1>2, Positions
<1>4. m \in Member /\ reviewer \in Member \cup {None} /\ parent \in Nat
      /\ deps \in SUBSET [task : Ids, type : DepTypes]
  BY <1>3, BoardAssumption, DepsOfTasks
<1>5. new = [status |-> "open", creator |-> m, assignee |-> None, reviewer |-> reviewer,
             parent |-> parent, deps |-> deps]
  BY DEF Task
<1> HIDE DEF new
<1>6. new \in Record /\ new.status = "open" /\ new.deps = deps
  <2>1. deps \in SUBSET [task : Nat, type : DepTypes]
    BY <1>3, <1>4
  <2> QED
    BY <1>4, <1>5, <2>1 DEF Record, Fits, Statuses
<1>7. assignee # None => given \in Record /\ given.status = "assigned" /\ Same(given, new)
  BY <1>6 DEF Record, Fits, Statuses, Same
<1> HIDE DEF given
<1>8. e \in Event /\ e.tr = "create" /\ e.task = t /\ e.new = new
  BY <1>3, <1>4, <1>6 DEF Change, Event, Aims
<1>9. assignee # None => g \in Event /\ g.tr = "assign" /\ g.task = t /\ g.new = given
  <2>1. assignee # None => Policy["assign"] # {}
    BY <1>2 DEF May
  <2> QED
    BY <1>3, <1>4, <1>7, <2>1 DEF Change, Event, Aims, Names
<1> HIDE DEF e, g, t
<1>10. /\ rest \in Seq(Event)
       /\ \A i \in 1 .. Len(rest) : /\ rest[i].tr = "assign" /\ rest[i].task = t
                                    /\ Same(rest[i].new, new)
  <2>1. CASE assignee = None
    BY <2>1
  <2>2. CASE assignee # None
    BY <1>7, <1>9, <2>2
  <2> QED
    BY <2>1, <2>2
<1> HIDE DEF rest
<1>11. /\ todo' \in Seq(Event) /\ Len(rest) \in Nat
       /\ Len(todo') = Len(rest) + 1 /\ todo'[1] = e
       /\ \A i \in 2 .. Len(todo') : todo'[i] = rest[i - 1] /\ i - 1 \in 1 .. Len(rest)
  BY <1>2, <1>8, <1>10, FirstAndRest
<1>12. Creates'
  <2>1. Within(new)'
    BY <1>2, <1>4, <1>6 DEF Within, Ids
  <2>2. \A i \in 2 .. Len(todo') : /\ todo'[i].tr = "assign" /\ todo'[i].task = t
                                   /\ Same(todo'[i].new, new)
    BY <1>10, <1>11
  <2>3. t = Len(tasks') + 1
    BY <1>2 DEF t
  <2> QED
    BY <1>2, <1>6, <1>8, <1>11, <2>1, <2>2, <2>3 DEF Creates, Same, Within
<1>13. CancelOK'
  BY <1>2 DEF CancelOK
<1> QED
  BY <1>2, <1>11, <1>12, <1>13, PlanKeeps

LEMMA UpdateKeeps ==
  ASSUME IInv, NEW m \in Member, PlanUpdate(m)
  PROVE  IInv'
<1>1. PICK t \in Ids :
        \E reviewer \in Reviewer \cup {tasks[t].reviewer},
           deps \in (IF UpdatesDeps THEN Deps ELSE {}) \cup {tasks[t].deps} :
          /\ deps # tasks[t].deps => ~WouldCycle(t, deps)
          /\ Begin(m, "update", t,
               <<Change(m, "update", t, [tasks[t] EXCEPT !.reviewer = reviewer, !.deps = deps])>>)
  BY DEF PlanUpdate
<1>2. PICK reviewer \in Reviewer \cup {tasks[t].reviewer},
           deps \in (IF UpdatesDeps THEN Deps ELSE {}) \cup {tasks[t].deps} :
        /\ deps # tasks[t].deps => ~WouldCycle(t, deps)
        /\ Begin(m, "update", t,
             <<Change(m, "update", t, [tasks[t] EXCEPT !.reviewer = reviewer, !.deps = deps])>>)
  BY <1>1
<1> DEFINE r == tasks[t]
           new == [r EXCEPT !.reviewer = reviewer, !.deps = deps]
           e == Change(m, "update", t, new)
<1>3. /\ BoardOK /\ todo' = <<e>> /\ act'.kind = "update" /\ UNCHANGED <<tasks, crashes>>
  BY <1>2 DEF Begin, IInv
<1>4. r \in Record /\ t \in Nat /\ Ids \subseteq Nat
  BY <1>3, Positions
<1>5. reviewer \in Member \cup {None}
  BY <1>4, BoardAssumption DEF Record
<1>6. deps \in SUBSET [task : Nat, type : DepTypes] /\ \A d \in deps : d.task \in Ids
  <2>1. CASE deps = r.deps
    BY <1>3, <1>4, <2>1 DEF Record, BoardOK, Within
  <2>2. CASE deps \in Deps
    <3>1. deps \in SUBSET [task : Ids, type : DepTypes]
      BY <2>2, DepsOfTasks
    <3> QED
      BY <1>4, <3>1
  <2> QED
    BY <2>1, <2>2
<1>7. deps # r.deps => UpdatesDeps /\ ~WouldCycle(t, deps)
  BY <1>2
<1> HIDE DEF r
<1>8. /\ new \in Record /\ new.deps = deps
      /\ new.status = r.status /\ new.assignee = r.assignee
      /\ new.creator = r.creator /\ new.parent = r.parent
  BY <1>4, <1>5, <1>6 DEF Record, Fits
<1> HIDE DEF new
<1>9. e \in Event /\ e.tr = "update" /\ e.task = t /\ e.new = new
  BY <1>4, <1>8 DEF Change, Event, Aims
<1> HIDE DEF e
<1>10. todo' \in Seq(Event) /\ Len(todo') = 1 /\ todo'[1] = e
  BY <1>3, <1>9
<1>11. Updates'
  <2>1. Ids' = Ids /\ tasks'[t] = r
    BY <1>3 DEF Ids, r
  <2>2. WouldCycle(t, deps)' <=> WouldCycle(t, deps)
    BY <1>3 DEF WouldCycle, Ids, Walk
  <2> QED
    BY <1>6, <1>7, <1>8, <1>9, <1>10, <2>1, <2>2 DEF Updates, Within
<1>12. CancelOK'
  BY <1>3 DEF CancelOK
<1> QED
  BY <1>3, <1>10, <1>11, <1>12, PlanKeeps

\* An order of a finite set names each of its elements.
LEMMA OrderNamesAll ==
  ASSUME NEW S, IsFiniteSet(S), NEW order \in SetToSeqs(S)
  PROVE  /\ Cardinality(S) \in Nat /\ order \in [1 .. Cardinality(S) -> S]
         /\ \A x \in S : \E i \in 1 .. Cardinality(S) : order[i] = x
<1> DEFINE n == Cardinality(S)
           D == 1 .. n
<1>1. n \in Nat
  BY FS_CardinalityType
<1>2. order \in [D -> S] /\ \A i, j \in D : i # j => order[i] # order[j]
  BY DEF SetToSeqs
<1>3. Cardinality(D) = n
  <2>1. \A b \in Int : Cardinality(1 .. b) = IF 1 > b THEN 0 ELSE b - 1 + 1
    BY FS_Interval
  <2> HIDE DEF n
  <2> QED
    BY <1>1, <2>1
<1> HIDE DEF D, n
<1>4. order \in Injection(D, S)
  BY <1>2 DEF Injection, IsInjective
<1>5. order \in Surjection(D, S)
  BY <1>3, <1>4, FS_Injection DEF n
<1>6. \A x \in S : \E i \in D : order[i] = x
  BY <1>5 DEF Surjection
<1> QED
  BY <1>1, <1>2, <1>6 DEF D, n

\* descendants() finds all that lies below a task, and nothing else.
LEMMA BelowIsFound ==
  ASSUME BoardOK, NEW t \in Ids
  PROVE  /\ Descendants(tasks, t) \in SUBSET Ids
         /\ \A d \in Ids : Below(d, t) <=> d = t \/ d \in Descendants(tasks, t)
<1> DEFINE kids == [x \in Ids |-> {y \in Ids : tasks[y].parent = x}]
           R == Walk(kids, kids[t])
<1>1. kids \in [Ids -> SUBSET Ids]
  OBVIOUS
<1>2. \A x \in Ids : \A y \in Ids : tasks[y].parent = x => y \in kids[x]
  OBVIOUS
<1>3. Descendants(tasks, t) = R
  BY Zenon DEF Descendants, Ids
<1> HIDE DEF kids
<1>4. kids[t] \subseteq R /\ R \in SUBSET Ids /\ \A x \in R : kids[x] \subseteq R
  BY <1>1, Positions, WalkCloses
<1> HIDE DEF R
<1>5. ASSUME NEW d \in Ids, Below(d, t)
      PROVE  d = t \/ d \in R
  <2> DEFINE S == {t} \cup R
  <2>1. S \in SUBSET Ids /\ t \in S
    BY <1>4
  <2>2. \A y \in Ids : tasks[y].parent \in S => y \in S
    BY <1>2, <1>4
  <2> HIDE DEF S
  <2>3. d \in S
    BY <1>5, <2>1, <2>2 DEF Below
  <2> QED
    BY <2>3 DEF S
<1>6. ASSUME NEW d \in R
      PROVE  Below(d, t)
  <2>1. ASSUME NEW S \in SUBSET Ids, t \in S,
               \A y \in Ids : tasks[y].parent \in S => y \in S
        PROVE  d \in S
    <3>1. \A x \in S : kids[x] \subseteq S
      BY <2>1 DEF kids
    <3>2. kids[t] \subseteq S
      BY <2>1, <3>1
    <3>3. R \subseteq S
      BY <3>1, <3>2, WalkIsLeast DEF R
    <3> QED
      BY <1>6, <3>3
  <2> QED
    BY <2>1 DEF Below
<1>7. Below(t, t)
  BY DEF Below
<1> QED
  BY <1>3, <1>4, <1>5, <1>6, <1>7

LEMMA TransitionKeeps ==
  ASSUME IInv, NEW m \in Member, PlanTransition(m)
  PROVE  IInv'
<1>1. PICK t \in Ids, tr \in DOMAIN Transitions :
        \E to \in IF tr = "assign" THEN Member ELSE {None},
           order \in IF tr = "cancel" THEN SetToSeqs(OpenBelow(t)) ELSE {<<>>} :
          /\ CheckTransition(t, tr, to)
          /\ May(m, tr, tasks[t])
          /\ Begin(m, tr, t,
               <<Change(m, tr, t, [tasks[t] EXCEPT !.status = TargetState(tasks[t], tr),
                                                   !.assignee = Assignee(m, t, tr, to)])>>
               \o Cascade(m, order))
  BY DEF PlanTransition
<1>2. PICK to \in IF tr = "assign" THEN Member ELSE {None},
           order \in IF tr = "cancel" THEN SetToSeqs(OpenBelow(t)) ELSE {<<>>} :
        /\ CheckTransition(t, tr, to)
        /\ May(m, tr, tasks[t])
        /\ Begin(m, tr, t,
             <<Change(m, tr, t, [tasks[t] EXCEPT !.status = TargetState(tasks[t], tr),
                                                 !.assignee = Assignee(m, t, tr, to)])>>
             \o Cascade(m, order))
  BY <1>1
<1> DEFINE new == [tasks[t] EXCEPT !.status = TargetState(tasks[t], tr),
                                   !.assignee = Assignee(m, t, tr, to)]
           e == Change(m, tr, t, new)
           c == Cascade(m, order)
<1>3. /\ BoardOK /\ todo' = <<e>> \o c /\ UNCHANGED <<tasks, crashes>>
      /\ act' = [actor |-> m, kind |-> tr, task |-> t]
  BY <1>2 DEF Begin, IInv
<1>4. e \in Event /\ Same(new, tasks[t]) /\ (tr = "cancel" => new.status = "cancelled")
  BY <1>2, <1>3, TransitionEvent
<1> HIDE DEF new
<1>5. e.tr = tr /\ e.task = t /\ e.new = new /\ tr \in Names
  BY TransitionNames DEF Change
<1> HIDE DEF e
<1>6. OpenBelow(t) \in SUBSET Ids /\ IsFiniteSet(OpenBelow(t))
  <2>1. OpenBelow(t) \in SUBSET Ids
    BY <1>3, BelowIsFound DEF OpenBelow
  <2> QED
    BY <1>3, <2>1, Positions, FS_Subset
<1>7. PICK n \in Nat : /\ order \in [1 .. n -> Ids]
                       /\ tr # "cancel" => n = 0
                       /\ tr = "cancel" => \A i \in 1 .. n : order[i] \in OpenBelow(t)
                       /\ tr = "cancel" => \A d \in OpenBelow(t) : \E i \in 1 .. n : order[i] = d
  <2>1. CASE tr = "cancel"
    <3>1. order \in SetToSeqs(OpenBelow(t))
      BY <2>1
    <3> DEFINE n == Cardinality(OpenBelow(t))
    <3>2. /\ n \in Nat /\ order \in [1 .. n -> OpenBelow(t)]
          /\ \A d \in OpenBelow(t) : \E i \in 1 .. n : order[i] = d
      BY <1>6, <3>1, OrderNamesAll
    <3> HIDE DEF n
    <3>3. order \in [1 .. n -> Ids]
      BY <1>6, <3>2
    <3> QED
      BY <2>1, <3>2, <3>3
  <2>2. CASE tr # "cancel"
    <3>1. order = <<>>
      BY <2>2
    <3>2. order \in [1 .. 0 -> Ids]
      BY <3>1
    <3> QED
      BY <2>2, <3>2
  <2> QED
    BY <2>1, <2>2
<1>8. /\ c \in Seq(Event) /\ Len(c) = n
      /\ \A i \in 1 .. n : /\ c[i].tr = "cancel" /\ c[i].task = order[i]
                           /\ c[i].new.status = "cancelled"
                           /\ Same(c[i].new, tasks[order[i]])
  BY <1>3, <1>7, CascadeEvents
<1> HIDE DEF c
<1>9. /\ todo' \in Seq(Event) /\ todo' # <<>>
      /\ Len(todo') = n + 1 /\ todo'[1] = e
      /\ \A i \in 2 .. n + 1 : todo'[i] = c[i - 1]
  BY <1>3, <1>4, <1>8, FirstAndRest
<1>10. \A i \in 1 .. Len(todo') : i = 1 \/ (i \in 2 .. n + 1 /\ i - 1 \in 1 .. n)
  <2>1. n \in Nat /\ Len(todo') = n + 1
    BY <1>7, <1>9
  <2> QED
    BY ONLY <2>1
<1>11. Transits'
  <2>1. \A i \in 1 .. n : /\ c[i].tr \in Names /\ c[i].task \in Ids
                          /\ Same(c[i].new, tasks[c[i].task])
    <3>1. "cancel" \in Names /\ \A i \in 1 .. n : order[i] \in Ids
      BY <1>7 DEF Names
    <3> QED
      BY <1>8, <3>1
  <2>2. \A i \in 1 .. Len(todo') : /\ todo'[i].tr \in Names /\ todo'[i].task \in Ids
                                   /\ Same(todo'[i].new, tasks[todo'[i].task])
    BY <1>4, <1>5, <1>9, <1>10, <2>1
  <2> QED
    BY <1>3, <2>2 DEF Transits, Ids
<1>12. CancelOK'
  <2>1. SUFFICES ASSUME tr = "cancel" PROVE CancelOK'
    BY <1>3 DEF CancelOK
  <2>2. \A i \in 1 .. Len(todo') : todo'[i].tr = "cancel" /\ todo'[i].new.status = "cancelled"
    BY <1>4, <1>5, <1>8, <1>9, <1>10, <2>1
  <2>3. ASSUME NEW d \in Ids, Below(d, t)
        PROVE  tasks[d].status \in Terminal \/ \E i \in 1 .. Len(todo') : todo'[i].task = d
    <3>1. CASE d = t
      <4>1. 1 \in 1 .. Len(todo')
        BY <1>7, <1>9
      <4> QED
        BY <1>5, <1>9, <3>1, <4>1
    <3>2. CASE d \in OpenBelow(t)
      <4>1. PICK i \in 1 .. n : order[i] = d
        BY <1>7, <2>1, <3>2
      <4>2. i + 1 \in 2 .. n + 1 /\ i + 1 \in 1 .. Len(todo') /\ i + 1 - 1 = i
        BY <1>7, <1>9
      <4>3. todo'[i + 1].task = d
        BY <1>8, <1>9, <4>1, <4>2
      <4> QED
        BY <4>2, <4>3
    <3>3. d = t \/ d \in OpenBelow(t) \/ tasks[d].status \in Terminal
      BY <1>3, <2>3, BelowIsFound DEF OpenBelow
    <3> QED
      BY <3>1, <3>2, <3>3
  <2>4. \A d \in Ids' : Below(d, t)' =>
          tasks'[d].status \in Terminal \/ \E i \in 1 .. Len(todo') : todo'[i].task = d
    BY <1>3, <2>3 DEF Below, Ids
  <2>5. \A i \in 1 .. Len(todo') : Below(todo'[i].task, t)
    <3>1. Below(t, t) /\ \A d \in OpenBelow(t) : d \in Ids /\ Below(d, t)
      BY <1>3, <1>6, BelowIsFound DEF OpenBelow
    <3>2. \A i \in 1 .. n : c[i].task \in OpenBelow(t)
      BY <1>7, <1>8
    <3>3. ASSUME NEW i \in 1 .. Len(todo') PROVE Below(todo'[i].task, t)
      <4>1. CASE i = 1
        BY <1>5, <1>9, <3>1, <4>1
      <4>2. CASE i \in 2 .. n + 1 /\ i - 1 \in 1 .. n
        BY <1>9, <3>1, <3>2, <4>2
      <4> QED
        BY <1>10, <4>1, <4>2
    <3> QED
      BY <3>3
  <2>6. (\A i \in 1 .. Len(todo) : Below(todo[i].task, act.task))'
    BY <1>3, <2>5 DEF Below, Ids
  <2> QED
    BY <1>3, <1>9, <2>2, <2>4, <2>6 DEF CancelOK
<1> QED
  BY <1>3, <1>9, <1>11, <1>12, PlanKeeps

-----------------------------------------------------------------------------
(* Appending the next event.                                               *)

\* The first event, and those that are left.
LEMMA NextEvent ==
  ASSUME IInv, Write
  PROVE  /\ Head(todo) = todo[1] /\ todo[1] \in Event
         /\ tasks' = Fold(todo[1])
         /\ todo' \in Seq(Event) /\ Len(todo) \in Nat \ {0}
         /\ Len(todo') = Len(todo) - 1
         /\ \A i \in 1 .. Len(todo') : todo'[i] = todo[i + 1] /\ i + 1 \in 2 .. Len(todo)
         /\ todo' # <<>> => Len(todo') > 0
         /\ act' = IF Len(todo) = 1 THEN NoAct ELSE act
         /\ crashes' = crashes
<1>1. todo # <<>> /\ todo \in Seq(Event) /\ tasks' = Fold(Head(todo)) /\ todo' = Tail(todo)
      /\ act' = (IF Len(todo) = 1 THEN NoAct ELSE act) /\ crashes' = crashes
  BY DEF Write, IInv, TodoOK
<1>2. Len(todo) \in Nat \ {0}
  BY <1>1, EmptySeq
<1>3. /\ Head(todo) \in Event /\ Head(todo) = todo[1]
  BY <1>1, <1>2, HeadTailProperties
<1>4. /\ todo' \in Seq(Event) /\ Len(todo') = Len(todo) - 1
      /\ \A i \in 1 .. Len(todo') : todo'[i] = todo[i + 1]
  BY <1>1, HeadTailProperties
<1>5. todo' # <<>> => Len(todo') > 0
  BY <1>4, EmptySeq
<1>6. \A i \in 1 .. Len(todo') : i + 1 \in 2 .. Len(todo)
  BY <1>2, <1>4
<1> QED
  BY <1>1, <1>2, <1>3, <1>4, <1>5, <1>6

\* Of a created task, nothing is known to the others.
LEMMA CreationKeeps ==
  ASSUME IInv, Write, Creates
  PROVE  IInv'
<1> DEFINE e == todo[1]
           n == Len(tasks)
<1>1. /\ BoardOK /\ Acyclic /\ e \in Event /\ e.tr = "create" /\ e.task = n + 1
      /\ n + 1 <= MaxTasks /\ \A d \in e.new.deps : d.task \in Ids
      /\ tasks' = Append(tasks, e.new)
  BY NextEvent DEF IInv, Creates, Fold, Within
<1>2. n \in Nat /\ Ids = 1 .. n /\ tasks \in Seq(Record) /\ e.new \in Record
  BY <1>1, Positions DEF BoardOK, Event
<1>3. /\ tasks' \in Seq(Record) /\ Len(tasks') = n + 1
      /\ tasks'[n + 1] = e.new
      /\ \A t \in Ids : tasks'[t] = tasks[t]
  BY <1>1, <1>2, AppendProperties
<1>4. Ids' = 1 .. n + 1 /\ Ids' = Ids \cup {n + 1} /\ Ids \subseteq Ids' /\ n + 1 \notin Ids
  <2>1. DOMAIN tasks' = 1 .. n + 1
    BY <1>3, LenProperties
  <2> QED
    BY <1>2, <2>1 DEF Ids
<1> HIDE DEF n
<1>5. BoardOK'
  <2>1. \A t \in Ids' : \A d \in tasks'[t].deps : d.task \in Ids'
    BY <1>1, <1>3, <1>4 DEF BoardOK, Within
  <2> QED
    BY <1>1, <1>3, <2>1 DEF BoardOK, Within
<1>6. Acyclic'
  <2>1. ASSUME NEW S \in SUBSET Ids', S # {}
        PROVE  \E x \in S : \A d \in tasks'[x].deps : d.task \notin S
    <3> DEFINE T == S \cap Ids
    <3>1. CASE T = {}
      <4>1. n + 1 \in S
        BY <1>4, <2>1, <3>1
      <4> QED
        BY <1>1, <1>3, <3>1, <4>1
    <3>2. CASE T # {}
      <4>1. PICK x \in T : \A d \in tasks[x].deps : d.task \notin T
        BY <1>1, <3>2 DEF Acyclic
      <4>2. \A d \in tasks[x].deps : d.task \in Ids
        BY <1>1, <4>1 DEF BoardOK, Within
      <4> QED
        BY <1>3, <4>1, <4>2
    <3> QED
      BY <3>1, <3>2
  <2> QED
    BY <2>1 DEF Acyclic
<1>7. Transits'
  <2>1. ASSUME NEW i \in 1 .. Len(todo')
        PROVE  /\ todo'[i].tr \in Names /\ todo'[i].task \in Ids'
               /\ Same(todo'[i].new, tasks'[todo'[i].task])
    <3>1. /\ todo'[i].tr = "assign" /\ todo'[i].task = e.task
          /\ Same(todo'[i].new, e.new)
      BY <2>1, NextEvent DEF Creates
    <3> QED
      BY <1>1, <1>3, <1>4, <3>1 DEF Names
  <2> QED
    BY <2>1 DEF Transits
<1>8. CancelOK'
  <2>1. act.kind # "cancel"
    <3>1. 1 \in 1 .. Len(todo) /\ todo[1].tr # "cancel"
      BY <1>1, NextEvent
    <3> QED
      BY <3>1 DEF IInv, CancelOK
  <2>2. act' = NoAct \/ act' = act
    BY NextEvent
  <2> QED
    BY <2>1, <2>2 DEF CancelOK, NoAct
<1>9. todo' \in Seq(Event) /\ crashes' \in Nat
  BY NextEvent DEF IInv
<1> QED
  BY <1>5, <1>6, <1>7, <1>8, <1>9 DEF IInv, TodoOK

\* A task in whose place an event puts another: the board stays one.
LEMMA ReplaceKeeps ==
  ASSUME BoardOK, NEW t \in Ids, NEW new \in Record, Within(new),
         tasks' = [tasks EXCEPT ![t] = new]
  PROVE  /\ BoardOK' /\ Ids' = Ids /\ tasks'[t] = new
         /\ \A x \in Ids : x # t => tasks'[x] = tasks[x]
<1>1. tasks \in Seq(Record) /\ t \in 1 .. Len(tasks) /\ Len(tasks) <= MaxTasks
  BY Positions DEF BoardOK
<1>2. tasks' \in Seq(Record) /\ Len(tasks') = Len(tasks)
  BY <1>1, ExceptSeq
<1>3. Ids' = Ids /\ tasks'[t] = new /\ \A x \in Ids : x # t => tasks'[x] = tasks[x]
  BY DEF Ids
<1>4. \A x \in Ids : \A d \in tasks'[x].deps : d.task \in Ids
  BY <1>3 DEF BoardOK, Within
<1> QED
  BY <1>1, <1>2, <1>3, <1>4 DEF BoardOK, Within

\* The cycle test keeps the dependencies free of cycles.
LEMMA UpdateKeepsAcyclic ==
  ASSUME BoardOK, Acyclic, NEW t \in Ids, NEW new,
         \A d \in new.deps : d.task \in Ids,
         new.deps # tasks[t].deps => ~WouldCycle(t, new.deps),
         Ids' = Ids, tasks'[t] = new, \A x \in Ids : x # t => tasks'[x] = tasks[x]
  PROVE  Acyclic'
<1>1. CASE new.deps = tasks[t].deps
  <2>1. \A x \in Ids : tasks'[x].deps = tasks[x].deps
    BY <1>1
  <2> QED
    BY <2>1 DEF Acyclic
<1>2. CASE new.deps # tasks[t].deps
  <2>1. PICK R \in SUBSET Ids :
          /\ t \notin R
          /\ \A d \in new.deps : d.task \in R
          /\ \A x \in R : \A d \in tasks[x].deps : d.task \in R
    BY <1>2, CycleTestCloses
  <2>2. ASSUME NEW S \in SUBSET Ids, S # {}
        PROVE  \E x \in S : \A d \in tasks'[x].deps : d.task \notin S
    <3>1. CASE S \cap R # {}
      <4>1. PICK x \in S \cap R : \A d \in tasks[x].deps : d.task \notin S \cap R
        BY <3>1 DEF Acyclic
      <4>2. tasks'[x] = tasks[x]
        BY <2>1, <4>1
      <4> QED
        BY <2>1, <4>1, <4>2
    <3>2. CASE S \cap R = {} /\ t \in S
      BY <2>1, <3>2
    <3>3. CASE t \notin S
      <4>1. PICK x \in S : \A d \in tasks[x].deps : d.task \notin S
        BY <2>2 DEF Acyclic
      <4> QED
        BY <3>3, <4>1
    <3> QED
      BY <3>1, <3>2, <3>3
  <2> QED
    BY <2>2 DEF Acyclic
<1> QED
  BY <1>1, <1>2

LEMMA RevisionKeeps ==
  ASSUME IInv, Write, Updates
  PROVE  IInv'
<1> DEFINE e == todo[1]
<1>1. /\ BoardOK /\ Acyclic /\ e \in Event /\ e.tr = "update" /\ e.task \in Ids
      /\ Within(e.new) /\ e.new \in Record
      /\ e.new.deps # tasks[e.task].deps => ~WouldCycle(e.task, e.new.deps)
      /\ tasks' = [tasks EXCEPT ![e.task] = e.new]
  BY NextEvent DEF IInv, Updates, Fold, Event
<1>2. /\ BoardOK' /\ Ids' = Ids /\ tasks'[e.task] = e.new
      /\ \A x \in Ids : x # e.task => tasks'[x] = tasks[x]
  BY <1>1, ReplaceKeeps
<1>3. Acyclic'
  <2>1. \A d \in e.new.deps : d.task \in Ids
    BY <1>1 DEF Within
  <2> HIDE DEF e
  <2> QED
    BY <1>1, <1>2, <2>1, UpdateKeepsAcyclic
<1>4. Len(todo) = 1 /\ todo' = <<>> /\ act' = NoAct
  <2>1. Len(todo) = 1
    BY DEF Updates
  <2> QED
    BY <2>1, NextEvent
<1>5. CancelOK'
  BY <1>4 DEF CancelOK, NoAct
<1>6. todo' \in Seq(Event) /\ crashes' \in Nat
  BY NextEvent DEF IInv
<1> QED
  BY <1>2, <1>3, <1>4, <1>5, <1>6 DEF IInv, TodoOK

\* What a cancellation has not reached yet is still to be cancelled.
LEMMA CancelGoesOn ==
  ASSUME IInv, Write, Transits, act.kind = "cancel"
  PROVE  \A d \in Ids : Below(d, act.task) =>
           tasks'[d].status \in Terminal \/ \E i \in 1 .. Len(todo') : todo'[i].task = d
<1> DEFINE e == todo[1]
<1>1. 1 \in 1 .. Len(todo)
  BY NextEvent
<1>2. /\ BoardOK /\ e.task \in Ids /\ e.tr \in Names /\ e.new.status = "cancelled"
      /\ \A d \in Ids : Below(d, act.task) =>
           tasks[d].status \in Terminal \/ \E i \in 1 .. Len(todo) : todo[i].task = d
  BY <1>1 DEF IInv, CancelOK, Transits
<1>3. tasks' = [tasks EXCEPT ![e.task] = e.new]
  BY <1>2, NextEvent DEF Fold, Names
<1>4. tasks'[e.task].status \in Terminal /\ \A x \in Ids : x # e.task => tasks'[x] = tasks[x]
  BY <1>2, <1>3 DEF Ids, Terminal
<1>5. \A i \in 1 .. Len(todo) : i = 1 \/ (i - 1 \in 1 .. Len(todo') /\ todo'[i - 1] = todo[i])
  <2>1. \A i \in 1 .. Len(todo) : i = 1 \/ (i - 1 \in 1 .. Len(todo') /\ i - 1 + 1 = i)
    BY NextEvent
  <2> QED
    BY <2>1, NextEvent
<1> HIDE DEF e
<1>6. ASSUME NEW d \in Ids, Below(d, act.task)
      PROVE  tasks'[d].status \in Terminal \/ \E i \in 1 .. Len(todo') : todo'[i].task = d
  <2>1. CASE d = e.task
    BY <1>4, <2>1
  <2>2. CASE d # e.task /\ tasks[d].status \in Terminal
    BY <1>4, <2>2
  <2>3. CASE d # e.task /\ \E i \in 1 .. Len(todo) : todo[i].task = d
    BY <1>5, <2>3 DEF e
  <2> QED
    BY <1>2, <1>6, <2>1, <2>2, <2>3
<1> QED
  BY <1>6

LEMMA StepKeeps ==
  ASSUME IInv, Write, Transits
  PROVE  IInv'
<1> DEFINE e == todo[1]
<1>1. 1 \in 1 .. Len(todo)
  BY NextEvent
<1>2. /\ BoardOK /\ Acyclic /\ e \in Event /\ e.tr \in Names /\ e.task \in Ids
      /\ e.new \in Record /\ Same(e.new, tasks[e.task])
  BY <1>1, NextEvent DEF IInv, Transits, Event
<1>3. tasks' = [tasks EXCEPT ![e.task] = e.new]
  BY <1>2, NextEvent DEF Fold, Names
<1>4. Within(e.new)
  BY <1>2 DEF Within, BoardOK, Same
<1>5. /\ BoardOK' /\ Ids' = Ids /\ tasks'[e.task] = e.new
      /\ \A x \in Ids : x # e.task => tasks'[x] = tasks[x]
  BY <1>2, <1>3, <1>4, ReplaceKeeps
<1>6. \A x \in Ids : Same(tasks'[x], tasks[x])
  BY <1>2, <1>5 DEF Same
<1>7. Acyclic'
  BY <1>2, <1>5, <1>6 DEF Acyclic, Same
<1>8. Transits'
  <2>1. ASSUME NEW i \in 1 .. Len(todo')
        PROVE  /\ todo'[i].tr \in Names /\ todo'[i].task \in Ids'
               /\ Same(todo'[i].new, tasks'[todo'[i].task])
    <3>1. todo'[i] = todo[i + 1] /\ i + 1 \in 1 .. Len(todo)
      BY <2>1, NextEvent
    <3>2. /\ todo[i + 1].tr \in Names /\ todo[i + 1].task \in Ids
          /\ Same(todo[i + 1].new, tasks[todo[i + 1].task])
      BY <3>1 DEF Transits
    <3> QED
      BY <1>5, <1>6, <3>1, <3>2 DEF Same
  <2> QED
    BY <2>1 DEF Transits
<1>9. CancelOK'
  <2>1. SUFFICES ASSUME act'.kind = "cancel" PROVE CancelOK'
    BY DEF CancelOK
  <2>2. act' = act /\ Len(todo) # 1
    BY <2>1, NextEvent DEF NoAct
  <2>3. todo' # <<>>
    BY <2>2, NextEvent
  <2>4. \A i \in 1 .. Len(todo') : todo'[i].tr = "cancel" /\ todo'[i].new.status = "cancelled"
    <3>1. \A i \in 1 .. Len(todo) : todo[i].tr = "cancel" /\ todo[i].new.status = "cancelled"
      BY <2>1, <2>2 DEF IInv, CancelOK
    <3>2. \A i \in 1 .. Len(todo') : todo'[i] = todo[i + 1] /\ i + 1 \in 1 .. Len(todo)
      BY NextEvent
    <3> QED
      BY <3>1, <3>2
  <2>5. \A d : Below(d, act.task)' <=> Below(d, act.task)
    <3>1. \A x \in Ids : tasks'[x].parent = tasks[x].parent
      BY <1>6 DEF Same
    <3> QED
      BY <1>5, <2>2, <3>1 DEF Below
  <2>6. \A d \in Ids : Below(d, act.task) =>
          tasks'[d].status \in Terminal \/ \E i \in 1 .. Len(todo') : todo'[i].task = d
    BY <2>1, <2>2, CancelGoesOn
  <2>7. \A i \in 1 .. Len(todo') : Below(todo'[i].task, act.task)
    <3>1. \A i \in 1 .. Len(todo) : Below(todo[i].task, act.task)
      BY <2>1, <2>2 DEF IInv, CancelOK
    <3>2. \A i \in 1 .. Len(todo') : todo'[i] = todo[i + 1] /\ i + 1 \in 1 .. Len(todo)
      BY NextEvent
    <3> QED
      BY <3>1, <3>2
  <2>8. (\A i \in 1 .. Len(todo) : Below(todo[i].task, act.task))'
    <3>1. \A x \in Ids : tasks'[x].parent = tasks[x].parent
      BY <1>6 DEF Same
    <3> QED
      BY <1>5, <2>2, <2>7, <3>1 DEF Below
  <2> QED
    BY <1>5, <2>2, <2>3, <2>4, <2>5, <2>6, <2>8 DEF CancelOK
<1>10. todo' \in Seq(Event) /\ crashes' \in Nat
  BY NextEvent DEF IInv
<1> QED
  BY <1>5, <1>7, <1>8, <1>9, <1>10 DEF IInv, TodoOK

LEMMA WriteKeeps ==
  ASSUME IInv, Write
  PROVE  IInv'
<1>1. Creates \/ Updates \/ Transits
  BY DEF IInv, TodoOK, Write
<1> QED
  BY <1>1, CreationKeeps, RevisionKeeps, StepKeeps

-----------------------------------------------------------------------------
(* The board is one of acts carried out: the inductive invariant.          *)

LEMMA StartsWell ==
  ASSUME Init
  PROVE  IInv
<1> USE DEF Init
<1>1. BoardOK
  BY BoardAssumption DEF BoardOK, Ids
<1>2. TodoOK
  BY DEF TodoOK
<1>3. Acyclic
  BY DEF Acyclic, Ids
<1>4. CancelOK
  BY DEF CancelOK, NoAct
<1> QED
  BY <1>1, <1>2, <1>3, <1>4 DEF IInv

\* Nothing of an act that is given up.
LEMMA CrashKeeps ==
  ASSUME IInv, Crash
  PROVE  IInv'
<1>1. /\ UNCHANGED tasks /\ todo' = <<>> /\ act' = NoAct /\ crashes' = crashes + 1
  BY DEF Crash
<1>2. BoardOK'
  BY <1>1 DEF IInv, BoardOK, Within, Ids
<1>3. Acyclic'
  BY <1>1 DEF IInv, Acyclic, Ids
<1>4. TodoOK' /\ CancelOK'
  BY <1>1 DEF TodoOK, CancelOK, NoAct
<1> QED
  BY <1>1, <1>2, <1>3, <1>4 DEF IInv

LEMMA RestKeeps ==
  ASSUME IInv, UNCHANGED <<board, crashes>>
  PROVE  IInv'
<1>1. UNCHANGED <<tasks, todo, act, crashes>>
  BY DEF board
<1>2. BoardOK' /\ Acyclic'
  BY <1>1 DEF IInv, BoardOK, Acyclic, Within, Ids
<1>3. Creates \/ Updates \/ Transits => (Creates \/ Updates \/ Transits)'
  <2>1. Creates => Creates'
    BY <1>1 DEF Creates, Within, Ids
  <2>2. Transits => Transits'
    BY <1>1 DEF Transits, Ids
  <2>3. ASSUME NEW t, NEW deps PROVE WouldCycle(t, deps)' <=> WouldCycle(t, deps)
    BY <1>1 DEF WouldCycle, Walk, Ids
  <2>4. Within(todo[1].new)' <=> Within(todo[1].new)
    BY <1>1 DEF Within, Ids
  <2> HIDE DEF WouldCycle, Within
  <2>5. WouldCycle(todo[1].task, todo[1].new.deps)' <=> WouldCycle(todo[1].task, todo[1].new.deps)
    BY <1>1, <2>3
  <2>6. Updates => Updates'
    BY <1>1, <2>4, <2>5 DEF Updates, Ids
  <2> QED
    BY <2>1, <2>2, <2>6
<1>4. CancelOK'
  <2>1. \A d, t : Below(d, t)' <=> Below(d, t)
    BY <1>1 DEF Below, Ids
  <2>2. Ids' = Ids
    BY <1>1 DEF Ids
  <2> HIDE DEF Below, Ids
  <2> QED
    BY <1>1, <2>1, <2>2 DEF IInv, CancelOK
<1> QED
  BY <1>1, <1>2, <1>3, <1>4 DEF IInv, TodoOK

LEMMA BoardInvariant == Spec => []IInv
<1>1. Init => IInv
  BY StartsWell
<1>2. IInv /\ [Next]_vars => IInv'
  <2> SUFFICES ASSUME IInv, [Next]_vars PROVE IInv'
    OBVIOUS
  <2>1. CASE \E m \in Creator : PlanCreate(m)
    BY <2>1, CreateKeeps
  <2>2. CASE \E m \in Member : PlanTransition(m)
    BY <2>2, TransitionKeeps
  <2>3. CASE \E m \in Member : PlanUpdate(m)
    BY <2>3, UpdateKeeps
  <2>4. CASE Write
    BY <2>4, WriteKeeps
  <2>5. CASE \E a \in Agent : Wake(a) \/ DropStale(a)
    BY <2>5, RestKeeps DEF Wake, DropStale
  <2>6. CASE Crash
    BY <2>6, CrashKeeps
  <2>7. CASE UNCHANGED vars
    BY <2>7, RestKeeps DEF vars, board
  <2> QED
    BY <2>1, <2>2, <2>3, <2>4, <2>5, <2>6, <2>7 DEF Next
<1> QED
  BY <1>1, <1>2, PTL DEF Spec

(* would_cycle() never lets a cycle into the dependencies: in every state  *)
(* the tasks can be put in an order that each dependency respects.         *)
THEOREM BoardIsAcyclic == Spec => []DepsAcyclic
<1>1. IInv => DepsAcyclic
  BY AcyclicIsRanked DEF IInv
<1> QED
  BY <1>1, BoardInvariant, PTL

\* Planning, waking and dying leave the board as it is.
LEMMA PlansOnlyBegin ==
  ASSUME NEW m, PlanCreate(m) \/ PlanTransition(m) \/ PlanUpdate(m)
  PROVE  todo = <<>> /\ tasks' = tasks /\ crashes' = crashes
<1>1. \A kind, t, events : Begin(m, kind, t, events) =>
        todo = <<>> /\ tasks' = tasks /\ crashes' = crashes
  BY DEF Begin
<1>2. CASE PlanCreate(m)
  BY <1>1, <1>2, Zenon DEF PlanCreate
<1>3. CASE PlanTransition(m)
  BY <1>1, <1>3, Zenon DEF PlanTransition
<1>4. CASE PlanUpdate(m)
  BY <1>1, <1>4, Zenon DEF PlanUpdate
<1> QED
  BY <1>2, <1>3, <1>4

LEMMA OnlyWritingChanges ==
  ASSUME [Next]_vars
  PROVE  Write \/ tasks' = tasks
<1>1. \A m : PlanCreate(m) \/ PlanTransition(m) \/ PlanUpdate(m) => tasks' = tasks
  BY PlansOnlyBegin
<1>2. (\A a : Wake(a) \/ DropStale(a) => tasks' = tasks) /\ (Crash => tasks' = tasks)
  BY DEF Wake, DropStale, Crash, board
<1>3. UNCHANGED vars => tasks' = tasks
  BY DEF vars
<1> QED
  BY <1>1, <1>2, <1>3 DEF Next

\* The dependencies lead back to the task: every set of tasks that holds them
\* and, with a task, what it depends on, holds the task.
LeadsBack(t, deps) ==
  \A C \in SUBSET Ids :
    (/\ \A d \in deps : d.task \in C
     /\ \A x \in C \ {t} : \A d \in tasks[x].deps : d.task \in C) => t \in C

(* would_cycle() refuses the dependencies that lead back to the task, and  *)
(* no others, on every board that acts can make.                           *)
THEOREM CycleTestIsExact ==
  Spec => [](\A t \in Ids : \A deps \in SUBSET [task : Ids, type : DepTypes] :
               WouldCycle(t, deps) <=> LeadsBack(t, deps))
<1>1. ASSUME IInv, NEW t \in Ids, NEW deps \in SUBSET [task : Ids, type : DepTypes]
      PROVE  WouldCycle(t, deps) <=> LeadsBack(t, deps)
  <2>1. BoardOK /\ \A d \in deps : d.task \in Ids
    BY <1>1 DEF IInv
  <2>2. ASSUME ~WouldCycle(t, deps) PROVE ~LeadsBack(t, deps)
    <3>1. PICK R \in SUBSET Ids :
            /\ t \notin R
            /\ \A d \in deps : d.task \in R
            /\ \A x \in R : \A d \in tasks[x].deps : d.task \in R
      BY <2>1, <2>2, CycleTestCloses
    <3> QED
      BY <3>1 DEF LeadsBack
  <2>3. ASSUME WouldCycle(t, deps), NEW C \in SUBSET Ids, t \notin C,
               \A d \in deps : d.task \in C,
               \A x \in C \ {t} : \A d \in tasks[x].deps : d.task \in C
        PROVE  FALSE
    <3> DEFINE preds == [x \in Ids |-> {d.task : d \in IF x = t THEN deps ELSE tasks[x].deps}]
    <3>1. preds[t] \subseteq C /\ \A x \in C : preds[x] \subseteq C
      BY <2>3
    <3>2. t \in Walk(preds, preds[t])
      BY <2>3 DEF WouldCycle
    <3> HIDE DEF preds
    <3>3. Walk(preds, preds[t]) \subseteq C
      BY <3>1, WalkIsLeast
    <3> QED
      BY <2>3, <3>2, <3>3
  <2> QED
    BY <2>2, <2>3 DEF LeadsBack
<1>2. IInv => \A t \in Ids : \A deps \in SUBSET [task : Ids, type : DepTypes] :
                WouldCycle(t, deps) <=> LeadsBack(t, deps)
  BY <1>1
<1> QED
  BY <1>2, BoardInvariant, PTL

(* Unless the process dies in its midst, a cancellation reaches all that   *)
(* was below the cancelled task, whatever deaths there were before.        *)
THEOREM CancelsReachAll ==
  Spec => [][act.kind = "cancel" /\ act' = NoAct /\ crashes' = crashes =>
               \A d \in Ids : Below(d, act.task) => tasks'[d].status \in Terminal]_vars
<1>1. ASSUME IInv, [Next]_vars, act.kind = "cancel", act' = NoAct, crashes' = crashes
      PROVE  \A d \in Ids : Below(d, act.task) => tasks'[d].status \in Terminal
  <2>1. Write
    <3>1. todo # <<>> /\ act # NoAct
      BY <1>1 DEF IInv, CancelOK, NoAct
    <3>2. ~Crash
      BY <1>1 DEF Crash, IInv
    <3>3. \A m : PlanCreate(m) \/ PlanTransition(m) \/ PlanUpdate(m) => todo = <<>>
      BY PlansOnlyBegin
    <3>4. \A a : Wake(a) \/ DropStale(a) => act' = act
      BY DEF Wake, DropStale, board
    <3>5. UNCHANGED vars => act' = act
      BY DEF vars
    <3> QED
      BY <1>1, <3>1, <3>2, <3>3, <3>4, <3>5 DEF Next
  <2>2. Transits
    <3>1. 1 \in 1 .. Len(todo) /\ todo[1].tr = "cancel" /\ todo # <<>>
      BY <1>1, <2>1, NextEvent DEF IInv, CancelOK
    <3> QED
      BY <1>1, <3>1 DEF IInv, TodoOK, Creates, Updates
  <2>3. Len(todo) = 1
    BY <1>1, <2>1, NextEvent DEF NoAct
  <2>4. Len(todo') = 0
    BY <1>1, <2>1, <2>3, NextEvent
  <2> QED
    BY <1>1, <2>1, <2>2, <2>4, CancelGoesOn
<1>2. IInv /\ [Next]_vars =>
        [act.kind = "cancel" /\ act' = NoAct /\ crashes' = crashes =>
           \A d \in Ids : Below(d, act.task) => tasks'[d].status \in Terminal]_vars
  BY <1>1
<1> QED
  BY <1>2, BoardInvariant, PTL DEF Spec

(* So in a process that does not die every cancellation cascades.          *)
THEOREM CancelsCascade ==
  ASSUME MaxCrashes = 0
  PROVE  Spec => CancelCascades
<1>1. IInv /\ [Next]_vars => UNCHANGED crashes
  <2>1. IInv => ~Crash
    BY DEF IInv, Crash
  <2>2. \A m : PlanCreate(m) \/ PlanTransition(m) \/ PlanUpdate(m) => UNCHANGED crashes
    BY PlansOnlyBegin
  <2>3. Write => UNCHANGED crashes
    BY DEF Write
  <2>4. \A a : Wake(a) \/ DropStale(a) => UNCHANGED crashes
    BY DEF Wake, DropStale
  <2>5. UNCHANGED vars => UNCHANGED crashes
    BY DEF vars
  <2> QED
    BY <2>1, <2>2, <2>3, <2>4, <2>5 DEF Next
<1>2. ASSUME IInv, [Next]_vars,
             [act.kind = "cancel" /\ act' = NoAct /\ crashes' = crashes =>
                \A d \in Ids : Below(d, act.task) => tasks'[d].status \in Terminal]_vars
      PROVE  [act.kind = "cancel" /\ act' = NoAct /\ tasks'[act.task].status = "cancelled" =>
                \A d \in Ids : Below(d, act.task) => tasks'[d].status \in Terminal]_vars
  BY <1>1, <1>2
<1> QED
  BY <1>2, BoardInvariant, CancelsReachAll, PTL DEF Spec, CancelCascades

(* And none of them touches a task that was not below the cancelled one.   *)
THEOREM CancelsNothingElse ==
  Spec => [][act.kind = "cancel" =>
               \A d \in Ids : ~Below(d, act.task) => tasks'[d] = tasks[d]]_vars
<1>1. ASSUME IInv, [Next]_vars, act.kind = "cancel", NEW d \in Ids, ~Below(d, act.task)
      PROVE  tasks'[d] = tasks[d]
  <2>1. SUFFICES ASSUME Write PROVE tasks'[d] = tasks[d]
    BY <1>1, OnlyWritingChanges
  <2>2. /\ 1 \in 1 .. Len(todo) /\ tasks' = Fold(todo[1])
        /\ todo[1].tr = "cancel" /\ Below(todo[1].task, act.task)
    BY <1>1, <2>1, NextEvent DEF IInv, CancelOK
  <2>3. todo[1].task # d
    BY <1>1, <2>2
  <2> QED
    BY <2>2, <2>3 DEF Fold, Ids
<1>2. IInv /\ [Next]_vars =>
        [act.kind = "cancel" =>
           \A d \in Ids : ~Below(d, act.task) => tasks'[d] = tasks[d]]_vars
  BY <1>1
<1> QED
  BY <1>2, BoardInvariant, PTL DEF Spec

-----------------------------------------------------------------------------
(* The board can always be moved forward.                                  *)

\* Who a policy lets do something with a task.
LEMMA RolesAct ==
  ASSUME NEW what, NEW task, task.creator \in Member
  PROVE  /\ Policy[what] \cap {"anyone", "creator", "party"} # {} => May(task.creator, what, task)
         /\ task.assignee \in Member /\ Policy[what] \cap {"anyone", "assignee", "party"} # {} =>
              May(task.assignee, what, task)
         /\ task.reviewer \in Member /\ Policy[what] \cap {"anyone", "reviewer", "party"} # {} =>
              May(task.reviewer, what, task)
         /\ \A a \in Agent : "agent" \in Policy[what] => May(a, what, task)
<1>1. None \notin Member
  BY BoardAssumption
<1>2. \A m \in Member : m \in {task.creator, task.assignee, task.reviewer} => HasRole(m, "party", task)
  BY <1>1 DEF HasRole, Parties
<1>3. /\ \A m : HasRole(m, "anyone", task)
      /\ HasRole(task.creator, "creator", task)
      /\ HasRole(task.assignee, "assignee", task)
      /\ HasRole(task.reviewer, "reviewer", task)
      /\ \A a \in Agent : HasRole(a, "agent", task)
  BY DEF HasRole
<1> QED
  BY <1>2, <1>3 DEF May

\* What depends on nothing but ended tasks waits for nothing.
LEMMA EndedSatisfy ==
  ASSUME BoardOK, NEW t \in Ids, \A d \in tasks[t].deps : tasks[d.task].status \in Terminal,
         NEW gate
  PROVE  Unmet(tasks, t, gate) = {}
<1>1. \A d \in tasks[t].deps : d.type \in {"FS", "SS", "FF", "SF"}
  BY Positions, BoardAssumption DEF Record
<1>2. \A type \in {"FS", "SS", "FF", "SF"}, status \in Terminal : DepSatisfied(type, status)
  BY DEF DepSatisfied, Terminal, Started
<1> QED
  BY <1>1, <1>2 DEF Unmet

(* Dependencies of the four kinds never hold up the whole board: while a   *)
(* task is neither done nor cancelled some task can be moved forward by    *)
(* somebody, if the policy leaves no step to nobody.                       *)
THEOREM BoardIsNeverStuck ==
  ASSUME PolicyMoves
  PROVE  Spec => []NeverStuck
<1>1. ASSUME IInv, NEW s \in Ids, tasks[s].status \notin Terminal
      PROVE  \E t \in Ids :
               \/ \E m, to \in Member, tr \in Forward :
                    /\ tr = "assign" => tasks[t].status = "open"
                    /\ CheckTransition(t, tr, to) /\ May(m, tr, tasks[t])
               \/ tasks[t].status = "in_review" /\ tasks[t].reviewer = None
  <2> DEFINE Open == {t \in Ids : tasks[t].status \notin Terminal}
  <2>1. BoardOK /\ Acyclic
    BY <1>1 DEF IInv
  <2>2. PICK t \in Open : \A d \in tasks[t].deps : d.task \notin Open
    BY <1>1, <2>1 DEF Acyclic
  <2>3. \A d \in tasks[t].deps : tasks[d.task].status \in Terminal
    BY <2>1, <2>2 DEF BoardOK, Within
  <2>4. \A gate : Unmet(tasks, t, gate) = {}
    BY <2>1, <2>2, <2>3, EndedSatisfy
  <2> DEFINE r == tasks[t]
  <2>5. /\ r \in Record /\ r.creator \in Member /\ r.reviewer \in Member \cup {None} /\ Fits(r)
        /\ r.status \in {"open", "assigned", "in_progress", "blocked", "in_review"}
    BY <2>1, <2>2, Positions DEF Record, Statuses, Terminal
  <2>6. SUFFICES ASSUME ~(r.status = "in_review" /\ r.reviewer = None)
                 PROVE  \E m, to \in Member, tr \in Forward :
                          /\ tr = "assign" => r.status = "open"
                          /\ CheckTransition(t, tr, to) /\ May(m, tr, r)
    BY <2>2
  <2>7. ASSUME NEW tr \in Forward, NEW m \in Member, May(m, tr, r),
               r.status \in Transitions[tr].from, tr = "assign" => r.status = "open",
               tr = "claim" => r.assignee = None, tr = "approve" => r.reviewer # None
        PROVE  \E n, to \in Member, q \in Forward :
                 /\ q = "assign" => r.status = "open"
                 /\ CheckTransition(t, q, to) /\ May(n, q, r)
    <3>1. CheckTransition(t, tr, m)
      BY <2>4, <2>7 DEF CheckTransition, Forward
    <3> QED
      BY <2>7, <3>1
  <2> HIDE DEF r
  <2>8. CASE r.status = "open"
    <3>1. PICK tr \in {"assign", "claim"} :
            \/ Policy[tr] \cap {"anyone", "creator", "party"} # {}
            \/ "agent" \in Policy[tr] /\ Agent # {}
      BY DEF PolicyMoves
    <3>2. \E m \in Member : May(m, tr, r)
      BY <2>5, <3>1, RolesAct, BoardAssumption
    <3>3. r.assignee = None /\ r.status \in Transitions[tr].from /\ tr \in Forward
      BY <2>5, <2>8, <3>1 DEF Fits, Transitions, Forward
    <3> QED
      BY <2>7, <2>8, <3>1, <3>2, <3>3
  <2>9. CASE r.status = "assigned"
    <3>1. r.assignee \in Member /\ May(r.assignee, "start", r)
      BY <2>5, <2>9, RolesAct DEF Fits, PolicyMoves
    <3> QED
      BY <2>7, <2>9, <3>1 DEF Transitions, Forward
  <2>10. CASE r.status = "in_progress"
    <3>1. r.assignee \in Member /\ May(r.assignee, "submit", r)
      BY <2>5, <2>10, RolesAct DEF Fits, PolicyMoves
    <3> QED
      BY <2>7, <2>10, <3>1 DEF Transitions, Forward
  <2>11. CASE r.status = "blocked"
    <3>1. r.assignee \in Member /\ May(r.assignee, "unblock", r)
      BY <2>5, <2>11, RolesAct DEF Fits, PolicyMoves
    <3> QED
      BY <2>7, <2>11, <3>1 DEF Transitions, Forward
  <2>12. CASE r.status = "in_review"
    <3>1. r.reviewer \in Member /\ r.reviewer # None /\ May(r.reviewer, "approve", r)
      BY <2>5, <2>6, <2>12, RolesAct, BoardAssumption DEF PolicyMoves
    <3> QED
      BY <2>7, <2>12, <3>1 DEF Transitions, Forward
  <2> QED
    BY <2>5, <2>8, <2>9, <2>10, <2>11, <2>12
<1>2. IInv => NeverStuck
  BY <1>1 DEF NeverStuck
<1> QED
  BY <1>2, BoardInvariant, PTL
-----------------------------------------------------------------------------
(* What an event lets an agent do, the agent is told.                      *)

\* A reason the policy wakes on raises an item; that a task was assigned does
\* so when the task can start.
LEMMA ReasonRaisesItem ==
  ASSUME NEW e, NEW frm, NEW ts, DOMAIN ts \subseteq Nat, NEW a \in Agent, a # e.actor,
         NEW k \in WakeOn,
         \/ /\ <<a, k>> \in OwnReasons(e, ts)
            /\ k = "task_assigned" => Unmet(ts, e.task, StartGating) = {}
         \/ /\ k # "task_assigned"
            /\ \E s \in DOMAIN ts : /\ s # 0 /\ Unlocks(e, frm, ts, s)
                                   /\ <<a, k>> \in Readiness(e, frm, ts, s)
  PROVE  Items(e, frm, ts)[a] # {}
<1> DEFINE about(s) == IF s = 0 THEN OwnReasons(e, ts) ELSE Readiness(e, frm, ts, s)
           sources == {0} \cup {s \in DOMAIN ts : Unlocks(e, frm, ts, s)}
           kinds(b) == {q \in WakeOn : \E s \in sources : <<b, q>> \in about(s)}
           first(b) == CHOOSE s \in sources : /\ \E q \in about(s) : q[1] = b
                                              /\ \A x \in sources :
                                                   (\E q \in about(x) : q[1] = b) => s <= x
           ref(b) == IF first(b) = 0 THEN e.task ELSE first(b)
           kind(b) == Priority[CHOOSE i \in DOMAIN Priority :
                        Priority[i] \in kinds(b) /\ \A j \in 1 .. i - 1 : Priority[j] \notin kinds(b)]
           waits(b) == kinds(b) = {"task_assigned"} /\ Unmet(ts, ref(b), StartGating) # {}
<1>1. Items(e, frm, ts)[a] =
        IF a = e.actor \/ kinds(a) = {} \/ waits(a) THEN {}
        ELSE {[kind |-> kind(a), ref |-> ref(a)]}
  BY DEF Items
<1>2. k \in kinds(a)
  OBVIOUS
<1>3. ~waits(a)
  <2>1. CASE k # "task_assigned"
    BY <1>2, <2>1
  <2>2. CASE k = "task_assigned"
    <3>1. <<a, k>> \in about(0) /\ Unmet(ts, e.task, StartGating) = {}
      BY <2>2
    <3>2. sources \subseteq Nat /\ 0 \in sources
      OBVIOUS
    <3>3. \E q \in about(0) : q[1] = a
      BY <3>1
    <3> HIDE DEF about, sources, kinds
    <3>4. \E s \in sources : /\ \E q \in about(s) : q[1] = a
                            /\ \A x \in sources : (\E q \in about(x) : q[1] = a) => s <= x
      BY <3>2, <3>3
    <3>5. /\ first(a) \in sources
          /\ \A x \in sources : (\E q \in about(x) : q[1] = a) => first(a) <= x
      BY <3>4
    <3>6. first(a) = 0
      <4> DEFINE g == first(a)
      <4> HIDE DEF g, first
      <4>1. g \in sources /\ \A x \in sources : (\E q \in about(x) : q[1] = a) => g <= x
        BY <3>5 DEF g
      <4>2. g <= 0 /\ g \in Nat
        BY <3>2, <3>3, <4>1
      <4>3. g = 0
        BY <4>2
      <4> QED
        BY <4>3 DEF g
    <3> QED
      BY <3>1, <3>6
  <2> QED
    BY <2>1, <2>2
<1> HIDE DEF kinds, waits, ref, kind
<1> QED
  BY <1>1, <1>2, <1>3

\* An item about tasks to start only, or about tasks to claim only, is of one
\* of these, and holds.
LEMMA ItemHolds ==
  ASSUME NEW e, NEW frm, NEW ts, DOMAIN ts \subseteq Nat \ {0}, e.task \in DOMAIN ts,
         NEW a \in Agent, NEW i \in Items(e, frm, ts)[a],
         \/ Concerns(e, frm, ts, a) \subseteq ToStart(ts, a)
         \/ Concerns(e, frm, ts, a) \subseteq ToClaim(ts, a)
  PROVE  i.ref \in Concerns(e, frm, ts, a) /\ StillRelevant(ts, a, i)
<1> DEFINE told == Concerns(e, frm, ts, a)
           about(s) == IF s = 0 THEN OwnReasons(e, ts) ELSE Readiness(e, frm, ts, s)
           sources == {0} \cup {s \in DOMAIN ts : Unlocks(e, frm, ts, s)}
           kinds(b) == {q \in WakeOn : \E s \in sources : <<b, q>> \in about(s)}
           first(b) == CHOOSE s \in sources : /\ \E q \in about(s) : q[1] = b
                                              /\ \A x \in sources :
                                                   (\E q \in about(x) : q[1] = b) => s <= x
           ref(b) == IF first(b) = 0 THEN e.task ELSE first(b)
           least(b) == CHOOSE n \in DOMAIN Priority :
                        Priority[n] \in kinds(b) /\ \A j \in 1 .. n - 1 : Priority[j] \notin kinds(b)
           kind(b) == Priority[least(b)]
           waits(b) == kinds(b) = {"task_assigned"} /\ Unmet(ts, ref(b), StartGating) # {}
<1>1. Items(e, frm, ts)[a] =
        IF a = e.actor \/ kinds(a) = {} \/ waits(a) THEN {}
        ELSE {[kind |-> kind(a), ref |-> ref(a)]}
  BY DEF Items
<1>2. i.kind = kind(a) /\ i.ref = ref(a) /\ kinds(a) # {}
  <2> HIDE DEF kinds, waits, ref, kind
  <2> QED
    BY <1>1
<1>3. \A s \in sources : \A q \in about(s) : q[1] = a =>
        /\ (IF s = 0 THEN e.task ELSE s) \in told
        /\ s # 0 => Unlocks(e, frm, ts, s)
  BY DEF Concerns
<1>4. ref(a) \in told
  <2>1. PICK q \in kinds(a), s \in sources : <<a, q>> \in about(s)
    <3> HIDE DEF about, sources
    <3> QED
      BY <1>2
  <2>2. sources \subseteq Nat
    OBVIOUS
  <2> DEFINE S == {x \in sources : \E z \in about(x) : z[1] = a}
  <2> HIDE DEF about, sources, kinds, told
  <2>3. S \subseteq Nat /\ S # {}
    <3>1. \E z \in about(s) : z[1] = a
      BY <2>1
    <3> QED
      BY <2>2, <3>1
  <2>4. \E x \in S : \A y \in S : x <= y
    BY <2>3, LeastNatural
  <2>5. first(a) \in sources /\ \E z \in about(first(a)) : z[1] = a
    BY <2>4
  <2> HIDE DEF first
  <2> QED
    BY <1>3, <2>5
<1>5. kind(a) \in kinds(a)
  <2> DEFINE S == {n \in DOMAIN Priority : Priority[n] \in kinds(a)}
  <2>1. DOMAIN Priority = 1 .. 6
    BY DEF Priority
  <2>2. kinds(a) \subseteq {Priority[n] : n \in DOMAIN Priority}
    BY BoardAssumption DEF Range
  <2> HIDE DEF kinds
  <2>3. S \subseteq Nat /\ S # {}
    BY <1>2, <2>1, <2>2
  <2>4. PICK n \in S : \A j \in S : n <= j
    BY <2>3, LeastNatural
  <2>5. \A j \in 1 .. n - 1 : Priority[j] \notin kinds(a)
    BY <2>1, <2>4
  <2>6. least(a) \in DOMAIN Priority /\ Priority[least(a)] \in kinds(a)
    BY <2>4, <2>5
  <2> QED
    BY <2>6
<1>6. PICK s \in sources : <<a, kind(a)>> \in about(s)
  <2> HIDE DEF kind
  <2> QED
    BY <1>5
<1> DEFINE k == kind(a)
           t == IF s = 0 THEN e.task ELSE s
<1>7. t \in told /\ ref(a) \in told
  <2> HIDE DEF about, sources, kind, told
  <2> QED
    BY <1>3, <1>4, <1>6
<1>8. k \in {"task_assigned", "task_review", "task_returned", "task_changed", "task_open",
            "task_ready"}
  <2> HIDE DEF kind
  <2> QED
    BY <1>6 DEF OwnReasons, Readiness
<1> HIDE DEF ref, kind, k, about, told
<1>9. CASE told \subseteq ToStart(ts, a)
  <2>1. \A x \in told : ts[x].status = "assigned" /\ ts[x].assignee = a
    BY <1>9 DEF ToStart
  <2>2. k \notin {"task_review", "task_open"}
    <3>1. ts[t].status = "assigned"
      BY <1>7, <2>1
    <3>2. CASE s = 0
      BY <1>6, <3>1, <3>2 DEF about, k, OwnReasons, OpenAndReady
    <3>3. CASE s # 0
      BY <1>6, <3>1, <3>3 DEF about, k, Readiness, OpenAndReady
    <3> QED
      BY <3>2, <3>3
  <2> QED
    BY <1>2, <1>4, <1>8, <2>1, <2>2 DEF k, StillRelevant, Terminal, told
<1>10. CASE told \subseteq ToClaim(ts, a)
  <2>1. \A x \in told : /\ OpenAndReady(ts, x)
                        /\ ts[x].status = "open" /\ ts[x].assignee = None
    BY <1>10 DEF ToClaim, OpenAndReady
  <2>2. k \in {"task_open", "task_changed"}
    <3>1. ts[t].status = "open" /\ ts[t].assignee = None /\ a # None
      BY <1>7, <2>1, BoardAssumption
    <3>2. CASE s = 0
      BY <1>6, <1>8, <3>1, <3>2 DEF about, k, OwnReasons
    <3>3. CASE s # 0
      BY <1>6, <1>8, <3>1, <3>3 DEF about, k, Readiness, Unblocked
    <3> QED
      BY <3>2, <3>3
  <2> QED
    BY <1>2, <1>4, <2>1, <2>2 DEF k, StillRelevant, told
<1> QED
  BY <1>9, <1>10 DEF told

\* What an agent may do with a task hangs on a few of its fields.
LEMMA ToDoHangsOn ==
  ASSUME Announces, NEW old, NEW new, NEW a \in Agent,
         NEW t \in DOMAIN old, t \in DOMAIN new,
         new[t].status = old[t].status, new[t].assignee = old[t].assignee,
         new[t].creator = old[t].creator,
         Unmet(old, t, StartGating) = {},
         t \in ToDo(new, a)
  PROVE  t \in ToDo(old, a)
<1>1. May(a, "claim", new[t]) => May(a, "claim", old[t])
  <2>1. \A role \in Policy["claim"] : HasRole(a, role, new[t]) => HasRole(a, role, old[t])
    <3>1. \A role \in Policy["claim"] : role \in {"anyone", "agent", "assignee", "creator"}
      <4>1. Policy["claim"] \subseteq Roles
        <5>1. "claim" \in DOMAIN Transitions
          BY DEF Transitions
        <5> QED
          BY <5>1, BoardAssumption
      <4> QED
        BY <4>1 DEF Announces, Roles
    <3> QED
      BY <3>1 DEF HasRole
  <2> QED
    BY <2>1 DEF May
<1> QED
  BY <1>1 DEF ToDo, ToStart, ToClaim, OpenAndReady

\* Conditions that hold of the same statuses.
LEMMA UnmetHangsOn ==
  ASSUME NEW old, NEW new, NEW t, NEW gate, new[t].deps = old[t].deps,
         \A d \in old[t].deps : new[d.task].status = old[d.task].status
  PROVE  Unmet(new, t, gate) = Unmet(old, t, gate)
  BY DEF Unmet

\* What the event that is appended has said of a task it lets an agent take up.
Announced(a, t) ==
  /\ t \in Concerns(todo[1], From(todo[1]), tasks', a)
  /\ Items(todo[1], From(todo[1]), tasks')[a] # {}

LEMMA ToDoIsReady ==
  ASSUME NEW ts, NEW a, NEW t \in ToDo(ts, a)
  PROVE  /\ t \in DOMAIN ts /\ Unmet(ts, t, StartGating) = {}
         /\ \/ ts[t].status = "assigned" /\ ts[t].assignee = a
            \/ /\ "task_open" \in WakeOn /\ OpenAndReady(ts, t) /\ ts[t].status = "open"
               /\ ts[t].assignee = None /\ May(a, "claim", ts[t])
  BY DEF ToDo, ToStart, ToClaim, OpenAndReady

\* The task that is created is offered to those who may claim it.
LEMMA CreationAnnounces ==
  ASSUME IInv, Announces, Write, Creates, NEW a \in Agent, a # Head(todo).actor,
         NEW t \in ToDo(tasks', a), t \notin ToDo(tasks, a)
  PROVE  Announced(a, t)
<1> DEFINE e == todo[1]
           n == Len(tasks)
<1>1. /\ BoardOK /\ Head(todo) = e /\ e.tr = "create" /\ e.task = n + 1
      /\ e.new.status = "open" /\ tasks' = Append(tasks, e.new) /\ e.new \in Record
  BY NextEvent DEF IInv, Creates, Fold, Event
<1>2. n \in Nat /\ Ids = 1 .. n /\ tasks \in Seq(Record)
  BY <1>1, Positions DEF BoardOK
<1>3. /\ tasks' \in Seq(Record) /\ Len(tasks') = n + 1 /\ DOMAIN tasks' = 1 .. n + 1
      /\ tasks'[n + 1] = e.new
      /\ \A x \in Ids : tasks'[x] = tasks[x]
  <2>1. /\ tasks' \in Seq(Record) /\ Len(tasks') = n + 1 /\ tasks'[n + 1] = e.new
        /\ \A x \in Ids : tasks'[x] = tasks[x]
    BY <1>1, <1>2, AppendProperties
  <2> QED
    BY <2>1, LenProperties
<1> HIDE DEF e, n
<1>4. t = e.task
  <2>1. SUFFICES ASSUME t \in Ids PROVE FALSE
    <3>1. t \in DOMAIN tasks'
      BY ToDoIsReady
    <3> QED
      BY <1>1, <1>2, <1>3, <3>1
  <2>2. \A d \in tasks[t].deps : tasks'[d.task].status = tasks[d.task].status
    BY <1>1, <1>3, <2>1 DEF BoardOK, Within
  <2>3. Unmet(tasks', t, StartGating) = Unmet(tasks, t, StartGating)
    BY <1>3, <2>1, <2>2, UnmetHangsOn
  <2>4. t \in ToDo(tasks, a)
    <3>1. t \in DOMAIN tasks /\ t \in DOMAIN tasks' /\ tasks'[t] = tasks[t]
      BY <1>3, <2>1, ToDoIsReady DEF Ids
    <3> QED
      BY <2>3, <3>1, ToDoIsReady, ToDoHangsOn
  <2> QED
    BY <2>4
<1>5. /\ "task_open" \in WakeOn /\ OpenAndReady(tasks', e.task)
      /\ May(a, "claim", tasks'[e.task])
  <2>1. tasks'[t].status = "open"
    BY <1>1, <1>3, <1>4
  <2> QED
    BY <1>4, <2>1, ToDoIsReady
<1>6. <<a, "task_open">> \in OwnReasons(e, tasks')
  BY <1>1, <1>5 DEF OwnReasons, Claimers
<1>7. Items(e, "open", tasks')[a] # {}
  <2>1. DOMAIN tasks' \subseteq Nat /\ a # e.actor
    BY <1>1, <1>2, <1>3
  <2> QED
    BY <1>5, <1>6, <2>1, ReasonRaisesItem
<1>8. t \in Concerns(e, "open", tasks', a)
  <2>1. \E q \in OwnReasons(e, tasks') : q[1] = a
    BY <1>6
  <2>2. t \in DOMAIN tasks'
    BY ToDoIsReady
  <2> QED
    BY <1>4, <2>1, <2>2 DEF Concerns
<1> QED
  BY <1>1, <1>7, <1>8 DEF e, Announced, From

\* A task that its own transition lets an agent take up.
LEMMA OwnTransitionAnnounces ==
  ASSUME IInv, Announces, Write, Transits, NEW a \in Agent, a # Head(todo).actor,
         todo[1].task \in ToDo(tasks', a)
  PROVE  Announced(a, todo[1].task)
<1> DEFINE e == todo[1]
           frm == tasks[e.task].status
<1>1. /\ BoardOK /\ Head(todo) = e /\ e \in Event /\ e.tr \in Names /\ e.task \in Ids
      /\ tasks' = [tasks EXCEPT ![e.task] = e.new]
  <2>1. 1 \in 1 .. Len(todo)
    BY NextEvent
  <2>2. e.tr \in Names /\ e.task \in Ids
    BY <2>1 DEF Transits
  <2> QED
    BY <2>2, NextEvent DEF IInv, Fold, Names
<1>2. tasks'[e.task] = e.new /\ DOMAIN tasks' \subseteq Nat /\ Aims(e)
  BY <1>1, Positions DEF Ids, Event
<1>3. e.tr # "create" /\ e.tr # "update"
  BY <1>1 DEF Names
<1> SUFFICES Announced(a, e.task)
  OBVIOUS
<1> HIDE DEF e, frm
<1>4. ASSUME NEW k \in WakeOn, <<a, k>> \in OwnReasons(e, tasks')
      PROVE  Announced(a, e.task)
  <2>1. Unmet(tasks', e.task, StartGating) = {} /\ e.task \in DOMAIN tasks'
    BY ToDoIsReady DEF e
  <2>2. Items(e, frm, tasks')[a] # {}
    BY <1>1, <1>2, <1>4, <2>1, ReasonRaisesItem
  <2>3. \E q \in OwnReasons(e, tasks') : q[1] = a
    BY <1>4
  <2>4. e.task \in Concerns(e, frm, tasks', a)
    BY <2>1, <2>3 DEF Concerns
  <2> QED
    BY <1>3, <2>2, <2>4 DEF e, frm, Announced, From
<1>5. CASE e.new.status = "assigned" /\ e.new.assignee = a
  <2>1. CASE e.tr = "assign"
    <3>1. "task_assigned" \in WakeOn
      BY <1>2, <2>1 DEF Aims, Announces
    <3>2. <<a, "task_assigned">> \in OwnReasons(e, tasks')
      BY <1>2, <1>5, <2>1 DEF OwnReasons
    <3> QED
      BY <1>4, <3>1, <3>2
  <2>2. CASE e.tr = "claim"
    BY <1>1, <1>2, <1>5, <2>2 DEF Aims
  <2>3. CASE e.tr = "reopen"
    <3>1. <<a, "task_returned">> \in OwnReasons(e, tasks')
      BY <1>2, <1>5, <2>3 DEF OwnReasons
    <3> QED
      BY <1>4, <3>1 DEF Announces
  <2> QED
    BY <1>2, <1>3, <1>5, <2>1, <2>2, <2>3 DEF Aims
<1>6. CASE /\ "task_open" \in WakeOn /\ OpenAndReady(tasks', e.task) /\ e.new.status = "open"
           /\ May(a, "claim", tasks'[e.task])
  <2>1. e.tr \in {"unassign", "reopen"}
    BY <1>2, <1>3, <1>6 DEF Aims
  <2>2. <<a, "task_open">> \in OwnReasons(e, tasks')
    BY <1>6, <2>1 DEF OwnReasons, Claimers
  <2> QED
    BY <1>4, <1>6, <2>2
<1> QED
  BY <1>2, <1>5, <1>6, ToDoIsReady DEF e

\* A task with a dependency that another task's transition has satisfied.
LEMMA SuccessorIsAnnounced ==
  ASSUME IInv, Announces, Write, Transits, NEW a \in Agent, a # Head(todo).actor,
         NEW t \in ToDo(tasks', a), t \notin ToDo(tasks, a), t # todo[1].task
  PROVE  Announced(a, t)
<1> DEFINE e == todo[1]
           frm == tasks[e.task].status
<1>1. /\ BoardOK /\ Head(todo) = e /\ e \in Event /\ e.tr \in Names /\ e.task \in Ids
      /\ tasks' = [tasks EXCEPT ![e.task] = e.new]
  <2>1. 1 \in 1 .. Len(todo)
    BY NextEvent
  <2>2. e.tr \in Names /\ e.task \in Ids
    BY <2>1 DEF Transits
  <2> QED
    BY <2>2, NextEvent DEF IInv, Fold, Names
<1>2. e.tr # "create" /\ e.tr # "update"
  BY <1>1 DEF Names
<1>3. /\ DOMAIN tasks' = Ids /\ Ids \subseteq Nat \ {0} /\ t \in Ids
      /\ \A x \in Ids : x # e.task => tasks'[x] = tasks[x]
  <2>1. t \in DOMAIN tasks'
    BY ToDoIsReady
  <2>2. Ids \subseteq Nat \ {0}
    BY <1>1, Positions
  <2>3. /\ DOMAIN tasks' = Ids
        /\ \A x \in Ids : x # e.task => tasks'[x] = tasks[x]
    BY <1>1 DEF Ids
  <2> QED
    BY <2>1, <2>2, <2>3
<1>4. tasks'[t] = tasks[t] /\ Unmet(tasks', t, StartGating) = {}
  BY <1>3, ToDoIsReady
<1> HIDE DEF e
<1>5. Unmet(tasks, t, StartGating) # {}
  <2>1. t \in DOMAIN tasks /\ t \in DOMAIN tasks'
    BY <1>3 DEF Ids
  <2> QED
    BY <1>4, <2>1, ToDoHangsOn
<1>6. PICK d \in tasks[t].deps : /\ d.type \in StartGating
                                 /\ ~DepSatisfied(d.type, tasks[d.task].status)
  BY <1>5 DEF Unmet
<1>7. DepSatisfied(d.type, tasks'[d.task].status)
  BY <1>4, <1>6 DEF Unmet
<1>8. d.task = e.task
  <2>1. d.task \in Ids
    BY <1>1, <1>3, <1>6 DEF BoardOK, Within
  <2> QED
    BY <1>3, <1>6, <1>7, <2>1
<1>9. NewlySatisfied(e, frm, tasks', t) /\ t \in Successors(tasks', e.task)
  BY <1>3, <1>4, <1>6, <1>7, <1>8 DEF NewlySatisfied, Successors
<1> HIDE DEF frm
<1>10. ASSUME NEW k \in WakeOn, k # "task_assigned", <<a, k>> \in Readiness(e, frm, tasks', t)
       PROVE  Announced(a, t)
  <2>1. Unlocks(e, frm, tasks', t)
    BY <1>2, <1>9, <1>10 DEF Unlocks
  <2>2. Items(e, frm, tasks')[a] # {}
    <3>1. DOMAIN tasks' \subseteq Nat /\ t \in DOMAIN tasks' /\ t # 0 /\ a # e.actor
      BY <1>1, <1>3
    <3> QED
      BY <1>10, <2>1, <3>1, ReasonRaisesItem
  <2>3. t \in Concerns(e, frm, tasks', a)
    <3>1. \E q \in Readiness(e, frm, tasks', t) : q[1] = a
      BY <1>10
    <3> QED
      BY <1>3, <2>1, <3>1 DEF Concerns
  <2> QED
    BY <1>2, <2>2, <2>3 DEF e, frm, Announced, From
<1>11. CASE tasks'[t].status = "assigned" /\ tasks'[t].assignee = a
  <2>1. <<a, "task_ready">> \in Readiness(e, frm, tasks', t)
    <3>1. Unblocked(tasks', t) /\ tasks'[t].status \notin Terminal
      BY <1>4, <1>11 DEF Unblocked, Terminal
    <3>2. <<a, "task_ready">> \in {<<tasks'[t].assignee, "task_ready">>}
      BY <1>11
    <3>3. ~OpenAndReady(tasks', t)
      BY <1>11 DEF OpenAndReady
    <3> QED
      BY <1>9, <3>1, <3>2, <3>3 DEF Readiness
  <2> QED
    BY <1>10, <2>1 DEF Announces
<1>12. CASE /\ "task_open" \in WakeOn /\ OpenAndReady(tasks', t) /\ tasks'[t].status = "open"
            /\ May(a, "claim", tasks'[t])
  <2>1. <<a, "task_open">> \in Readiness(e, frm, tasks', t)
    <3>1. ~Unblocked(tasks', t) /\ tasks'[t].status \notin Terminal
      BY <1>12 DEF Unblocked, Terminal
    <3>2. <<a, "task_open">> \in Claimers(tasks', t) \X {"task_open"}
      BY <1>12 DEF Claimers
    <3> QED
      BY <1>9, <1>12, <3>1, <3>2 DEF Readiness
  <2> QED
    BY <1>10, <1>12, <2>1
<1> QED
  BY <1>11, <1>12, ToDoIsReady

\* A new reviewer lets nobody start or claim anything.
LEMMA RevisionUnlocksNothing ==
  ASSUME IInv, Announces, Write, Updates, NEW a \in Agent, NEW t \in ToDo(tasks', a)
  PROVE  t \in ToDo(tasks, a)
<1> DEFINE e == todo[1]
<1>1. /\ BoardOK /\ e.tr = "update" /\ e.task \in Ids
      /\ e.new.status = tasks[e.task].status /\ e.new.assignee = tasks[e.task].assignee
      /\ e.new.creator = tasks[e.task].creator /\ e.new.deps = tasks[e.task].deps
      /\ tasks' = [tasks EXCEPT ![e.task] = e.new]
  BY NextEvent DEF IInv, Updates, Fold, Announces
<1> HIDE DEF e
<1>2. /\ DOMAIN tasks' = Ids
      /\ \A x \in Ids : /\ tasks'[x].status = tasks[x].status
                        /\ tasks'[x].assignee = tasks[x].assignee
                        /\ tasks'[x].creator = tasks[x].creator
                        /\ tasks'[x].deps = tasks[x].deps
  BY <1>1 DEF Ids
<1>3. t \in Ids /\ Unmet(tasks', t, StartGating) = {}
  BY <1>2, ToDoIsReady
<1>4. Unmet(tasks, t, StartGating) = {}
  <2>1. \A d \in tasks[t].deps : tasks'[d.task].status = tasks[d.task].status
    BY <1>1, <1>2, <1>3 DEF BoardOK, Within
  <2> QED
    BY <1>2, <1>3, <2>1, UnmetHangsOn
<1> QED
  BY <1>2, <1>3, <1>4, ToDoHangsOn DEF Ids

\* An event that is appended is about a task that is on the board then.
LEMMA EventIsOnBoard ==
  ASSUME IInv, Write, Creates \/ Updates \/ Transits
  PROVE  DOMAIN tasks' \subseteq Nat \ {0} /\ todo[1].task \in DOMAIN tasks'
<1> DEFINE e == todo[1]
<1>1. BoardOK /\ tasks' = Fold(e) /\ 1 \in 1 .. Len(todo)
  BY NextEvent DEF IInv
<1>2. Ids \subseteq Nat \ {0} /\ Ids = 1 .. Len(tasks) /\ Len(tasks) \in Nat
  BY <1>1, Positions DEF BoardOK
<1>3. CASE Creates
  <2>1. tasks' = Append(tasks, e.new) /\ e.task = Len(tasks) + 1
    BY <1>1, <1>3 DEF Creates, Fold
  <2>2. DOMAIN tasks' = 1 .. Len(tasks) + 1
    BY <1>1, <2>1, AppendProperties, LenProperties DEF BoardOK
  <2> QED
    BY <1>2, <2>1, <2>2
<1>4. CASE Updates \/ Transits
  <2>1. e.tr # "create" /\ e.task \in Ids
    BY <1>1, <1>4 DEF Updates, Transits, Names
  <2>2. tasks' = [tasks EXCEPT ![e.task] = e.new]
    BY <1>1, <2>1 DEF Fold
  <2> QED
    BY <1>2, <2>1, <2>2 DEF Ids
<1> QED
  BY <1>3, <1>4

(* An event that lets an agent start or claim tasks says so of each of     *)
(* them, whichever event it is, and raises an item for it, which holds     *)
(* where it has nothing else to say to this agent.                         *)
THEOREM UnlocksAreAnnounced ==
  ASSUME Announces
  PROVE  Spec => UnlockRaisesItem
<1> DEFINE e == Head(todo)
           items(a) == Items(e, From(e), tasks')[a]
           told(a) == Concerns(e, From(e), tasks', a)
           Woken(a) ==
             /\ ToDo(tasks', a) \ ToDo(tasks, a) \subseteq told(a)
             /\ \E i \in items(a) \cap pending'[a] :
                  told(a) \subseteq ToStart(tasks', a) \/ told(a) \subseteq ToClaim(tasks', a) =>
                    i.ref \in told(a) /\ StillRelevant(tasks', a, i)
<1>1. ASSUME IInv, [Next]_vars, NEW a \in Agent,
             ToDo(tasks', a) \ ToDo(tasks, a) # {}, a # Head(todo).actor
      PROVE  Woken(a)
  <2>1. PICK u \in ToDo(tasks', a) : u \notin ToDo(tasks, a)
    BY <1>1
  <2>2. Write
    BY <1>1, <2>1, OnlyWritingChanges
  <2>3. Creates \/ Updates \/ Transits
    BY <1>1, <2>2 DEF IInv, TodoOK, Write
  <2>4. e = todo[1]
    BY <1>1, <2>2, NextEvent
  <2>5. ASSUME NEW t \in ToDo(tasks', a), t \notin ToDo(tasks, a)
        PROVE  Announced(a, t)
    BY <1>1, <2>2, <2>3, <2>5, CreationAnnounces, OwnTransitionAnnounces,
       SuccessorIsAnnounced, RevisionUnlocksNothing
  <2>6. items(a) # {} /\ ToDo(tasks', a) \ ToDo(tasks, a) \subseteq told(a)
    BY <2>1, <2>4, <2>5 DEF Announced
  <2>7. items(a) \subseteq pending'[a]
    BY <2>2 DEF Write
  <2>8. DOMAIN tasks' \subseteq Nat \ {0} /\ e.task \in DOMAIN tasks'
    BY <1>1, <2>2, <2>3, <2>4, EventIsOnBoard
  <2>9. ASSUME NEW i \in items(a),
               told(a) \subseteq ToStart(tasks', a) \/ told(a) \subseteq ToClaim(tasks', a)
        PROVE  i.ref \in told(a) /\ StillRelevant(tasks', a, i)
    BY <2>8, <2>9, ItemHolds
  <2> HIDE DEF items, told
  <2> QED
    BY <2>6, <2>7, <2>9
<1>2. IInv /\ [Next]_vars =>
        [\A a \in Agent :
           (ToDo(tasks', a) \ ToDo(tasks, a) # {} /\ a # Head(todo).actor) => Woken(a)]_vars
  <2> HIDE DEF Woken
  <2> QED
    BY <1>1
<1> QED
  BY <1>2, BoardInvariant, PTL DEF Spec, UnlockRaisesItem
=============================================================================
