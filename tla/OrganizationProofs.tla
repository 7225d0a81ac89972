------------------------- MODULE OrganizationProofs -------------------------
(***************************************************************************)
(* What hiring, dismissing and amending can never do to the seats, to the  *)
(* rule set and to the tasks of who goes: for any agents, seats, contents, *)
(* rules and numbers of acts and deaths, where one process settles.        *)
(***************************************************************************)
EXTENDS Organization, SequenceTheorems, FiniteSetTheorems, TLAPS

-----------------------------------------------------------------------------
(* Facts on sequences that grow.                                           *)

\* A sequence of whatever: of its own elements.
IsSequence(s) == s \in Seq({s[i] : i \in DOMAIN s})

\* Whatever set a sequence was taken from, it is one of its own elements.
LEMMA SequenceIsOne ==
  ASSUME NEW T, NEW s \in Seq(T)
  PROVE  /\ IsSequence(s)
         /\ Len(s) \in Nat
         /\ DOMAIN s = 1..Len(s)
BY SeqOfRange, LenProperties DEF IsSequence, Range

LEMMA EmptyIsSequence == IsSequence(<<>>) /\ Len(<<>>) = 0 /\ DOMAIN <<>> = {}
<1>1. <<>> \in Seq({}) /\ Len(<<>>) = 0
  BY EmptySeq
<1>2. 1..0 = {}
  OBVIOUS
<1> QED
  BY <1>1, <1>2, SequenceIsOne

LEMMA TailPositions ==
  ASSUME NEW s, IsSequence(s), Len(s) > 0
  PROVE  /\ Head(s) = s[1]
         /\ IsSequence(Tail(s))
         /\ Len(Tail(s)) = Len(s) - 1
         /\ \A i \in 1..Len(s) - 1 : Tail(s)[i] = s[i + 1]
<1> DEFINE U == {s[i] : i \in DOMAIN s}
<1>1. s \in Seq(U) /\ s # <<>> /\ Head(s) = s[1]
  BY EmptySeq DEF IsSequence
<1> HIDE DEF U
<1> QED
  BY <1>1, HeadTailProperties, SequenceIsOne

\* What Append does to the positions of a sequence.
LEMMA AppendPositions ==
  ASSUME NEW s, IsSequence(s), NEW r
  PROVE  /\ IsSequence(Append(s, r))
         /\ Len(s) \in Nat
         /\ DOMAIN s = 1..Len(s)
         /\ DOMAIN Append(s, r) = 1..(Len(s) + 1)
         /\ \A i \in 1..Len(s) : Append(s, r)[i] = s[i]
         /\ Append(s, r)[Len(s) + 1] = r
<1> DEFINE T == {s[i] : i \in DOMAIN s} \cup {r}
<1>1. s \in Seq(T) /\ r \in T
  BY DEF IsSequence
<1> HIDE DEF T
<1>2. /\ Append(s, r) \in Seq(T) /\ Len(Append(s, r)) = Len(s) + 1
      /\ \A i \in 1..Len(s) : Append(s, r)[i] = s[i]
      /\ Append(s, r)[Len(s) + 1] = r
  BY <1>1, AppendProperties
<1>3. IsSequence(Append(s, r)) /\ DOMAIN Append(s, r) = 1..Len(Append(s, r))
  BY <1>2, SequenceIsOne
<1>4. Len(s) \in Nat /\ DOMAIN s = 1..Len(s)
  BY <1>1, LenProperties
<1> QED
  BY <1>2, <1>3, <1>4

\* One sequence after another.
LEMMA ConcatPositions ==
  ASSUME NEW s, IsSequence(s), NEW t, IsSequence(t)
  PROVE  /\ IsSequence(s \o t)
         /\ Len(s) \in Nat /\ Len(t) \in Nat /\ Len(s \o t) = Len(s) + Len(t)
         /\ \A i \in 1..Len(s) : (s \o t)[i] = s[i]
         /\ \A i \in 1..Len(t) : (s \o t)[Len(s) + i] = t[i]
<1> DEFINE U == {s[i] : i \in DOMAIN s} \cup {t[i] : i \in DOMAIN t}
<1>1. s \in Seq(U) /\ t \in Seq(U)
  BY DEF IsSequence
<1> HIDE DEF U
<1>2. Len(s) \in Nat /\ Len(t) \in Nat
  BY <1>1, LenProperties
<1>3. /\ s \o t \in Seq(U) /\ Len(s \o t) = Len(s) + Len(t)
      /\ \A i \in 1..Len(s) + Len(t) :
           (s \o t)[i] = IF i <= Len(s) THEN s[i] ELSE t[i - Len(s)]
  BY <1>1, ConcatProperties
<1>4. IsSequence(s \o t)
  BY <1>3, SequenceIsOne
<1>5. \A i \in 1..Len(t) : Len(s) + i \in 1..Len(s) + Len(t) /\ ~(Len(s) + i <= Len(s))
                           /\ Len(s) + i - Len(s) = i
  BY <1>2
<1>6. \A i \in 1..Len(s) : i \in 1..Len(s) + Len(t) /\ i <= Len(s)
  BY <1>2
<1> QED
  BY <1>2, <1>3, <1>4, <1>5, <1>6

-----------------------------------------------------------------------------
Manifests == [count : [Seat -> Nat], legislature : SUBSET Seat]
Content == Manifests \cup [approve : SUBSET {"hire", "dismiss"}]

Person == [seat : Seat \cup {NoOne}, group : BOOLEAN, boss : Agent \cup {NoOne}]

Goal == [status : {"open", "assigned", "in_progress", "in_review", "done", "cancelled"},
         assignee : Agent \cup {NoOne}]

Amendment ==
  [path : Path, content : Content, base : Content, proposer : Agent,
   votes : [Agent -> {"yes", "no", "none"}], status : {"open", "ratifying", "closed", "enacted"},
   late : BOOLEAN, approval : {"none", "requested", "approved", "rejected"}]

Act == [kind : {"hire", "dismiss"}, actor : Agent, member : Agent, seat : Seat \cup {NoOne},
        state : {"allow", "deny", "pending"},
        approval : {"none", "requested", "approved", "rejected"}]

RulesShape == files \in [Path -> Content] /\ manifest \in Manifests
RosterShape == roster \in [Agent -> Person]
BoardShape == board \in [Task -> Goal]
TodoShape ==
  /\ todo = [p \in Proc |-> IF p = Team THEN todo[Team] ELSE <<>>]
  /\ IsSequence(todo[Team])
AmendmentsShape ==
  /\ amendments \in Seq(Amendment)
  /\ \A i \in DOMAIN amendments : amendments[i].path = "manifest" => amendments[i].content \in Manifests
ActsShape ==
  /\ acts \in Seq(Act)
  /\ \A i \in DOMAIN acts : acts[i].kind = "hire" => acts[i].seat \in Seat

Shape == RulesShape /\ RosterShape /\ BoardShape /\ TodoShape /\ AmendmentsShape /\ ActsShape

-----------------------------------------------------------------------------
(* What the process that settles may be about to append.                   *)

\* Events after which the rule set is as before, and everybody in his seat.
Quiet == {"amendment_closed", "amendment_passed", "amendment_enacted", "approval_requested",
          "act_approval_requested", "task_unassigned", "org_enacted", "goal_met"}

Stays(e) == e.what \in Person /\ e.what.seat = roster[e.id].seat

Minor(e) ==
  \/ e.type \in Quiet
  \/ e.type = "member_updated" /\ e.id \in Member /\ Stays(e)

\* There is room for who is hired.
Hiring(s) ==
  /\ Len(s) = 1
  /\ s[1].type = "member_registered" /\ s[1].id \in Agent /\ s[1].what \in Person /\ s[1].what.seat \in Seat
  /\ Cardinality(Seated(s[1].what.seat)) < manifest.count[s[1].what.seat]

\* Whatever who is dismissed has on his hands is taken from him next.
Dismissing(s) ==
  /\ Len(s) > 0
  /\ s[1].type = "member_removed" /\ s[1].id \in Agent
  /\ \A n \in 2..Len(s) : s[n].type = "task_unassigned"
  /\ \A t \in Holds(s[1].id) : \E n \in 2..Len(s) : s[n] = Event("task_unassigned", t, "")

\* Amendment i may come into force as it is.
Due(i) ==
  LET am == amendments[i]
  IN  /\ am.base = files[am.path] /\ ~Blocked(am.path, am.content)
      /\ am.path \in Ratified => am.approval = "approved"

InForce(i) == [files EXCEPT ![amendments[i].path] = amendments[i].content]

Enacting(s, i) ==
  /\ Due(i)
  /\ Len(s) \in {1, 2}
  /\ Len(s) = 2 => s[1].type = "amendment_enacted" /\ s[1].id = i
  /\ Len(s) = 1 => amendments[i].status = "enacted"
  /\ s[Len(s)].type = "rule_version_activated" /\ s[Len(s)].what = InForce(i)

AboutTo(s) ==
  \/ \A n \in 1..Len(s) : Minor(s[n])
  \/ Hiring(s)
  \/ Dismissing(s)
  \/ \E i \in DOMAIN amendments : Enacting(s, i)

IInv == Shape /\ SeatsFit /\ AboutTo(todo[Team])
-----------------------------------------------------------------------------
(* Sets written down as sequences.                                         *)

LEMMA SetInSequence ==
  ASSUME NEW S, IsFiniteSet(S)
  PROVE  /\ IsSequence(SetToSeq(S))
         /\ \A n \in 1..Len(SetToSeq(S)) : SetToSeq(S)[n] \in S
         /\ \A x \in S : \E n \in 1..Len(SetToSeq(S)) : SetToSeq(S)[n] = x
<1> DEFINE k == Cardinality(S)
<1>1. k \in Nat /\ ExistsBijection(1..k, S)
  BY FS_CardinalityType
<1>2. \E f \in [1..k -> S] : IsInjective(f)
  BY <1>1 DEF ExistsBijection, Bijection, Injection, IsInjective
<1>3. SetToSeq(S) \in [1..k -> S] /\ IsInjective(SetToSeq(S))
  BY <1>2 DEF SetToSeq
<1>4. SetToSeq(S) \in Surjection(1..k, S)
  <2>1. SetToSeq(S) \in Injection(1..k, S)
    BY <1>3 DEF Injection, IsInjective
  <2>2. Cardinality(1..k) = k
    BY <1>1, FS_Interval
  <2> QED
    BY <2>1, <2>2, FS_Injection
<1> DEFINE s == SetToSeq(S)
<1>5. s \in [1..k -> S] /\ \A x \in S : \E n \in 1..k : s[n] = x
  BY <1>3, <1>4 DEF Surjection
<1> HIDE DEF s, k
<1>6. s \in Seq(S) /\ Len(s) = k
  BY <1>1, <1>5, SeqDef, LenProperties
<1>7. IsSequence(s)
  BY <1>6, SequenceIsOne
<1> QED
  BY <1>5, <1>6, <1>7 DEF s

LEMMA OneEvent ==
  ASSUME NEW e
  PROVE  IsSequence(<<e>>) /\ Len(<<e>>) = 1 /\ <<e>>[1] = e
<1>1. <<e>> \in Seq({e})
  OBVIOUS
<1> QED
  BY <1>1, SequenceIsOne

LEMMA TwoEvents ==
  ASSUME NEW e, NEW f
  PROVE  IsSequence(<<e, f>>) /\ Len(<<e, f>>) = 2 /\ <<e, f>>[1] = e /\ <<e, f>>[2] = f
<1>1. <<e, f>> \in Seq({e, f})
  OBVIOUS
<1> QED
  BY <1>1, SequenceIsOne

LEMMA OneThenOthers ==
  ASSUME NEW e, NEW q, IsSequence(q)
  PROVE  /\ IsSequence(<<e>> \o q) /\ Len(q) \in Nat /\ Len(<<e>> \o q) = 1 + Len(q)
         /\ (<<e>> \o q)[1] = e /\ \A n \in 1..Len(q) : (<<e>> \o q)[1 + n] = q[n]
<1> DEFINE g == <<e>>
<1>1. IsSequence(g)
  BY OneEvent
<1>2. Len(g) = 1 /\ g[1] = e
  BY OneEvent
<1> HIDE DEF g
<1>3. /\ IsSequence(g \o q) /\ Len(q) \in Nat /\ Len(g \o q) = Len(g) + Len(q)
      /\ \A n \in 1..Len(g) : (g \o q)[n] = g[n]
      /\ \A n \in 1..Len(q) : (g \o q)[Len(g) + n] = q[n]
  BY <1>1, ConcatPositions
<1>4. (g \o q)[1] = e
  BY <1>2, <1>3
<1> QED
  BY <1>2, <1>3, <1>4 DEF g

\* What an event says.
LEMMA Said ==
  ASSUME NEW type, NEW id, NEW what
  PROVE  /\ Event(type, id, what).type = type
         /\ Event(type, id, what).id = id
         /\ Event(type, id, what).what = what
BY DEF Event

-----------------------------------------------------------------------------
(* What does not touch what is about to be appended.                       *)

SameSeats == \A a \in Agent : roster'[a].seat = roster[a].seat

GoOn ==
  \A i \in DOMAIN amendments :
    /\ i \in DOMAIN amendments'
    /\ amendments'[i].path = amendments[i].path
    /\ amendments'[i].content = amendments[i].content
    /\ amendments'[i].base = amendments[i].base
    /\ amendments[i].approval = "approved" => amendments'[i].approval = "approved"
    /\ amendments[i].status = "enacted" => amendments'[i].status = "enacted"

LEMMA SeatsStay ==
  ASSUME SameSeats
  PROVE  Member' = Member /\ \A s : Seated(s)' = Seated(s)
BY DEF SameSeats, Member, Seated

LEMMA StillFits ==
  ASSUME SeatsFit, SameSeats, UNCHANGED files
  PROVE  SeatsFit'
BY SeatsStay DEF SeatsFit, manifest

LEMMA StillMinor ==
  ASSUME NEW s, SameSeats, \A n \in 1..Len(s) : Minor(s[n]), todo'[Team] = s
  PROVE  AboutTo(todo[Team])'
<1>1. \A n \in 1..Len(s) : Minor(s[n])'
  BY SeatsStay DEF Minor, Stays, SameSeats, Member
<1> QED
  BY <1>1 DEF AboutTo, Minor, Stays

LEMMA StillAboutTo ==
  ASSUME NEW s, AboutTo(s), todo'[Team] = s, SameSeats, GoOn, UNCHANGED <<files, board>>
  PROVE  AboutTo(todo[Team])'
<1>1. CASE \A n \in 1..Len(s) : Minor(s[n])
  BY <1>1, StillMinor
<1>2. CASE Hiring(s)
  <2>1. Hiring(todo[Team])'
    BY <1>2, SeatsStay DEF Hiring, manifest
  <2> QED
    BY <2>1 DEF AboutTo
<1>3. CASE Dismissing(s)
  <2>1. Dismissing(todo[Team])'
    BY <1>3 DEF Dismissing, Holds
  <2> QED
    BY <2>1 DEF AboutTo
<1>4. CASE \E i \in DOMAIN amendments : Enacting(s, i)
  <2>1. PICK i \in DOMAIN amendments : Enacting(s, i)
    BY <1>4
  <2>2. Due(i)'
    BY <2>1, SeatsStay DEF Enacting, Due, GoOn, Blocked, Misfits
  <2>3. Enacting(todo[Team], i)'
    BY <2>1, <2>2 DEF Enacting, InForce, GoOn
  <2> QED
    BY <2>1, <2>3 DEF AboutTo, GoOn
<1> QED
  BY <1>1, <1>2, <1>3, <1>4 DEF AboutTo
-----------------------------------------------------------------------------
(* What acts and the settling process set out to append.                   *)

Sound(s) == IsSequence(s) /\ AboutTo(s)

LEMMA NothingIsSound == Sound(<<>>)
BY EmptyIsSequence DEF Sound, AboutTo

LEMMA OneMinorIsSound ==
  ASSUME NEW e, Minor(e)
  PROVE  Sound(<<e>>)
BY OneEvent DEF Sound, AboutTo

LEMMA EnactIsSound ==
  ASSUME NEW i \in DOMAIN amendments,
         amendments[i].path \in Ratified => amendments[i].approval = "approved"
  PROVE  Sound(Enact(i))
<1> DEFINE close == Event("amendment_closed", i, files)
           enact == Event("amendment_enacted", i, files)
           activate == Event("rule_version_activated", i, InForce(i))
<1>1. Minor(close)
  BY Said DEF Minor, Quiet
<1>2. /\ enact.type = "amendment_enacted" /\ enact.id = i
      /\ activate.type = "rule_version_activated" /\ activate.what = InForce(i)
  BY Said
<1>3. Enact(i) = IF Due(i) THEN <<enact, activate>> ELSE <<close>>
  BY DEF Enact, Due, InForce
<1> HIDE DEF close, enact, activate
<1>4. CASE Due(i)
  <2>1. Enacting(<<enact, activate>>, i)
    BY <1>2, <1>4, TwoEvents DEF Enacting
  <2> QED
    BY <1>3, <1>4, <2>1, TwoEvents DEF Sound, AboutTo
<1>5. CASE ~Due(i)
  BY <1>1, <1>3, <1>5, OneMinorIsSound
<1> QED
  BY <1>4, <1>5

LEMMA ConsequencesAreSound ==
  ASSUME AmendmentsShape, NEW i \in DOMAIN amendments
  PROVE  Sound(Consequences(i))
<1> DEFINE am == amendments[i]
           close == Event("amendment_closed", i, files)
           pass == Event("amendment_passed", i, files)
           ask == Event("approval_requested", i, files)
<1>1. Minor(close) /\ Minor(pass) /\ Minor(ask)
  BY Said DEF Minor, Quiet
<1>2. \/ Consequences(i) \in {<<>>, <<close>>, <<pass, ask>>}
      \/ /\ Consequences(i) = Enact(i)
         /\ am.path \notin Ratified \/ am.approval = "approved"
  BY DEF Consequences
<1> HIDE DEF close, pass, ask
<1>3. Sound(<<pass, ask>>)
  BY <1>1, TwoEvents DEF Sound, AboutTo
<1> QED
  BY <1>1, <1>2, <1>3, NothingIsSound, OneMinorIsSound, EnactIsSound

LEMMA BossIs ==
  ASSUME NEW a \in Agent, NEW s \in Seat
  PROVE  Boss(a, s) \in Agent \cup {NoOne}
<1> DEFINE bosses == IF ReportsTo[s] = NoOne THEN {} ELSE Seated(ReportsTo[s]) \ {a}
<1>1. bosses \subseteq Agent
  BY DEF Seated
<1>2. Boss(a, s) = IF bosses = {} THEN NoOne ELSE CHOOSE b \in bosses : TRUE
  BY DEF Boss
<1> HIDE DEF bosses
<1> QED
  BY <1>1, <1>2

LEMMA InSeatIs ==
  ASSUME NEW a \in Agent, NEW s \in Seat
  PROVE  InSeat(a, s) \in Person /\ InSeat(a, s).seat = s
<1>1. (s \in manifest.legislature) \in BOOLEAN
  OBVIOUS
<1> QED
  BY <1>1, BossIs DEF InSeat, Person

LEMMA DesiredIs ==
  ASSUME RosterShape, NEW a \in Member
  PROVE  Desired(a) \in Person /\ Desired(a).seat = roster[a].seat
<1>1. a \in Agent /\ roster[a] \in Person /\ roster[a].seat \in Seat
  BY DEF Member, RosterShape, Person
<1> QED
  BY <1>1, InSeatIs DEF Desired, Person

LEMMA EffectsAreSound ==
  ASSUME Shape, NEW i, NEW k \in Act, k.kind = "hire" => k.seat \in Seat
  PROVE  Sound(Effects(i, k))
<1> DEFINE ask == Event("act_approval_requested", i, "")
           hired == Event("member_registered", k.member, InSeat(k.member, k.seat))
           gone == Event("member_removed", k.member, "")
           taken(t) == Event("task_unassigned", t, "")
           S == {taken(t) : t \in Holds(k.member)}
<1>1. \/ Effects(i, k) \in {<<>>, <<ask>>}
      \/ Effects(i, k) = <<hired>> /\ k.kind = "hire" /\ Decision(k) = "allow"
      \/ Effects(i, k) = <<gone>> \o SetToSeq(S)
  BY DEF Effects
<1>2. Minor(ask) /\ gone.type = "member_removed" /\ gone.id = k.member
  <2>1. ask.type = "act_approval_requested"
    BY DEF Event
  <2>2. gone.type = "member_removed"
    BY DEF Event
  <2>3. gone.id = k.member
    BY DEF Event
  <2> HIDE DEF ask, gone
  <2> QED
    BY <2>1, <2>2, <2>3 DEF Minor, Quiet
<1>3. \A t : taken(t).type = "task_unassigned"
  BY DEF Event
<1>4. ASSUME k.kind = "hire", Decision(k) = "allow" PROVE Sound(<<hired>>)
  <2>1. Fits(k)
    BY <1>4 DEF Decision
  <2>2. k.member \in Agent /\ k.seat \in Seat
    BY <1>4 DEF Act
  <2>3. /\ hired.type = "member_registered" /\ hired.id = k.member
        /\ hired.what \in Person /\ hired.what.seat = k.seat
    BY <2>2, Said, InSeatIs
  <2>4. Cardinality(Seated(k.seat)) < manifest.count[k.seat]
    BY <1>4, <2>1 DEF Fits
  <2> HIDE DEF hired
  <2>5. Hiring(<<hired>>)
    BY <2>2, <2>3, <2>4, OneEvent DEF Hiring
  <2> QED
    BY <2>5, OneEvent DEF Sound, AboutTo
<1>5. IsFiniteSet(S)
  <2>1. IsFiniteSet(Holds(k.member))
    BY OrganizationAssumption, FS_Subset DEF Holds
  <2> DEFINE f == [t \in Holds(k.member) |-> taken(t)]
  <2> HIDE DEF taken
  <2>2. f \in Surjection(Holds(k.member), S)
    BY DEF Surjection
  <2> QED
    BY <2>1, <2>2, FS_Surjection
<1>6. Sound(<<gone>> \o SetToSeq(S))
  <2> HIDE DEF gone, taken
  <2> DEFINE q == SetToSeq(S)
             s == <<gone>> \o q
  <2>1. /\ IsSequence(q) /\ \A n \in 1..Len(q) : q[n] \in S
        /\ \A x \in S : \E n \in 1..Len(q) : q[n] = x
    BY <1>5, SetInSequence
  <2> HIDE DEF q
  <2>2. /\ IsSequence(s) /\ Len(q) \in Nat /\ Len(s) = 1 + Len(q)
        /\ s[1] = gone /\ \A n \in 1..Len(q) : s[1 + n] = q[n]
    BY <2>1, OneThenOthers
  <2> HIDE DEF s
  <2>3. \A n \in 2..Len(s) : s[n].type = "task_unassigned"
    <3> TAKE n \in 2..Len(s)
    <3>1. n - 1 \in 1..Len(q) /\ 1 + (n - 1) = n
      BY <2>2
    <3>2. q[n - 1] \in S /\ s[n] = q[n - 1]
      BY <2>1, <2>2, <3>1
    <3>3. PICK t \in Holds(k.member) : s[n] = taken(t)
      BY <3>2
    <3> QED
      BY <1>3, <3>3
  <2>4. \A t \in Holds(k.member) : \E n \in 2..Len(s) : s[n] = taken(t)
    <3> TAKE t \in Holds(k.member)
    <3>1. PICK n \in 1..Len(q) : q[n] = taken(t)
      BY <2>1
    <3>2. 1 + n \in 2..Len(s)
      BY <2>2
    <3> QED
      BY <2>2, <3>1, <3>2
  <2>5. Len(s) > 0
    BY <2>2
  <2>6. k.member \in Agent
    BY DEF Act
  <2>7. Dismissing(s)
    BY <1>2, <2>2, <2>3, <2>4, <2>5, <2>6 DEF Dismissing, taken
  <2> QED
    BY <2>2, <2>7 DEF Sound, AboutTo, s, q
<1> HIDE DEF ask, hired, gone, S
<1> QED
  BY <1>1, <1>2, <1>4, <1>6, NothingIsSound, OneMinorIsSound

AllMinor(s) == IsSequence(s) /\ \A n \in 1..Len(s) : Minor(s[n])

LEMMA AllMinorOne ==
  ASSUME NEW e, Minor(e)
  PROVE  AllMinor(<<e>>)
BY OneEvent DEF AllMinor

LEMMA AllMinorNone == AllMinor(<<>>)
BY EmptyIsSequence DEF AllMinor

LEMMA AllMinorConcat ==
  ASSUME NEW s, NEW t, AllMinor(s), AllMinor(t)
  PROVE  AllMinor(s \o t)
<1>1. IsSequence(s) /\ IsSequence(t)
  BY DEF AllMinor
<1>2. /\ IsSequence(s \o t) /\ Len(s) \in Nat /\ Len(t) \in Nat /\ Len(s \o t) = Len(s) + Len(t)
      /\ \A n \in 1..Len(s) : (s \o t)[n] = s[n]
      /\ \A n \in 1..Len(t) : (s \o t)[Len(s) + n] = t[n]
  BY <1>1, ConcatPositions
<1>3. ASSUME NEW n \in 1..Len(s \o t) PROVE Minor((s \o t)[n])
  <2>1. CASE n \in 1..Len(s)
    BY <1>2, <2>1 DEF AllMinor
  <2>2. CASE n \notin 1..Len(s)
    <3>1. n - Len(s) \in 1..Len(t) /\ Len(s) + (n - Len(s)) = n
      BY <1>2, <2>2
    <3>2. (s \o t)[n] = t[n - Len(s)]
      BY <1>2, <3>1
    <3> QED
      BY <3>1, <3>2 DEF AllMinor
  <2> QED
    BY <2>1, <2>2
<1> QED
  BY <1>2, <1>3 DEF AllMinor

LEMMA OrgConsequencesAreSound ==
  ASSUME RosterShape
  PROVE  Sound(OrgConsequences)
<1> DEFINE update(a) == Event("member_updated", a, Desired(a))
           S == {update(a) : a \in Lagging}
           announce == Event("org_enacted", "", manifest)
           met == Event("goal_met", "", Met)
           B == IF enacted # manifest THEN <<announce>> ELSE <<>>
           C == IF Met # goalMet THEN <<met>> ELSE <<>>
<1>1. OrgConsequences = SetToSeq(S) \o B \o C
  BY DEF OrgConsequences
<1>2. announce.type = "org_enacted"
  BY DEF Event
<1>3. met.type = "goal_met"
  BY DEF Event
<1>4. \A a \in Lagging : Minor(update(a))
  <2> TAKE a \in Lagging
  <2>1. a \in Member
    BY DEF Lagging
  <2>2. update(a).type = "member_updated" /\ update(a).id = a /\ update(a).what = Desired(a)
    BY Said
  <2> HIDE DEF update
  <2> QED
    BY <2>1, <2>2, DesiredIs DEF Minor, Stays
<1> HIDE DEF announce, met, update
<1>5. AllMinor(B) /\ AllMinor(C)
  <2>1. Minor(announce) /\ Minor(met)
    BY <1>2, <1>3 DEF Minor, Quiet
  <2> QED
    BY <2>1, AllMinorOne, AllMinorNone
<1>6. AllMinor(SetToSeq(S))
  <2>1. IsFiniteSet(Lagging)
    BY AmendmentsAssumption, FS_Subset DEF Lagging, Member
  <2> DEFINE f == [a \in Lagging |-> update(a)]
  <2>2. f \in Surjection(Lagging, S)
    BY DEF Surjection
  <2>3. IsFiniteSet(S)
    BY <2>1, <2>2, FS_Surjection
  <2>4. \A x \in S : Minor(x)
    BY <1>4
  <2> HIDE DEF S
  <2> QED
    BY <2>3, <2>4, SetInSequence DEF AllMinor
<1> HIDE DEF S, B, C
<1>7. AllMinor(SetToSeq(S) \o B)
  BY <1>5, <1>6, AllMinorConcat
<1>8. AllMinor(OrgConsequences)
  BY <1>1, <1>5, <1>7, AllMinorConcat
<1> QED
  BY <1>8 DEF AllMinor, Sound, AboutTo

-----------------------------------------------------------------------------
(* Steps that append nothing.                                              *)

LEMMA SetsOut ==
  ASSUME IInv, NEW s, Sound(s), todo' = [todo EXCEPT ![Team] = s], ActsShape',
         UNCHANGED <<instVars, board>>
  PROVE  IInv'
<1>1. Team \in Proc /\ todo = [p \in Proc |-> IF p = Team THEN todo[Team] ELSE <<>>]
  BY AmendmentsAssumption DEF IInv, Shape, TodoShape
<1>2. todo'[Team] = s /\ todo' = [p \in Proc |-> IF p = Team THEN s ELSE <<>>]
  BY <1>1
<1>3. TodoShape'
  BY <1>2 DEF TodoShape, Sound
<1>4. SameSeats /\ GoOn /\ UNCHANGED <<files, roster, amendments>>
  BY DEF SameSeats, GoOn, instVars
<1>5. AboutTo(todo[Team])'
  BY <1>2, <1>4, StillAboutTo DEF Sound
<1>6. RulesShape' /\ RosterShape' /\ BoardShape' /\ AmendmentsShape'
  BY <1>4 DEF IInv, Shape, RulesShape, RosterShape, BoardShape, AmendmentsShape, manifest
<1> QED
  BY <1>3, <1>4, <1>5, <1>6, StillFits DEF IInv, Shape

LEMMA LeavesSeats ==
  ASSUME IInv, UNCHANGED <<files, roster, todo>>, AmendmentsShape', ActsShape', BoardShape',
         Idle(Team) \/ (GoOn /\ UNCHANGED board)
  PROVE  IInv'
<1>1. SameSeats
  BY DEF SameSeats
<1>2. PICK s : s = todo[Team]
  OBVIOUS
<1>3. AboutTo(todo[Team])'
  <2>1. CASE Idle(Team)
    <3>1. \A n \in 1..Len(<<>>) : Minor(<<>>[n])
      BY EmptyIsSequence
    <3>2. todo'[Team] = <<>>
      BY <2>1 DEF Idle
    <3> QED
      BY <1>1, <3>1, <3>2, StillMinor
  <2>2. CASE GoOn /\ UNCHANGED board
    BY <1>1, <1>2, <2>2, StillAboutTo DEF IInv
  <2> QED
    BY <2>1, <2>2
<1>4. RulesShape' /\ RosterShape' /\ TodoShape'
  BY DEF IInv, Shape, RulesShape, RosterShape, TodoShape, manifest
<1> QED
  BY <1>1, <1>3, <1>4, StillFits DEF IInv, Shape

\* One amendment changes, in what may change.
LEMMA AmendmentChanges ==
  ASSUME AmendmentsShape, NEW i, NEW x, amendments' = [amendments EXCEPT ![i] = x],
         i \in DOMAIN amendments =>
           /\ x \in Amendment
           /\ x.path = amendments[i].path /\ x.content = amendments[i].content
           /\ x.base = amendments[i].base
  PROVE  /\ AmendmentsShape'
         /\ DOMAIN amendments' = DOMAIN amendments
         /\ \A j \in DOMAIN amendments : amendments'[j] = IF j = i THEN x ELSE amendments[j]
<1>1. amendments \in Seq(Amendment) /\ DOMAIN amendments = 1..Len(amendments)
  BY SequenceIsOne DEF AmendmentsShape
<1>2. CASE i \in DOMAIN amendments
  <2>1. amendments' \in Seq(Amendment)
    BY <1>1, <1>2, ExceptSeq
  <2> QED
    BY <1>1, <1>2, <2>1 DEF AmendmentsShape
<1>3. CASE i \notin DOMAIN amendments
  <2>1. amendments' = amendments
    BY <1>1, <1>3
  <2> QED
    BY <1>3, <2>1 DEF AmendmentsShape
<1> QED
  BY <1>2, <1>3

LEMMA ProposeKeeps ==
  ASSUME IInv, Propose, UNCHANGED orgVars
  PROVE  IInv'
<1>1. PICK a \in Voters, path \in Path : \E k \in DOMAIN Contents[path] :
        /\ Idle(Team)
        /\ amendments' = Append(amendments,
             [path |-> path, content |-> Contents[path][k], base |-> files[path], proposer |-> a,
              votes |-> [x \in Agent |-> IF x = a THEN "yes" ELSE "none"],
              status |-> "open", late |-> FALSE, approval |-> "none"])
        /\ UNCHANGED <<files, roster, todo, crashes>>
  BY DEF Propose
<1>2. PICK k \in DOMAIN Contents[path] :
        /\ Idle(Team)
        /\ amendments' = Append(amendments,
             [path |-> path, content |-> Contents[path][k], base |-> files[path], proposer |-> a,
              votes |-> [x \in Agent |-> IF x = a THEN "yes" ELSE "none"],
              status |-> "open", late |-> FALSE, approval |-> "none"])
        /\ UNCHANGED <<files, roster, todo, crashes>>
  BY <1>1
<1>3. Idle(Team) /\ UNCHANGED <<files, roster, todo>>
  BY <1>2
<1> DEFINE am == [path |-> path, content |-> Contents[path][k], base |-> files[path], proposer |-> a,
                  votes |-> [x \in Agent |-> IF x = a THEN "yes" ELSE "none"],
                  status |-> "open", late |-> FALSE, approval |-> "none"]
<1>4. /\ Contents[path][k] \in Content
      /\ path = "manifest" => Contents[path][k] \in Manifests
  BY AmendmentsAssumption DEF Path, Content, Manifests
<1>5. am \in Amendment /\ am.path = path /\ am.content = Contents[path][k]
  BY <1>4 DEF IInv, Shape, RulesShape, Amendment, Voters, Member
<1>6. amendments' = Append(amendments, am) /\ amendments \in Seq(Amendment)
  BY <1>2 DEF IInv, Shape, AmendmentsShape
<1> HIDE DEF am
<1>7. /\ amendments' \in Seq(Amendment)
      /\ DOMAIN amendments = 1..Len(amendments) /\ DOMAIN amendments' = 1..Len(amendments) + 1
      /\ \A i \in DOMAIN amendments : amendments'[i] = amendments[i]
      /\ amendments'[Len(amendments) + 1] = am
  BY <1>5, <1>6, SequenceIsOne, AppendPositions
<1>8. AmendmentsShape'
  BY <1>4, <1>5, <1>7 DEF IInv, Shape, AmendmentsShape
<1>9. ActsShape' /\ BoardShape'
  BY DEF IInv, Shape, ActsShape, BoardShape, orgVars
<1> QED
  BY <1>3, <1>8, <1>9, LeavesSeats

\* What is done to an amendment that is there.
LEMMA ActsOnAmendmentKeep ==
  ASSUME IInv, NEW i \in DOMAIN amendments, NEW p \in Proc,
         Vote(i) \/ Withdraw(i) \/ Late(i) \/ Ratify(p, i), UNCHANGED orgVars
  PROVE  IInv'
<1> DEFINE am == amendments[i]
<1>1. am \in Amendment /\ AmendmentsShape
  BY DEF IInv, Shape, AmendmentsShape
<1>2. ActsShape' /\ BoardShape' /\ UNCHANGED <<files, roster, todo, board>>
  BY DEF IInv, Shape, ActsShape, BoardShape, orgVars, Vote, Withdraw, Late, Ratify
<1>3. CASE Vote(i)
  <2>1. PICK a \in Voters, v \in {"yes", "no"} : amendments' = [amendments EXCEPT ![i].votes[a] = v]
    BY <1>3 DEF Vote
  <2> DEFINE x == [am EXCEPT !.votes[a] = v]
  <2>2. amendments' = [amendments EXCEPT ![i] = x]
    BY <2>1
  <2>3. x \in Amendment /\ x.path = am.path /\ x.content = am.content /\ x.base = am.base
    BY <1>1 DEF Amendment
  <2> HIDE DEF x
  <2>4. AmendmentsShape'
    BY <1>1, <2>2, <2>3, AmendmentChanges
  <2> QED
    BY <1>2, <1>3, <2>4, LeavesSeats DEF Vote
<1>4. CASE Withdraw(i)
  <2> DEFINE x == [am EXCEPT !.status = "closed"]
  <2>1. amendments' = [amendments EXCEPT ![i] = x]
    BY <1>4 DEF Withdraw
  <2>2. x \in Amendment /\ x.path = am.path /\ x.content = am.content /\ x.base = am.base
    BY <1>1 DEF Amendment
  <2> HIDE DEF x
  <2>3. AmendmentsShape'
    BY <1>1, <2>1, <2>2, AmendmentChanges
  <2> QED
    BY <1>2, <1>4, <2>3, LeavesSeats DEF Withdraw
<1>5. CASE Late(i)
  <2> DEFINE x == [am EXCEPT !.late = TRUE]
  <2>1. amendments' = [amendments EXCEPT ![i] = x]
    BY <1>5 DEF Late
  <2>2. /\ x \in Amendment /\ x.path = am.path /\ x.content = am.content /\ x.base = am.base
        /\ x.approval = am.approval /\ x.status = am.status
    BY <1>1 DEF Amendment
  <2> HIDE DEF x
  <2>3. /\ AmendmentsShape' /\ DOMAIN amendments' = DOMAIN amendments
        /\ \A j \in DOMAIN amendments : amendments'[j] = IF j = i THEN x ELSE amendments[j]
    BY <1>1, <2>1, <2>2, AmendmentChanges
  <2>4. GoOn
    BY <2>2, <2>3 DEF GoOn
  <2> QED
    BY <1>2, <2>3, <2>4, LeavesSeats
<1>6. CASE Ratify(p, i)
  <2>1. PICK d \in {"approved", "rejected"} : amendments' = [amendments EXCEPT ![i].approval = d]
    BY <1>6 DEF Ratify
  <2> DEFINE x == [am EXCEPT !.approval = d]
  <2>2. amendments' = [amendments EXCEPT ![i] = x] /\ am.approval = "requested"
    BY <1>6, <2>1 DEF Ratify
  <2>3. /\ x \in Amendment /\ x.path = am.path /\ x.content = am.content /\ x.base = am.base
        /\ x.status = am.status
    BY <1>1 DEF Amendment
  <2> HIDE DEF x
  <2>4. /\ AmendmentsShape' /\ DOMAIN amendments' = DOMAIN amendments
        /\ \A j \in DOMAIN amendments : amendments'[j] = IF j = i THEN x ELSE amendments[j]
    BY <1>1, <2>2, <2>3, AmendmentChanges
  <2>5. GoOn
    BY <2>2, <2>3, <2>4 DEF GoOn
  <2> QED
    BY <1>2, <2>4, <2>5, LeavesSeats
<1> QED
  BY <1>3, <1>4, <1>5, <1>6

LEMMA SettleKeeps ==
  ASSUME IInv, Settling = {Team}, NEW p \in Proc, NEW i \in DOMAIN amendments, Settle(p, i),
         UNCHANGED orgVars
  PROVE  IInv'
<1>1. PICK s : s = Consequences(i)
  OBVIOUS
<1>2. Sound(s)
  BY <1>1, ConsequencesAreSound DEF IInv, Shape
<1>3. todo' = [todo EXCEPT ![Team] = s] /\ UNCHANGED instVars
  BY <1>1 DEF Settle
<1>4. ActsShape' /\ UNCHANGED board
  BY DEF IInv, Shape, ActsShape, orgVars
<1> QED
  BY <1>2, <1>3, <1>4, SetsOut

LEMMA OrgSettleKeeps ==
  ASSUME IInv, Settling = {Team}, NEW p \in Proc, OrgSettle(p)
  PROVE  IInv'
<1>1. PICK s : s = OrgConsequences
  OBVIOUS
<1>2. Sound(s)
  BY <1>1, OrgConsequencesAreSound DEF IInv, Shape
<1>3. todo' = [todo EXCEPT ![Team] = s] /\ UNCHANGED instVars
  BY <1>1 DEF OrgSettle
<1>4. ActsShape' /\ UNCHANGED board
  BY DEF IInv, Shape, ActsShape, orgVars, OrgSettle
<1> QED
  BY <1>2, <1>3, <1>4, SetsOut

LEMMA DecisionIs ==
  ASSUME NEW k
  PROVE  Decision(k) \in {"allow", "deny", "pending"}
BY DEF Decision

LEMMA SubmitKeeps ==
  ASSUME IInv, Submit
  PROVE  IInv'
<1>1. PICK kind \in {"hire", "dismiss"}, x \in Agent, a \in Agent :
        \E s \in IF kind = "hire" THEN Seat ELSE {NoOne} :
          LET k == [kind |-> kind, actor |-> x, member |-> a, seat |-> s,
                    state |-> "pending", approval |-> "none"]
          IN  /\ Idle(Team) /\ Len(acts) + Len(amendments) < MaxActs
              /\ Decision(k) # "deny"
              /\ acts' = Append(acts, [k EXCEPT !.state = Decision(k)])
              /\ todo' = [todo EXCEPT ![Team] = Effects(Len(acts) + 1, k)]
              /\ UNCHANGED <<instVars, ever, board, enacted, goalMet, hist, crashes>>
  BY DEF Submit
<1>2. PICK s \in IF kind = "hire" THEN Seat ELSE {NoOne} :
          LET k == [kind |-> kind, actor |-> x, member |-> a, seat |-> s,
                    state |-> "pending", approval |-> "none"]
          IN  /\ Idle(Team) /\ Len(acts) + Len(amendments) < MaxActs
              /\ Decision(k) # "deny"
              /\ acts' = Append(acts, [k EXCEPT !.state = Decision(k)])
              /\ todo' = [todo EXCEPT ![Team] = Effects(Len(acts) + 1, k)]
              /\ UNCHANGED <<instVars, ever, board, enacted, goalMet, hist, crashes>>
  BY <1>1
<1> DEFINE k == [kind |-> kind, actor |-> x, member |-> a, seat |-> s,
                 state |-> "pending", approval |-> "none"]
<1>3. k \in Act /\ (k.kind = "hire" => k.seat \in Seat)
  BY DEF Act
<1>4. PICK q : q = Effects(Len(acts) + 1, k)
  OBVIOUS
<1>5. Sound(q)
  BY <1>3, <1>4, EffectsAreSound DEF IInv
<1>6. PICK d \in {"allow", "deny", "pending"} : d = Decision(k)
  BY DecisionIs
<1> DEFINE act == [k EXCEPT !.state = d]
<1>7. act \in Act /\ (act.kind = "hire" => act.seat \in Seat)
  BY <1>3 DEF Act
<1>8. /\ acts' = Append(acts, act) /\ todo' = [todo EXCEPT ![Team] = q]
      /\ UNCHANGED <<instVars, board>>
  BY <1>2, <1>4, <1>6
<1>9. ActsShape'
  <2> HIDE DEF act
  <2>1. acts \in Seq(Act) /\ acts' = Append(acts, act)
    BY <1>8 DEF IInv, Shape, ActsShape
  <2>2. /\ acts' \in Seq(Act)
        /\ DOMAIN acts = 1..Len(acts) /\ DOMAIN acts' = 1..Len(acts) + 1
        /\ \A i \in DOMAIN acts : acts'[i] = acts[i]
        /\ acts'[Len(acts) + 1] = act
    BY <1>7, <2>1, SequenceIsOne, AppendPositions
  <2> QED
    BY <1>7, <2>2 DEF IInv, Shape, ActsShape
<1> QED
  BY <1>5, <1>8, <1>9, SetsOut

LEMMA ActChanges ==
  ASSUME ActsShape, NEW i, NEW x, acts' = [acts EXCEPT ![i] = x],
         i \in DOMAIN acts => x \in Act /\ (x.kind = "hire" => x.seat \in Seat)
  PROVE  ActsShape'
<1>1. acts \in Seq(Act) /\ DOMAIN acts = 1..Len(acts)
  BY SequenceIsOne DEF ActsShape
<1>2. CASE i \in DOMAIN acts
  <2>1. acts' \in Seq(Act)
    BY <1>1, <1>2, ExceptSeq
  <2> QED
    BY <1>1, <1>2, <2>1 DEF ActsShape
<1>3. CASE i \notin DOMAIN acts
  <2>1. acts' = acts
    BY <1>1, <1>3
  <2> QED
    BY <1>3, <2>1 DEF ActsShape
<1> QED
  BY <1>2, <1>3

LEMMA DecideActKeeps ==
  ASSUME IInv, NEW p \in Proc, NEW i \in DOMAIN acts, DecideAct(p, i)
  PROVE  IInv'
<1>1. PICK d \in {"approved", "rejected"} : acts' = [acts EXCEPT ![i].approval = d]
  BY DEF DecideAct
<1> DEFINE x == [acts[i] EXCEPT !.approval = d]
<1>2. acts' = [acts EXCEPT ![i] = x]
  BY <1>1
<1>3. acts[i] \in Act /\ (acts[i].kind = "hire" => acts[i].seat \in Seat)
  BY DEF IInv, Shape, ActsShape
<1>4. x \in Act /\ (x.kind = "hire" => x.seat \in Seat)
  BY <1>3 DEF Act
<1> HIDE DEF x
<1>5. ActsShape'
  BY <1>2, <1>4, ActChanges DEF IInv, Shape
<1>6. UNCHANGED <<files, roster, amendments, todo, board>>
  BY DEF DecideAct, instVars
<1>7. AmendmentsShape' /\ BoardShape' /\ GoOn
  BY <1>6 DEF IInv, Shape, AmendmentsShape, BoardShape, GoOn
<1> QED
  BY <1>5, <1>6, <1>7, LeavesSeats

LEMMA ResolveKeeps ==
  ASSUME IInv, Settling = {Team}, NEW p \in Proc, NEW i \in DOMAIN acts, Resolve(p, i)
  PROVE  IInv'
<1>1. acts[i] \in Act /\ (acts[i].kind = "hire" => acts[i].seat \in Seat)
  BY DEF IInv, Shape, ActsShape
<1>2. PICK s : s = Effects(i, acts[i])
  OBVIOUS
<1>3. Sound(s)
  <2>1. PICK k : k = acts[i]
    OBVIOUS
  <2> QED
    BY <1>1, <1>2, <2>1, EffectsAreSound DEF IInv
<1>4. PICK d \in {"allow", "deny", "pending"} : d = Decision(acts[i])
  BY DecisionIs
<1> DEFINE x == [acts[i] EXCEPT !.state = d]
<1>5. acts' = [acts EXCEPT ![i] = x]
  BY <1>4 DEF Resolve
<1>6. x \in Act /\ (x.kind = "hire" => x.seat \in Seat)
  BY <1>1 DEF Act
<1> HIDE DEF x
<1>7. ActsShape'
  BY <1>5, <1>6, ActChanges DEF IInv, Shape
<1>8. todo' = [todo EXCEPT ![Team] = s] /\ UNCHANGED <<instVars, board>>
  BY <1>2 DEF Resolve
<1> QED
  BY <1>3, <1>7, <1>8, SetsOut

\* What members do with the tasks.
LEMMA BoardKeeps ==
  ASSUME IInv, NEW t \in Task, Work(t) \/ Assign(t) \/ Cancel(t)
  PROVE  IInv'
<1>1. Idle(Team) /\ UNCHANGED <<files, roster, amendments, acts, todo>>
  BY DEF Work, Assign, Cancel, instVars
<1>2. BoardShape'
  <2>1. board \in [Task -> Goal] /\ board[t] \in Goal
    BY DEF IInv, Shape, BoardShape
  <2>2. CASE Work(t)
    <3>1. PICK tr \in DOMAIN Moves : board' = [board EXCEPT ![t].status = Moves[tr].to]
      BY <2>2 DEF Work
    <3>2. Moves[tr].to \in {"in_progress", "in_review", "done", "assigned"}
      BY DEF Moves
    <3>3. PICK to \in {"in_progress", "in_review", "done", "assigned"} :
            board' = [board EXCEPT ![t].status = to]
      BY <3>1, <3>2
    <3>4. [board[t] EXCEPT !.status = to] \in Goal
      BY <2>1 DEF Goal
    <3> QED
      BY <2>1, <3>3, <3>4 DEF BoardShape
  <2>3. CASE Assign(t)
    <3>1. PICK a \in Member : board' = [board EXCEPT ![t] = [status |-> "assigned", assignee |-> a]]
      BY <2>3 DEF Assign
    <3>2. [status |-> "assigned", assignee |-> a] \in Goal
      BY DEF Goal, Member
    <3> QED
      BY <2>1, <3>1, <3>2 DEF BoardShape
  <2>4. CASE Cancel(t)
    <3>1. board' = [board EXCEPT ![t].status = "cancelled"]
      BY <2>4 DEF Cancel
    <3>2. [board[t] EXCEPT !.status = "cancelled"] \in Goal
      BY <2>1 DEF Goal
    <3> QED
      BY <2>1, <3>1, <3>2 DEF BoardShape
  <2> QED
    BY <2>2, <2>3, <2>4
<1>3. AmendmentsShape' /\ ActsShape'
  BY <1>1 DEF IInv, Shape, AmendmentsShape, ActsShape
<1> QED
  BY <1>1, <1>2, <1>3, LeavesSeats

LEMMA CrashKeeps ==
  ASSUME IInv, NEW p \in Proc, Die(p)
  PROVE  IInv'
<1>1. ActsShape' /\ UNCHANGED <<instVars, files, roster, amendments, acts, board>>
  BY DEF IInv, Shape, ActsShape, Die, Crash, instVars
<1>2. CASE p = Team
  <2>1. todo' = [todo EXCEPT ![Team] = <<>>]
    BY <1>2 DEF Die, Crash
  <2> QED
    BY <1>1, <2>1, NothingIsSound, SetsOut
<1>3. CASE p # Team
  <2>1. todo' = todo
    BY <1>3 DEF Die, Crash, IInv, Shape, TodoShape
  <2>2. AmendmentsShape' /\ BoardShape' /\ GoOn
    BY <1>1 DEF IInv, Shape, AmendmentsShape, BoardShape, GoOn
  <2> QED
    BY <1>1, <2>1, <2>2, LeavesSeats
<1> QED
  BY <1>2, <1>3

-----------------------------------------------------------------------------
(* An event is appended and folded.                                        *)

Folds(e) ==
  \/ FoldAmendment(e) /\ UNCHANGED <<roster, orgVars>>
  \/ FoldRoster(e) /\ UNCHANGED <<files, amendments, acts, board, enacted, goalMet, cutOff>>
  \/ FoldOrg(e) /\ UNCHANGED <<instVars, ever, hist>>

LEMMA WriteTakes ==
  ASSUME IInv, NEW p \in Proc, Write(p)
  PROVE  /\ p = Team /\ TodoShape' /\ Folds(todo[Team][1])
         /\ Len(todo[Team]) \in Nat /\ Len(todo[Team]) > 0
         /\ Len(todo'[Team]) = Len(todo[Team]) - 1
         /\ \A n \in 1..Len(todo'[Team]) : todo'[Team][n] = todo[Team][n + 1]
<1>1. Team \in Proc /\ todo = [q \in Proc |-> IF q = Team THEN todo[Team] ELSE <<>>]
      /\ IsSequence(todo[Team])
  BY AmendmentsAssumption DEF IInv, Shape, TodoShape
<1>2. p = Team /\ todo[Team] # <<>>
  BY <1>1 DEF Write, Idle
<1>3. PICK s : s = todo[Team]
  OBVIOUS
<1>4. IsSequence(s) /\ s # <<>>
  BY <1>1, <1>2, <1>3
<1>5. Len(s) \in Nat /\ Len(s) > 0
  <2>1. s \in Seq({s[n] : n \in DOMAIN s})
    BY <1>4 DEF IsSequence
  <2> QED
    BY <1>4, <2>1, EmptySeq, LenProperties
<1>6. /\ Head(s) = s[1] /\ IsSequence(Tail(s)) /\ Len(Tail(s)) = Len(s) - 1
      /\ \A n \in 1..Len(s) - 1 : Tail(s)[n] = s[n + 1]
  BY <1>4, <1>5, TailPositions
<1>7. todo' = [todo EXCEPT ![Team] = Tail(s)]
  BY <1>2, <1>3 DEF Write
<1>8. todo'[Team] = Tail(s) /\ todo' = [q \in Proc |-> IF q = Team THEN Tail(s) ELSE <<>>]
  BY <1>1, <1>7
<1>9. TodoShape'
  BY <1>6, <1>8 DEF TodoShape
<1>10. Folds(Head(s))
  BY <1>2, <1>3 DEF Write, Folds
<1> QED
  BY <1>2, <1>3, <1>5, <1>6, <1>8, <1>9, <1>10

\* What an event says is of the kind its fold expects.
WellFormed(e) ==
  /\ e.type = "rule_version_activated" =>
       e.what \in [Path -> Content] /\ e.what["manifest"] \in Manifests
  /\ e.type \in {"member_registered", "member_updated"} => e.what \in Person

LEMMA FoldKeepsShape ==
  ASSUME Shape, NEW e, WellFormed(e), Folds(e), TodoShape'
  PROVE  Shape'
<1>1. CASE FoldAmendment(e) /\ UNCHANGED <<roster, orgVars>>
  <2>1. RosterShape' /\ BoardShape' /\ ActsShape'
    BY <1>1 DEF Shape, RosterShape, BoardShape, ActsShape, orgVars
  <2>2. RulesShape'
    BY <1>1 DEF FoldAmendment, Shape, RulesShape, WellFormed, manifest
  <2>3. AmendmentsShape'
    <3>1. CASE UNCHANGED amendments
      BY <3>1 DEF Shape, AmendmentsShape
    <3>2. CASE e.type \in {"amendment_closed", "amendment_passed", "amendment_enacted"}
      <4>1. PICK x \in {"closed", "ratifying", "enacted"} :
              amendments' = [amendments EXCEPT ![e.id].status = x]
        BY <1>1, <3>2 DEF FoldAmendment
      <4> DEFINE am == [amendments[e.id] EXCEPT !.status = x]
      <4>2. amendments' = [amendments EXCEPT ![e.id] = am]
        BY <4>1
      <4>3. e.id \in DOMAIN amendments => amendments[e.id] \in Amendment
        BY DEF Shape, AmendmentsShape
      <4>4. e.id \in DOMAIN amendments =>
              /\ am \in Amendment
              /\ am.path = amendments[e.id].path /\ am.content = amendments[e.id].content
              /\ am.base = amendments[e.id].base
        BY <4>3 DEF Amendment
      <4> HIDE DEF am
      <4> QED
        BY <4>2, <4>4, AmendmentChanges DEF Shape
    <3>3. CASE e.type = "approval_requested"
      <4> DEFINE am == [amendments[e.id] EXCEPT !.approval = "requested"]
      <4>1. amendments' = [amendments EXCEPT ![e.id] = am]
        BY <1>1, <3>3 DEF FoldAmendment
      <4>2. e.id \in DOMAIN amendments => amendments[e.id] \in Amendment
        BY DEF Shape, AmendmentsShape
      <4>3. e.id \in DOMAIN amendments =>
              /\ am \in Amendment
              /\ am.path = amendments[e.id].path /\ am.content = amendments[e.id].content
              /\ am.base = amendments[e.id].base
        BY <4>2 DEF Amendment
      <4> HIDE DEF am
      <4> QED
        BY <4>1, <4>3, AmendmentChanges DEF Shape
    <3> QED
      BY <1>1, <3>1, <3>2, <3>3 DEF FoldAmendment
  <2> QED
    BY <2>1, <2>2, <2>3 DEF Shape
<1>2. CASE FoldRoster(e) /\ UNCHANGED <<files, amendments, acts, board, enacted, goalMet, cutOff>>
  <2>1. RulesShape' /\ AmendmentsShape' /\ ActsShape' /\ BoardShape'
    BY <1>2 DEF Shape, RulesShape, AmendmentsShape, ActsShape, BoardShape, manifest
  <2>2. Gone \in Person
    BY DEF Gone, Person
  <2>3. PICK x \in Person : roster' = [roster EXCEPT ![e.id] = x]
    BY <1>2, <2>2 DEF FoldRoster, WellFormed
  <2>4. RosterShape'
    BY <2>3 DEF Shape, RosterShape
  <2> QED
    BY <2>1, <2>4 DEF Shape
<1>3. CASE FoldOrg(e) /\ UNCHANGED <<instVars, ever, hist>>
  <2>1. RulesShape' /\ AmendmentsShape' /\ RosterShape'
    BY <1>3 DEF Shape, RulesShape, AmendmentsShape, RosterShape, instVars, manifest
  <2>2. ActsShape'
    <3>1. CASE UNCHANGED acts
      BY <3>1 DEF Shape, ActsShape
    <3>2. CASE e.type = "act_approval_requested"
      <4> DEFINE k == [acts[e.id] EXCEPT !.approval = "requested"]
      <4>1. acts' = [acts EXCEPT ![e.id] = k]
        BY <1>3, <3>2 DEF FoldOrg
      <4>2. e.id \in DOMAIN acts =>
              acts[e.id] \in Act /\ (acts[e.id].kind = "hire" => acts[e.id].seat \in Seat)
        BY DEF Shape, ActsShape
      <4>3. e.id \in DOMAIN acts => k \in Act /\ (k.kind = "hire" => k.seat \in Seat)
        BY <4>2 DEF Act
      <4> HIDE DEF k
      <4> QED
        BY <4>1, <4>3, ActChanges DEF Shape
    <3> QED
      BY <1>3, <3>1, <3>2 DEF FoldOrg
  <2>3. BoardShape'
    <3>1. CASE UNCHANGED board
      BY <3>1 DEF Shape, BoardShape
    <3>2. CASE e.type = "task_unassigned"
      <4>1. board' = [board EXCEPT ![e.id] = [status |-> "open", assignee |-> NoOne]]
        BY <1>3, <3>2 DEF FoldOrg
      <4>2. [status |-> "open", assignee |-> NoOne] \in Goal
        BY DEF Goal
      <4> QED
        BY <4>1, <4>2 DEF Shape, BoardShape
    <3> QED
      BY <1>3, <3>1, <3>2 DEF FoldOrg
  <2> QED
    BY <2>1, <2>2, <2>3 DEF Shape
<1> QED
  BY <1>1, <1>2, <1>3 DEF Folds

LEMMA MinorFolds ==
  ASSUME NEW e, Minor(e), Folds(e), Shape
  PROVE  WellFormed(e) /\ SameSeats /\ UNCHANGED files
<1>1. CASE e.type \in Quiet
  <2>1. UNCHANGED <<files, roster>>
    BY <1>1 DEF Quiet, Folds, FoldAmendment, FoldRoster, FoldOrg, instVars
  <2> QED
    BY <1>1, <2>1 DEF Quiet, WellFormed, SameSeats
<1>2. CASE e.type = "member_updated" /\ e.id \in Member /\ Stays(e)
  <2>1. roster' = [roster EXCEPT ![e.id] = e.what] /\ UNCHANGED files
    BY <1>2 DEF Folds, FoldAmendment, FoldRoster, FoldOrg
  <2>2. SameSeats
    BY <1>2, <2>1 DEF SameSeats, Stays, Shape, RosterShape, Member
  <2> QED
    BY <1>2, <2>1, <2>2 DEF WellFormed, Stays
<1> QED
  BY <1>1, <1>2 DEF Minor

LEMMA WriteMinor ==
  ASSUME IInv, NEW p \in Proc, Write(p), \A n \in 1..Len(todo[Team]) : Minor(todo[Team][n])
  PROVE  IInv'
<1> DEFINE e == todo[Team][1]
<1>1. /\ TodoShape' /\ Folds(e) /\ Minor(e)
      /\ \A n \in 1..Len(todo'[Team]) : Minor(todo'[Team][n])
  <2>1. /\ TodoShape' /\ Folds(e) /\ Len(todo[Team]) \in Nat /\ Len(todo[Team]) > 0
        /\ Len(todo'[Team]) = Len(todo[Team]) - 1
        /\ \A n \in 1..Len(todo'[Team]) : todo'[Team][n] = todo[Team][n + 1]
    BY WriteTakes
  <2>2. 1 \in 1..Len(todo[Team]) /\ \A n \in 1..Len(todo'[Team]) : n + 1 \in 1..Len(todo[Team])
    BY <2>1
  <2>3. Minor(e)
    BY <2>2
  <2>4. \A n \in 1..Len(todo'[Team]) : Minor(todo'[Team][n])
    BY <2>1, <2>2
  <2> QED
    BY <2>1, <2>3, <2>4
<1>2. PICK s : s = todo'[Team]
  OBVIOUS
<1>3. WellFormed(e) /\ SameSeats /\ UNCHANGED files
  BY <1>1, MinorFolds DEF IInv
<1>4. Shape'
  BY <1>1, <1>3, FoldKeepsShape DEF IInv
<1>5. AboutTo(todo[Team])'
  BY <1>1, <1>2, <1>3, StillMinor
<1>6. SeatsFit'
  BY <1>3, StillFits DEF IInv
<1> QED
  BY <1>4, <1>5, <1>6 DEF IInv

\* Nothing is left to append.
LEMMA WriteLast ==
  ASSUME Len(todo'[Team]) = 0
  PROVE  AboutTo(todo[Team])'
<1>1. \A n \in 1..Len(todo'[Team]) : FALSE
  OBVIOUS
<1> QED
  BY <1>1 DEF AboutTo

LEMMA SeatedFinite ==
  ASSUME NEW s
  PROVE  /\ IsFiniteSet(Seated(s)) /\ Cardinality(Seated(s)) \in Nat
         /\ IsFiniteSet(Seated(s)') /\ Cardinality(Seated(s)') \in Nat
<1>1. Seated(s) \subseteq Agent /\ Seated(s)' \subseteq Agent
  BY DEF Seated
<1>2. IsFiniteSet(Seated(s)) /\ IsFiniteSet(Seated(s)')
  BY <1>1, AmendmentsAssumption, FS_Subset
<1> QED
  BY <1>2, FS_CardinalityType

LEMMA OneMoreAtMost ==
  ASSUME NEW S, IsFiniteSet(S), NEW x
  PROVE  IsFiniteSet(S \cup {x}) /\ Cardinality(S \cup {x}) <= Cardinality(S) + 1
<1>1. Cardinality(S) \in Nat
  BY FS_CardinalityType
<1>2. CASE x \in S
  <2>1. S \cup {x} = S
    BY <1>2
  <2>2. IsFiniteSet(S \cup {x}) /\ Cardinality(S \cup {x}) = Cardinality(S)
    BY <2>1, Zenon
  <2> QED
    BY <1>1, <2>2
<1>3. CASE x \notin S
  BY <1>1, <1>3, FS_AddElement
<1> QED
  BY <1>2, <1>3

LEMMA WriteHiring ==
  ASSUME IInv, NEW p \in Proc, Write(p), Hiring(todo[Team])
  PROVE  IInv'
<1> DEFINE e == todo[Team][1]
<1>1. /\ TodoShape' /\ Folds(e) /\ Len(todo'[Team]) = 0
      /\ e.type = "member_registered" /\ e.id \in Agent /\ e.what \in Person /\ e.what.seat \in Seat
      /\ Cardinality(Seated(e.what.seat)) < manifest.count[e.what.seat]
  BY WriteTakes DEF Hiring
<1> HIDE DEF e
<1>2. roster' = [roster EXCEPT ![e.id] = e.what] /\ UNCHANGED files
  BY <1>1 DEF Folds, FoldAmendment, FoldRoster, FoldOrg
<1>3. Shape'
  BY <1>1, FoldKeepsShape DEF IInv, WellFormed
<1>4. SeatsFit'
  <2> SUFFICES ASSUME NEW s \in Seat PROVE Cardinality(Seated(s)') <= manifest.count[s]
    BY <1>2 DEF SeatsFit, manifest
  <2>1. manifest.count[s] \in Nat /\ Cardinality(Seated(s)) <= manifest.count[s]
    BY DEF IInv, SeatsFit, Shape, RulesShape, Manifests
  <2>2. CASE s = e.what.seat
    <3>1. Seated(s)' \subseteq Seated(s) \cup {e.id}
      BY <1>1, <1>2 DEF IInv, Shape, RosterShape, Seated
    <3>2. /\ IsFiniteSet(Seated(s) \cup {e.id})
          /\ Cardinality(Seated(s) \cup {e.id}) <= Cardinality(Seated(s)) + 1
      <4>1. IsFiniteSet(Seated(s))
        BY SeatedFinite
      <4> QED
        BY <4>1, OneMoreAtMost
    <3>3. Cardinality(Seated(s)') <= Cardinality(Seated(s) \cup {e.id})
      BY <3>1, <3>2, FS_Subset
    <3>4. Cardinality(Seated(s) \cup {e.id}) \in Nat
      BY <3>2, FS_CardinalityType
    <3> QED
      BY <1>1, <2>1, <2>2, <3>2, <3>3, <3>4, SeatedFinite
  <2>3. CASE s # e.what.seat
    <3>1. Seated(s)' \subseteq Seated(s)
      BY <1>1, <1>2, <2>3 DEF IInv, Shape, RosterShape, Seated
    <3>2. Cardinality(Seated(s)') <= Cardinality(Seated(s))
      BY <3>1, SeatedFinite, FS_Subset
    <3> QED
      BY <2>1, <3>2, SeatedFinite
  <2> QED
    BY <2>2, <2>3
<1> QED
  BY <1>1, <1>3, <1>4, WriteLast DEF IInv

LEMMA WriteDismissing ==
  ASSUME IInv, NEW p \in Proc, Write(p), Dismissing(todo[Team])
  PROVE  IInv'
<1> DEFINE e == todo[Team][1]
<1>1. /\ TodoShape' /\ Folds(e) /\ e.type = "member_removed" /\ e.id \in Agent
      /\ \A n \in 1..Len(todo'[Team]) : todo'[Team][n].type = "task_unassigned"
  <2>1. /\ TodoShape' /\ Folds(e) /\ Len(todo[Team]) \in Nat
        /\ Len(todo'[Team]) = Len(todo[Team]) - 1
        /\ \A n \in 1..Len(todo'[Team]) : todo'[Team][n] = todo[Team][n + 1]
    BY WriteTakes
  <2>2. \A n \in 1..Len(todo'[Team]) : n + 1 \in 2..Len(todo[Team])
    BY <2>1
  <2> QED
    BY <2>1, <2>2 DEF Dismissing
<1> HIDE DEF e
<1>2. roster' = [roster EXCEPT ![e.id] = Gone] /\ UNCHANGED files
  BY <1>1 DEF Folds, FoldAmendment, FoldRoster, FoldOrg
<1>3. Shape'
  BY <1>1, FoldKeepsShape DEF IInv, WellFormed
<1>4. SeatsFit'
  <2> SUFFICES ASSUME NEW s \in Seat PROVE Cardinality(Seated(s)') <= manifest.count[s]
    BY <1>2 DEF SeatsFit, manifest
  <2>1. manifest.count[s] \in Nat /\ Cardinality(Seated(s)) <= manifest.count[s]
    BY DEF IInv, SeatsFit, Shape, RulesShape, Manifests
  <2>2. Gone.seat # s
    BY AmendmentsAssumption DEF Gone
  <2>3. Seated(s)' \subseteq Seated(s)
    BY <1>2, <2>2 DEF IInv, Shape, RosterShape, Seated
  <2>4. Cardinality(Seated(s)') <= Cardinality(Seated(s))
    BY <2>3, SeatedFinite, FS_Subset
  <2> QED
    BY <2>1, <2>4, SeatedFinite
<1>5. AboutTo(todo[Team])'
  <2>1. \A n \in 1..Len(todo'[Team]) : todo'[Team][n].type \in Quiet
    BY <1>1 DEF Quiet
  <2> QED
    BY <2>1 DEF AboutTo, Minor
<1> QED
  BY <1>3, <1>4, <1>5 DEF IInv

LEMMA WriteEnacting ==
  ASSUME IInv, NEW p \in Proc, Write(p), NEW i \in DOMAIN amendments, Enacting(todo[Team], i)
  PROVE  IInv'
<1> DEFINE e == todo[Team][1]
<1>1. /\ TodoShape' /\ Folds(e) /\ Len(todo[Team]) \in {1, 2}
      /\ Len(todo'[Team]) = Len(todo[Team]) - 1
      /\ \A n \in 1..Len(todo'[Team]) : todo'[Team][n] = todo[Team][n + 1]
  BY WriteTakes DEF Enacting
<1>2. amendments[i] \in Amendment /\ (amendments[i].path = "manifest" => amendments[i].content \in Manifests)
  BY DEF IInv, Shape, AmendmentsShape
<1>3. CASE Len(todo[Team]) = 2
  <2>1. /\ e.type = "amendment_enacted" /\ e.id = i /\ Due(i)
        /\ todo'[Team][1].type = "rule_version_activated" /\ todo'[Team][1].what = InForce(i)
    BY <1>1, <1>3 DEF Enacting
  <2> HIDE DEF e
  <2>2. /\ UNCHANGED <<files, roster>>
        /\ amendments' = [amendments EXCEPT ![i].status = "enacted"]
    BY <1>1, <2>1 DEF Folds, FoldAmendment, FoldRoster, FoldOrg
  <2>3. Shape'
    BY <1>1, <2>1, FoldKeepsShape DEF IInv, WellFormed
  <2>4. /\ i \in DOMAIN amendments' /\ amendments'[i].status = "enacted"
        /\ amendments'[i].path = amendments[i].path /\ amendments'[i].content = amendments[i].content
        /\ amendments'[i].base = amendments[i].base /\ amendments'[i].approval = amendments[i].approval
    BY <1>2, <2>2 DEF Amendment
  <2>5. SameSeats
    BY <2>2 DEF SameSeats
  <2>6. Due(i)'
    BY <2>1, <2>2, <2>4, <2>5, SeatsStay DEF Due, Blocked, Misfits
  <2>7. Enacting(todo[Team], i)'
    <3>1. Len(todo'[Team]) = 1
      BY <1>1, <1>3
    <3>2. InForce(i)' = InForce(i)
      BY <2>2, <2>4 DEF InForce
    <3> QED
      BY <2>1, <2>4, <2>6, <3>1, <3>2 DEF Enacting
  <2>8. SeatsFit'
    BY <2>2, <2>5, StillFits DEF IInv
  <2> QED
    BY <2>3, <2>4, <2>7, <2>8 DEF IInv, AboutTo
<1>4. CASE Len(todo[Team]) = 1
  <2>1. e.type = "rule_version_activated" /\ e.what = InForce(i) /\ Due(i)
    BY <1>4 DEF Enacting
  <2> HIDE DEF e
  <2>2. files' = InForce(i) /\ UNCHANGED roster
    BY <1>1, <2>1 DEF Folds, FoldAmendment, FoldRoster, FoldOrg
  <2>3. InForce(i) \in [Path -> Content] /\ InForce(i)["manifest"] \in Manifests
    BY <1>2 DEF IInv, Shape, RulesShape, InForce, Amendment, manifest, Path
  <2>4. Shape'
    BY <1>1, <2>1, <2>3, FoldKeepsShape DEF IInv, WellFormed
  <2>5. SeatsFit'
    <3> SUFFICES ASSUME NEW s \in Seat
                 PROVE  Cardinality(Seated(s)) <= InForce(i)["manifest"].count[s]
      BY <2>2 DEF SeatsFit, manifest, Seated
    <3>1. /\ manifest.count[s] \in Nat /\ Cardinality(Seated(s)) <= manifest.count[s]
          /\ InForce(i)["manifest"].count[s] \in Nat
      BY <2>3 DEF IInv, SeatsFit, Shape, RulesShape, Manifests
    <3>2. CASE amendments[i].path = "manifest"
      <4>1. InForce(i)["manifest"] = amendments[i].content
        BY <3>2 DEF InForce, IInv, Shape, RulesShape, Path
      <4>2. ~Misfits(amendments[i].content)
        BY <2>1, <3>2 DEF Due, Blocked
      <4>3. ~(manifest.count[s] > 0) \/ ~(InForce(i)["manifest"].count[s] < Cardinality(Seated(s)))
        BY <4>1, <4>2 DEF Misfits, manifest
      <4> QED
        BY <3>1, <4>3, SeatedFinite
    <3>3. CASE amendments[i].path # "manifest"
      <4>1. InForce(i)["manifest"] = manifest
        BY <3>3 DEF InForce, IInv, Shape, RulesShape, Path, manifest
      <4> QED
        BY <3>1, <4>1
    <3> QED
      BY <3>2, <3>3
  <2>6. Len(todo'[Team]) = 0
    BY <1>1, <1>4
  <2> QED
    BY <2>4, <2>5, <2>6, WriteLast DEF IInv
<1> QED
  BY <1>1, <1>3, <1>4

LEMMA WriteKeeps ==
  ASSUME IInv, NEW p \in Proc, Write(p)
  PROVE  IInv'
BY WriteMinor, WriteHiring, WriteDismissing, WriteEnacting DEF IInv, AboutTo

-----------------------------------------------------------------------------

LEMMA InitHolds ==
  ASSUME Init
  PROVE  IInv
<1>1. /\ Contents["manifest"][1] \in Manifests /\ Contents["rules"][1] \in Content
      /\ files = [path \in Path |-> Contents[path][1]]
  BY AmendmentsAssumption DEF Init, InstInit, Path, Manifests, Content
<1>2. RulesShape /\ manifest = Contents["manifest"][1]
  BY <1>1 DEF RulesShape, manifest, Path, Content
<1>3. RosterShape
  <2>1. roster = [a \in Agent |->
          IF Start[a] = NoOne THEN Gone
          ELSE [seat |-> Start[a], group |-> Start[a] \in manifest.legislature, boss |-> NoOne]]
    BY DEF Init
  <2> QED
    BY <2>1, OrganizationAssumption DEF RosterShape, Person, Gone
<1>4. BoardShape
  BY DEF Init, BoardShape, Goal
<1>5. TodoShape
  <2>1. Team \in Proc /\ todo = [p \in Proc |-> <<>>]
    BY AmendmentsAssumption DEF Init, InstInit
  <2>2. todo[Team] = <<>>
    BY <2>1
  <2>3. todo = [p \in Proc |-> IF p = Team THEN <<>> ELSE <<>>]
    BY <2>1
  <2> QED
    BY <2>2, <2>3, EmptyIsSequence DEF TodoShape
<1>6. AmendmentsShape /\ ActsShape
  <2>1. amendments = <<>> /\ acts = <<>>
    BY DEF Init, InstInit
  <2> QED
    BY <2>1, EmptyIsSequence DEF AmendmentsShape, ActsShape
<1>7. SeatsFit
  <2> SUFFICES ASSUME NEW s \in Seat PROVE Cardinality(Seated(s)) <= manifest.count[s]
    BY DEF SeatsFit
  <2>1. Seated(s) = {a \in Agent : Start[a] = s}
    BY AmendmentsAssumption DEF Init, Seated, Gone
  <2> QED
    BY <1>2, <2>1, OrganizationAssumption
<1>8. AboutTo(todo[Team])
  <2>1. todo[Team] = <<>>
    BY AmendmentsAssumption DEF Init, InstInit
  <2> QED
    BY <2>1, NothingIsSound DEF Sound
<1> QED
  BY <1>2, <1>3, <1>4, <1>5, <1>6, <1>7, <1>8 DEF IInv, Shape

LEMMA StutterHolds ==
  ASSUME IInv, UNCHANGED vars
  PROVE  IInv'
<1>1. UNCHANGED <<instVars, orgVars, todo, files, roster, amendments, acts, board>>
  BY DEF vars, instVars, orgVars
<1>2. AmendmentsShape' /\ ActsShape' /\ BoardShape' /\ GoOn
  BY <1>1 DEF IInv, Shape, AmendmentsShape, ActsShape, BoardShape, GoOn
<1> QED
  BY <1>1, <1>2, LeavesSeats

LEMMA StepHolds ==
  ASSUME Settling = {Team}, IInv, [Next]_vars
  PROVE  IInv'
<1>1. CASE Propose /\ UNCHANGED orgVars
  BY <1>1, ProposeKeeps
<1>2. ASSUME NEW i \in DOMAIN amendments, Vote(i) \/ Withdraw(i) \/ Late(i), UNCHANGED orgVars
      PROVE  IInv'
  BY <1>2, AmendmentsAssumption, ActsOnAmendmentKeep
<1>3. ASSUME NEW p \in Proc, NEW i \in DOMAIN amendments, Ratify(p, i) \/ Settle(p, i),
             UNCHANGED orgVars
      PROVE  IInv'
  BY <1>3, ActsOnAmendmentKeep, SettleKeeps
<1>4. CASE Submit
  BY <1>4, SubmitKeeps
<1>5. ASSUME NEW p \in Proc, NEW i \in DOMAIN acts, DecideAct(p, i) \/ Resolve(p, i)
      PROVE  IInv'
  BY <1>5, DecideActKeeps, ResolveKeeps
<1>6. ASSUME NEW t \in Task, Work(t) \/ Assign(t) \/ Cancel(t)
      PROVE  IInv'
  BY <1>6, BoardKeeps
<1>7. ASSUME NEW p \in Proc, OrgSettle(p) \/ Write(p) \/ Die(p)
      PROVE  IInv'
  BY <1>7, OrgSettleKeeps, WriteKeeps, CrashKeeps
<1>8. CASE UNCHANGED vars
  BY <1>8, StutterHolds
<1> QED
  BY <1>1, <1>2, <1>3, <1>4, <1>5, <1>6, <1>7, <1>8 DEF Next

LEMMA Invariance == Settling = {Team} => (Spec => []IInv)
<1> SUFFICES ASSUME Settling = {Team} PROVE Spec => []IInv
  OBVIOUS
<1>1. Init => IInv
  BY InitHolds
<1>2. IInv /\ [Next]_vars => IInv'
  BY StepHolds
<1> QED
  BY <1>1, <1>2, PTL DEF Spec

(* Nobody sits where there is no seat: where one process settles, the      *)
(* check of _plan_hire, the one of _check_change and the order of the      *)
(* events in between keep the holders of every seat within what the        *)
(* manifest in force gives it.                                             *)
THEOREM SeatsAreNeverOverfilled == Settling = {Team} => (Spec => []SeatsFit)
<1> SUFFICES ASSUME Settling = {Team} PROVE Spec => []SeatsFit
  OBVIOUS
<1>1. IInv => SeatsFit
  BY DEF IInv
<1>2. Spec => []IInv
  BY Invariance
<1> QED
  BY <1>1, <1>2, PTL

-----------------------------------------------------------------------------
(* What a step may do to the rule set.                                     *)

LawfulChange ==
  files' # files =>
    \E i \in DOMAIN amendments :
      LET am == amendments[i]
      IN  /\ am.status = "enacted" /\ am.base = files[am.path]
          /\ am.path \in Ratified => am.approval = "approved"
          /\ files' = [files EXCEPT ![am.path] = am.content]

LEMMA WriteIsLawful ==
  ASSUME IInv, NEW p \in Proc, Write(p)
  PROVE  LawfulChange
<1> DEFINE e == todo[Team][1]
<1>1. Folds(e) /\ Len(todo[Team]) \in Nat /\ Len(todo[Team]) > 0
  BY WriteTakes
<1>2. CASE \A n \in 1..Len(todo[Team]) : Minor(todo[Team][n])
  <2>1. Minor(e)
    BY <1>1, <1>2
  <2> QED
    BY <1>1, <2>1, MinorFolds DEF IInv, LawfulChange
<1>3. CASE Hiring(todo[Team])
  <2>1. e.type = "member_registered"
    BY <1>3 DEF Hiring
  <2>2. UNCHANGED files
    BY <1>1, <2>1 DEF Folds, FoldAmendment, FoldOrg
  <2> QED
    BY <2>2 DEF LawfulChange
<1>4. CASE Dismissing(todo[Team])
  <2>1. e.type = "member_removed"
    BY <1>4 DEF Dismissing
  <2>2. UNCHANGED files
    BY <1>1, <2>1 DEF Folds, FoldAmendment, FoldOrg
  <2> QED
    BY <2>2 DEF LawfulChange
<1>5. ASSUME NEW i \in DOMAIN amendments, Enacting(todo[Team], i)
      PROVE  LawfulChange
  <2>1. CASE Len(todo[Team]) = 2
    <3>1. e.type = "amendment_enacted"
      BY <1>5, <2>1 DEF Enacting
    <3>2. UNCHANGED files
      BY <1>1, <3>1 DEF Folds, FoldAmendment, FoldRoster, FoldOrg, instVars
    <3> QED
      BY <3>2 DEF LawfulChange
  <2>2. CASE Len(todo[Team]) = 1
    <3>1. /\ e.type = "rule_version_activated" /\ e.what = InForce(i) /\ Due(i)
          /\ amendments[i].status = "enacted"
      BY <1>5, <2>2 DEF Enacting
    <3>2. files' = InForce(i)
      BY <1>1, <3>1 DEF Folds, FoldAmendment, FoldRoster, FoldOrg
    <3> QED
      BY <3>1, <3>2 DEF LawfulChange, InForce, Due
  <2> QED
    BY <1>5, <2>1, <2>2 DEF Enacting
<1> QED
  BY <1>2, <1>3, <1>4, <1>5 DEF IInv, AboutTo

LEMMA StepIsLawful ==
  ASSUME IInv, [Next]_vars
  PROVE  LawfulChange
<1>1. CASE \E p \in Proc : Write(p)
  BY <1>1, WriteIsLawful
<1>2. CASE ~\E p \in Proc : Write(p)
  <2>1. UNCHANGED files
    <3>1. CASE Propose \/ \E i \in DOMAIN amendments : Vote(i) \/ Withdraw(i) \/ Late(i)
      BY <3>1 DEF Propose, Vote, Withdraw, Late
    <3>2. CASE \E p \in Proc, i \in DOMAIN amendments : Ratify(p, i) \/ Settle(p, i)
      BY <3>2 DEF Ratify, Settle, instVars
    <3>3. CASE Submit \/ \E p \in Proc, i \in DOMAIN acts : DecideAct(p, i) \/ Resolve(p, i)
      <4>1. CASE Submit
        BY <4>1 DEF Submit, instVars
      <4>2. CASE \E p \in Proc, i \in DOMAIN acts : DecideAct(p, i)
        BY <4>2 DEF DecideAct, instVars
      <4>3. CASE \E p \in Proc, i \in DOMAIN acts : Resolve(p, i)
        BY <4>3 DEF Resolve, instVars
      <4> QED
        BY <3>3, <4>1, <4>2, <4>3
    <3>4. CASE \E t \in Task : Work(t) \/ Assign(t) \/ Cancel(t)
      BY <3>4 DEF Work, Assign, Cancel, instVars
    <3>5. CASE \E p \in Proc : OrgSettle(p) \/ Die(p)
      BY <3>5 DEF OrgSettle, Die, Crash, instVars
    <3>6. CASE UNCHANGED vars
      BY <3>6 DEF vars, instVars
    <3> QED
      BY <1>2, <3>1, <3>2, <3>3, <3>4, <3>5, <3>6 DEF Next
  <2> QED
    BY <2>1 DEF LawfulChange
<1> QED
  BY <1>1, <1>2

(* The rule set changes only as an amendment says that was enacted, whose  *)
(* base is still in force, and that a human approved where one has to: what *)
(* Enact looked at holds until the last of its two events is written.      *)
THEOREM RuleSetChangesLawfully == Settling = {Team} => (Spec => ChangesAreLawful)
<1> SUFFICES ASSUME Settling = {Team} PROVE Spec => ChangesAreLawful
  OBVIOUS
<1>1. Spec => []IInv
  BY Invariance
<1>2. IInv /\ [Next]_vars => LawfulChange
  BY StepIsLawful
<1>3. Spec => [][LawfulChange]_vars
  BY <1>1, <1>2, PTL DEF Spec
<1> QED
  BY <1>3 DEF ChangesAreLawful, LawfulChange

-----------------------------------------------------------------------------
(* What is held by who is no member.                                       *)

Keeping == {"in_review", "done"}

Taken(t) ==
  /\ board[t].status \in UNASSIGN_FROM
  /\ \E n \in 1..Len(todo[Team]) : todo[Team][n] = Event("task_unassigned", t, "")

\* It was left to him, lost by a death, or is about to be taken from him.
Explained(t) == <<t, board[t].assignee>> \in spared \cup cutOff \/ Taken(t)

NotAMembers(t) ==
  /\ board[t].assignee \notin Member \cup {NoOne}
  /\ board[t].status \in UNASSIGN_FROM \cup Keeping

GInv == \A t \in Task : NotAMembers(t) => Explained(t)

\* Nobody goes, and what is about to be taken stays so.
LEMMA NobodyGoes ==
  ASSUME GInv, Member \subseteq Member', UNCHANGED board,
         spared \subseteq spared', cutOff \subseteq cutOff',
         UNCHANGED todo \/ todo[Team] = <<>>
  PROVE  GInv'
<1> SUFFICES ASSUME NEW t \in Task, NotAMembers(t)' PROVE Explained(t)'
  BY DEF GInv
<1>1. NotAMembers(t)
  BY DEF NotAMembers
<1>2. Explained(t)
  BY <1>1 DEF GInv
<1>3. todo[Team] = <<>> => ~Taken(t)
  BY EmptyIsSequence DEF Taken
<1> QED
  BY <1>2, <1>3 DEF Explained, Taken

LEMMA BoardExplains ==
  ASSUME IInv, GInv, NEW t \in Task, Work(t) \/ Assign(t) \/ Cancel(t)
  PROVE  GInv'
<1>1. /\ Member' = Member /\ board \in [Task -> Goal] /\ UNCHANGED <<todo, spared, cutOff>>
      /\ todo[Team] = <<>>
  BY DEF Work, Assign, Cancel, instVars, hist, Member, Idle, IInv, Shape, BoardShape
<1>2. /\ \A u \in Task \ {t} : board'[u] = board[u]
      /\ \/ /\ board'[t].assignee = board[t].assignee
            /\ board[t].status \in UNASSIGN_FROM \cup Keeping
         \/ board'[t].assignee \in Member
         \/ board'[t].status = "cancelled"
  <2>1. CASE Work(t)
    <3>1. PICK tr \in DOMAIN Moves :
            /\ board[t].status = Moves[tr].from
            /\ board' = [board EXCEPT ![t].status = Moves[tr].to]
      BY <2>1 DEF Work
    <3>2. Moves[tr].from \in UNASSIGN_FROM \cup Keeping
      BY DEF Moves, UNASSIGN_FROM, Keeping
    <3>3. /\ \A u \in Task \ {t} : board'[u] = board[u]
          /\ board'[t].assignee = board[t].assignee
      BY <1>1, <3>1 DEF Goal
    <3> QED
      BY <3>1, <3>2, <3>3
  <2>2. CASE Assign(t)
    <3>1. PICK a \in Member : board' = [board EXCEPT ![t] = [status |-> "assigned", assignee |-> a]]
      BY <2>2 DEF Assign
    <3> QED
      BY <1>1, <3>1
  <2>3. CASE Cancel(t)
    <3>1. board' = [board EXCEPT ![t].status = "cancelled"]
      BY <2>3 DEF Cancel
    <3> QED
      BY <1>1, <3>1 DEF Goal
  <2> QED
    BY <2>1, <2>2, <2>3
<1>3. \A u : ~Taken(u)
  BY <1>1, EmptyIsSequence DEF Taken
<1> SUFFICES ASSUME NEW u \in Task, NotAMembers(u)' PROVE <<u, board'[u].assignee>> \in spared \cup cutOff
  BY <1>1 DEF GInv, Explained
<1>4. NotAMembers(u) /\ board'[u].assignee = board[u].assignee
  BY <1>1, <1>2 DEF NotAMembers, UNASSIGN_FROM, Keeping
<1> QED
  BY <1>3, <1>4 DEF GInv, Explained

\* A position behind the first, and the one it has when the first is gone.
LEMMA MovesUp ==
  ASSUME NEW m \in Nat, NEW i \in 1..m, i # 1
  PROVE  i - 1 \in 1..(m - 1) /\ (i - 1) + 1 = i
BY SMT

\* What was about to be taken is taken, or still is about to be.
LEMMA TakenNext ==
  ASSUME IInv, NEW p \in Proc, Write(p), NEW t \in Task,
         NEW n \in 1..Len(todo[Team]), todo[Team][n] = Event("task_unassigned", t, "")
  PROVE  \/ board'[t].assignee = NoOne
         \/ \E k \in 1..Len(todo'[Team]) : todo'[Team][k] = Event("task_unassigned", t, "")
<1>1. /\ Folds(todo[Team][1]) /\ Len(todo[Team]) \in Nat /\ Len(todo'[Team]) = Len(todo[Team]) - 1
      /\ \A k \in 1..Len(todo'[Team]) : todo'[Team][k] = todo[Team][k + 1]
  BY WriteTakes
<1>2. CASE n = 1
  <2> DEFINE e == todo[Team][1]
  <2>1. e.type = "task_unassigned" /\ e.id = t
    <3>1. e = Event("task_unassigned", t, "")
      BY <1>2
    <3> HIDE DEF e
    <3> QED
      BY <3>1 DEF Event
  <2> HIDE DEF e
  <2>2. board' = [board EXCEPT ![t] = [status |-> "open", assignee |-> NoOne]]
    BY <1>1, <2>1 DEF e, Folds, FoldAmendment, FoldRoster, FoldOrg
  <2>3. board \in [Task -> Goal]
    BY DEF IInv, Shape, BoardShape
  <2> QED
    BY <2>2, <2>3
<1>3. CASE n # 1
  <2>1. n - 1 \in 1..Len(todo'[Team]) /\ (n - 1) + 1 = n
    BY <1>1, <1>3, MovesUp, Zenon
  <2> QED
    BY <1>1, <2>1
<1> QED
  BY <1>2, <1>3

\* An event after which all are members who were.
LEMMA NobodyRemoved ==
  ASSUME IInv, GInv, NEW p \in Proc, Write(p), Member \subseteq Member',
         \A t \in Task : board'[t] = board[t] \/ board'[t].assignee = NoOne,
         spared \subseteq spared', cutOff \subseteq cutOff'
  PROVE  GInv'
<1> SUFFICES ASSUME NEW t \in Task, NotAMembers(t)' PROVE Explained(t)'
  BY DEF GInv
<1>1. board'[t] = board[t] /\ board'[t].assignee # NoOne
  BY DEF NotAMembers
<1>2. NotAMembers(t)
  BY <1>1 DEF NotAMembers
<1>3. CASE <<t, board[t].assignee>> \in spared \cup cutOff
  BY <1>1, <1>3 DEF Explained
<1>4. CASE Taken(t)
  <2>1. PICK n \in 1..Len(todo[Team]) : todo[Team][n] = Event("task_unassigned", t, "")
    BY <1>4 DEF Taken
  <2>2. \E k \in 1..Len(todo'[Team]) : todo'[Team][k] = Event("task_unassigned", t, "")
    BY <1>1, <2>1, TakenNext
  <2>3. board'[t].status \in UNASSIGN_FROM
    BY <1>1, <1>4 DEF Taken
  <2> QED
    BY <2>2, <2>3 DEF Explained, Taken
<1> QED
  BY <1>2, <1>3, <1>4 DEF GInv, Explained

\* A removal: what he has on his hands is about to be taken, or was left to him.
LEMMA RemovalExplains ==
  ASSUME IInv, GInv, NEW p \in Proc, Write(p), Dismissing(todo[Team])
  PROVE  GInv'
<1> DEFINE e == todo[Team][1]
<1>1. Folds(e) /\ Len(todo[Team]) \in Nat
  BY WriteTakes
<1>2. e.type = "member_removed" /\ e.id \in Agent
  BY DEF Dismissing
<1>3. \A t \in Holds(e.id) : \E n \in 2..Len(todo[Team]) :
        todo[Team][n] = Event("task_unassigned", t, "")
  BY DEF Dismissing
<1> HIDE DEF e
<1>4. /\ roster' = [roster EXCEPT ![e.id] = Gone] /\ UNCHANGED <<board, cutOff>>
      /\ spared' = spared \cup {<<t, e.id>> : t \in Keeps(e.id)}
  BY <1>1, <1>2 DEF Folds, FoldAmendment, FoldRoster, FoldOrg
<1>5. Member \subseteq Member' \cup {e.id}
  BY <1>4 DEF Member, IInv, Shape, RosterShape
<1> SUFFICES ASSUME NEW t \in Task, NotAMembers(t)' PROVE Explained(t)'
  BY DEF GInv
<1>6. CASE board[t].assignee = e.id /\ board[t].status \in Keeping
  BY <1>4, <1>6 DEF Keeps, Keeping, Explained
<1>7. ASSUME Taken(t) \/ t \in Holds(e.id) PROVE Explained(t)'
  <2>1. board[t].status \in UNASSIGN_FROM
    BY <1>7 DEF Taken, Holds
  <2>2. PICK n \in 1..Len(todo[Team]) : todo[Team][n] = Event("task_unassigned", t, "")
    <3>1. CASE Taken(t)
      BY <3>1 DEF Taken
    <3>2. CASE t \in Holds(e.id)
      <4>1. PICK n \in 2..Len(todo[Team]) : todo[Team][n] = Event("task_unassigned", t, "")
        BY <1>3, <3>2, Zenon
      <4>2. n \in 1..Len(todo[Team])
        <5>1. \A m \in Nat : 2..m \subseteq 1..m
          OBVIOUS
        <5> QED
          BY <1>1, <4>1, <5>1, Zenon
      <4> QED
        BY <4>1, <4>2, Zenon
    <3> QED
      BY <1>7, <3>1, <3>2
  <2>3. board'[t].assignee # NoOne
    BY DEF NotAMembers
  <2>4. \E k \in 1..Len(todo'[Team]) : todo'[Team][k] = Event("task_unassigned", t, "")
    BY <2>2, <2>3, TakenNext
  <2> QED
    BY <1>4, <2>1, <2>4 DEF Explained, Taken
<1>8. CASE board[t].assignee # e.id
  <2>1. NotAMembers(t)
    BY <1>4, <1>5, <1>8 DEF NotAMembers
  <2>2. CASE <<t, board[t].assignee>> \in spared \cup cutOff
    BY <1>4, <2>2 DEF Explained
  <2> QED
    BY <1>7, <2>1, <2>2 DEF GInv, Explained
<1>9. CASE board[t].assignee = e.id /\ board[t].status \notin Keeping
  <2>1. t \in Holds(e.id)
    BY <1>4, <1>9 DEF NotAMembers, Holds
  <2> QED
    BY <1>7, <2>1
<1> QED
  BY <1>6, <1>8, <1>9

LEMMA WriteExplains ==
  ASSUME IInv, GInv, NEW p \in Proc, Write(p)
  PROVE  GInv'
<1> DEFINE e == todo[Team][1]
<1>1. Folds(e) /\ Len(todo[Team]) \in Nat /\ Len(todo[Team]) > 0
  BY WriteTakes
<1>2. CASE Dismissing(todo[Team])
  BY <1>2, RemovalExplains
<1>3. CASE e.type # "member_removed" /\ Member \subseteq Member'
  <2>1. \A t \in Task : board'[t] = board[t] \/ board'[t].assignee = NoOne
    <3>1. UNCHANGED board \/ board' = [board EXCEPT ![e.id] = [status |-> "open", assignee |-> NoOne]]
      BY <1>1 DEF Folds, FoldOrg, orgVars
    <3>2. board \in [Task -> Goal]
      BY DEF IInv, Shape, BoardShape
    <3> HIDE DEF e
    <3> QED
      BY <3>1, <3>2
  <2>2. UNCHANGED <<spared, cutOff>>
    BY <1>1, <1>3 DEF Folds, FoldRoster, orgVars, hist
  <2> QED
    BY <1>3, <2>1, <2>2, NobodyRemoved
<1>4. CASE Hiring(todo[Team])
  <2>1. /\ e.type = "member_registered" /\ e.what \in Person /\ e.what.seat \in Seat
    BY <1>4 DEF Hiring
  <2>2. roster' = [roster EXCEPT ![e.id] = e.what]
    BY <1>1, <2>1 DEF Folds, FoldAmendment, FoldRoster, FoldOrg
  <2>3. Member \subseteq Member'
    BY <2>1, <2>2, AmendmentsAssumption DEF Member, IInv, Shape, RosterShape
  <2> QED
    BY <1>3, <2>1, <2>3
<1>5. CASE Minor(e)
  <2>1. SameSeats
    BY <1>1, <1>5, MinorFolds DEF IInv
  <2>2. e.type # "member_removed"
    BY <1>5 DEF Minor, Quiet
  <2> QED
    BY <1>3, <2>1, <2>2, SeatsStay
<1>6. ASSUME NEW i \in DOMAIN amendments, Enacting(todo[Team], i)
      PROVE  GInv'
  <2>1. e.type \in {"amendment_enacted", "rule_version_activated"}
    BY <1>6 DEF Enacting
  <2>2. UNCHANGED roster
    BY <1>1, <2>1 DEF Folds, FoldAmendment, FoldRoster, FoldOrg
  <2> QED
    BY <1>3, <2>1, <2>2 DEF Member
<1>7. CASE \A n \in 1..Len(todo[Team]) : Minor(todo[Team][n])
  BY <1>1, <1>5, <1>7
<1> QED
  BY <1>2, <1>4, <1>6, <1>7 DEF IInv, AboutTo

\* A death: what it kept from being taken is remembered.
LEMMA DeathExplains ==
  ASSUME IInv, GInv, NEW p \in Proc, Die(p)
  PROVE  GInv'
<1>1. /\ UNCHANGED <<roster, board, spared>> /\ cutOff \subseteq cutOff'
      /\ todo' = [todo EXCEPT ![p] = <<>>] /\ Member' = Member
  BY DEF Die, Crash, instVars, Member
<1>2. CASE p # Team
  <2>1. todo' = todo
    BY <1>1, <1>2 DEF IInv, Shape, TodoShape
  <2> QED
    BY <1>1, <2>1, NobodyGoes
<1>3. CASE p = Team
  <2> SUFFICES ASSUME NEW t \in Task, NotAMembers(t)' PROVE Explained(t)'
    BY DEF GInv
  <2>1. NotAMembers(t)
    BY <1>1 DEF NotAMembers
  <2>2. CASE <<t, board[t].assignee>> \in spared \cup cutOff
    BY <1>1, <2>2 DEF Explained
  <2>3. CASE Taken(t)
    <3> DEFINE taken == Event("task_unassigned", t, "")
    <3>1. PICK n \in 1..Len(todo[Team]) : todo[Team][n] = taken
      BY <2>3 DEF Taken
    <3> HIDE DEF taken
    <3>2. n \in DOMAIN todo[Team]
      BY <3>1, SequenceIsOne DEF IInv, Shape, TodoShape, IsSequence
    <3>3. taken \in ToSet(todo[Team])
      BY <3>1, <3>2 DEF ToSet
    <3>4. HeldByNoMember(t)
      BY <2>1, <2>3 DEF HeldByNoMember, NotAMembers, Taken
    <3>5. <<t, board[t].assignee>> \in cutOff'
      BY <1>3, <3>3, <3>4 DEF Die, taken
    <3> QED
      BY <1>1, <3>5 DEF Explained
  <2> QED
    BY <2>1, <2>2, <2>3 DEF GInv, Explained
<1> QED
  BY <1>2, <1>3

LEMMA StepExplains ==
  ASSUME Settling = {Team}, IInv, GInv, [Next]_vars
  PROVE  GInv'
<1>1. ASSUME NEW p \in Proc, Write(p) \/ Die(p) PROVE GInv'
  BY <1>1, WriteExplains, DeathExplains
<1>2. ASSUME NEW t \in Task, Work(t) \/ Assign(t) \/ Cancel(t) PROVE GInv'
  BY <1>2, BoardExplains
<1>3. CASE /\ ~(\E p \in Proc : Write(p) \/ Die(p))
           /\ ~(\E t \in Task : Work(t) \/ Assign(t) \/ Cancel(t))
  <2>1. UNCHANGED <<roster, board, spared, cutOff>> /\ (UNCHANGED todo \/ todo[Team] = <<>>)
    <3>1. CASE /\ UNCHANGED orgVars
               /\ Propose \/ \E i \in DOMAIN amendments : Vote(i) \/ Withdraw(i) \/ Late(i)
      BY <3>1 DEF Propose, Vote, Withdraw, Late, orgVars, hist
    <3>2. CASE /\ UNCHANGED orgVars
               /\ \E p \in Proc, i \in DOMAIN amendments : Ratify(p, i) \/ Settle(p, i)
      BY <3>2 DEF Ratify, Settle, instVars, orgVars, hist, Idle
    <3>3. CASE Submit
      BY <3>3 DEF Submit, instVars, hist, Idle
    <3>4. CASE \E p \in Proc, i \in DOMAIN acts : DecideAct(p, i)
      BY <3>4 DEF DecideAct, instVars, hist
    <3>5. CASE \E p \in Proc, i \in DOMAIN acts : Resolve(p, i)
      BY <3>5 DEF Resolve, instVars, hist, Idle
    <3>6. CASE \E p \in Proc : OrgSettle(p)
      BY <3>6 DEF OrgSettle, instVars, orgVars, hist, Idle
    <3>7. CASE UNCHANGED vars
      BY <3>7 DEF vars, instVars, orgVars, hist
    <3> QED
      BY <1>3, <3>1, <3>2, <3>3, <3>4, <3>5, <3>6, <3>7 DEF Next
  <2>2. Member' = Member
    BY <2>1 DEF Member
  <2> QED
    BY <2>1, <2>2, NobodyGoes
<1> QED
  BY <1>1, <1>2, <1>3

(* Who is dismissed is left with no unfinished task, but for what was in   *)
(* review or done then and what a death kept from being taken: whatever he *)
(* held when the act was decided is still all he holds when he is removed, *)
(* nothing moves until it is taken from him (_plan_dismiss), and nothing   *)
(* is given to who is no member.                                           *)
THEOREM WhoGoesLeavesNothing == Settling = {Team} => (Spec => []DismissedHoldNothing)
<1> SUFFICES ASSUME Settling = {Team} PROVE Spec => []DismissedHoldNothing
  OBVIOUS
<1>1. Spec => []IInv
  BY Invariance
<1>2. Init => GInv
  <2>1. Init => \A t \in Task : board[t].assignee = NoOne
    BY DEF Init
  <2> QED
    BY <2>1 DEF GInv, NotAMembers
<1>3. IInv /\ GInv /\ [Next]_vars => GInv'
  BY StepExplains
<1>4. GInv => DismissedHoldNothing
  <2> SUFFICES ASSUME GInv, \A p \in Proc : Idle(p), NEW t \in Task, HeldByNoMember(t)
               PROVE  <<t, board[t].assignee>> \in spared \cup cutOff
    BY DEF DismissedHoldNothing
  <2>1. ~Taken(t)
    <3>1. todo[Team] = <<>>
      BY AmendmentsAssumption DEF Idle
    <3>2. Len(todo[Team]) = 0
      BY <3>1, EmptyIsSequence
    <3>3. 1..0 = {}
      OBVIOUS
    <3> QED
      BY <3>2, <3>3 DEF Taken
  <2> QED
    BY <2>1 DEF GInv, NotAMembers, HeldByNoMember, Explained
<1> QED
  BY <1>1, <1>2, <1>3, <1>4, PTL DEF Spec
=============================================================================
