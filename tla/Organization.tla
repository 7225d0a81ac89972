---------------------------- MODULE Organization ----------------------------
(***************************************************************************)
(* The organization (org/service.py) on top of the amendment procedure:    *)
(* agents are hired into the seats of the manifest in force and dismissed, *)
(* by acts the rules may have wait for a human, and settle() brings the    *)
(* members' attributes, the announcement and the goal up to date with what *)
(* is in force.                                                            *)
(***************************************************************************)
EXTENDS Amendments

CONSTANTS
  Start,               \* by agent: the seat it holds at the start, or NoOne
  ReportsTo,           \* by seat: the seat its boss holds, or NoOne
  Staffing,            \* the seats whose holders may hire and dismiss
  Task,                \* the goals: root tasks with the goal's label
  MaxActs              \* bound on these acts and the amendments together

ASSUME OrganizationAssumption ==
  /\ Start \in [Agent -> Seat \cup {NoOne}]
  /\ \A s \in Seat : Cardinality({a \in Agent : Start[a] = s}) <= Contents["manifest"][1].count[s]
  /\ ReportsTo \in [Seat -> Seat \cup {NoOne}]
  /\ Staffing \subseteq Seat
  /\ IsFiniteSet(Task)
  /\ MaxActs \in Nat

VARIABLES
  ever,        \* every id ever registered
  acts,        \* the acts that hire and dismiss: [kind, actor, member, seat, state, approval]
  board,       \* by task: [status, assignee]
  enacted,     \* the manifest announced last
  goalMet,
  spared,      \* history: <<task, assignee>> where it was in review or done when he was removed
  cutOff       \* history: <<task, assignee>> where a death came before it was taken from him

hist == <<spared, cutOff>>
orgVars == <<ever, acts, board, enacted, goalMet, hist>>
vars == <<instVars, orgVars, todo, crashes>>

manifest == files["manifest"]

\* A task that is blocked is one in progress here.
UNASSIGN_FROM == {"assigned", "in_progress"}

Gone == [seat |-> NoOne, group |-> FALSE, boss |-> NoOne]

\* Whom a holder of seat s other than a reports to.
Boss(a, s) ==
  LET bosses == IF ReportsTo[s] = NoOne THEN {} ELSE Seated(ReportsTo[s]) \ {a}
  IN  IF bosses = {} THEN NoOne ELSE CHOOSE b \in bosses : TRUE

InSeat(a, s) == [seat |-> s, group |-> s \in manifest.legislature, boss |-> Boss(a, s)]

-----------------------------------------------------------------------------
(* Acts that hire and dismiss.                                             *)

MayStaff(x) == x \in Member /\ roster[x].seat \in Staffing

\* Mutant: that the seat is still free is only looked at when somebody waits.
FitsFilled(k) ==
  /\ MayStaff(k.actor)
  /\ \/ k.kind = "hire" /\ k.member \notin ever
                        /\ (k.approval = "none" => Cardinality(Seated(k.seat)) < manifest.count[k.seat])
     \/ k.kind = "dismiss" /\ k.member \in Member /\ k.member # k.actor

\* What the planner and the policy require, whenever the act is decided.
Fits(k) ==
  /\ MayStaff(k.actor)
  /\ \/ k.kind = "hire" /\ k.member \notin ever
                        /\ Cardinality(Seated(k.seat)) < manifest.count[k.seat]
     \/ k.kind = "dismiss" /\ k.member \in Member /\ k.member # k.actor

Decision(k) ==
  LET needed == k.kind \in files["rules"].approve
  IN  CASE ~Fits(k) \/ (needed /\ k.approval = "rejected") -> "deny"
        [] Fits(k) /\ needed /\ k.approval \in {"none", "requested"} -> "pending"
        [] OTHER -> "allow"

\* Mutant: only what has been started is taken from who is dismissed.
HoldsStarted(a) == {t \in Task : board[t].assignee = a /\ board[t].status = "in_progress"}

Holds(a) == {t \in Task : board[t].assignee = a /\ board[t].status \in UNASSIGN_FROM}

\* What an act is about to append once it is decided.
Effects(i, k) ==
  CASE Decision(k) = "deny" -> <<>>
    [] Decision(k) = "pending" ->
         IF k.approval = "none" THEN <<Event("act_approval_requested", i, "")>> ELSE <<>>
    [] Decision(k) = "allow" /\ k.kind = "hire" ->
         <<Event("member_registered", k.member, InSeat(k.member, k.seat))>>
    [] OTHER -> <<Event("member_removed", k.member, "")>>
                \o SetToSeq({Event("task_unassigned", t, "") : t \in Holds(k.member)})

Submit ==
  \E kind \in {"hire", "dismiss"}, x, a \in Agent :
  \E s \in IF kind = "hire" THEN Seat ELSE {NoOne} :
    LET k == [kind |-> kind, actor |-> x, member |-> a, seat |-> s,
              state |-> "pending", approval |-> "none"]
    IN  /\ Idle(Team) /\ Len(acts) + Len(amendments) < MaxActs
        /\ Decision(k) # "deny"
        /\ acts' = Append(acts, [k EXCEPT !.state = Decision(k)])
        /\ todo' = [todo EXCEPT ![Team] = Effects(Len(acts) + 1, k)]
        /\ UNCHANGED <<instVars, ever, board, enacted, goalMet, hist, crashes>>

\* The human answers what an act waits for.
DecideAct(p, i) ==
  /\ Idle(p)
  /\ acts[i].approval = "requested"
  /\ \E d \in {"approved", "rejected"} : acts' = [acts EXCEPT ![i].approval = d]
  /\ UNCHANGED <<instVars, ever, board, enacted, goalMet, hist, todo, crashes>>

\* settle() decides again what waits, once it was answered or never asked for.
Resolve(p, i) ==
  /\ p \in Settling /\ Idle(p)
  /\ acts[i].state = "pending" /\ acts[i].approval # "requested"
  /\ acts' = [acts EXCEPT ![i].state = Decision(acts[i])]
  /\ todo' = [todo EXCEPT ![p] = Effects(i, acts[i])]
  /\ UNCHANGED <<instVars, ever, board, enacted, goalMet, hist, crashes>>

-----------------------------------------------------------------------------
(* What members do with the tasks, as far as the organization looks at it. *)

Moves ==
  [start |-> [from |-> "assigned", to |-> "in_progress"],
   submit |-> [from |-> "in_progress", to |-> "in_review"],
   approve |-> [from |-> "in_review", to |-> "done"],
   reject |-> [from |-> "in_review", to |-> "in_progress"],
   reopen |-> [from |-> "done", to |-> "assigned"]]

\* Work is the assignee's, reviewing and reopening the human's.
Work(t) ==
  \E tr \in DOMAIN Moves :
    /\ Idle(Team)
    /\ board[t].status = Moves[tr].from
    /\ tr \in {"start", "submit"} => board[t].assignee \in Member
    /\ board' = [board EXCEPT ![t].status = Moves[tr].to]
    /\ UNCHANGED <<instVars, ever, acts, enacted, goalMet, hist, todo, crashes>>

Assign(t) ==
  /\ Idle(Team)
  /\ board[t].status \in {"open", "assigned"}
  /\ \E a \in Member : board' = [board EXCEPT ![t] = [status |-> "assigned", assignee |-> a]]
  /\ UNCHANGED <<instVars, ever, acts, enacted, goalMet, hist, todo, crashes>>

Cancel(t) ==
  /\ Idle(Team)
  /\ board[t].status \in UNASSIGN_FROM \cup {"open", "in_review"}
  /\ board' = [board EXCEPT ![t].status = "cancelled"]
  /\ UNCHANGED <<instVars, ever, acts, enacted, goalMet, hist, todo, crashes>>

-----------------------------------------------------------------------------
(* OrgService.settle(): what follows from the organization in force.       *)

\* A seat that is gone from the manifest leaves its holder team and boss.
Desired(a) ==
  IF manifest.count[roster[a].seat] = 0 THEN [roster[a] EXCEPT !.group = FALSE]
  ELSE InSeat(a, roster[a].seat)

\* A task that is done counts as accepted (CountsAs).
Met ==
  LET goals == {t \in Task : board[t].status # "cancelled"}
  IN  goals # {} /\ \A t \in goals : board[t].status = "done"

Lagging == {a \in Member : roster[a] # Desired(a)}

\* Mutant: a goal that was met stays so.
OrgConsequencesOnce ==
  SetToSeq({Event("member_updated", a, Desired(a)) : a \in Lagging})
  \o (IF enacted # manifest THEN <<Event("org_enacted", "", manifest)>> ELSE <<>>)
  \o (IF Met /\ ~goalMet THEN <<Event("goal_met", "", TRUE)>> ELSE <<>>)

OrgConsequences ==
  SetToSeq({Event("member_updated", a, Desired(a)) : a \in Lagging})
  \o (IF enacted # manifest THEN <<Event("org_enacted", "", manifest)>> ELSE <<>>)
  \o (IF Met # goalMet THEN <<Event("goal_met", "", Met)>> ELSE <<>>)

UpToDate == enacted = manifest /\ goalMet = Met /\ Lagging = {}

OrgSettle(p) ==
  /\ p \in Settling /\ Idle(p)
  /\ ~UpToDate
  /\ todo' = [todo EXCEPT ![p] = OrgConsequences]
  /\ UNCHANGED <<instVars, orgVars, crashes>>

\* The tasks that stay whose they are when a is removed.
Keeps(a) == {t \in Task : board[t].assignee = a /\ board[t].status \in {"in_review", "done"}}

FoldRoster(e) ==
  \/ /\ e.type = "member_registered"
     /\ roster' = [roster EXCEPT ![e.id] = e.what]
     /\ ever' = ever \cup {e.id}
     /\ UNCHANGED spared
  \/ /\ e.type = "member_removed"
     /\ roster' = [roster EXCEPT ![e.id] = Gone]
     /\ spared' = spared \cup {<<t, e.id>> : t \in Keeps(e.id)}
     /\ UNCHANGED ever
  \/ /\ e.type = "member_updated"
     /\ roster' = [roster EXCEPT ![e.id] = e.what]
     /\ UNCHANGED <<ever, spared>>

FoldOrg(e) ==
  \/ /\ e.type = "act_approval_requested"
     /\ acts' = [acts EXCEPT ![e.id].approval = "requested"]
     /\ UNCHANGED <<board, enacted, goalMet>>
  \/ /\ e.type = "task_unassigned"
     /\ board' = [board EXCEPT ![e.id] = [status |-> "open", assignee |-> NoOne]]
     /\ UNCHANGED <<acts, enacted, goalMet>>
  \/ /\ e.type = "org_enacted"
     /\ enacted' = e.what
     /\ UNCHANGED <<acts, board, goalMet>>
  \/ /\ e.type = "goal_met"
     /\ goalMet' = e.what
     /\ UNCHANGED <<acts, board, enacted>>

\* A process appends the next of its events and folds it.
Write(p) ==
  /\ ~Idle(p)
  /\ todo' = [todo EXCEPT ![p] = Tail(@)]
  /\ LET e == Head(todo[p])
     IN  \/ FoldAmendment(e) /\ UNCHANGED <<roster, orgVars>>
         \/ FoldRoster(e) /\ UNCHANGED <<files, amendments, acts, board, enacted, goalMet, cutOff>>
         \/ FoldOrg(e) /\ UNCHANGED <<instVars, ever, hist>>
  /\ UNCHANGED crashes

\* A task of somebody who is no member, and unfinished.
HeldByNoMember(t) == board[t].assignee \notin Member \cup {NoOne} /\ board[t].status \in UNASSIGN_FROM

\* A death loses what the process was about to append.
Die(p) ==
  /\ Crash(p)
  /\ LET lost == {t \in Task : /\ HeldByNoMember(t)
                               /\ Event("task_unassigned", t, "") \in ToSet(todo[p])}
     IN  cutOff' = cutOff \cup {<<t, board[t].assignee>> : t \in lost}
  /\ UNCHANGED <<ever, acts, board, enacted, goalMet, spared>>

-----------------------------------------------------------------------------

Init ==
  /\ InstInit
  /\ roster = [a \in Agent |->
       IF Start[a] = NoOne THEN Gone
       ELSE [seat |-> Start[a], group |-> Start[a] \in manifest.legislature, boss |-> NoOne]]
  /\ ever = {a \in Agent : Start[a] # NoOne}
  /\ acts = <<>>
  /\ board = [t \in Task |-> [status |-> "open", assignee |-> NoOne]]
  /\ enacted = manifest
  /\ goalMet = FALSE
  /\ spared = {} /\ cutOff = {}

Next ==
  \/ Len(acts) + Len(amendments) < MaxActs /\ Propose /\ UNCHANGED orgVars
  \/ (\E i \in DOMAIN amendments : Vote(i) \/ Withdraw(i) \/ Late(i)) /\ UNCHANGED orgVars
  \/ \E p \in Proc, i \in DOMAIN amendments : (Ratify(p, i) \/ Settle(p, i)) /\ UNCHANGED orgVars
  \/ Submit
  \/ \E p \in Proc, i \in DOMAIN acts : DecideAct(p, i) \/ Resolve(p, i)
  \/ \E t \in Task : Work(t) \/ Assign(t) \/ Cancel(t)
  \/ \E p \in Proc : OrgSettle(p) \/ Write(p) \/ Die(p)

Spec == Init /\ [][Next]_vars

\* Each tick of the scheduler settles all there is to settle, the window of a
\* vote ends, and the human answers.
FairSpec ==
  /\ Spec
  /\ WF_vars(Write(Team)) /\ SF_vars(OrgSettle(Team))
  /\ SF_vars((\E i \in DOMAIN amendments : Settle(Team, i)) /\ UNCHANGED orgVars)
  /\ WF_vars((\E i \in DOMAIN amendments : Late(i) \/ \E p \in Proc : Ratify(p, i))
             /\ UNCHANGED orgVars)

-----------------------------------------------------------------------------
(* Properties.                                                             *)

(* Nobody sits where there is no seat: however hiring, its approval and    *)
(* amendments of the manifest overlap, no seat has more holders than the   *)
(* manifest in force gives it.                                             *)
SeatsFit == \A s \in Seat : Cardinality(Seated(s)) <= manifest.count[s]

(* The rule set changes only as an amendment says that was recorded as     *)
(* enacted: in the one file it is about, whose content is still the one it *)
(* was proposed against, and with the human's approval where a human has   *)
(* to ratify it.                                                           *)
ChangesAreLawful ==
  [][files' # files =>
       \E i \in DOMAIN amendments :
         LET am == amendments[i]
         IN  /\ am.status = "enacted" /\ am.base = files[am.path]
             /\ am.path \in Ratified => am.approval = "approved"
             /\ files' = [files EXCEPT ![am.path] = am.content]]_vars

(* Every amendment is closed or comes into force in the end, but for one   *)
(* that a death of the process catches between two of its events.          *)
AmendmentsEnd ==
  \A i \in 1 .. MaxActs :
    (i \in DOMAIN amendments) ~>
      (i \in DOMAIN amendments /\ (amendments[i].status \in {"closed", "enacted"}
                                   \/ /\ amendments[i].status = "ratifying"
                                      /\ amendments[i].approval = "none" /\ crashes > 0))

(* The organization catches up with what is in force again and again:      *)
(* members' groups and bosses, the manifest announced, and whether the     *)
(* goals are met.                                                          *)
OrgFollows == []<>UpToDate

(* Who is dismissed is left with no task on his hands: whenever nothing is *)
(* about to be appended, whoever is no member has no unfinished task,      *)
(* except one that was in review or done when he went and was sent back or *)
(* reopened since, and one that a death kept from being taken from him:    *)
(* nothing repairs these.                                                  *)
DismissedHoldNothing ==
  (\A p \in Proc : Idle(p)) =>
    \A t \in Task : HeldByNoMember(t) => <<t, board[t].assignee>> \in spared \cup cutOff
=============================================================================
