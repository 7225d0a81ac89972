----------------------------- MODULE Amendments -----------------------------
(***************************************************************************)
(* The amendment procedure (institution/service.py): members propose the   *)
(* new content of a file of the rule set, vote, and settle() closes what   *)
(* expired or conflicts, has what passed ratified where the constitution   *)
(* says so, and puts it in force.                                          *)
(*                                                                         *)
(* The files are the manifest of the organization and the rules.  A        *)
(* content is its own sha.  A process appends one event at a time and      *)
(* folds it; what it is about to append is todo, lost when it dies.        *)
(***************************************************************************)
EXTENDS Integers, Sequences, FiniteSets, SequencesExt

CONSTANTS
  Proc, Team,          \* the processes; the one that runs the scheduler and the agents
  Settling,            \* the processes that settle
  Agent, NoOne,        \* who may ever be a member; nobody
  Seat,
  Contents,            \* by path: the contents that parse; the first is in force at the start
  Ratified,            \* the files whose amendments a human ratifies
  YesAtLeast,          \* votes an amendment needs; 0 stands for all voters
  NoAtMost,
  MaxCrashes

Path == {"manifest", "rules"}

ASSUME AmendmentsAssumption ==
  /\ Team \in Settling /\ Settling \subseteq Proc
  /\ IsFiniteSet(Agent) /\ NoOne \notin Agent \cup Seat
  /\ \A path \in Path : 1 \in DOMAIN Contents[path]
  /\ \A i \in DOMAIN Contents["manifest"] :
       Contents["manifest"][i] \in [count : [Seat -> Nat], legislature : SUBSET Seat]
  /\ \A i \in DOMAIN Contents["rules"] :
       Contents["rules"][i] \in [approve : SUBSET {"hire", "dismiss"}]
  /\ Ratified \subseteq Path
  /\ {YesAtLeast, NoAtMost, MaxCrashes} \subseteq Nat

VARIABLES
  files,       \* the rule set in force: the content of each file
  roster,      \* members' [seat, group, boss]; the seat of who is no member is NoOne
  amendments,  \* [path, content, base, proposer, votes, status, late, approval]
  todo,        \* per process: the events it is about to append
  crashes

instVars == <<files, roster, amendments>>

Member == {a \in Agent : roster[a].seat # NoOne}
Seated(s) == {a \in Agent : roster[a].seat = s}
Idle(p) == todo[p] = <<>>
Event(type, id, what) == [type |-> type, id |-> id, what |-> what]

\* Whose attributes say that they are of the legislature: the attributes lag
\* behind the manifest until the organization settles.
Voters == {a \in Member : roster[a].group}

\* The check the organization registers: who is in post must fit the seats.
Misfits(content) ==
  \E s \in Seat : /\ files["manifest"].count[s] > 0
                  /\ content.count[s] < Cardinality(Seated(s))

Blocked(path, content) == path = "manifest" /\ Misfits(content)

Passes(i) ==
  LET am == amendments[i]
      cast(v) == Cardinality({a \in Voters : am.votes[a] = v})
      needed == IF YesAtLeast = 0 THEN Cardinality(Voters) ELSE YesAtLeast
  IN  cast("yes") >= needed /\ cast("no") <= NoAtMost

-----------------------------------------------------------------------------
(* Acts on amendments.  They wait for nothing and are one event.  Members  *)
(* act in the scheduler's process, the human also from the command line.   *)
(* Each content keeps the protected rules as they are, so that what is     *)
(* compared there (protected_rules) is equal.                              *)

Propose ==
  \E a \in Voters, path \in Path : \E k \in DOMAIN Contents[path] :
    LET content == Contents[path][k]
    IN  /\ Idle(Team)
        /\ content # files[path]
        /\ ~Blocked(path, content)
        /\ amendments' = Append(amendments,
             [path |-> path, content |-> content, base |-> files[path], proposer |-> a,
              votes |-> [x \in Agent |-> IF x = a THEN "yes" ELSE "none"],
              status |-> "open", late |-> FALSE, approval |-> "none"])
        /\ UNCHANGED <<files, roster, todo, crashes>>

Vote(i) ==
  /\ Idle(Team)
  /\ amendments[i].status = "open"
  /\ \E a \in Voters, v \in {"yes", "no"} :
       amendments' = [amendments EXCEPT ![i].votes[a] = v]
  /\ UNCHANGED <<files, roster, todo, crashes>>

Withdraw(i) ==
  /\ Idle(Team)
  /\ amendments[i].proposer \in Member
  /\ amendments[i].status \in {"open", "ratifying"}
  /\ amendments' = [amendments EXCEPT ![i].status = "closed"]
  /\ UNCHANGED <<files, roster, todo, crashes>>

\* The human answers what was put to him: decide_pending.
Ratify(p, i) ==
  /\ Idle(p)
  /\ amendments[i].approval = "requested"
  /\ \E d \in {"approved", "rejected"} : amendments' = [amendments EXCEPT ![i].approval = d]
  /\ UNCHANGED <<files, roster, todo, crashes>>

\* The voting window ends.
Late(i) ==
  /\ amendments[i].status = "open" /\ ~amendments[i].late
  /\ amendments' = [amendments EXCEPT ![i].late = TRUE]
  /\ UNCHANGED <<files, roster, todo, crashes>>

-----------------------------------------------------------------------------
(* settle(): what an amendment calls for now.                              *)

\* Mutant: whatever changed in between is overwritten.
EnactAnyway(i) ==
  LET am == amendments[i]
  IN  IF Blocked(am.path, am.content)
      THEN <<Event("amendment_closed", i, files)>>
      ELSE <<Event("amendment_enacted", i, files),
             Event("rule_version_activated", i, [files EXCEPT ![am.path] = am.content])>>

Enact(i) ==
  LET am == amendments[i]
  IN  IF files[am.path] # am.base \/ Blocked(am.path, am.content)
      THEN <<Event("amendment_closed", i, files)>>
      ELSE <<Event("amendment_enacted", i, files),
             Event("rule_version_activated", i, [files EXCEPT ![am.path] = am.content])>>

\* Mutant: what the human rejects is not closed.
ConsequencesApproved(i) ==
  LET am == amendments[i]
  IN  CASE am.status = "open" /\ am.late -> <<Event("amendment_closed", i, files)>>
        [] am.status = "open" /\ ~am.late /\ Passes(i) ->
             IF am.path \in Ratified
             THEN <<Event("amendment_passed", i, files), Event("approval_requested", i, files)>>
             ELSE Enact(i)
        [] am.status = "ratifying" /\ am.approval = "approved" -> Enact(i)
        [] OTHER -> <<>>

Consequences(i) ==
  LET am == amendments[i]
  IN  CASE am.status = "open" /\ am.late -> <<Event("amendment_closed", i, files)>>
        [] am.status = "open" /\ ~am.late /\ Passes(i) ->
             IF am.path \in Ratified
             THEN <<Event("amendment_passed", i, files), Event("approval_requested", i, files)>>
             ELSE Enact(i)
        [] am.status = "ratifying" /\ am.approval = "approved" -> Enact(i)
        [] am.status = "ratifying" /\ am.approval = "rejected" ->
             <<Event("amendment_closed", i, files)>>
        [] OTHER -> <<>>

\* One turn of the loop over the amendments.
Settle(p, i) ==
  /\ p \in Settling /\ Idle(p)
  /\ LET due == Consequences(i)
     IN  due # <<>> /\ todo' = [todo EXCEPT ![p] = due]
  /\ UNCHANGED <<instVars, crashes>>

\* One event is appended and folded.
FoldAmendment(e) ==
  \/ /\ e.type \in {"amendment_closed", "amendment_passed", "amendment_enacted"}
     /\ amendments' = [amendments EXCEPT ![e.id].status =
          CASE e.type = "amendment_closed" -> "closed"
            [] e.type = "amendment_passed" -> "ratifying"
            [] OTHER -> "enacted"]
     /\ UNCHANGED files
  \/ /\ e.type = "approval_requested"
     /\ amendments' = [amendments EXCEPT ![e.id].approval = "requested"]
     /\ UNCHANGED files
  \/ /\ e.type = "rule_version_activated"
     /\ files' = e.what
     /\ UNCHANGED amendments

Crash(p) ==
  /\ crashes < MaxCrashes
  /\ crashes' = crashes + 1
  /\ todo' = [todo EXCEPT ![p] = <<>>]
  /\ UNCHANGED instVars

InstInit ==
  /\ files = [path \in Path |-> Contents[path][1]]
  /\ amendments = <<>>
  /\ todo = [p \in Proc |-> <<>>]
  /\ crashes = 0
=============================================================================
