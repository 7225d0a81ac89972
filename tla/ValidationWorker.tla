-------------------------- MODULE ValidationWorker --------------------------
(***************************************************************************)
(* The worker that answers validation requests (ValidationWorker in        *)
(* institution/validation.py), composed with the path of the acts that     *)
(* wait for its verdicts.  It replaces ActPath!Validated: a request is     *)
(* answered from an earlier verdict, or by a run of the validator on the   *)
(* commit, at most max_parallel at a time; a run whose infrastructure      *)
(* fails is tried again.  Runs and attempts live in the memory of the      *)
(* scheduler's process; the verdicts are on the log.                       *)
(*                                                                         *)
(* A validator reads the commit and the members' private directories.      *)
(* Agents go on writing the latter, and their digest is part of what a     *)
(* verdict is kept under, if they are mounted at all: without              *)
(* private_mount the digest is always None.                                *)
(***************************************************************************)
EXTENDS ActPath, TLC

CONSTANTS
  Evidence,      \* per act, the commit it cites
  Digest,        \* digests of the private directories
  None,
  PrivateMount,  \* are private directories mounted?
  MaxParallel,
  MaxEdits       \* bound on writes to private directories

INFRA_ATTEMPTS == 3

ASSUME WorkerAssumption ==
  /\ Len(Evidence) = MaxActs
  /\ None \notin Digest /\ Digest # {}
  /\ PrivateMount \in BOOLEAN
  /\ MaxParallel \in Nat \ {0} /\ MaxEdits \in Nat

VARIABLES
  private,     \* the digest of the private directories
  edits,
  record,      \* per validation, what its verdict keeps: [inputs, infra]
  ran,         \* per validation: did its command run to the end?
  running,     \* the runs under way: the digest each began with
  attempts     \* failures of the infrastructure, by validation

workerVars == <<private, edits, record, ran, running, attempts>>
allVars == <<vars, workerVars>>

Vals == DOMAIN vals
Unanswered(i) == vals[i].status = "requested"
Blank == [inputs |-> None, infra |-> FALSE]
Inputs == IF PrivateMount THEN private ELSE None

\* What a request asks: the validator, with its command, on a commit.
Question(i) == <<vals[i].validator, Evidence[vals[i].act]>>

\* Mutant: the cache does not look at the private directories.
CachedAnyInputs(i) ==
  {j \in Vals \ {i} : ~Unanswered(j) /\ Question(j) = Question(i)}

Cached(i) ==
  {j \in Vals \ {i} : /\ ~Unanswered(j) /\ Question(j) = Question(i)
                      /\ record[j].inputs = Inputs}

\* record_validation(): under the lock, and only what is still asked for.
\* Mutant: without the lock.
RecordedUnlocked(i, s, r) ==
  /\ IF Unanswered(i)
     THEN vals' = [vals EXCEPT ![i].status = s] /\ record' = [record EXCEPT ![i] = r]
     ELSE UNCHANGED <<vals, record>>
  /\ UNCHANGED <<rule, acts, status, approvals, todo, checked, crashes, private, edits>>

Recorded(i, s, r) ==
  /\ Idle(Team)
  /\ IF Unanswered(i)
     THEN vals' = [vals EXCEPT ![i].status = s] /\ record' = [record EXCEPT ![i] = r]
     ELSE UNCHANGED <<vals, record>>
  /\ UNCHANGED <<rule, acts, status, approvals, todo, checked, crashes, private, edits>>

-----------------------------------------------------------------------------
(* step(): the requests in order, each answered from the cache or started; *)
(* the first one that can be neither ends the round.                       *)

NextRequest(i) ==
  /\ Unanswered(i) /\ i \notin DOMAIN running
  /\ \A j \in 1 .. i - 1 : Unanswered(j) => j \in DOMAIN running

AnswerCached(i) ==
  /\ NextRequest(i) /\ Cached(i) # {}
  /\ LET hit == CHOOSE j \in Cached(i) : \A k \in Cached(i) : j <= k
     IN  Recorded(i, vals[hit].status, [inputs |-> Inputs, infra |-> FALSE])
  /\ UNCHANGED <<ran, running, attempts>>

\* The run takes the digest before it exports the commit.
Start(i) ==
  /\ NextRequest(i) /\ Cached(i) = {}
  /\ Cardinality(DOMAIN running) < MaxParallel
  /\ running' = (i :> Inputs) @@ running
  /\ UNCHANGED <<vars, private, edits, record, ran, attempts>>

Ended(i) == running' = [j \in DOMAIN running \ {i} |-> running[j]]

\* The command has ended, or has been stopped by its timeout.
Finish(i) ==
  /\ i \in DOMAIN running
  /\ \E s \in {"passed", "failed"} :
       Recorded(i, s, [inputs |-> running[i], infra |-> FALSE])
  /\ ran' = ran \cup {i}
  /\ Ended(i)
  /\ UNCHANGED attempts

\* The export, the container or the shell has failed: the request is still
\* there for the next round, until the last attempt is recorded as such.
Fail(i) ==
  /\ i \in DOMAIN running
  /\ attempts' = [attempts EXCEPT ![i] = @ + 1]
  /\ Ended(i)
  /\ IF attempts[i] + 1 >= INFRA_ATTEMPTS
     THEN Recorded(i, "failed", [inputs |-> None, infra |-> TRUE])
     ELSE UNCHANGED <<vars, private, edits, record>>
  /\ UNCHANGED ran

\* An agent writes to its private directory.
Edit ==
  /\ edits < MaxEdits
  /\ edits' = edits + 1
  /\ private' \in Digest \ {private}
  /\ UNCHANGED <<vars, record, ran, running, attempts>>

-----------------------------------------------------------------------------
\* A new request has no verdict yet.
Asked == record' = [i \in DOMAIN vals' |-> IF i \in Vals THEN record[i] ELSE Blank]

ActStep(p) ==
  /\ \/ Submit(p) \/ Write(p) \/ Amend(p)
     \/ \E a \in Acts : Decide(p, a) \/ Resolve(p, a)
  /\ Asked
  /\ UNCHANGED <<private, edits, ran, running, attempts>>

\* With its process the worker loses its runs and its count of attempts.
Die(p) ==
  /\ Crash(p)
  /\ running' = IF p = Team THEN <<>> ELSE running
  /\ attempts' = IF p = Team THEN [i \in DOMAIN attempts |-> 0] ELSE attempts
  /\ UNCHANGED <<private, edits, record, ran>>

WorkerInit ==
  /\ Init
  /\ private = CHOOSE d \in Digest : TRUE   \* digests are interchangeable
  /\ edits = 0
  /\ record = <<>> /\ ran = {} /\ running = <<>>
  /\ attempts = [i \in 1 .. MaxActs * Cardinality(Validator) |-> 0]

WorkerNext ==
  \/ \E p \in Proc : ActStep(p) \/ Die(p)
  \/ \E i \in Vals : AnswerCached(i) \/ Start(i) \/ Finish(i) \/ Fail(i)
  \/ Edit

WorkerSpec == WorkerInit /\ [][WorkerNext]_allVars

\* The scheduler's process settles and steps the worker in every round; a
\* run ends by its timeout; who is asked for approval answers in the end.
FairWorkerSpec ==
  /\ WorkerSpec
  /\ WF_allVars(ActStep(Team) /\ todo[Team] # <<>>)
  /\ \A a \in 1 .. MaxActs :
       /\ WF_allVars(a \in Acts /\ Resolve(Team, a) /\ ActStep(Team))
       /\ WF_allVars(a \in Acts /\ Decide(Team, a) /\ ActStep(Team))
  /\ \A i \in 1 .. MaxActs * Cardinality(Validator) :
       /\ WF_allVars(i \in Vals /\ (AnswerCached(i) \/ Start(i)))
       /\ WF_allVars(i \in Vals /\ (Finish(i) \/ Fail(i)))

-----------------------------------------------------------------------------
(* Properties.                                                             *)

(* With its cache, its retries and the runs it loses, the worker does for  *)
(* the acts what ActPath says: a request gets one verdict, once, between   *)
(* two things that the process does under its lock.                        *)
ImplementsActPath == Spec

(* Every verdict that is not a failure of the infrastructure was earned:   *)
(* the validator ran to the end on that commit, with that verdict, having  *)
(* begun with the same private directories, in this validation or in the   *)
(* one it was copied from, through whatever chain of copies.               *)
VerdictsAreEarned ==
  \A i \in Vals : ~Unanswered(i) /\ ~record[i].infra =>
    \E j \in ran : /\ Question(j) = Question(i) /\ vals[j].status = vals[i].status
                   /\ record[j].inputs = record[i].inputs

(* "A failure of the infrastructure is not the submitter's: three tries,   *)
(* then infra: true, and the ledger takes no points" (docs/40-institution  *)
(* §7): a failure that is recorded without the mark is the submission's,   *)
(* which some run of the validator on that commit has found wanting.       *)
InfraIsNotCharged ==
  \A i \in Vals : vals[i].status = "failed" /\ ~record[i].infra =>
    \E j \in ran : Question(j) = Question(i) /\ vals[j].status = "failed"
=============================================================================
