-------------------------- MODULE ExperimentProofs --------------------------
(***************************************************************************)
(* What the results of an experiment are worth, and how long its           *)
(* supervisor waits: for any runs, budgets, numbers of deaths and of       *)
(* launches.                                                               *)
(***************************************************************************)
EXTENDS Experiment, TLAPS

Pcs == {"none", "check", "create", "drive", "running", "stopping", "look", "end", "grade", "write"}

\* Where a process is once the scheduler has stopped.
After == {"look", "end", "grade", "write"}

Process == [pc : Pcs, own : BOOLEAN, rounds : Nat, nudges : Nat]
Directory == [made : {"no", "half", "yes"}, stop : Reason \cup {"none"}, stopped : BOOLEAN,
              tripped : Reason \cup {"none"}, result : Reason \cup {"none", "torn"}]

Shape ==
  /\ runs \in [Run -> Directory]
  /\ drivers \in [Run -> [Slot -> Process]]

\* A process past its check is at a run without result, unless it writes it,
\* and alone.
Alone(r) ==
  r \notin overlap =>
    /\ \A d, e \in Slot : drivers[r][d].pc # "none" /\ drivers[r][e].pc # "none" => d = e
    /\ \A d \in Slot : drivers[r][d].pc \notin {"none", "check", "write"} => runs[r].result = "none"

\* What a result in directory y is, while a process is writing it or not.
Genuine(y, writing) ==
  y.result # "none" => /\ y.made = "yes" /\ y.stopped /\ y.stop # PAUSE_REASON
                       /\ y.result = y.stop \/ (y.result = "torn" /\ writing)

\* A process drives what was created, by itself or by one that lived to the end
\* of that, and grades what has stopped, and not for the provider.
Driven(x, y) ==
  /\ x.pc \notin {"none", "check", "create"} => y.made = "yes"
  /\ x.pc \in After => y.stopped
  /\ x.pc \in {"grade", "write"} => y.stop # PAUSE_REASON

Ready(r) ==
  r \notin overlap \cup broken =>
    /\ runs[r].made = "half" => \E d \in Slot : drivers[r][d].pc = "create"
    /\ \A d \in Slot : Driven(drivers[r][d], runs[r])
    /\ Genuine(runs[r], \E d \in Slot : drivers[r][d].pc = "write")

\* What a process has come to look at has stopped.
Stopped(r) ==
  /\ runs[r].stopped => runs[r].stop # "none"
  /\ \A d \in Slot : drivers[r][d].pc \in After => runs[r].stop # "none"

IInv == Shape /\ \A r \in Run : Alone(r) /\ Ready(r) /\ Stopped(r)

-----------------------------------------------------------------------------
\* Nothing happens to a run but that its processes may change hands, or more is
\* known of it.
LEMMA Elsewhere ==
  ASSUME NEW r \in Run, Alone(r), Ready(r), Stopped(r), runs'[r] = runs[r],
         \A d \in Slot : drivers'[r][d].pc = drivers[r][d].pc,
         overlap \subseteq overlap', broken \subseteq broken'
  PROVE  Alone(r)' /\ Ready(r)' /\ Stopped(r)'
<1>1. Alone(r)'
  BY DEF Alone
<1>2. Ready(r)'
  BY DEF Ready, Driven, Genuine
<1>3. Stopped(r)'
  BY DEF Stopped
<1> QED
  BY <1>1, <1>2, <1>3

\* A step of one process at one run leaves the other runs alone.
AtOnly(r) ==
  /\ Shape'
  /\ \A q \in Run \ {r} : runs'[q] = runs[q] /\ drivers'[q] = drivers[q]
  /\ overlap \subseteq overlap' /\ broken \subseteq broken'

LEMMA OneRun ==
  ASSUME IInv, NEW r \in Run, AtOnly(r), Alone(r)', Ready(r)', Stopped(r)'
  PROVE  IInv'
<1>1. \A q \in Run \ {r} : Alone(q)' /\ Ready(q)' /\ Stopped(q)'
  <2> TAKE q \in Run \ {r}
  <2>1. /\ Alone(q) /\ Ready(q) /\ Stopped(q)
        /\ runs'[q] = runs[q] /\ \A d \in Slot : drivers'[q][d].pc = drivers[q][d].pc
        /\ overlap \subseteq overlap' /\ broken \subseteq broken'
    BY DEF IInv, AtOnly
  <2> QED
    BY <2>1, Elsewhere
<1> QED
  BY <1>1 DEF IInv, AtOnly

\* A process moves on, and perhaps changes what the directory of its run says.
LEMMA StepKeepsIt ==
  ASSUME IInv, NEW r \in Run, NEW d \in Slot, drivers[r][d].pc # "none",
         NEW x \in Process,
         NEW y \in Directory,
         drivers' = [drivers EXCEPT ![r][d] = x], runs' = [runs EXCEPT ![r] = y],
         UNCHANGED overlap, broken \subseteq broken',
         r \notin overlap => x.pc \in {"none", "check", "write"} \/ y.result = "none",
         runs[r].stop # "none" => y.stop # "none",
         x.pc \in After \/ y.stopped => y.stop # "none",
         r \notin overlap \cup broken' =>
           /\ y.made = "half" => x.pc = "create"
           /\ Driven(x, y) /\ Genuine(y, x.pc = "write")
  PROVE  IInv'
<1>1. /\ AtOnly(r) /\ drivers'[r][d] = x /\ runs'[r] = y
      /\ \A e \in Slot \ {d} : drivers'[r][e] = drivers[r][e]
  BY DEF IInv, Shape, AtOnly
<1>2. Alone(r)
  BY DEF IInv
<1>3. Alone(r)'
  BY <1>1, <1>2 DEF Alone
<1>4. Ready(r)'
  <2> SUFFICES ASSUME r \notin overlap \cup broken' PROVE Ready(r)'
    BY DEF Ready
  <2>1. \A e \in Slot \ {d} : drivers'[r][e].pc = "none"
    BY <1>1, <1>2 DEF Alone
  <2>2. \A e \in Slot : Driven(drivers'[r][e], runs'[r])
    BY <1>1, <2>1 DEF Driven, After
  <2>3. Genuine(runs'[r], \E e \in Slot : drivers'[r][e].pc = "write")
    BY <1>1 DEF Genuine
  <2> QED
    BY <1>1, <2>2, <2>3 DEF Ready
<1>5. Stopped(r)'
  BY <1>1 DEF IInv, Stopped
<1> QED
  BY <1>1, <1>3, <1>4, <1>5, OneRun

\* What a process knows of its run.
LEMMA Known ==
  ASSUME IInv, NEW r \in Run, NEW d \in Slot
  PROVE  /\ drivers[r][d] \in Process
         /\ runs[r] \in Directory
         /\ drivers = [drivers EXCEPT ![r][d] = drivers[r][d]]
         /\ runs = [runs EXCEPT ![r] = runs[r]]
         /\ r \notin overlap /\ drivers[r][d].pc \notin {"none", "check", "write"} =>
              runs[r].result = "none"
         /\ drivers[r][d].pc \in After \/ runs[r].stopped => runs[r].stop # "none"
         /\ r \notin overlap \cup broken /\ drivers[r][d].pc # "none" =>
              /\ drivers[r][d].pc # "create" => runs[r].made # "half"
              /\ Driven(drivers[r][d], runs[r])
              /\ Genuine(runs[r], drivers[r][d].pc = "write")
<1>1. Shape /\ Alone(r) /\ Ready(r) /\ Stopped(r)
  BY DEF IInv
<1>2. ASSUME r \notin overlap \cup broken, drivers[r][d].pc # "none"
      PROVE  /\ drivers[r][d].pc # "create" => runs[r].made # "half"
             /\ Driven(drivers[r][d], runs[r])
             /\ Genuine(runs[r], drivers[r][d].pc = "write")
  <2>1. \A e \in Slot : drivers[r][e].pc # "none" => e = d
    BY <1>1, <1>2 DEF Alone
  <2>2. /\ runs[r].made = "half" => drivers[r][d].pc = "create"
        /\ Driven(drivers[r][d], runs[r])
    BY <1>1, <1>2, <2>1 DEF Ready
  <2>3. Genuine(runs[r], \E e \in Slot : drivers[r][e].pc = "write")
    BY <1>1, <1>2 DEF Ready
  <2>4. (\E e \in Slot : drivers[r][e].pc = "write") => drivers[r][d].pc = "write"
    BY <2>1
  <2> QED
    BY <2>2, <2>3, <2>4 DEF Genuine
<1> QED
  BY <1>1, <1>2 DEF Shape, Alone, Stopped

LEMMA Went ==
  ASSUME IInv, NEW r \in Run, NEW d \in Slot, NEW pc \in Pcs,
         Goes(r, d, pc) \/ (pc = "none" /\ Exits(r, d))
  PROVE  \E x \in Process : x.pc = pc /\ drivers' = [drivers EXCEPT ![r][d] = x]
<1>1. CASE Goes(r, d, pc)
  <2> DEFINE x == [drivers[r][d] EXCEPT !.pc = pc]
  <2>1. x \in Process /\ x.pc = pc /\ drivers' = [drivers EXCEPT ![r][d] = x]
    BY <1>1, Known DEF Goes, Process
  <2> QED
    BY <2>1
<1>2. CASE pc = "none" /\ Exits(r, d)
  <2>1. Ended \in Process /\ Ended.pc = "none"
    BY DEF Ended, Process, Pcs
  <2> QED
    BY <1>2, <2>1 DEF Exits
<1> QED
  BY <1>1, <1>2

\* A process that knows its run goes on and leaves the directory as it is.
LEMMA GoesKeepsIt ==
  ASSUME IInv, NEW r \in Run, NEW d \in Slot,
         drivers[r][d].pc \notin {"none", "check", "create", "write"},
         UNCHANGED <<runs, overlap, broken>>,
         NEW x \in Process, drivers' = [drivers EXCEPT ![r][d] = x],
         x.pc \notin {"create", "write"},
         x.pc \in After => runs[r].stopped \/ drivers[r][d].pc \in After,
         r \notin overlap \cup broken => (x.pc = "grade" => runs[r].stop # PAUSE_REASON)
  PROVE  IInv'
<1>1. /\ runs[r] \in Directory
      /\ runs' = [runs EXCEPT ![r] = runs[r]]
  BY Known
<1>2. /\ r \notin overlap => runs[r].result = "none"
      /\ drivers[r][d].pc \in After \/ runs[r].stopped => runs[r].stop # "none"
  BY Known
<1>3. r \notin overlap \cup broken' =>
        /\ runs[r].made = "yes" /\ (drivers[r][d].pc \in After => runs[r].stopped)
  BY Known DEF Driven
<1>4. r \notin overlap \cup broken' =>
        /\ runs[r].made = "half" => x.pc = "create"
        /\ Driven(x, runs[r]) /\ Genuine(runs[r], x.pc = "write")
  BY <1>2, <1>3 DEF Driven, Genuine
<1> QED
  BY <1>1, <1>2, <1>4, StepKeepsIt

-----------------------------------------------------------------------------
(* The steps of a process.                                                 *)

\* A process that finds a run half made, though nobody died, is not alone.
LEMMA CheckKeepsIt ==
  ASSUME IInv, NEW r \in Run, NEW d \in Slot, Check(r, d)
  PROVE  IInv'
<1>1. drivers[r][d].pc = "check" /\ UNCHANGED <<overlap, broken>>
  BY DEF Check, SupUnchanged, hist
<1>2. /\ runs[r] \in Directory
      /\ runs = [runs EXCEPT ![r] = runs[r]]
      /\ runs[r].stopped => runs[r].stop # "none"
      /\ r \notin overlap \cup broken => runs[r].made # "half" /\ Genuine(runs[r], FALSE)
  BY <1>1, Known
<1>3. CASE runs[r].result # "none" /\ Exits(r, d) /\ UNCHANGED runs
  <2>1. PICK x \in Process : x.pc = "none" /\ drivers' = [drivers EXCEPT ![r][d] = x]
    BY <1>3, Went DEF Pcs
  <2>2. runs' = [runs EXCEPT ![r] = runs[r]]
    BY <1>2, <1>3
  <2>3. x.pc \notin After /\ Driven(x, runs[r])
    BY <2>1 DEF After, Driven
  <2>4. r \notin overlap \cup broken' => runs[r].made # "half" /\ Genuine(runs[r], x.pc = "write")
    BY <1>1, <1>2 DEF Genuine
  <2> QED
    BY <1>1, <1>2, <2>1, <2>2, <2>3, <2>4, StepKeepsIt
<1>4. CASE /\ runs[r].result = "none" /\ runs[r].made = "no"
           /\ runs' = [runs EXCEPT ![r].made = "half"]
           /\ Goes(r, d, "create")
  <2>1. PICK x \in Process : x.pc = "create" /\ drivers' = [drivers EXCEPT ![r][d] = x]
    BY <1>4, Went DEF Pcs
  <2> DEFINE y == [runs[r] EXCEPT !.made = "half"]
  <2>2. /\ y \in Directory
        /\ y.result = "none" /\ y.stop = runs[r].stop /\ y.stopped = runs[r].stopped
        /\ runs' = [runs EXCEPT ![r] = y]
    BY <1>2, <1>4 DEF Directory
  <2> HIDE DEF y
  <2>3. x.pc \notin After /\ Driven(x, y) /\ Genuine(y, x.pc = "write")
    BY <2>1, <2>2 DEF After, Driven, Genuine
  <2> QED
    BY <1>1, <1>2, <2>1, <2>2, <2>3, StepKeepsIt
<1>5. CASE /\ runs[r].result = "none" /\ runs[r].made # "no"
           /\ runs' = IF IsPaused(r) THEN [runs EXCEPT ![r].tripped = "none"] ELSE runs
           /\ Goes(r, d, "drive")
  <2>1. PICK x \in Process : x.pc = "drive" /\ drivers' = [drivers EXCEPT ![r][d] = x]
    BY <1>5, Went DEF Pcs
  <2> DEFINE y == IF IsPaused(r) THEN [runs[r] EXCEPT !.tripped = "none"] ELSE runs[r]
  <2>2. /\ y \in Directory
        /\ y.result = "none" /\ y.made = runs[r].made
        /\ y.stop = runs[r].stop /\ y.stopped = runs[r].stopped
        /\ runs' = [runs EXCEPT ![r] = y]
    BY <1>2, <1>5 DEF Directory
  <2>3. r \notin overlap \cup broken' => runs[r].made = "yes"
    BY <1>1, <1>2, <1>5 DEF Directory
  <2> HIDE DEF y
  <2>4. x.pc \notin After /\ Genuine(y, x.pc = "write")
    BY <2>1, <2>2 DEF After, Genuine
  <2>5. r \notin overlap \cup broken' => y.made # "half" /\ Driven(x, y)
    BY <2>1, <2>2, <2>3 DEF After, Driven
  <2> QED
    BY <1>1, <1>2, <2>1, <2>2, <2>4, <2>5, StepKeepsIt
<1> QED
  BY <1>3, <1>4, <1>5 DEF Check

LEMMA CreateKeepsIt ==
  ASSUME IInv, NEW r \in Run, NEW d \in Slot, Create(r, d)
  PROVE  IInv'
<1>1. drivers[r][d].pc = "create" /\ UNCHANGED <<overlap, broken>>
  BY DEF Create, SupUnchanged, hist
<1>2. PICK x \in Process : x.pc = "drive" /\ drivers' = [drivers EXCEPT ![r][d] = x]
  BY Went DEF Create, Pcs
<1> DEFINE y == [runs[r] EXCEPT !.made = "yes"]
<1>3. /\ y \in Directory
      /\ y.result = runs[r].result /\ y.made = "yes"
      /\ y.stop = runs[r].stop /\ y.stopped = runs[r].stopped
      /\ runs' = [runs EXCEPT ![r] = y]
  BY Known DEF Create, Directory
<1>4. /\ r \notin overlap => runs[r].result = "none"
      /\ runs[r].stopped => runs[r].stop # "none"
  BY <1>1, Known
<1> HIDE DEF y
<1>5. x.pc \notin After /\ Driven(x, y)
  BY <1>2, <1>3 DEF After, Driven
<1>6. r \notin overlap => Genuine(y, x.pc = "write")
  BY <1>3, <1>4 DEF Genuine
<1> QED
  BY <1>1, <1>2, <1>3, <1>4, <1>5, <1>6, StepKeepsIt

\* A process at work changes what the directory says of the scheduler, but
\* neither what was made nor the result.
LEMMA WorkKeepsIt ==
  ASSUME IInv, NEW r \in Run, NEW d \in Slot,
         drivers[r][d].pc \in {"drive", "running", "stopping"},
         UNCHANGED <<overlap, broken>>,
         NEW x \in Process, drivers' = [drivers EXCEPT ![r][d] = x],
         x.pc \in {"running", "stopping", "look"},
         NEW y \in Directory, runs' = [runs EXCEPT ![r] = y],
         y.made = runs[r].made, y.result = runs[r].result,
         runs[r].stop # "none" => y.stop # "none",
         y.stopped => y.stop # "none", x.pc = "look" => y.stopped
  PROVE  IInv'
<1>1. /\ r \notin overlap => runs[r].result = "none"
      /\ r \notin overlap \cup broken => runs[r].made = "yes"
  BY Known DEF Driven
<1>2. r \notin overlap \cup broken' =>
        /\ y.made # "half" /\ Driven(x, y) /\ Genuine(y, x.pc = "write")
  BY <1>1 DEF Driven, Genuine, After
<1>3. x.pc \in After \/ y.stopped => y.stop # "none"
  BY DEF After
<1> QED
  BY <1>1, <1>2, <1>3, StepKeepsIt

\* The scheduler stops, be it halted by the provider: the process has yet to
\* look at why.
LEMMA StopsKeepsIt ==
  ASSUME IInv, NEW r \in Run, NEW d \in Slot, Stops(r, d)
  PROVE  IInv'
<1>1. drivers[r][d].pc \in {"running", "stopping"} /\ UNCHANGED <<overlap, broken>>
  BY DEF Stops, SupUnchanged, hist
<1>2. PICK x \in Process : x.pc = "look" /\ drivers' = [drivers EXCEPT ![r][d] = x]
  BY Went DEF Stops, Pcs
<1>3. PICK why \in Reason : runs' = [runs EXCEPT ![r].stop = why, ![r].stopped = TRUE]
  BY DEF Stops
<1>4. why # "none"
  BY ExperimentAssumption DEF Breakers, OwnEnds, PAUSE_REASON
<1> DEFINE y == [runs[r] EXCEPT !.stop = why, !.stopped = TRUE]
<1>5. /\ y \in Directory /\ y.result = runs[r].result /\ y.made = runs[r].made
      /\ y.stop = why /\ y.stopped /\ runs' = [runs EXCEPT ![r] = y]
  BY <1>3, Known DEF Directory
<1> HIDE DEF y
<1> QED
  BY <1>1, <1>2, <1>4, <1>5, WorkKeepsIt

LEMMA TripsKeepsIt ==
  ASSUME IInv, NEW r \in Run, NEW d \in Slot, Trips(r, d)
  PROVE  IInv'
<1>1. drivers[r][d].pc = "running" /\ UNCHANGED <<overlap, broken>>
  BY DEF Trips, SupUnchanged, hist
<1>2. PICK x \in Process : x.pc = "stopping" /\ drivers' = [drivers EXCEPT ![r][d] = x]
  BY Went DEF Trips, Pcs
<1>3. PICK why \in Reason : runs' = [runs EXCEPT ![r].tripped = why]
  BY DEF Trips
<1> DEFINE y == [runs[r] EXCEPT !.tripped = why]
<1>4. /\ y \in Directory /\ y.result = runs[r].result /\ y.made = runs[r].made
      /\ y.stop = runs[r].stop /\ y.stopped = runs[r].stopped
      /\ runs' = [runs EXCEPT ![r] = y]
  BY <1>3, Known DEF Directory
<1>5. runs[r].stopped => runs[r].stop # "none"
  BY Known
<1> HIDE DEF y
<1> QED
  BY <1>1, <1>2, <1>4, <1>5, WorkKeepsIt

LEMMA RunTeamKeepsIt ==
  ASSUME IInv, NEW r \in Run, NEW d \in Slot, RunTeam(r, d)
  PROVE  IInv'
<1>1. drivers[r][d].pc = "drive" /\ UNCHANGED <<overlap, broken>>
  BY DEF RunTeam, SupUnchanged, hist
<1>2. CASE UNCHANGED runs /\ (Exits(r, d) \/ (runs[r].stopped /\ Goes(r, d, "look")))
  <2>1. PICK x \in Process : /\ x.pc = "none" \/ (runs[r].stopped /\ x.pc = "look")
                             /\ drivers' = [drivers EXCEPT ![r][d] = x]
    BY <1>2, Went DEF Pcs
  <2>2. x.pc \in After => runs[r].stopped
    BY <2>1 DEF After
  <2> QED
    BY <1>1, <1>2, <2>1, <2>2, GoesKeepsIt
<1>3. CASE Goes(r, d, "running") /\ runs' = [runs EXCEPT ![r].stopped = FALSE]
  <2>1. PICK x \in Process : x.pc = "running" /\ drivers' = [drivers EXCEPT ![r][d] = x]
    BY <1>3, Went DEF Pcs
  <2> DEFINE y == [runs[r] EXCEPT !.stopped = FALSE]
  <2>2. /\ y \in Directory /\ y.result = runs[r].result /\ y.made = runs[r].made
        /\ y.stop = runs[r].stop /\ ~y.stopped
        /\ runs' = [runs EXCEPT ![r] = y]
    BY <1>3, Known DEF Directory
  <2> HIDE DEF y
  <2> QED
    BY <1>1, <2>1, <2>2, WorkKeepsIt
<1> QED
  BY <1>2, <1>3 DEF RunTeam

\* The owner drives on, or comes to an end.
LEMMA Looked ==
  ASSUME IInv, NEW r \in Run, NEW d \in Slot, Look(r, d)
  PROVE  \E x \in Process : x.pc \in {"drive", "end"} /\ drivers' = [drivers EXCEPT ![r][d] = x]
<1>1. CASE Goes(r, d, "end")
  BY <1>1, Went DEF Pcs
<1>2. CASE ~Goes(r, d, "end")
  <2> DEFINE me == drivers[r][d]
  <2>1. PICK n \in {me.nudges, me.nudges + 1} :
          drivers' = [drivers EXCEPT ![r][d] =
            [me EXCEPT !.rounds = @ + 1, !.nudges = n,
               !.pc = IF me.rounds + 1 < MaxRounds THEN "drive" ELSE "end"]]
    BY <1>2 DEF Look
  <2> DEFINE pc == IF me.rounds + 1 < MaxRounds THEN "drive" ELSE "end"
             x == [me EXCEPT !.rounds = @ + 1, !.nudges = n, !.pc = pc]
  <2>2. me \in Process /\ n \in Nat /\ me.rounds + 1 \in Nat
    BY Known DEF Process
  <2>3. pc \in {"drive", "end"} /\ pc \in Pcs
    BY DEF Pcs
  <2>4. drivers' = [drivers EXCEPT ![r][d] = x]
    BY <2>1
  <2>5. x \in Process /\ x.pc = pc
    <3> HIDE DEF me, pc
    <3> QED
      BY <2>2, <2>3 DEF Process
  <2> QED
    BY <2>3, <2>4, <2>5
<1> QED
  BY <1>1, <1>2

LEMMA LookKeepsIt ==
  ASSUME IInv, NEW r \in Run, NEW d \in Slot, Look(r, d)
  PROVE  IInv'
<1>1. drivers[r][d].pc = "look" /\ UNCHANGED <<runs, overlap, broken>>
  BY DEF Look, SupUnchanged, hist
<1>2. PICK x \in Process : x.pc \in {"drive", "end"} /\ drivers' = [drivers EXCEPT ![r][d] = x]
  BY Looked
<1>3. drivers[r][d].pc \in After
  BY <1>1 DEF After
<1> QED
  BY <1>1, <1>2, <1>3, GoesKeepsIt

\* What is graded has not been paused.
LEMMA EndKeepsIt ==
  ASSUME IInv, NEW r \in Run, NEW d \in Slot, End(r, d)
  PROVE  IInv'
<1>1. drivers[r][d].pc = "end" /\ UNCHANGED <<runs, overlap, broken>>
  BY DEF End, SupUnchanged, hist
<1>2. PICK x \in Process : /\ x.pc \in {"none", "grade"}
                           /\ x.pc = "grade" => ~IsPaused(r)
                           /\ drivers' = [drivers EXCEPT ![r][d] = x]
  BY Went DEF End, Pcs
<1>3. /\ r \notin overlap \cup broken => runs[r].made = "yes"
      /\ drivers[r][d].pc \in After
  BY <1>1, Known DEF Driven, After
<1> QED
  BY <1>1, <1>2, <1>3, GoesKeepsIt DEF IsPaused

\* The file of the result is there before what it says; a death in between is
\* remembered.
LEMMA GradeKeepsIt ==
  ASSUME IInv, NEW r \in Run, NEW d \in Slot, Grade(r, d)
  PROVE  IInv'
<1>1. drivers[r][d].pc \in {"grade", "write"} /\ UNCHANGED <<overlap, broken>>
  BY DEF Grade, SupUnchanged, hist
<1>2. PICK x \in Process, res \in {"torn", runs[r].stop} :
        /\ x.pc \in {"none", "write"} /\ (x.pc = "write" <=> res = "torn")
        /\ drivers' = [drivers EXCEPT ![r][d] = x]
        /\ runs' = [runs EXCEPT ![r].result = res]
  <2>1. runs[r].stop # "torn"
    BY Known, ExperimentAssumption DEF Directory, Breakers, OwnEnds, PAUSE_REASON
  <2>2. CASE Goes(r, d, "write") /\ runs' = [runs EXCEPT ![r].result = "torn"]
    BY <2>2, Went DEF Pcs
  <2>3. CASE Exits(r, d) /\ runs' = [runs EXCEPT ![r].result = runs[r].stop]
    BY <2>1, <2>3, Went DEF Pcs
  <2> QED
    BY <2>2, <2>3 DEF Grade
<1> DEFINE y == [runs[r] EXCEPT !.result = res]
<1>3. /\ y \in Directory /\ y.result = res /\ y.stop = runs[r].stop
      /\ y.made = runs[r].made /\ y.stopped = runs[r].stopped
      /\ runs' = [runs EXCEPT ![r] = y]
  BY <1>2, Known DEF Directory
<1>4. /\ r \notin overlap \cup broken =>
           runs[r].made = "yes" /\ runs[r].stopped /\ runs[r].stop # PAUSE_REASON
      /\ runs[r].stop # "none"
  BY <1>1, Known DEF Driven, After
<1> HIDE DEF y
<1>5. r \notin overlap \cup broken' =>
        y.made # "half" /\ Driven(x, y) /\ Genuine(y, x.pc = "write")
  BY <1>1, <1>2, <1>3, <1>4 DEF Driven, Genuine, After
<1> QED
  BY <1>1, <1>2, <1>3, <1>4, <1>5, StepKeepsIt

\* A run whose process dies while it creates it, or writes its result, is
\* remembered as broken.
LEMMA DriverDiesKeepsIt ==
  ASSUME IInv, NEW r \in Run, NEW d \in Slot, DriverDies(r, d)
  PROVE  IInv'
<1>1. /\ drivers[r][d].pc # "none" /\ UNCHANGED <<runs, overlap>> /\ broken \subseteq broken'
      /\ drivers[r][d].pc \in {"create", "write"} => r \in broken'
  BY DEF DriverDies
<1>2. PICK x \in Process : x.pc = "none" /\ drivers' = [drivers EXCEPT ![r][d] = x]
  BY Went DEF DriverDies, Pcs
<1>3. runs[r] \in Directory /\ runs' = [runs EXCEPT ![r] = runs[r]]
  BY <1>1, Known
<1>4. runs[r].stopped => runs[r].stop # "none"
  BY Known
<1>5. r \notin overlap \cup broken' => runs[r].made # "half" /\ Genuine(runs[r], FALSE)
  BY <1>1, Known
<1>6. x.pc \notin After /\ Driven(x, runs[r])
  BY <1>2 DEF After, Driven
<1>7. r \notin overlap \cup broken' => Genuine(runs[r], x.pc = "write")
  BY <1>5 DEF Genuine
<1> QED
  BY <1>1, <1>2, <1>3, <1>4, <1>5, <1>6, <1>7, StepKeepsIt

\* A second process at a run is remembered as overlap.
LEMMA LaunchKeepsIt ==
  ASSUME IInv, NEW r \in Run, Launch(r)
  PROVE  IInv'
<1>1. UNCHANGED <<runs, broken>> /\ overlap \subseteq overlap'
  BY DEF Launch
<1> DEFINE x == [Ended EXCEPT !.pc = "check", !.own = TRUE]
<1>2. PICK d \in Slot :
        /\ drivers[r][d].pc = "none"
        /\ drivers' = [drivers EXCEPT ![r][d] = x]
        /\ (\E e \in Slot : drivers[r][e].pc # "none") => r \in overlap'
  <2> DEFINE free == {d \in Slot : drivers[r][d].pc = "none"}
             d == CHOOSE d \in free : TRUE
  <2>1. /\ free # {} /\ drivers' = [drivers EXCEPT ![r][d] = x]
        /\ overlap' = IF free = Slot THEN overlap ELSE overlap \cup {r}
    BY DEF Launch
  <2>2. d \in free
    BY <2>1
  <2>3. (\E e \in Slot : drivers[r][e].pc # "none") => r \in overlap'
    BY <2>1
  <2> QED
    BY <2>1, <2>2, <2>3
<1>3. x \in Process /\ x.pc = "check"
  BY DEF Ended, Process, Pcs
<1> HIDE DEF x
<1>4. /\ Shape' /\ drivers'[r][d] = x
      /\ \A e \in Slot \ {d} : drivers'[r][e] = drivers[r][e]
      /\ \A q \in Run \ {r} : drivers'[q] = drivers[q]
  BY <1>1, <1>2, <1>3 DEF IInv, Shape
<1>5. Alone(r)'
  BY <1>1, <1>2, <1>3, <1>4 DEF IInv, Alone
<1>6. Ready(r)'
  <2> SUFFICES ASSUME r \notin overlap' \cup broken' PROVE Ready(r)'
    BY DEF Ready
  <2>1. \A e \in Slot : drivers[r][e].pc = "none"
    BY <1>2
  <2>2. /\ Ready(r) /\ r \notin overlap \cup broken
    BY <1>1 DEF IInv
  <2>3. runs[r].made # "half" /\ Genuine(runs[r], FALSE)
    BY <2>1, <2>2 DEF Ready, Genuine
  <2>4. \A e \in Slot : Driven(drivers'[r][e], runs[r])
    BY <1>3, <1>4, <2>1 DEF Driven, After
  <2>5. Genuine(runs[r], \E e \in Slot : drivers'[r][e].pc = "write")
    BY <2>3 DEF Genuine
  <2> QED
    BY <1>1, <2>3, <2>4, <2>5 DEF Ready
<1>7. Stopped(r)'
  BY <1>1, <1>2, <1>3, <1>4 DEF IInv, Stopped, After
<1> QED
  BY <1>1, <1>4, <1>5, <1>6, <1>7, OneRun DEF AtOnly

\* The supervisor otherwise: no run notices.
LEMMA SamePlaces ==
  ASSUME IInv, Begin \/ While \/ Await \/ Tally \/ SupervisorDies \/ UNCHANGED vars
  PROVE  /\ UNCHANGED <<runs, overlap, broken>> /\ drivers' \in [Run -> [Slot -> Process]]
         /\ \A r \in Run, d \in Slot : drivers'[r][d].pc = drivers[r][d].pc
<1>1. CASE SupervisorDies
  <2>1. \A x \in Process : /\ [x EXCEPT !.own = FALSE] \in Process
                           /\ [x EXCEPT !.own = FALSE].pc = x.pc
    BY DEF Process
  <2>2. \A r \in Run, d \in Slot : drivers[r][d] \in Process
    BY DEF IInv, Shape
  <2> QED
    BY <1>1, <2>1, <2>2 DEF SupervisorDies, hist
<1>2. CASE Begin \/ While \/ Await \/ Tally \/ UNCHANGED vars
  <2>1. UNCHANGED <<runs, drivers, overlap, broken>>
    BY <1>2 DEF Begin, While, Await, Tally, RunsUnchanged, vars, hist
  <2> QED
    BY <2>1 DEF IInv, Shape
<1> QED
  BY <1>1, <1>2

LEMMA OthersKeepIt ==
  ASSUME IInv, Begin \/ While \/ Await \/ Tally \/ SupervisorDies \/ UNCHANGED vars
  PROVE  IInv'
<1>1. Shape'
  BY SamePlaces DEF IInv, Shape
<1>2. ASSUME NEW r \in Run PROVE Alone(r)' /\ Ready(r)' /\ Stopped(r)'
  BY SamePlaces, Elsewhere DEF IInv
<1> QED
  BY <1>1, <1>2 DEF IInv

-----------------------------------------------------------------------------
LEMMA InvariantHolds == Init => IInv
<1> SUFFICES ASSUME Init PROVE IInv
  OBVIOUS
<1>1. Shape
  BY DEF Init, Shape, Directory, Process, Pcs, Ended
<1>2. \A r \in Run : Alone(r) /\ Ready(r) /\ Stopped(r)
  BY DEF Init, Alone, Ready, Stopped, Ended, After, Driven, Genuine
<1> QED
  BY <1>1, <1>2 DEF IInv

LEMMA InvariantStays == IInv /\ [Next]_vars => IInv'
<1> SUFFICES ASSUME IInv, [Next]_vars PROVE IInv'
  OBVIOUS
<1>1. ASSUME NEW r \in Run, NEW d \in Slot, Drive(r, d) \/ DriverDies(r, d) PROVE IInv'
  BY <1>1, CheckKeepsIt, CreateKeepsIt, RunTeamKeepsIt, TripsKeepsIt, StopsKeepsIt, LookKeepsIt,
     EndKeepsIt, GradeKeepsIt, DriverDiesKeepsIt DEF Drive
<1>2. ASSUME NEW r \in Run, Launch(r) PROVE IInv'
  BY <1>2, LaunchKeepsIt
<1>3. CASE Begin \/ While \/ Await \/ Tally \/ SupervisorDies \/ UNCHANGED vars
  BY <1>3, OthersKeepIt
<1> QED
  BY <1>1, <1>2, <1>3 DEF Next, Supervise

\* However pauses by the provider, deaths and relaunches follow one another: what
\* has a result was created, its scheduler has stopped since it was last resumed,
\* for the reason the result gives and not for the provider's (run_one, drive).
THEOREM ResultsComeFromEnds == Spec => []ResultsAreGenuine
<1>1. IInv => ResultsAreGenuine
  BY DEF IInv, Ready, Genuine, ResultsAreGenuine
<1> QED
  BY <1>1, InvariantHolds, InvariantStays, PTL DEF Spec

\* A run that has its result is left alone for good (run_one's first test, and
\* what it may not forget between that test and the result).
THEOREM FinishedStaysFinished == Spec => ResultsStand
<1>1. IInv /\ [Next]_vars =>
        [\A r \in Run \ overlap :
           runs[r].result # "none" =>
             runs'[r] \in {runs[r], [runs[r] EXCEPT !.result = runs[r].stop]}]_vars
  <2> SUFFICES ASSUME IInv, Next, NEW q \in Run \ overlap, runs[q].result # "none"
               PROVE  runs'[q] \in {runs[q], [runs[q] EXCEPT !.result = runs[q].stop]}
    OBVIOUS
  <2>1. \A d \in Slot : drivers[q][d].pc \in {"none", "check", "write"}
    BY DEF IInv, Alone
  <2>2. ASSUME NEW r \in Run, NEW d \in Slot, Drive(r, d)
        PROVE  runs'[q] \in {runs[q], [runs[q] EXCEPT !.result = runs[q].stop]}
    <3>1. CASE r = q /\ Grade(r, d)
      BY <2>1, <3>1 DEF IInv, Shape, Grade
    <3>2. CASE r = q /\ ~Grade(r, d)
      BY <2>1, <2>2, <3>2 DEF Drive, Check, Create, RunTeam, Trips, Stops, Look, End
    <3>3. CASE r # q
      BY <2>2, <3>3 DEF IInv, Shape, Drive, Check, Create, RunTeam, Trips, Stops, Look, End, Grade
    <3> QED
      BY <3>1, <3>2, <3>3
  <2>3. CASE Begin \/ Supervise \/ SupervisorDies
             \/ \E r \in Run, d \in Slot : DriverDies(r, d)
    BY <2>3 DEF Begin, Supervise, While, Await, Tally, Launch, SupervisorDies,
                DriverDies, RunsUnchanged
  <2> QED
    BY <2>2, <2>3 DEF Next
<1> QED
  BY <1>1, InvariantHolds, InvariantStays, PTL DEF Spec, ResultsStand

-----------------------------------------------------------------------------
(* The supervisor.  A result is never taken back, for a process that grades *)
(* has seen its run stop; so what was done when it gave up stays done.      *)

Counts ==
  /\ {"pc", "waited", "stalled", "w", "before", "queue", "row"} \subseteq DOMAIN sup
  /\ sup.waited \in Nat /\ sup.stalled \in Nat
  /\ sup.row = sup.stalled
  /\ sup.pc \in {"dead", "done"} \/ sup.stalled < 3

WInv == IInv /\ Counts /\ WaitKept

LEMMA ResultsAreKept ==
  ASSUME IInv, NEW r \in Run, NEW d \in Slot, Drive(r, d) \/ DriverDies(r, d)
  PROVE  OpenKeys' \subseteq OpenKeys
<1>1. CASE Grade(r, d)
  <2>1. runs[r].stop # "none"
    BY <1>1 DEF Grade, IInv, Stopped, After
  <2> QED
    BY <1>1, <2>1 DEF Grade, OpenKeys, IInv, Shape, Directory
<1>2. CASE Check(r, d) \/ Create(r, d)
  <2>1. CASE UNCHANGED runs
    BY <2>1 DEF OpenKeys
  <2>2. CASE \E m \in {"half", "yes"} : runs' = [runs EXCEPT ![r].made = m]
    BY <2>2 DEF OpenKeys, IInv, Shape, Directory
  <2>3. CASE runs' = [runs EXCEPT ![r].tripped = "none"]
    BY <2>3 DEF OpenKeys, IInv, Shape, Directory
  <2> QED
    BY <1>2, <2>1, <2>2, <2>3 DEF Check, Create
<1>3. CASE Stops(r, d) \/ Trips(r, d) \/ RunTeam(r, d)
  <2>1. runs \in [Run -> Directory]
    BY DEF IInv, Shape
  <2>2. CASE UNCHANGED runs
    BY <2>2 DEF OpenKeys
  <2>3. CASE \E why \in Reason : runs' = [runs EXCEPT ![r].stop = why, ![r].stopped = TRUE]
    BY <2>1, <2>3 DEF OpenKeys, Directory
  <2>4. CASE \E why \in Reason : runs' = [runs EXCEPT ![r].tripped = why]
    BY <2>1, <2>4 DEF OpenKeys, Directory
  <2>5. CASE runs' = [runs EXCEPT ![r].stopped = FALSE]
    BY <2>1, <2>5 DEF OpenKeys, Directory
  <2> QED
    BY <1>3, <2>2, <2>3, <2>4, <2>5 DEF Stops, Trips, RunTeam
<1>4. CASE Look(r, d) \/ End(r, d) \/ DriverDies(r, d)
  BY <1>4 DEF Look, End, DriverDies, OpenKeys
<1> QED
  BY <1>1, <1>2, <1>3, <1>4 DEF Drive

LEMMA StepsOfWait ==
  ASSUME sup.waited \in Nat, sup.waited < MaxPause
  PROVE  LET step == Min({Poll, MaxPause - sup.waited})
         IN  step \in Nat /\ sup.waited + step <= MaxPause
<1>1. Poll \in Nat /\ MaxPause - sup.waited \in Nat
  BY ExperimentAssumption
<1>2. \A a, b \in Nat : Min({a, b}) \in {a, b} /\ Min({a, b}) <= b
  BY DEF Min
<1> HIDE DEF Min
<1> QED
  BY <1>1, <1>2, ExperimentAssumption

LEMMA SupervisorKeepsIt ==
  ASSUME WInv, Begin \/ While \/ Await \/ Tally \/ SupervisorDies \/ \E r \in Run : Launch(r)
  PROVE  Counts' /\ WaitKept'
<1> USE DEF WInv, Counts, WaitKept
<1>1. OpenKeys' = OpenKeys
  BY DEF Begin, While, Await, Tally, SupervisorDies, Launch, RunsUnchanged, OpenKeys
<1>2. CASE Begin \/ SupervisorDies
  BY <1>2, ExperimentAssumption DEF Begin, SupervisorDies, Asleep
<1>3. CASE While
  BY <1>1, <1>3 DEF While
<1>4. CASE Await
  <2> DEFINE step == Min({Poll, MaxPause - sup.waited})
  <2>1. sup.waited < MaxPause => step \in Nat /\ sup.waited + step <= MaxPause
    BY StepsOfWait
  <2> HIDE DEF step
  <2>2. PICK ready \in BOOLEAN :
          sup' = IF ready THEN Launching
                 ELSE IF sup.waited >= MaxPause THEN GivesUp
                 ELSE [sup EXCEPT !.waited = @ + step, !.w = @ + step]
    BY <1>4 DEF Await, step
  <2>3. sup.pc = "probe" /\ MaxPause \in Nat
    BY <1>4, ExperimentAssumption DEF Await
  <2>4. CASE ready
    BY <1>1, <2>2, <2>3, <2>4 DEF Launching
  <2>5. CASE ~ready /\ sup.waited >= MaxPause
    BY <1>1, <2>2, <2>3, <2>5 DEF GivesUp
  <2>6. CASE ~ready /\ ~(sup.waited >= MaxPause)
    <3>1. sup' = [sup EXCEPT !.waited = @ + step, !.w = @ + step]
      BY <2>2, <2>6
    <3>2. /\ DOMAIN sup' = DOMAIN sup /\ sup'.waited = sup.waited + step
          /\ sup'.stalled = sup.stalled /\ sup'.pc = sup.pc /\ sup'.row = sup.row
      BY <3>1
    <3>3. sup.waited < MaxPause
      BY <2>3, <2>6
    <3> QED
      BY <2>1, <2>3, <3>2, <3>3
  <2> QED
    BY <2>4, <2>5, <2>6
<1>5. CASE Tally
  BY <1>1, <1>5 DEF Tally
<1>6. CASE \E r \in Run : Launch(r)
  BY <1>1, <1>6 DEF Launch
<1> QED
  BY <1>2, <1>3, <1>4, <1>5, <1>6

\* The supervisor waits for the provider to the end of its budget and no longer,
\* and gives up on open runs only then or after three launches in a row in vain
\* (run_all, await_provider); what its processes do once they are nobody's
\* does not make its decision wrong afterwards.
THEOREM WaitIsKept == Spec => []WaitKept
<1>1. Init => WInv
  <2> SUFFICES ASSUME Init PROVE WInv
    OBVIOUS
  <2>1. Counts /\ WaitKept
    BY ExperimentAssumption DEF Init, Asleep, Counts, WaitKept
  <2> QED
    BY <2>1, InvariantHolds DEF WInv
<1>2. WInv /\ [Next]_vars => WInv'
  <2> SUFFICES ASSUME WInv, [Next]_vars PROVE Counts' /\ WaitKept'
    BY InvariantStays DEF WInv
  <2>1. ASSUME NEW r \in Run, NEW d \in Slot, Drive(r, d) \/ DriverDies(r, d)
        PROVE  Counts' /\ WaitKept'
    <3>1. UNCHANGED sup
      BY <2>1 DEF Drive, Check, Create, RunTeam, Trips, Stops, Look, End, Grade, DriverDies,
                  SupUnchanged
    <3>2. OpenKeys' \subseteq OpenKeys
      BY <2>1, ResultsAreKept DEF WInv
    <3> QED
      BY <3>1, <3>2 DEF WInv, Counts, WaitKept
  <2>2. CASE Begin \/ Supervise \/ SupervisorDies
    BY <2>2, SupervisorKeepsIt DEF Supervise
  <2>3. CASE UNCHANGED vars
    BY <2>3 DEF vars, WInv, Counts, WaitKept, OpenKeys
  <2> QED
    BY <2>1, <2>2, <2>3 DEF Next
<1> QED
  BY <1>1, <1>2, PTL DEF Spec, WInv
=============================================================================
