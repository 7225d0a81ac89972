----------------------------- MODULE Experiment -----------------------------
(***************************************************************************)
(* The experiment runner (experiment/runner.py, experiment/quota.py): a    *)
(* supervisor probes the provider, launches every run that has no result   *)
(* in a process of its own, and launches again what a pause by the         *)
(* provider or a death left open.  The process of a run creates it or      *)
(* clears its breaker, drives it round by round as its owner, and writes   *)
(* the result when it has come to an end.                                  *)
(*                                                                         *)
(* When the supervisor dies, the processes it has launched live on.        *)
(***************************************************************************)
EXTENDS Integers, FiniteSets, FiniteSetsExt

CONSTANTS
  Run,             \* the runs: arm, task and repeat
  Slot,            \* processes that may be at one run: those of two supervisors
  Parallel,
  Reason,          \* why the scheduler of a run may stop, of the code's reasons
  Poll, MaxPause,  \* the time between probes and what may be waited in all
  MaxRounds, Nudges,
  MaxCrashes, MaxLaunches

PAUSE_REASON == "breaker:provider"
Breakers == {"breaker:budget", "breaker:storm", PAUSE_REASON}

\* OrgService.stop_reason(): the organization says that the run is over.
OwnEnds == {"goal_met", "goals_cancelled"}

ASSUME ExperimentAssumption ==
  /\ Reason \subseteq Breakers \cup OwnEnds \cup {"quiescent", "human"}
  /\ Cardinality(Slot) > MaxCrashes
  /\ {Parallel, Poll, MaxRounds} \subseteq Nat \ {0}
  /\ {MaxPause, Nudges, MaxCrashes, MaxLaunches} \subseteq Nat

VARIABLES
  runs,        \* by run: [made, stop, stopped, tripped, result], what its directory says
  drivers,     \* by run and slot: [pc, own, rounds, nudges], a process at the run
  sup,         \* the supervisor: [pc, waited, stalled, w, before, queue] and, as history,
               \* row: how many launches in vain came last, one after the other
  crashes, launches,
  overlap,     \* the runs that had two processes at once
  broken,      \* the runs whose process died while it created them or wrote their result
  left         \* the runs whose process died between a breaker's trip and the stop

hist == <<overlap, broken, left>>
vars == <<runs, drivers, sup, crashes, launches, hist>>

Ended == [pc |-> "none", own |-> FALSE, rounds |-> 0, nudges |-> 0]
Asleep == [pc |-> "dead", waited |-> 0, stalled |-> 0, w |-> 0, before |-> 0, queue |-> {},
           row |-> 0]

OpenKeys == {r \in Run : runs[r].result = "none"}

\* Mutant: nothing tells a pause from an end.
PausedNever(r) == FALSE

\* The last stop the log of a run tells of was the provider's.
IsPaused(r) == runs[r].made # "no" /\ runs[r].stop = PAUSE_REASON

-----------------------------------------------------------------------------
(* The process of a run: run_one() and drive().                            *)

Goes(r, d, pc) == drivers' = [drivers EXCEPT ![r][d].pc = pc]
Exits(r, d) == drivers' = [drivers EXCEPT ![r][d] = Ended]
SupUnchanged == UNCHANGED <<sup, crashes, launches, hist>>

\* Mutant: that a run has got its result meanwhile is not looked at.
CheckAlways(r, d) ==
  /\ drivers[r][d].pc = "check"
  /\ \/ /\ runs[r].made = "no"
        /\ runs' = [runs EXCEPT ![r].made = "half"]
        /\ Goes(r, d, "create")
     \/ /\ runs[r].made # "no"
        /\ runs' = IF IsPaused(r) THEN [runs EXCEPT ![r].tripped = "none"] ELSE runs
        /\ Goes(r, d, "drive")
  /\ SupUnchanged

\* A finished run is left alone, a new one created: run.json first; the
\* breaker of a paused one is reset.
Check(r, d) ==
  /\ drivers[r][d].pc = "check"
  /\ \/ runs[r].result # "none" /\ Exits(r, d) /\ UNCHANGED runs
     \/ /\ runs[r].result = "none" /\ runs[r].made = "no"
        /\ runs' = [runs EXCEPT ![r].made = "half"]
        /\ Goes(r, d, "create")
     \/ /\ runs[r].result = "none" /\ runs[r].made # "no"
        /\ runs' = IF IsPaused(r) THEN [runs EXCEPT ![r].tripped = "none"] ELSE runs
        /\ Goes(r, d, "drive")
  /\ SupUnchanged

\* Roster, rooms, tasks and run_started.
Create(r, d) ==
  /\ drivers[r][d].pc = "create"
  /\ runs' = [runs EXCEPT ![r].made = "yes"]
  /\ Goes(r, d, "drive")
  /\ SupUnchanged

\* run_team(): one scheduler at a time, or the process fails.  A run that has
\* stopped is resumed, unless its breaker is still tripped: then it is over at once.
RunTeam(r, d) ==
  /\ drivers[r][d].pc = "drive"
  /\ \/ /\ \E e \in Slot : drivers[r][e].pc \in {"running", "stopping"}
        /\ Exits(r, d) /\ UNCHANGED runs
     \/ /\ \A e \in Slot : drivers[r][e].pc \notin {"running", "stopping"}
        /\ IF runs[r].stopped /\ runs[r].tripped # "none"
           THEN Goes(r, d, "look") /\ UNCHANGED runs
           ELSE Goes(r, d, "running") /\ runs' = [runs EXCEPT ![r].stopped = FALSE]
  /\ SupUnchanged

\* The scheduler finds the run paused by a breaker that it has not tripped
\* itself: it starts nothing, and nothing has it stop.
Waits(r, d) == drivers[r][d].pc = "running" /\ runs[r].tripped # "none"

\* A breaker is recorded; what runs is cancelled before the run stops.
Trips(r, d) ==
  /\ drivers[r][d].pc = "running"
  /\ runs[r].tripped = "none" /\ runs[r].made = "yes"
  /\ \E why \in Reason \cap Breakers : runs' = [runs EXCEPT ![r].tripped = why]
  /\ Goes(r, d, "stopping")
  /\ SupUnchanged

\* The end of its own comes first; a breaker reset meanwhile leaves the request
\* to stop; a run that waits is stopped if a human asks for it.
Stops(r, d) ==
  LET own == IF runs[r].made = "yes" THEN OwnEnds ELSE {}
      other == IF runs[r].tripped # "none" THEN {runs[r].tripped}
               ELSE {"human"} \cup (IF drivers[r][d].pc = "running" THEN {"quiescent"} ELSE {})
  IN  /\ drivers[r][d].pc \in {"running", "stopping"}
      /\ \E why \in Reason \cap (own \cup other) :
           runs' = [runs EXCEPT ![r].stop = why, ![r].stopped = TRUE]
      /\ Goes(r, d, "look")
      /\ SupUnchanged

\* The owner, after each round: approves what awaits it, or nudges, or ends.
Look(r, d) ==
  LET me == drivers[r][d]
      again(n) == drivers' = [drivers EXCEPT ![r][d] =
                    [me EXCEPT !.rounds = @ + 1, !.nudges = n,
                               !.pc = IF me.rounds + 1 < MaxRounds THEN "drive" ELSE "end"]]
      over == runs[r].stop \in Breakers \cup {"goal_met"}
  IN  /\ me.pc = "look"
      /\ \/ over /\ Goes(r, d, "end")
         \/ ~over /\ again(me.nudges)
         \/ /\ ~over
            /\ IF me.nudges < Nudges THEN again(me.nudges + 1) ELSE Goes(r, d, "end")
      /\ UNCHANGED runs /\ SupUnchanged

\* A paused run gets no result: paused.json is written for the reader.
End(r, d) ==
  /\ drivers[r][d].pc = "end"
  /\ IF IsPaused(r) THEN Exits(r, d) ELSE Goes(r, d, "grade")
  /\ UNCHANGED runs /\ SupUnchanged

\* Audit and grading are over: the file of the result is opened, then written.
Grade(r, d) ==
  /\ \/ /\ drivers[r][d].pc = "grade"
        /\ runs' = [runs EXCEPT ![r].result = "torn"]
        /\ Goes(r, d, "write")
     \/ /\ drivers[r][d].pc = "write"
        /\ runs' = [runs EXCEPT ![r].result = runs[r].stop]
        /\ Exits(r, d)
  /\ SupUnchanged

DriverDies(r, d) ==
  /\ drivers[r][d].pc # "none" /\ crashes < MaxCrashes
  /\ crashes' = crashes + 1
  /\ broken' = IF drivers[r][d].pc \in {"create", "write"} THEN broken \cup {r} ELSE broken
  /\ left' = IF drivers[r][d].pc = "stopping" THEN left \cup {r} ELSE left
  /\ Exits(r, d)
  /\ UNCHANGED <<runs, sup, launches, overlap>>

Drive(r, d) ==
  \/ Check(r, d) \/ Create(r, d) \/ RunTeam(r, d) \/ Trips(r, d) \/ Stops(r, d)
  \/ Look(r, d) \/ End(r, d) \/ Grade(r, d)

-----------------------------------------------------------------------------
(* The supervisor: run_all() and await_provider().                         *)

RunsUnchanged == UNCHANGED <<runs, crashes, hist>>

Begin ==
  /\ sup.pc \in {"dead", "done"} /\ launches < MaxLaunches
  /\ sup' = [Asleep EXCEPT !.pc = "open"]
  /\ launches' = launches + 1
  /\ UNCHANGED drivers /\ RunsUnchanged

While ==
  /\ sup.pc = "open"
  /\ sup' = [sup EXCEPT !.pc = IF OpenKeys = {} THEN "done" ELSE "probe"]
  /\ UNCHANGED <<drivers, launches>> /\ RunsUnchanged

Launching == [sup EXCEPT !.pc = "launch", !.queue = OpenKeys, !.before = Cardinality(OpenKeys)]
GivesUp == [sup EXCEPT !.pc = "done"]

\* Mutant: the wait is counted for each launch anew.
AwaitAnew ==
  /\ sup.pc = "probe"
  /\ LET step == Min({Poll, MaxPause - sup.w})
     IN  \E ready \in BOOLEAN :
           sup' = IF ready THEN Launching
                  ELSE IF sup.w >= MaxPause THEN GivesUp
                  ELSE [sup EXCEPT !.waited = step, !.w = @ + step]
  /\ UNCHANGED <<drivers, launches>> /\ RunsUnchanged

\* The account runs dry and is topped up whenever it likes: a probe may find
\* it ready or not.
Await ==
  /\ sup.pc = "probe"
  /\ LET step == Min({Poll, MaxPause - sup.waited})
     IN  \E ready \in BOOLEAN :
           sup' = IF ready THEN Launching
                  ELSE IF sup.waited >= MaxPause THEN GivesUp
                  ELSE [sup EXCEPT !.waited = @ + step, !.w = @ + step]
  /\ UNCHANGED <<drivers, launches>> /\ RunsUnchanged

Own == {x \in Run \X Slot : drivers[x[1]][x[2]].own}

\* The runs are launched in the order of the plan, whatever that is.
Launch(r) ==
  /\ sup.pc = "launch" /\ sup.queue # {} /\ Cardinality(Own) < Parallel
  /\ r = CHOOSE q \in sup.queue : TRUE
  /\ LET free == {d \in Slot : drivers[r][d].pc = "none"}
         d == CHOOSE d \in free : TRUE
     IN  /\ free # {}
         /\ drivers' = [drivers EXCEPT ![r][d] = [Ended EXCEPT !.pc = "check", !.own = TRUE]]
         /\ overlap' = IF free = Slot THEN overlap ELSE overlap \cup {r}
  /\ sup' = [sup EXCEPT !.queue = @ \ {r}]
  /\ UNCHANGED <<runs, crashes, launches, broken, left>>

\* Mutant: launches in vain are counted up, whatever comes between them.
TallyKeeps ==
  /\ sup.pc = "launch" /\ sup.queue = {} /\ Own = {}
  /\ LET vain == Cardinality(OpenKeys) = sup.before /\ sup.w = 0
     IN  sup' = [sup EXCEPT !.w = 0, !.before = 0,
                            !.stalled = IF vain THEN @ + 1 ELSE @,
                            !.row = IF vain THEN @ + 1 ELSE 0,
                            !.pc = IF vain /\ sup.stalled + 1 >= 3 THEN "done" ELSE "open"]
  /\ UNCHANGED <<drivers, launches>> /\ RunsUnchanged

\* All it has launched have ended: was there progress, or a wait?
Tally ==
  /\ sup.pc = "launch" /\ sup.queue = {} /\ Own = {}
  /\ LET vain == Cardinality(OpenKeys) = sup.before /\ sup.w = 0
     IN  sup' = [sup EXCEPT !.w = 0, !.before = 0,
                            !.stalled = IF vain THEN @ + 1 ELSE 0,
                            !.row = IF vain THEN @ + 1 ELSE 0,
                            !.pc = IF vain /\ sup.stalled + 1 >= 3 THEN "done" ELSE "open"]
  /\ UNCHANGED <<drivers, launches>> /\ RunsUnchanged

\* Its processes are nobody's now.
SupervisorDies ==
  /\ sup.pc \notin {"dead", "done"} /\ crashes < MaxCrashes
  /\ crashes' = crashes + 1
  /\ sup' = Asleep
  /\ drivers' = [r \in Run |-> [d \in Slot |-> [drivers[r][d] EXCEPT !.own = FALSE]]]
  /\ UNCHANGED <<runs, launches, hist>>

Supervise == While \/ Await \/ Tally \/ \E r \in Run : Launch(r)

Init ==
  /\ runs = [r \in Run |-> [made |-> "no", stop |-> "none", stopped |-> FALSE,
                         tripped |-> "none", result |-> "none"]]
  /\ drivers = [r \in Run |-> [d \in Slot |-> Ended]]
  /\ sup = Asleep
  /\ crashes = 0 /\ launches = 0
  /\ overlap = {} /\ broken = {} /\ left = {}

Next ==
  \/ Begin \/ Supervise \/ SupervisorDies
  \/ \E r \in Run, d \in Slot : Drive(r, d) \/ DriverDies(r, d)

Spec == Init /\ [][Next]_vars

\* Running code goes on, and a scheduler that does not wait for ever comes to
\* a stop: its budget of time ends it.
FairSpec ==
  /\ Spec
  /\ WF_vars(Supervise)
  /\ \A r \in Run, d \in Slot : WF_vars(~Waits(r, d) /\ Drive(r, d))

-----------------------------------------------------------------------------
(* Properties.                                                             *)

(* A result is that of a run that was created and whose scheduler stopped  *)
(* last for the reason the result gives, never one the provider halted,    *)
(* however pauses, deaths and relaunches follow one another; but for a run *)
(* whose process died while it created it or wrote its result, or that two *)
(* processes were at.                                                      *)
ResultsAreGenuine ==
  \A r \in Run \ (overlap \cup broken) :
    runs[r].result # "none" =>
      /\ runs[r].made = "yes" /\ runs[r].stopped /\ runs[r].stop # PAUSE_REASON
      /\ \/ runs[r].result = runs[r].stop
         \/ runs[r].result = "torn" /\ \E d \in Slot : drivers[r][d].pc = "write"

(* What has a result is finished: no later launch drives it on or writes   *)
(* another, unless two processes were at the run.                          *)
ResultsStand ==
  [][\A r \in Run \ overlap :
       runs[r].result # "none" =>
         runs'[r] \in {runs[r], [runs[r] EXCEPT !.result = runs[r].stop]}]_vars

(* The supervisor comes to an end, however the account behaves: it never   *)
(* launches the same runs for ever.  Only a run that a death left with a   *)
(* tripped breaker and no stop may keep it: the process launched for that  *)
(* waits for ever, and the supervisor for the process.                     *)
SupervisorEnds ==
  []<>(\/ sup.pc \in {"done", "dead"}
       \/ \E r \in left, d \in Slot : Waits(r, d) /\ drivers[r][d].own)

(* It waits for the provider to the end of the budget and no longer, and   *)
(* gives up on open runs only then or when its last three launches were in *)
(* vain, each with an account that was ready at once.                      *)
WaitKept ==
  /\ sup.waited <= MaxPause
  /\ sup.pc = "done" => OpenKeys = {} \/ sup.waited = MaxPause \/ sup.row >= 3
=============================================================================
