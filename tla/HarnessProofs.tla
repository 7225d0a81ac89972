--------------------------- MODULE HarnessProofs ---------------------------
(***************************************************************************)
(* Machine-checked facts about Harness, for any turns, budgets, sizes and  *)
(* numbers of deaths: no tool call is executed twice, the budget is kept,  *)
(* each call the model is shown has one result, and compaction keeps the   *)
(* tail.                                                                   *)
(***************************************************************************)
EXTENDS Harness, SequenceTheorems, WellFoundedInduction, FiniteSetTheorems, TLAPS

-----------------------------------------------------------------------------
(* Facts on sequences that grow and on natural numbers.                    *)

\* A sequence of whatever: of its own elements.
IsSequence(s) == s \in Seq({s[i] : i \in DOMAIN s})

\* Whatever set a sequence was taken from, it is one of its own elements.
LEMMA SequenceIsOne ==
  ASSUME NEW T, NEW s \in Seq(T)
  PROVE  /\ IsSequence(s)
         /\ Len(s) \in Nat
         /\ DOMAIN s = 1..Len(s)
BY SeqOfRange, LenProperties DEF IsSequence, Range

\* What Append does to the positions of a sequence.
LEMMA AppendPositions ==
  ASSUME NEW s, IsSequence(s), NEW r
  PROVE  /\ IsSequence(Append(s, r))
         /\ Len(s) \in Nat
         /\ DOMAIN s = 1..Len(s)
         /\ DOMAIN Append(s, r) = 1..(Len(s) + 1)
         /\ \A i \in 1..Len(s) : Append(s, r)[i] = s[i]
         /\ Append(s, r)[Len(s) + 1] = r
<1> DEFINE T == {s[i] : i \in DOMAIN s} \cup {r}
<1>1. s \in Seq(T) /\ r \in T
  BY DEF IsSequence
<1> HIDE DEF T
<1>2. /\ Append(s, r) \in Seq(T) /\ Len(Append(s, r)) = Len(s) + 1
      /\ \A i \in 1..Len(s) : Append(s, r)[i] = s[i]
      /\ Append(s, r)[Len(s) + 1] = r
  BY <1>1, AppendProperties
<1>3. IsSequence(Append(s, r)) /\ DOMAIN Append(s, r) = 1..Len(Append(s, r))
  BY <1>2, SequenceIsOne
<1>4. Len(s) \in Nat /\ DOMAIN s = 1..Len(s)
  BY <1>1, LenProperties
<1> QED
  BY <1>2, <1>3, <1>4

\* Induction over the natural numbers, in the form a set takes.
LEMMA LeastNatural ==
  ASSUME NEW S, S \subseteq Nat, S # {}
  PROVE  \E n \in S : \A m \in S : n <= m
<1>1. PICK n \in S : \A m \in S : <<m, n>> \notin OpToRel(<, Nat)
  BY NatLessThanWellFounded, WFMin, Zenon
<1>2. \A m \in S : ~(m < n)
  BY <1>1, Zenon DEF OpToRel
<1> QED
  BY <1>2

-----------------------------------------------------------------------------
(* Calls are executed once.                                                *)

Executed == {ran[i] : i \in DOMAIN ran}

\* Every call that was executed was made by a message of the transcript.
RanIsPast ==
  /\ IsSequence(entries) /\ IsSequence(ran)
  /\ \A c \in Executed : c[1] \in Nat /\ c[1] <= Len(entries)

\* A call under dispatch is in one place: it was executed, is running, waits
\* in the batch, or is still to come.
OnePlace ==
  pc = "dispatch" =>
    /\ \A c \in todo \cup batch \cup running : c[1] \in Nat /\ c[1] <= Len(entries)
    /\ todo \cap (batch \cup running \cup Executed) = {}
    /\ batch \cap (running \cup Executed) = {}
    /\ running \cap Executed = {}

IInv == RanIsPast /\ OnePlace /\ EffectsOnce

\* The transcript is never rewritten.
Grows == UNCHANGED entries \/ \E e : entries' = Append(entries, e)

LEMMA LengthGrows ==
  ASSUME IsSequence(entries), Grows
  PROVE  /\ IsSequence(entries') /\ Len(entries) \in Nat /\ Len(entries') \in Nat
         /\ Len(entries) <= Len(entries')
<1>1. Len(entries) \in Nat
  BY AppendPositions
<1>2. CASE UNCHANGED entries
  BY <1>1, <1>2
<1>3. CASE \E e : entries' = Append(entries, e)
  <2>1. PICK e : entries' = Append(entries, e)
    BY <1>3
  <2>2. /\ IsSequence(Append(entries, e))
        /\ DOMAIN Append(entries, e) = 1..(Len(entries) + 1)
    BY AppendPositions
  <2>3. Len(Append(entries, e)) = Len(entries) + 1
    BY <1>1, <2>2, LenProperties DEF IsSequence
  <2> QED
    BY <1>1, <2>1, <2>2, <2>3
<1> QED
  BY <1>2, <1>3 DEF Grows

\* Steps that neither execute a call nor touch the calls under dispatch.
LEMMA Elsewhere ==
  ASSUME IInv, Grows, UNCHANGED ran,
         pc' = "dispatch" => pc = "dispatch" /\ UNCHANGED <<todo, batch, running>>
  PROVE  IInv'
<1>1. /\ IsSequence(entries') /\ Len(entries) \in Nat /\ Len(entries') \in Nat
      /\ Len(entries) <= Len(entries')
  BY LengthGrows DEF IInv, RanIsPast
<1>2. Executed' = Executed
  BY DEF Executed
<1>3. RanIsPast'
  BY <1>1, <1>2 DEF IInv, RanIsPast
<1>4. OnePlace'
  BY <1>1, <1>2 DEF IInv, OnePlace
<1>5. EffectsOnce'
  BY DEF IInv, EffectsOnce
<1> QED
  BY <1>3, <1>4, <1>5 DEF IInv

-----------------------------------------------------------------------------
(* The steps of a dispatch.                                                *)

\* The calls of a new message were never made before.
LEMMA CallsToolsKeepsIt ==
  ASSUME IInv, CallsTools
  PROVE  IInv'
<1> USE DEF CallsTools
<1>1. PICK calls \in Turns \ {<<>>} : Reply(calls) /\ todo' = Others(calls)
  OBVIOUS
<1>2. UNCHANGED ran /\ batch' = {} /\ running' = {}
  BY DEF env
<1>3. entries' = Append(entries, Entry("model", calls, None, 1))
  BY <1>1 DEF Reply
<1>4. /\ IsSequence(entries') /\ Len(entries) \in Nat /\ Len(entries') \in Nat
      /\ Len(entries') = Len(entries) + 1
  <2>1. IsSequence(entries)
    BY DEF IInv, RanIsPast
  <2>2. /\ IsSequence(entries') /\ Len(entries) \in Nat
        /\ DOMAIN entries' = 1..(Len(entries) + 1)
    BY ONLY <1>3, <2>1, AppendPositions
  <2> QED
    BY ONLY <2>2, LenProperties DEF IsSequence
<1>5. \A c \in todo' : c[1] = Len(entries) + 1
  BY <1>1 DEF Others, NewCalls
<1>6. Executed' = Executed
  BY <1>2 DEF Executed
<1>7. \A c \in Executed : c[1] \in Nat /\ c[1] <= Len(entries)
  BY DEF IInv, RanIsPast
<1>8. RanIsPast'
  BY <1>2, <1>4, <1>6, <1>7 DEF IInv, RanIsPast
<1>9. todo' \cap Executed = {}
  BY <1>4, <1>5, <1>7
<1>10. OnePlace'
  <2>1. \A c \in todo' : c[1] \in Nat /\ c[1] <= Len(entries')
    BY <1>4, <1>5
  <2> QED
    BY <1>2, <1>6, <1>9, <2>1 DEF OnePlace
<1>11. EffectsOnce'
  BY <1>2 DEF IInv, EffectsOnce
<1> QED
  BY <1>8, <1>10, <1>11 DEF IInv

LEMMA IssueKeepsIt ==
  ASSUME IInv, Issue
  PROVE  IInv'
<1> USE DEF Issue
<1>1. UNCHANGED <<entries, ran, pc>> /\ pc = "dispatch"
  BY DEF folded, env
<1>2. PICK c \in todo : /\ todo' = todo \ {c}
                        /\ batch' \subseteq batch \cup {c} /\ running' \subseteq running \cup {c}
                        /\ running' = running \/ batch' = batch
                        /\ c \notin batch' \/ c \notin running'
  BY DEF IInv, OnePlace
<1>3. Executed' = Executed
  BY <1>1 DEF Executed
<1>4. OnePlace'
  BY <1>1, <1>2, <1>3 DEF IInv, OnePlace
<1> QED
  BY <1>1, <1>3, <1>4 DEF IInv, RanIsPast, EffectsOnce

LEMMA FlushKeepsIt ==
  ASSUME IInv, Flush
  PROVE  IInv'
<1> USE DEF Flush
<1>1. UNCHANGED <<entries, ran, pc, todo>> /\ pc = "dispatch"
  BY DEF folded, env
<1>2. running' = batch /\ batch' = {}
  OBVIOUS
<1>3. Executed' = Executed
  BY <1>1 DEF Executed
<1>4. OnePlace'
  BY <1>1, <1>2, <1>3 DEF IInv, OnePlace
<1> QED
  BY <1>1, <1>3, <1>4 DEF IInv, RanIsPast, EffectsOnce

\* What runs has not run before, and leaves what is running.
LEMMA RunToolKeepsIt ==
  ASSUME IInv, RunTool
  PROVE  IInv'
<1> USE DEF RunTool
<1>1. UNCHANGED <<entries, pc, todo, batch>> /\ pc = "dispatch"
  BY DEF folded
<1>2. PICK c \in running : running' = running \ {c} /\ ran' = Append(ran, c)
  OBVIOUS
<1>3. IsSequence(ran)
  BY DEF IInv, RanIsPast
<1>4. /\ IsSequence(ran') /\ Len(ran) \in Nat
      /\ DOMAIN ran = 1..Len(ran) /\ DOMAIN ran' = 1..(Len(ran) + 1)
      /\ \A i \in 1..Len(ran) : ran'[i] = ran[i]
      /\ ran'[Len(ran) + 1] = c
  BY ONLY <1>2, <1>3, AppendPositions
<1>5. Executed' = Executed \cup {c}
  BY <1>4 DEF Executed
<1>6. c \notin Executed /\ c[1] \in Nat /\ c[1] <= Len(entries)
  BY <1>1, <1>2 DEF IInv, OnePlace
<1>7. RanIsPast'
  BY <1>1, <1>4, <1>5, <1>6 DEF IInv, RanIsPast
<1>8. OnePlace'
  BY <1>1, <1>2, <1>5 DEF IInv, OnePlace
<1>9. EffectsOnce'
  <2> SUFFICES ASSUME NEW i \in DOMAIN ran', NEW j \in DOMAIN ran', ran'[i] = ran'[j]
               PROVE  i = j
    BY DEF EffectsOnce
  <2>1. \A k \in 1..Len(ran) : ran[k] # c
    BY <1>4, <1>6 DEF Executed
  <2>2. CASE i \in 1..Len(ran) /\ j \in 1..Len(ran)
    BY <1>4, <2>2 DEF IInv, EffectsOnce
  <2>3. CASE i = Len(ran) + 1 \/ j = Len(ran) + 1
    BY <1>4, <2>1, <2>3
  <2> QED
    BY <1>4, <2>2, <2>3
<1> QED
  BY <1>7, <1>8, <1>9 DEF IInv

-----------------------------------------------------------------------------
(* All other steps.                                                        *)

LEMMA TopOfLoop ==
  ASSUME Exhausted \/ BudgetNotices \/ Incoming \/ Polled \/ Compact \/ NothingToCut
  PROVE  Grows /\ UNCHANGED ran /\ pc' # "dispatch"
<1> USE DEF Grows, folded, memory, env
<1>1. CASE Exhausted
  BY <1>1 DEF Exhausted
<1>2. CASE BudgetNotices
  BY <1>2 DEF BudgetNotices, NewNotice
<1>3. CASE Incoming
  BY <1>3 DEF Incoming
<1>4. CASE Polled
  BY <1>4 DEF Polled
<1>5. CASE Compact
  BY <1>5 DEF Compact, Overflowed
<1>6. CASE NothingToCut
  BY <1>6 DEF NothingToCut, Finish, Overflowed
<1> QED
  BY <1>1, <1>2, <1>3, <1>4, <1>5, <1>6

LEMMA CallOfTheModel ==
  ASSUME \/ SaysNothing("empty", EmptyTurnRetries) \/ SaysNothing("length", LengthRetries)
         \/ Remind \/ GiveUp \/ Overflow \/ ProviderFails
         \/ Close \/ ClosingFails \/ RecordClosed
  PROVE  Grows /\ UNCHANGED ran /\ pc' # "dispatch"
<1> USE DEF Grows, folded, memory, env, Reply, Finish
<1>1. CASE SaysNothing("empty", EmptyTurnRetries) \/ SaysNothing("length", LengthRetries)
  BY <1>1 DEF SaysNothing
<1>2. CASE Remind \/ GiveUp
  BY <1>2 DEF Remind, GiveUp
<1>3. CASE Overflow \/ ProviderFails
  BY <1>3 DEF Overflow, ProviderFails
<1>4. CASE Close
  BY <1>4 DEF Close
<1>5. CASE ClosingFails
  BY <1>5 DEF ClosingFails
<1>6. CASE RecordClosed
  BY <1>6 DEF RecordClosed, Result
<1> QED
  BY <1>1, <1>2, <1>3, <1>4, <1>5, <1>6

LEMMA EndOfTurn ==
  ASSUME \/ Dispatched \/ RecordResult \/ Recorded
         \/ Duplicate \/ Reject \/ Review \/ Accept \/ Accepted
         \/ Resume \/ Cancel \/ Crash
  PROVE  Grows /\ UNCHANGED ran /\ pc' # "dispatch"
<1> USE DEF Grows, folded, memory, env, Result, Finish
<1>1. CASE Dispatched \/ RecordResult
  BY <1>1 DEF Dispatched, RecordResult
<1>2. CASE Recorded
  BY <1>2 DEF Recorded
<1>3. CASE Duplicate \/ Reject
  BY <1>3 DEF Duplicate, Reject
<1>4. CASE Review \/ Accept \/ Accepted
  BY <1>4 DEF Review, Accept, Accepted
<1>5. CASE Resume
  BY <1>5 DEF Resume
<1>6. CASE Cancel \/ Crash
  BY <1>6 DEF Cancel, Crash
<1> QED
  BY <1>1, <1>2, <1>3, <1>4, <1>5, <1>6

LEMMA InvariantHolds == Init => IInv
<1> SUFFICES ASSUME Init PROVE IInv
  OBVIOUS
<1>1. ran = <<>> /\ Executed = {} /\ pc = "top"
  BY DEF Init, Executed
<1>2. IsSequence(entries)
  <2>1. entries = Append(<<>>, Entry("task", <<>>, None, 1))
    BY DEF Init
  <2>2. IsSequence(<<>>)
    BY DEF IsSequence
  <2> QED
    BY ONLY <2>1, <2>2, AppendPositions
<1>3. IsSequence(ran)
  BY <1>1 DEF IsSequence
<1> QED
  BY <1>1, <1>2, <1>3 DEF IInv, RanIsPast, OnePlace, EffectsOnce

LEMMA InvariantStays == IInv /\ [Next]_vars => IInv'
<1> SUFFICES ASSUME IInv, [Next]_vars PROVE IInv'
  OBVIOUS
<1>1. CASE CallsTools
  BY <1>1, CallsToolsKeepsIt
<1>2. CASE Issue
  BY <1>2, IssueKeepsIt
<1>3. CASE Flush
  BY <1>3, FlushKeepsIt
<1>4. CASE RunTool
  BY <1>4, RunToolKeepsIt
<1>5. CASE Exhausted \/ BudgetNotices \/ Incoming \/ Polled \/ Compact \/ NothingToCut
  BY <1>5, TopOfLoop, Elsewhere
<1>6. CASE \/ SaysNothing("empty", EmptyTurnRetries) \/ SaysNothing("length", LengthRetries)
           \/ Remind \/ GiveUp \/ Overflow \/ ProviderFails
           \/ Close \/ ClosingFails \/ RecordClosed
  BY <1>6, CallOfTheModel, Elsewhere
<1>7. CASE \/ Dispatched \/ RecordResult \/ Recorded
           \/ Duplicate \/ Reject \/ Review \/ Accept \/ Accepted
           \/ Resume \/ Cancel \/ Crash
  BY <1>7, EndOfTurn, Elsewhere
<1>8. CASE Elapse \/ UNCHANGED vars
  <2>1. UNCHANGED <<entries, ran, pc, todo, batch, running>>
    BY <1>8 DEF Elapse, vars, folded, memory, turn, env
  <2> QED
    BY <2>1, Elsewhere DEF Grows
<1> QED
  BY <1>1, <1>2, <1>3, <1>4, <1>5, <1>6, <1>7, <1>8 DEF Next, Loop

\* However the model combines calls, tools fail and the process dies: a call is
\* executed at most once (dispatch, Harness.resume).
THEOREM CallsRunOnce == Spec => []EffectsOnce
<1>1. Init => IInv
  BY InvariantHolds
<1>2. IInv /\ [Next]_vars => IInv'
  BY InvariantStays
<1>3. IInv => EffectsOnce
  BY DEF IInv
<1> QED
  BY <1>1, <1>2, <1>3, PTL DEF Spec

-----------------------------------------------------------------------------
(* The budget.                                                             *)

Warnings == {"warn", "decide"}
IsWarning(key, i) == entries[i].kind = "notice" /\ entries[i].ref = <<key, 0>>

\* A warning that was given is on record, so it is not given again.
WarnedOnce ==
  \A key \in Warnings : \A i \in DOMAIN entries : IsWarning(key, i) =>
    /\ <<key, 0>> \in sent
    /\ \A j \in DOMAIN entries : IsWarning(key, j) => i = j

\* The model is called below the limit, or to close; a closing reply that was
\* recorded and yet did not end the activation was followed by a death.
StepsBounded ==
  /\ steps \in Nat /\ elapsed \in Nat /\ crashes \in Nat
  /\ steps <= MaxSteps + crashes + (IF pc \in {"closed", "off"} THEN 1 ELSE 0)
  /\ pc \in {"poll", "compact", "overflow", "call"} => steps < MaxSteps

BInv == IsSequence(entries) /\ WarnedOnce /\ StepsBounded

LEMMA UsedIsMost ==
  ASSUME StepsBounded
  PROVE  steps <= Used /\ Used \in Nat
<1>1. \E x \in {steps, elapsed} : \A y \in {steps, elapsed} : x >= y
  BY DEF StepsBounded
<1>2. Used \in {steps, elapsed} /\ \A y \in {steps, elapsed} : Used >= y
  BY <1>1 DEF Used, Max
<1> QED
  BY <1>2 DEF StepsBounded

LEMMA BoundedStep ==
  ASSUME StepsBounded, [Next]_vars
  PROVE  StepsBounded'
<1> USE DEF StepsBounded, folded, memory, env, turn
<1>1. MaxSteps \in Nat
  BY HarnessAssumption DEF HarnessAssumption
<1>2. steps <= Used /\ Used \in Nat
  BY UsedIsMost
<1>3. CASE Exhausted
  BY <1>1, <1>2, <1>3 DEF Exhausted
<1>4. CASE BudgetNotices
  BY <1>1, <1>2, <1>4 DEF BudgetNotices, NewNotice
<1>5. CASE Incoming
  BY <1>1, <1>2, <1>5 DEF Incoming
<1>6. CASE Polled
  BY <1>1, <1>2, <1>6 DEF Polled
<1>7. CASE Compact
  BY <1>1, <1>2, <1>7 DEF Compact, Overflowed
<1>8. CASE NothingToCut
  BY <1>1, <1>2, <1>8 DEF NothingToCut, Overflowed, Finish
<1>9. CASE CallsTools
  BY <1>1, <1>2, <1>9 DEF CallsTools, Reply
<1>10. CASE SaysNothing("empty", EmptyTurnRetries) \/ SaysNothing("length", LengthRetries)
  <2>1. /\ pc = "call" /\ pc' \in {"giveup", "remind"}
        /\ steps' = steps + 1 /\ UNCHANGED <<elapsed, crashes>>
    BY <1>10 DEF SaysNothing, Reply
  <2> QED
    BY <1>1, <2>1
<1>11. CASE Remind
  BY <1>1, <1>2, <1>11 DEF Remind
<1>12. CASE GiveUp
  BY <1>1, <1>2, <1>12 DEF GiveUp, Finish
<1>13. CASE Overflow
  BY <1>1, <1>2, <1>13 DEF Overflow, Finish
<1>14. CASE ProviderFails
  BY <1>1, <1>2, <1>14 DEF ProviderFails, Finish
<1>15. CASE Issue
  BY <1>1, <1>2, <1>15 DEF Issue
<1>16. CASE Flush
  BY <1>1, <1>2, <1>16 DEF Flush
<1>17. CASE RunTool
  BY <1>1, <1>2, <1>17 DEF RunTool
<1>18. CASE Dispatched
  BY <1>1, <1>2, <1>18 DEF Dispatched
<1>19. CASE RecordResult
  BY <1>1, <1>2, <1>19 DEF RecordResult, Result
<1>20. CASE Recorded
  BY <1>1, <1>2, <1>20 DEF Recorded
<1>21. CASE Duplicate
  BY <1>1, <1>2, <1>21 DEF Duplicate, Result
<1>22. CASE Reject
  BY <1>1, <1>2, <1>22 DEF Reject, Result
<1>23. CASE Review
  BY <1>1, <1>2, <1>23 DEF Review, Result
<1>24. CASE Accept
  BY <1>1, <1>2, <1>24 DEF Accept, Result
<1>25. CASE Accepted
  BY <1>1, <1>2, <1>25 DEF Accepted, Finish
<1>26. CASE Close
  BY <1>1, <1>2, <1>26 DEF Close, Reply
<1>27. CASE ClosingFails
  <2>1. pc = "closing" /\ pc' = "off" /\ UNCHANGED <<steps, elapsed, crashes>>
    BY <1>27, Zenon DEF ClosingFails, Finish
  <2> QED
    BY <1>1, <2>1
<1>28. CASE RecordClosed
  BY <1>1, <1>2, <1>28 DEF RecordClosed, Result, Finish
<1>29. CASE Resume
  BY <1>1, <1>2, <1>29 DEF Resume, Result
<1>30. CASE Elapse
  BY <1>1, <1>2, <1>30 DEF Elapse
<1>31. CASE Cancel
  BY <1>1, <1>2, <1>31 DEF Cancel, Finish
<1>32. CASE Crash
  BY <1>1, <1>2, <1>32 DEF Crash, Forget
<1>33. CASE UNCHANGED vars
  BY <1>33 DEF vars
<1> QED
  BY <1>3, <1>4, <1>5, <1>6, <1>7, <1>8, <1>9, <1>10, <1>11, <1>12, <1>13, <1>14, <1>15, <1>16, <1>17, <1>18, <1>19, <1>20, <1>21, <1>22, <1>23, <1>24, <1>25, <1>26, <1>27, <1>28, <1>29, <1>30, <1>31, <1>32, <1>33 DEF Next, Loop

\* What a step appends, if it is a notice that warns, was not sent before.
Harmless(e) ==
  \A key \in Warnings :
    e.kind = "notice" /\ e.ref = <<key, 0>> => <<key, 0>> \notin sent /\ <<key, 0>> \in sent'

LEMMA WarningsKept ==
  ASSUME IsSequence(entries), WarnedOnce, sent \subseteq sent',
         entries' = entries \/ \E e : entries' = Append(entries, e) /\ Harmless(e)
  PROVE  IsSequence(entries') /\ WarnedOnce'
<1>1. CASE entries' = entries
  BY <1>1 DEF WarnedOnce, IsWarning
<1>2. CASE \E e : entries' = Append(entries, e) /\ Harmless(e)
  <2>1. PICK e : entries' = Append(entries, e) /\ Harmless(e)
    BY <1>2
  <2>0. PICK n : n = Len(entries)
    OBVIOUS
  <2>2. /\ IsSequence(entries') /\ n \in Nat /\ DOMAIN entries = 1..n
        /\ DOMAIN entries' = 1..n + 1
        /\ \A i \in 1..n : entries'[i] = entries[i]
        /\ entries'[n + 1] = e
    BY <2>0, <2>1, AppendPositions
  <2>3. ASSUME NEW key \in Warnings, NEW i \in DOMAIN entries', IsWarning(key, i)',
               NEW j \in DOMAIN entries', IsWarning(key, j)'
        PROVE  <<key, 0>> \in sent' /\ i = j
    <3>1. \A k \in 1..n : IsWarning(key, k)' => IsWarning(key, k)
      BY <2>2 DEF IsWarning
    <3>2. IsWarning(key, n + 1)' => <<key, 0>> \notin sent /\ <<key, 0>> \in sent'
      <4>1. IsWarning(key, n + 1)' => e.kind = "notice" /\ e.ref = <<key, 0>>
        BY <2>2, Zenon DEF IsWarning
      <4> QED
        BY <2>1, <4>1, Zenon DEF Harmless
    <3>3. \A k \in DOMAIN entries' : k \in 1..n \/ k = n + 1
      BY <2>2
    <3>4. \A k, l \in 1..n : IsWarning(key, k) /\ IsWarning(key, l) => <<key, 0>> \in sent /\ k = l
      BY <2>2 DEF WarnedOnce
    <3>5. CASE i = n + 1 \/ j = n + 1
      BY <2>3, <3>1, <3>2, <3>3, <3>4, <3>5
    <3>6. CASE i \in 1..n /\ j \in 1..n
      BY <2>3, <3>1, <3>4, <3>6
    <3> QED
      BY <3>3, <3>5, <3>6
  <2> QED
    BY <2>2, <2>3 DEF WarnedOnce
<1> QED
  BY <1>1, <1>2

LEMMA BInvStep ==
  ASSUME BInv, [Next]_vars
  PROVE  BInv'
<1> DEFINE Quiet == sent \subseteq sent' /\ (entries' = entries \/ \E e : entries' = Append(entries, e) /\ Harmless(e))
<1> USE DEF folded, memory, env, turn
<1> SUFFICES Quiet
  BY BoundedStep, WarningsKept DEF BInv
<1>1. CASE Exhausted
  <2>1. Harmless(Notice(<<"exhausted", 0>>))
    BY DEF Harmless, Notice, Entry, Warnings
  <2> QED
    BY <1>1, <2>1 DEF Exhausted
<1>2. CASE BudgetNotices
  <2>1. CASE entries' = entries /\ sent' = sent
    BY <2>1
  <2>2. CASE \E key \in BudgetKeys : entries' = Append(entries, Notice(key)) /\ sent' = sent \cup {key}
    <3>1. PICK key \in BudgetKeys : entries' = Append(entries, Notice(key)) /\ sent' = sent \cup {key}
      BY <2>2
    <3>2. key \notin sent
      BY DEF BudgetKeys, Due
    <3>3. Harmless(Notice(key))
      BY <3>1, <3>2 DEF Harmless, Notice, Entry
    <3> QED
      BY <3>1, <3>3
  <2> QED
    BY <1>2, <2>1, <2>2 DEF BudgetNotices, NewNotice
<1>3. ASSUME NEW e, e.kind # "notice"
      PROVE  Harmless(e)
  BY <1>3 DEF Harmless
<1>4. Harmless(Notice(None))
  BY DEF Harmless, Notice, None, Entry, Warnings
<1>5. CASE Incoming \/ Polled \/ Compact \/ NothingToCut
  BY <1>3, <1>5 DEF Incoming, Polled, Compact, NothingToCut, Overflowed, Finish, Entry
<1>6. CASE CallsTools \/ Close \/ SaysNothing("empty", EmptyTurnRetries)
           \/ SaysNothing("length", LengthRetries)
  BY <1>3, <1>6 DEF CallsTools, Close, SaysNothing, Reply, Entry
<1>7. CASE Remind \/ GiveUp \/ Overflow \/ ProviderFails \/ ClosingFails
  BY <1>4, <1>7 DEF Remind, GiveUp, Overflow, ProviderFails, ClosingFails, Finish
<1>8. CASE Issue \/ Flush \/ RunTool \/ Dispatched
  BY <1>8 DEF Issue, Flush, RunTool, Dispatched
<1>9. CASE RecordResult \/ Recorded \/ Duplicate \/ Reject \/ Review \/ Accept \/ Accepted
  BY <1>3, <1>4, <1>9 DEF RecordResult, Recorded, Duplicate, Reject, Review, Accept, Accepted, Result, Finish, Entry
<1>10. CASE RecordClosed \/ Resume
  BY <1>3, <1>10 DEF RecordClosed, Resume, Result, Finish, Entry
<1>11. CASE Elapse \/ Cancel \/ Crash \/ UNCHANGED vars
  BY <1>11 DEF Elapse, Cancel, Crash, Finish, vars
<1> QED
  BY <1>1, <1>2, <1>5, <1>6, <1>7, <1>8, <1>9, <1>10, <1>11 DEF Next, Loop

\* BudgetKept, for any limits, replies, tools and deaths.
THEOREM BudgetIsKept == Spec => []BudgetKept
<1>1. Init => BInv
  <2> SUFFICES ASSUME Init PROVE BInv
    OBVIOUS
  <2>1. IsSequence(entries)
    BY InvariantHolds DEF IInv, RanIsPast
  <2>2. WarnedOnce
    BY DEF Init, WarnedOnce, IsWarning, Entry
  <2>3. StepsBounded
    BY HarnessAssumption DEF Init, StepsBounded
  <2> QED
    BY <2>1, <2>2, <2>3 DEF BInv
<1>2. BInv /\ [Next]_vars => BInv'
  BY BInvStep
<1>3. BInv => BudgetKept
  <2> SUFFICES ASSUME BInv PROVE BudgetKept
    OBVIOUS
  <2>1. steps <= MaxSteps + 1 + crashes
    BY HarnessAssumption, SMTT(30) DEF BInv, StepsBounded
  <2>2. ASSUME NEW key \in Warnings
        PROVE  Cardinality({i \in DOMAIN entries : IsWarning(key, i)}) <= 1
    <3> DEFINE W == {i \in DOMAIN entries : IsWarning(key, i)}
    <3>1. \A i, j \in W : i = j
      BY DEF BInv, WarnedOnce
    <3> HIDE DEF W
    <3>2. W = {} \/ \E i : W = {i}
      BY <3>1
    <3>3. Cardinality(W) = 0 \/ Cardinality(W) = 1
      BY <3>2, FS_EmptySet, FS_Singleton
    <3> QED
      BY <3>3 DEF W
  <2> QED
    BY <2>1, <2>2 DEF BudgetKept, Warnings, IsWarning
<1> QED
  BY <1>1, <1>2, <1>3, PTL DEF Spec

-----------------------------------------------------------------------------
(* The transcript.                                                         *)

\* Message m is being answered: after it come results alone, one for each of
\* its calls that is no longer pending.
Answering(m) ==
  /\ m \in DOMAIN entries /\ entries[m].kind = "model"
  /\ \A j \in m + 1 .. Len(entries) : entries[j].kind = "tool"
  /\ pending \subseteq CallsOf(m)
  /\ {entries[j].ref : j \in m + 1 .. Len(entries)} = CallsOf(m) \ pending
  /\ Len(entries) + Cardinality(pending) = m + Len(entries[m].calls)

Messages ==
  /\ IsSequence(entries)
  /\ entries # <<>> /\ entries[1].kind = "task"
  /\ \A i \in DOMAIN entries : entries[i].calls \in Seq(Kinds)

AnsweredInTurn ==
  /\ pending # {} => \E m \in DOMAIN entries : Answering(m)
  /\ \A i \in DOMAIN entries : entries[i].kind = "model" =>
       Answered(i) \/ (pending # {} /\ Answering(i))

\* Between a call and its result there are results only.
ResultsFollow ==
  \A j \in DOMAIN entries : entries[j].kind = "tool" =>
    /\ entries[j].ref[1] \in 1 .. j - 1
    /\ \A k \in entries[j].ref[1] + 1 .. j : entries[k].kind = "tool"

\* What is kept does not begin with a result.
CutAtMessage ==
  \/ firstKept \in 2 .. Len(entries) /\ entries[firstKept].kind # "tool"
  \/ firstKept = 2 /\ Len(entries) = 1

Transcript == Messages /\ AnsweredInTurn /\ ResultsFollow /\ CutAtMessage

\* Where calls may be without a result, and which of them the loop is to record.
CallsTracked ==
  /\ pending # {} =>
       pc \in {"dispatch", "record", "finish", "accepted", "closed", "down", "off"}
  /\ pc = "dispatch" => pending = CallsOf(Len(entries))
  /\ pc \in {"record", "closed"} => todo \subseteq pending

AInv == Transcript /\ CallsTracked

LEMMA CountOfCalls ==
  ASSUME NEW calls \in Seq(Kinds), NEW m
  PROVE  LET S == {<<m, k>> : k \in DOMAIN calls}
         IN  IsFiniteSet(S) /\ Cardinality(S) = Len(calls)
<1> DEFINE S == {<<m, k>> : k \in DOMAIN calls}
           n == Len(calls)
           f == [k \in 1..n |-> <<m, k>>]
<1>1. n \in Nat /\ DOMAIN calls = 1..n
  BY LenProperties
<1>2. IsFiniteSet(1..n) /\ Cardinality(1..n) = n
  BY <1>1, FS_Interval, SMTT(30)
<1>3. f \in Bijection(1..n, S)
  BY <1>1 DEF Bijection, Injection, Surjection, IsInjective
<1>4. IsFiniteSet(S) /\ Cardinality(S) = Cardinality(1..n)
  BY <1>2, <1>3, FS_Bijection DEF ExistsBijection
<1> QED
  BY <1>2, <1>4

\* Among calls of one message there is a first.
LEMMA FirstIsOne ==
  ASSUME NEW S, S # {}, NEW m, S \subseteq CallsOf(m), entries[m].calls \in Seq(Kinds)
  PROVE  First(S) \in S /\ IsFirst(First(S), S)
<1> DEFINE K == {c[2] : c \in S}
<1>1. K \subseteq Nat /\ K # {}
  <2>1. DOMAIN entries[m].calls \subseteq Nat
    BY LenProperties
  <2> QED
    BY <2>1 DEF CallsOf
<1>2. PICK k \in K : \A l \in K : k <= l
  BY <1>1, LeastNatural
<1>3. \E c \in S : IsFirst(c, S)
  BY <1>2 DEF IsFirst
<1> QED
  BY <1>3 DEF First, IsFirst

LEMMA Appended ==
  ASSUME Messages, NEW e, entries' = Append(entries, e), e.calls \in Seq(Kinds)
  PROVE  /\ Messages'
         /\ Len(entries) \in Nat \ {0} /\ Len(entries') = Len(entries) + 1
         /\ DOMAIN entries = 1..Len(entries)
         /\ DOMAIN entries' = 1..Len(entries) + 1
         /\ \A i \in 1..Len(entries) : entries'[i] = entries[i]
         /\ entries'[Len(entries) + 1] = e
<1>1. PICK n : n = Len(entries)
  OBVIOUS
<1>2. /\ IsSequence(entries') /\ n \in Nat /\ DOMAIN entries = 1..n
      /\ DOMAIN entries' = 1..n + 1
      /\ \A i \in 1..n : entries'[i] = entries[i]
      /\ entries'[n + 1] = e
  BY <1>1, AppendPositions DEF Messages
<1>3. Len(entries') = n + 1
  BY <1>2, LenProperties DEF IsSequence
<1>4. n # 0
  BY <1>1, EmptySeq DEF Messages, IsSequence
<1>5. entries' # <<>> /\ entries'[1].kind = "task"
  <2>1. entries' # <<>>
    BY <1>2, <1>3, EmptySeq DEF IsSequence
  <2> QED
    BY <1>2, <1>4, <2>1 DEF Messages
<1>6. \A i \in 1..n + 1 : entries'[i].calls \in Seq(Kinds)
  BY <1>2 DEF Messages
<1> QED
  BY <1>1, <1>2, <1>3, <1>4, <1>5, <1>6 DEF Messages

LEMMA AnsweredStays ==
  ASSUME Messages, NEW e, entries' = Append(entries, e), e.calls \in Seq(Kinds),
         NEW i \in DOMAIN entries, Answered(i)
  PROVE  Answered(i)'
<1>1. PICK n : n = Len(entries)
  OBVIOUS
<1>2. /\ n \in Nat /\ Len(entries') = n + 1 /\ i \in 1..n
      /\ \A k \in 1..n : entries'[k] = entries[k]
  BY <1>1, Appended
<1>3. PICK c : c = Len(entries[i].calls)
  OBVIOUS
<1>4. c \in Nat
  BY <1>3, LenProperties DEF Messages
<1>5. entries'[i].calls = entries[i].calls
  BY <1>2
<1>6. i + c <= n /\ \A j \in i + 1 .. i + c : j \in 1..n
  BY <1>1, <1>2, <1>3, <1>4 DEF Answered
<1>7. \A j \in i + 1 .. i + c : entries'[j] = entries[j]
  BY <1>2, <1>6
<1>8. {entries'[j].ref : j \in i + 1 .. i + c} = {entries[j].ref : j \in i + 1 .. i + c}
  BY <1>7
<1>9. /\ \A j \in i + 1 .. i + c : entries[j].kind = "tool"
      /\ {entries[j].ref : j \in i + 1 .. i + c} = {<<i, k>> : k \in 1 .. c}
  BY <1>3 DEF Answered
<1>10. i + c <= Len(entries')
  BY <1>2, <1>4, <1>6
<1> QED
  BY <1>3, <1>5, <1>7, <1>8, <1>9, <1>10 DEF Answered

\* Something else than a reply or a result is appended between turns.
LEMMA MessageKeeps ==
  ASSUME Transcript, pending = {}, pending' = {}, UNCHANGED firstKept,
         NEW e, entries' = Append(entries, e),
         e.kind \notin {"tool", "model"}, e.calls \in Seq(Kinds)
  PROVE  Transcript'
<1>1. PICK n : n = Len(entries)
  OBVIOUS
<1>2. /\ Messages' /\ n \in Nat \ {0} /\ Len(entries') = n + 1
      /\ DOMAIN entries = 1..n /\ DOMAIN entries' = 1..n + 1
      /\ \A i \in 1..n : entries'[i] = entries[i]
      /\ entries'[n + 1] = e
  BY <1>1, Appended DEF Transcript
<1>3. \A i : i \in 1..n + 1 <=> (i \in 1..n \/ i = n + 1)
  BY <1>2
<1>4. AnsweredInTurn'
  <2>1. ASSUME NEW i \in 1..n, entries[i].kind = "model"
        PROVE  Answered(i)'
    BY <1>2, <2>1, AnsweredStays DEF Transcript, AnsweredInTurn
  <2> QED
    BY <1>2, <1>3, <2>1 DEF AnsweredInTurn
<1>5. ResultsFollow'
  <2>1. ASSUME NEW j \in 1..n, entries[j].kind = "tool"
        PROVE  /\ entries'[j].ref[1] \in 1 .. j - 1
               /\ \A k \in entries'[j].ref[1] + 1 .. j : entries'[k].kind = "tool"
    BY <1>2, <2>1 DEF Transcript, ResultsFollow
  <2> QED
    BY <1>2, <1>3, <2>1 DEF ResultsFollow
<1>6. CutAtMessage'
  BY <1>1, <1>2 DEF Transcript, CutAtMessage
<1> QED
  BY <1>2, <1>4, <1>5, <1>6 DEF Transcript

\* A reply opens a turn: its calls are pending.
LEMMA ReplyOpens ==
  ASSUME Transcript, pending = {}, NEW calls \in Seq(Kinds), Reply(calls)
  PROVE  /\ Transcript'
         /\ pending' = CallsOf(Len(entries))' /\ pending' = NewCalls(calls)
         /\ calls = <<>> => pending' = {}
<1>1. PICK n : n = Len(entries)
  OBVIOUS
<1> DEFINE e == Entry("model", calls, None, 1)
<1>2. /\ Messages' /\ n \in Nat \ {0} /\ Len(entries') = n + 1
      /\ DOMAIN entries = 1..n /\ DOMAIN entries' = 1..n + 1
      /\ \A i \in 1..n : entries'[i] = entries[i]
      /\ entries'[n + 1] = e
  <2>1. entries' = Append(entries, e) /\ e.calls \in Seq(Kinds)
    BY DEF Reply, Entry
  <2> QED
    BY <1>1, <2>1, Appended DEF Transcript
<1>3. \A i : i \in 1..n + 1 <=> (i \in 1..n \/ i = n + 1)
  BY <1>2
<1>4. e.kind = "model" /\ e.calls = calls
  BY DEF Entry
<1>5. /\ pending' = {<<n + 1, k>> : k \in DOMAIN calls} /\ firstKept' = firstKept
      /\ entries' = Append(entries, e) /\ e.calls \in Seq(Kinds)
  BY <1>1, <1>4 DEF Reply, NewCalls
<1> HIDE DEF e
<1>6. PICK c : c = Len(calls)
  OBVIOUS
<1>7. c \in Nat /\ DOMAIN calls = 1..c /\ Cardinality(pending') = c /\ (calls = <<>> => c = 0)
  BY <1>5, <1>6, CountOfCalls, LenProperties, EmptySeq
<1>8. pending' = CallsOf(n + 1)'
  BY <1>2, <1>4, <1>5 DEF CallsOf
<1>9. n + 2 .. n + 1 = {}
  BY <1>2
<1>10. Answering(n + 1)'
  <2>1. n + 1 + 1 .. n + 1 = {} /\ n + 1 + c = n + 1 + Len(calls)
    BY <1>2, <1>6
  <2>2. {entries'[j].ref : j \in n + 1 + 1 .. n + 1} = {}
    BY <2>1
  <2> QED
    BY <1>2, <1>4, <1>7, <1>8, <2>1, <2>2 DEF Answering
<1>11. calls = <<>> => pending' = {} /\ Answered(n + 1)'
  <2> SUFFICES ASSUME calls = <<>> PROVE pending' = {} /\ Answered(n + 1)'
    OBVIOUS
  <2>1. 1..0 = {} /\ n + 1 + 1 .. n + 1 + 0 = {} /\ n + 1 + 0 <= n + 1
    BY <1>2
  <2>2. c = 0 /\ DOMAIN calls = {}
    BY <1>7, <2>1
  <2>3. Len(entries'[n + 1].calls) = 0 /\ Len(entries') = n + 1
    BY <1>2, <1>4, <1>6, <2>2
  <2>4. {entries'[j].ref : j \in n + 1 + 1 .. n + 1 + 0} = {}
    BY <2>1
  <2>5. {<<n + 1, k>> : k \in 1..0} = {}
    BY <2>1
  <2>6. Answered(n + 1)'
    BY <2>1, <2>3, <2>4, <2>5 DEF Answered
  <2> QED
    BY <1>5, <2>2, <2>6
<1>12. AnsweredInTurn'
  <2>1. ASSUME NEW i \in 1..n, entries[i].kind = "model"
        PROVE  Answered(i)'
    BY <1>2, <1>5, <2>1, AnsweredStays DEF Transcript, AnsweredInTurn
  <2>2. pending' # {} \/ calls = <<>>
    <3>1. pending' = {} => c = 0
      BY <1>7, FS_EmptySet
    <3> QED
      BY <1>6, <3>1, EmptySeq
  <2> QED
    BY <1>2, <1>3, <1>10, <1>11, <2>1, <2>2 DEF AnsweredInTurn
<1>13. ResultsFollow'
  <2>1. ASSUME NEW j \in 1..n, entries[j].kind = "tool"
        PROVE  /\ entries'[j].ref[1] \in 1 .. j - 1
               /\ \A k \in entries'[j].ref[1] + 1 .. j : entries'[k].kind = "tool"
    BY <1>2, <2>1 DEF Transcript, ResultsFollow
  <2> QED
    BY <1>2, <1>3, <1>4, <2>1 DEF ResultsFollow
<1>14. CutAtMessage'
  BY <1>1, <1>2, <1>4, <1>5 DEF Transcript, CutAtMessage
<1> QED
  BY <1>1, <1>2, <1>5, <1>8, <1>11, <1>12, <1>13, <1>14 DEF Transcript, NewCalls

\* A result follows the message whose call it answers; the last one closes the turn.
LEMMA ResultAnswers ==
  ASSUME Transcript, NEW c \in pending, NEW size, NEW review, Result(c, size, review)
  PROVE  Transcript' /\ pending' = pending \ {c}
<1>1. PICK n : n = Len(entries)
  OBVIOUS
<1> DEFINE e == Entry("tool", <<>>, c, size)
<1>2. /\ Messages' /\ n \in Nat \ {0} /\ Len(entries') = n + 1
      /\ DOMAIN entries = 1..n /\ DOMAIN entries' = 1..n + 1
      /\ \A i \in 1..n : entries'[i] = entries[i]
      /\ entries'[n + 1] = e
  <2>1. entries' = Append(entries, e) /\ e.calls \in Seq(Kinds)
    BY DEF Result, Entry
  <2> QED
    BY <1>1, <2>1, Appended DEF Transcript
<1>3. \A i : i \in 1..n + 1 <=> (i \in 1..n \/ i = n + 1)
  BY <1>2
<1>4. e.kind = "tool" /\ e.ref = c
  BY DEF Entry
<1>5. /\ pending' = pending \ {c} /\ firstKept' = firstKept
      /\ entries' = Append(entries, e) /\ e.calls \in Seq(Kinds)
  BY DEF Result, Entry
<1> HIDE DEF e
<1>6. ASSUME NEW m \in 1..n, Answering(m)
      PROVE  IF pending' = {} THEN Answered(m)' ELSE Answering(m)'
  <2>1. PICK q : q = Len(entries[m].calls)
    OBVIOUS
  <2>2. q \in Nat /\ DOMAIN entries[m].calls = 1..q /\ entries'[m] = entries[m]
    BY <1>2, <2>1, LenProperties DEF Transcript, Messages
  <2>3. IsFiniteSet(CallsOf(m)) /\ CallsOf(m) = {<<m, k>> : k \in 1..q}
        /\ CallsOf(m)' = CallsOf(m)
    <3>1. CallsOf(m) = {<<m, k>> : k \in DOMAIN entries[m].calls}
      BY DEF CallsOf
    <3>2. entries[m].calls \in Seq(Kinds)
      BY <1>2 DEF Transcript, Messages
    <3>3. IsFiniteSet(CallsOf(m))
      BY <3>1, <3>2, CountOfCalls
    <3>4. CallsOf(m)' = {<<m, k>> : k \in DOMAIN entries'[m].calls}
      BY DEF CallsOf
    <3> QED
      BY <2>2, <3>1, <3>3, <3>4
  <2>4. IsFiniteSet(pending) /\ Cardinality(pending) \in Nat
    BY <1>6, <2>3, FS_Subset, FS_CardinalityType DEF Answering
  <2>5. Cardinality(pending') = Cardinality(pending) - 1 /\ IsFiniteSet(pending')
    BY <1>5, <2>4, FS_RemoveElement
  <2>6. PICK p, r \in Nat : p = Cardinality(pending) /\ r = Cardinality(pending')
    BY <1>5, <2>4, <2>5, FS_CardinalityType
  <2>7. r = p - 1 /\ n + p = m + q
    BY <1>1, <1>6, <2>1, <2>5, <2>6 DEF Answering
  <2>8. n + 1 + r = m + q
    BY <1>2, <2>2, <2>6, <2>7
  <2>9. \A j : j \in m + 1 .. n + 1 <=> (j \in m + 1 .. n \/ j = n + 1)
    BY <1>2
  <2>10. \A j \in m + 1 .. n : j \in 1..n /\ entries'[j] = entries[j]
    BY <1>2
  <2>11. \A j \in m + 1 .. n + 1 : entries'[j].kind = "tool"
    BY <1>1, <1>2, <1>4, <1>6, <2>9, <2>10 DEF Answering
  <2>12. {entries'[j].ref : j \in m + 1 .. n + 1}
           = {entries[j].ref : j \in m + 1 .. n} \cup {c}
    BY <1>2, <1>4, <2>9, <2>10
  <2>13. {entries'[j].ref : j \in m + 1 .. n + 1} = CallsOf(m) \ pending'
    BY <1>1, <1>5, <1>6, <2>12 DEF Answering
  <2>14. CASE pending' = {}
    <3>1. r = 0
      BY <2>6, <2>14, FS_EmptySet
    <3>2. n + 1 = m + q
      BY <1>2, <2>8, <3>1
    <3>3. Len(entries'[m].calls) = q /\ m + q <= Len(entries')
      BY <1>2, <2>1, <2>2, <3>2
    <3>4. {entries'[j].ref : j \in m + 1 .. m + q} = {<<m, k>> : k \in 1..q}
      BY <2>3, <2>13, <2>14, <3>2
    <3>5. \A j \in m + 1 .. m + q : entries'[j].kind = "tool"
      BY <2>11, <3>2
    <3>6. Answered(m)'
      BY <3>3, <3>4, <3>5 DEF Answered
    <3> QED
      BY <2>14, <3>6
  <2>15. CASE pending' # {}
    <3>1. m \in DOMAIN entries' /\ entries'[m].kind = "model"
      BY <1>2, <1>6, <2>2 DEF Answering
    <3>2. pending' \subseteq CallsOf(m)'
      BY <1>5, <1>6, <2>3 DEF Answering
    <3>3. Len(entries') + Cardinality(pending') = m + Len(entries'[m].calls)
      BY <1>2, <2>1, <2>2, <2>6, <2>8
    <3>4. Answering(m)'
      BY <1>2, <2>3, <2>11, <2>13, <3>1, <3>2, <3>3 DEF Answering
    <3> QED
      BY <2>15, <3>4
  <2> QED
    BY <2>14, <2>15
<1>7. PICK m \in 1..n : Answering(m)
  BY <1>2 DEF Transcript, AnsweredInTurn
<1>8. AnsweredInTurn'
  <2>1. ASSUME NEW i \in 1..n, entries'[i].kind = "model"
        PROVE  Answered(i)' \/ (pending' # {} /\ Answering(i)')
    <3>1. CASE Answered(i)
      BY <1>2, <1>5, <3>1, AnsweredStays DEF Transcript
    <3>2. CASE Answering(i)
      BY <1>6, <3>2
    <3> QED
      BY <1>2, <2>1, <3>1, <3>2 DEF Transcript, AnsweredInTurn
  <2>2. pending' # {} => \E i \in DOMAIN entries' : Answering(i)'
    BY <1>2, <1>6, <1>7
  <2> QED
    BY <1>2, <1>3, <1>4, <2>1, <2>2 DEF AnsweredInTurn
<1>9. ResultsFollow'
  <2>1. ASSUME NEW j \in 1..n, entries[j].kind = "tool"
        PROVE  /\ entries'[j].ref[1] \in 1 .. j - 1
               /\ \A k \in entries'[j].ref[1] + 1 .. j : entries'[k].kind = "tool"
    <3>1. /\ entries[j].ref[1] \in 1 .. j - 1
          /\ \A k \in entries[j].ref[1] + 1 .. j : entries[k].kind = "tool"
      BY <1>2, <2>1 DEF Transcript, ResultsFollow
    <3>2. \A k \in entries[j].ref[1] + 1 .. j : k \in 1..n
      BY <1>2, <3>1
    <3> QED
      BY <1>2, <3>1, <3>2
  <2>2. c[1] = m
    BY <1>7 DEF Answering, CallsOf
  <2>3. m \in 1 .. n + 1 - 1
    BY <1>2
  <2>4. \A k \in m + 1 .. n + 1 : entries'[k].kind = "tool"
    <3>1. \A k : k \in m + 1 .. n + 1 <=> (k \in m + 1 .. n \/ k = n + 1)
      BY <1>2
    <3>2. \A k \in m + 1 .. n : k \in 1..n
      BY <1>2
    <3> QED
      BY <1>1, <1>2, <1>4, <1>7, <3>1, <3>2 DEF Answering
  <2> QED
    BY <1>2, <1>3, <1>4, <2>1, <2>2, <2>3, <2>4 DEF ResultsFollow
<1>10. CutAtMessage'
  <2>1. n # 1
    BY <1>2, <1>7 DEF Answering, Transcript, Messages
  <2> QED
    BY <1>1, <1>2, <1>5, <2>1 DEF Transcript, CutAtMessage
<1> QED
  BY <1>2, <1>5, <1>8, <1>9, <1>10 DEF Transcript

\* A compaction cuts before a message, or not at all.
LEMMA CutIsAtMessage ==
  ASSUME Transcript, NEW keep
  PROVE  \/ Cut(keep) = firstKept
         \/ Cut(keep) \in firstKept .. Len(entries) /\ entries[Cut(keep)].kind # "tool"
<1> DEFINE points == {i \in firstKept .. Len(entries) : entries[i].kind # "tool"}
           reach  == {i \in firstKept .. Len(entries) : Tokens[i] >= keep}
           below  == {c \in points : reach # {} /\ c >= Max(reach)}
<1>1. Len(entries) \in Nat /\ firstKept \in Nat
  BY LenProperties DEF Transcript, Messages, IsSequence, CutAtMessage
<1>2. ASSUME NEW S, S \subseteq points, S # {}
      PROVE  Min(S) \in points
  <2>1. S \subseteq Nat
    BY <1>1, <1>2
  <2>2. PICK x \in S : \A y \in S : x <= y
    BY <1>2, <2>1, LeastNatural
  <2> QED
    BY <1>2, <2>2 DEF Min
<1>3. Cut(keep) = CASE points = {} -> firstKept
                    [] below # {} -> Min(below)
                    [] OTHER -> Min(points)
  BY DEF Cut
<1>4. below \subseteq points
  OBVIOUS
<1> HIDE DEF points, below
<1>5. Cut(keep) = firstKept \/ Cut(keep) \in points
  BY <1>2, <1>3, <1>4
<1> QED
  BY <1>5 DEF points

LEMMA CutKeeps ==
  ASSUME Transcript, UNCHANGED <<entries, pending>>,
         firstKept' = firstKept \/ \E keep : firstKept' = Cut(keep)
  PROVE  Transcript'
<1>1. Messages' /\ ResultsFollow'
  BY DEF Transcript, Messages, ResultsFollow
<1>2. AnsweredInTurn'
  <2>1. ASSUME NEW i
        PROVE  (Answered(i)' <=> Answered(i)) /\ (Answering(i)' <=> Answering(i))
    BY DEF Answered, Answering, CallsOf
  <2> QED
    BY <2>1 DEF Transcript, AnsweredInTurn
<1>3. CutAtMessage'
  <2>1. CASE firstKept' = firstKept
    BY <2>1 DEF Transcript, CutAtMessage
  <2>2. CASE firstKept' # firstKept
    <3>1. firstKept' \in firstKept .. Len(entries) /\ entries[firstKept'].kind # "tool"
      BY <2>2, CutIsAtMessage
    <3>2. Len(entries) \in Nat /\ firstKept \in Nat /\ firstKept >= 2
      BY LenProperties DEF Transcript, Messages, IsSequence, CutAtMessage
    <3> QED
      BY <3>1, <3>2 DEF CutAtMessage
  <2> QED
    BY <2>1, <2>2
<1> QED
  BY <1>1, <1>2, <1>3 DEF Transcript

\* What the steps do to the transcript and to the calls without a result.
LEMMA AnsweringStep ==
  ASSUME AInv, [Next]_vars
  PROVE  AInv'
<1> USE DEF AInv, folded, memory, turn, env
<1>1. ASSUME UNCHANGED <<entries, pending>>,
             firstKept' = firstKept \/ \E keep : firstKept' = Cut(keep)
      PROVE  Transcript'
  BY <1>1, CutKeeps
<1>2. ASSUME pending = {}, pending' = {}, UNCHANGED firstKept,
             \E e : /\ entries' = Append(entries, e)
                    /\ e.kind \notin {"tool", "model"} /\ e.calls = <<>>
      PROVE  Transcript'
  <2>1. PICK e : /\ entries' = Append(entries, e)
                 /\ e.kind \notin {"tool", "model"} /\ e.calls = <<>>
    BY <1>2
  <2>2. e.calls \in Seq(Kinds)
    BY <2>1
  <2> QED
    BY <1>2, <2>1, <2>2, MessageKeeps
<1>3. ASSUME NEW key
      PROVE  Notice(key).kind \notin {"tool", "model"} /\ Notice(key).calls = <<>>
  BY DEF Notice, Entry
<1>4. pc \notin {"dispatch", "record", "finish", "accepted", "closed", "down", "off"}
        => pending = {}
  BY DEF CallsTracked
<1>5. Turns \subseteq Seq(Kinds)
  BY HarnessAssumption DEF HarnessAssumption
<1>6. CASE Exhausted
  <2>1. Transcript'
    BY <1>2, <1>3, <1>4, <1>6 DEF Exhausted
  <2> QED
    BY <1>4, <1>6, <2>1 DEF Exhausted, CallsTracked
<1>7. CASE BudgetNotices
  <2>1. pending = {} /\ pending' = {} /\ pc' = "poll" /\ UNCHANGED firstKept
    BY <1>4, <1>7 DEF BudgetNotices, NewNotice
  <2>2. Transcript'
    BY <1>1, <1>2, <1>3, <1>7, <2>1 DEF BudgetNotices, NewNotice
  <2> QED
    BY <2>1, <2>2 DEF CallsTracked
<1>8. CASE Incoming
  <2>1. Transcript'
    BY <1>2, <1>4, <1>8 DEF Incoming, Entry
  <2> QED
    BY <1>4, <1>8, <2>1 DEF Incoming, CallsTracked
<1>9. CASE Polled
  BY <1>1, <1>4, <1>9 DEF Polled, CallsTracked
<1>10. CASE Compact
  <2>1. /\ UNCHANGED <<entries, pending>> /\ firstKept' = Cut(Kept)
        /\ pc \in {"compact", "overflow"} /\ pc' \in {"compact", "overflow", "top", "call", "off"}
    BY <1>10 DEF Compact, Overflowed
  <2>2. Transcript'
    BY <1>1, <2>1
  <2> QED
    BY <1>4, <2>1, <2>2 DEF CallsTracked
<1>11. CASE NothingToCut
  BY <1>1, <1>4, <1>11 DEF NothingToCut, Overflowed, Finish, CallsTracked
<1>12. CASE CallsTools
  <2>1. PICK calls \in Turns \ {<<>>} : Reply(calls) /\ pc' = "dispatch"
    BY <1>12 DEF CallsTools
  <2>2. Transcript' /\ pending' = CallsOf(Len(entries))'
    BY <1>4, <1>5, <1>12, <2>1, ReplyOpens DEF CallsTools
  <2> QED
    BY <2>1, <2>2 DEF CallsTracked
<1>13. CASE SaysNothing("empty", EmptyTurnRetries) \/ SaysNothing("length", LengthRetries)
  <2>1. ASSUME NEW what, NEW most, SaysNothing(what, most)
        PROVE  pc = "call" /\ Reply(<<>>) /\ (pc' = "giveup" \/ pc' = "remind")
    BY <2>1, Zenon DEF SaysNothing
  <2>2. pc = "call" /\ Reply(<<>>) /\ pc' \in {"giveup", "remind"}
    BY <1>13, <2>1
  <2>3. <<>> \in Seq(Kinds)
    OBVIOUS
  <2>4. Transcript' /\ pending' = {}
    BY <1>4, <2>2, <2>3, ReplyOpens
  <2> QED
    BY <2>2, <2>4 DEF CallsTracked
<1>14. CASE Remind
  <2>1. Transcript'
    BY <1>2, <1>3, <1>4, <1>14 DEF Remind
  <2> QED
    BY <1>4, <1>14, <2>1 DEF Remind, CallsTracked
<1>15. CASE GiveUp \/ Overflow \/ ProviderFails
  <2>1. /\ UNCHANGED <<entries, pending, firstKept>> /\ pc \in {"giveup", "call"}
        /\ pc' \in {"off", "overflow"}
    BY <1>15 DEF GiveUp, Overflow, ProviderFails, Finish
  <2> QED
    BY <1>1, <1>4, <2>1 DEF CallsTracked
<1>16. CASE ClosingFails
  <2>1. UNCHANGED <<entries, pending, firstKept>> /\ pc' = "off"
    BY <1>16, Zenon DEF ClosingFails, Finish
  <2> QED
    BY <1>1, <2>1 DEF CallsTracked
<1>17. CASE Issue \/ Flush \/ RunTool
  <2>1. UNCHANGED <<entries, pending, firstKept, pc>> /\ pc = "dispatch"
    BY <1>17 DEF Issue, Flush, RunTool
  <2> QED
    BY <1>1, <2>1 DEF CallsTracked, CallsOf
<1>18. CASE Dispatched
  <2>1. UNCHANGED <<entries, pending, firstKept>> /\ pc = "dispatch" /\ pc' = "record"
        /\ todo' \subseteq CallsOf(Len(entries))
    BY <1>18 DEF Dispatched
  <2> QED
    BY <1>1, <2>1 DEF CallsTracked
<1>19. CASE RecordResult
  <2>1. PICK c \in todo, size \in ToolSizes : Result(c, size, FALSE) /\ todo' = todo \ {c}
    BY <1>19 DEF RecordResult
  <2>2. pc = "record" /\ pc' = "record" /\ c \in pending
    BY <1>19 DEF RecordResult, CallsTracked
  <2>3. Transcript' /\ pending' = pending \ {c}
    BY <2>1, <2>2, ResultAnswers
  <2> QED
    BY <2>1, <2>2, <2>3 DEF CallsTracked
<1>20. CASE Recorded
  <2>1. CASE pending = {}
    <3>1. pc' = "top" /\ pending' = {} /\ UNCHANGED firstKept
      BY <1>20, <2>1 DEF Recorded
    <3>2. entries' = entries \/ entries' = Append(entries, Notice(None))
      BY <1>20, <2>1 DEF Recorded
    <3>3. Transcript'
      BY <1>1, <1>2, <1>3, <2>1, <3>1, <3>2
    <3> QED
      BY <3>1, <3>3 DEF CallsTracked
  <2>2. CASE pending # {}
    <3>1. pc' = "finish" /\ UNCHANGED <<entries, pending, firstKept>>
      BY <1>20, <2>2 DEF Recorded
    <3> QED
      BY <1>1, <3>1 DEF CallsTracked
  <2> QED
    BY <2>1, <2>2
<1>21. ASSUME NEW S, S \subseteq pending, S # {}
       PROVE  First(S) \in S
  <2>1. PICK m \in DOMAIN entries : Answering(m)
    BY <1>21 DEF Transcript, AnsweredInTurn
  <2> QED
    BY <1>21, <2>1, FirstIsOne DEF Answering, Transcript, Messages
<1>22. Cardinality(pending) = 1 => pending = {First(pending)}
  <2>1. pending # {} => IsFiniteSet(pending)
    <3> SUFFICES ASSUME pending # {} PROVE IsFiniteSet(pending)
      OBVIOUS
    <3>1. PICK m \in DOMAIN entries : Answering(m)
      BY DEF Transcript, AnsweredInTurn
    <3>2. IsFiniteSet(CallsOf(m))
      BY <3>1, CountOfCalls DEF Transcript, Messages, CallsOf
    <3> QED
      BY <3>1, <3>2, FS_Subset DEF Answering
  <2> SUFFICES ASSUME Cardinality(pending) = 1 PROVE pending = {First(pending)}
    OBVIOUS
  <2>2. pending # {}
    BY FS_EmptySet
  <2>3. PICK x : pending = {x}
    BY <2>1, <2>2, FS_Singleton
  <2> QED
    BY <1>21, <2>2, <2>3
<1>23. CASE Duplicate
  <2> DEFINE rest == pending \ {First(pending)}
  <2>1. rest # {}
    <3> SUFFICES ASSUME rest = {} PROVE FALSE
      OBVIOUS
    <3>1. pending = {} \/ pending = {First(pending)}
      OBVIOUS
    <3>2. Cardinality(pending) = 0 \/ Cardinality(pending) = 1
      BY <3>1, FS_EmptySet, FS_Singleton
    <3> QED
      BY <1>23, <3>2 DEF Duplicate
  <2>2. PICK c \in pending : Result(c, 1, FALSE)
    BY <1>21, <1>23, <2>1 DEF Duplicate
  <2>3. Transcript' /\ pc = "finish" /\ pc' = "finish"
    BY <1>23, <2>2, ResultAnswers DEF Duplicate
  <2> QED
    BY <2>3 DEF CallsTracked
<1>24. CASE Reject \/ Review \/ Accept
  <2>1. /\ Cardinality(pending) = 1 /\ pc' \in {"top", "accepted"}
        /\ \E review \in BOOLEAN : Result(First(pending), 1, review)
    BY <1>24 DEF Reject, Review, Accept
  <2>2. pending = {First(pending)}
    BY <1>22, <2>1
  <2>3. Transcript' /\ pending' = pending \ {First(pending)}
    BY <2>1, <2>2, ResultAnswers
  <2> QED
    BY <2>1, <2>2, <2>3 DEF CallsTracked
<1>25. CASE Accepted \/ Cancel
  <2>1. UNCHANGED <<entries, pending, firstKept>> /\ pc' = "off"
    BY <1>25 DEF Accepted, Cancel, Finish
  <2> QED
    BY <1>1, <2>1 DEF CallsTracked
<1>26. CASE Close
  <2>1. PICK calls \in Turns : Reply(calls) /\ todo' = NewCalls(calls) /\ pc' = "closed"
    BY <1>26 DEF Close
  <2>2. Transcript' /\ pending' = NewCalls(calls)
    BY <1>4, <1>5, <1>26, <2>1, ReplyOpens DEF Close
  <2> QED
    BY <2>1, <2>2 DEF CallsTracked
<1>27. CASE RecordClosed
  <2>1. CASE todo # {}
    <3>1. Result(First(todo), 1, FALSE) /\ todo' = todo \ {First(todo)}
          /\ pc = "closed" /\ pc' = "closed"
      BY <1>27, <2>1 DEF RecordClosed
    <3>2. First(todo) \in pending
      BY <1>21, <2>1, <3>1 DEF CallsTracked
    <3>3. Transcript' /\ pending' = pending \ {First(todo)}
      BY <3>1, <3>2, ResultAnswers
    <3> QED
      BY <3>1, <3>3 DEF CallsTracked
  <2>2. CASE todo = {}
    <3>1. UNCHANGED <<entries, pending, firstKept>> /\ pc' = "off"
      BY <1>27, <2>2 DEF RecordClosed, Finish
    <3> QED
      BY <1>1, <3>1 DEF CallsTracked
  <2> QED
    BY <2>1, <2>2
<1>28. CASE Resume
  <2>1. CASE pending # {}
    <3>1. Result(First(pending), 1, FALSE) /\ pc' = "down" /\ First(pending) \in pending
      BY <1>21, <1>28, <2>1 DEF Resume
    <3>2. Transcript'
      BY <3>1, ResultAnswers
    <3> QED
      BY <3>1, <3>2 DEF CallsTracked
  <2>2. CASE pending = {}
    <3>1. UNCHANGED <<entries, pending, firstKept>> /\ pc' = "top"
      BY <1>28, <2>2 DEF Resume
    <3> QED
      BY <1>1, <2>2, <3>1 DEF CallsTracked
  <2> QED
    BY <2>1, <2>2
<1>29. CASE Crash
  BY <1>1, <1>29 DEF Crash, CallsTracked
<1>30. CASE Elapse \/ UNCHANGED vars
  <2>1. UNCHANGED <<entries, pending, firstKept, pc, todo>>
    BY <1>30 DEF Elapse, vars
  <2> QED
    BY <1>1, <2>1 DEF CallsTracked, CallsOf
<1> QED
  BY <1>6, <1>7, <1>8, <1>9, <1>10, <1>11, <1>12, <1>13, <1>14, <1>15, <1>16, <1>17, <1>18,
     <1>19, <1>20, <1>23, <1>24, <1>25, <1>26, <1>27, <1>28, <1>29, <1>30 DEF Next, Loop

LEMMA AnsweredAtFirst == Init => AInv
<1> SUFFICES ASSUME Init PROVE AInv
  OBVIOUS
<1> DEFINE e == Entry("task", <<>>, None, 1)
<1>1. entries = <<e>> /\ e.kind = "task" /\ e.calls = <<>>
  BY DEF Init, Entry
<1> HIDE DEF e
<1>2. IsSequence(entries)
  BY InvariantHolds DEF IInv, RanIsPast
<1>3. Len(entries) = 1 /\ DOMAIN entries = 1..1 /\ entries # <<>> /\ entries[1] = e
  BY <1>1
<1>4. \A i \in DOMAIN entries : i = 1
  BY <1>3
<1>5. Messages
  <2>1. <<>> \in Seq(Kinds)
    OBVIOUS
  <2> QED
    BY <1>1, <1>2, <1>3, <1>4, <2>1 DEF Messages
<1>6. Transcript
  BY <1>1, <1>3, <1>4, <1>5
  DEF Init, Transcript, AnsweredInTurn, ResultsFollow, CutAtMessage
<1> QED
  BY <1>6 DEF Init, AInv, CallsTracked

\* CallsAnswered, for any turns, results, compactions, reviews and deaths: each
\* call the model is shown has one result, before anything else, and conversely.
THEOREM EveryCallIsAnswered == Spec => []CallsAnswered
<1>1. Init => AInv
  BY AnsweredAtFirst
<1>2. AInv /\ [Next]_vars => AInv'
  BY AnsweringStep
<1>3. AInv => CallsAnswered
  <2> SUFFICES ASSUME AInv, pc \in {"call", "closing"}, NEW i \in firstKept .. Len(entries)
               PROVE  /\ entries[i].kind = "model" => Answered(i)
                      /\ entries[i].kind = "tool" => entries[i].ref[1] >= firstKept
    BY DEF CallsAnswered
  <2>1. /\ Len(entries) \in Nat /\ DOMAIN entries = 1..Len(entries)
        /\ firstKept \in Nat /\ firstKept >= 2
    BY LenProperties DEF AInv, Transcript, Messages, IsSequence, CutAtMessage
  <2>2. pending = {} /\ i \in DOMAIN entries
    BY <2>1 DEF AInv, CallsTracked
  <2>3. ASSUME entries[i].kind = "tool"
        PROVE  entries[i].ref[1] >= firstKept
    <3>1. PICK r : r = entries[i].ref[1]
      OBVIOUS
    <3>2. r \in 1 .. i - 1 /\ \A k \in r + 1 .. i : entries[k].kind = "tool"
      BY <2>2, <2>3, <3>1 DEF AInv, Transcript, ResultsFollow
    <3>3. entries[firstKept].kind # "tool"
      BY <2>1 DEF AInv, Transcript, CutAtMessage
    <3>4. firstKept \notin r + 1 .. i
      BY <3>2, <3>3
    <3> QED
      BY <2>1, <3>1, <3>2, <3>4
  <2> QED
    BY <2>2, <2>3 DEF AInv, Transcript, AnsweredInTurn
<1> QED
  BY <1>1, <1>2, <1>3, PTL DEF Spec

-----------------------------------------------------------------------------
(* What compaction keeps.                                                  *)

\* Tokens is what its recursion says: the sum from the last message downwards.
LEMMA TokensAreSums ==
  ASSUME Len(entries) \in Nat
  PROVE  Tokens = [i \in Nat \ {0} |->
                     IF i > Len(entries) THEN 0 ELSE entries[i].size + Tokens[i + 1]]
<1> DEFINE n == Len(entries)
           Pos == Nat \ {0}
           Right(f, i) == IF i > n THEN 0 ELSE entries[i].size + f[i + 1]
           Good(f, k) == /\ f = [i \in Pos |-> f[i]]
                         /\ \A i \in Pos : i + k > n => f[i] = Right(f, i)
           Bad == {k \in 0..n : ~ \E f : Good(f, k)}
<1>1. Bad = {}
  <2> SUFFICES ASSUME Bad # {} PROVE FALSE
    OBVIOUS
  <2>1. Bad \subseteq Nat
    OBVIOUS
  <2>2. PICK k \in Bad : \A l \in Bad : k <= l
    BY <2>1, LeastNatural
  <2>3. k # 0
    <3> DEFINE g == [i \in Pos |-> 0]
    <3>1. Good(g, 0)
      OBVIOUS
    <3> QED
      BY <2>2, <3>1
  <2>4. PICK f : Good(f, k - 1)
    <3>1. k - 1 \in 0..n /\ k - 1 \notin Bad
      BY <2>2, <2>3
    <3> QED
      BY <3>1
  <2> DEFINE j == n + 1 - k
             g == [i \in Pos |-> IF i = j THEN entries[j].size + f[j + 1] ELSE f[i]]
  <2>5. j \in Pos /\ j + 1 \in Pos /\ j + 1 # j /\ ~(j > n) /\ k \in Nat
    BY <2>2, <2>3
  <2>6. g[j] = entries[j].size + f[j + 1] /\ \A i \in Pos : i # j => g[i] = f[i]
    BY <2>5
  <2>7. \A i \in Pos : i + k > n => i = j \/ (i + (k - 1) > n /\ i > j /\ i + 1 \in Pos /\ i + 1 # j)
    BY <2>5
  <2>8. g = [i \in Pos |-> g[i]]
    OBVIOUS
  <2> HIDE DEF g, j
  <2>9. ASSUME NEW i \in Pos, i + k > n
        PROVE  g[i] = Right(g, i)
    <3>1. CASE i = j
      BY <2>5, <2>6, <3>1
    <3>2. CASE i # j
      <4>1. f[i] = Right(f, i) /\ g[i] = f[i] /\ g[i + 1] = f[i + 1]
        BY <2>4, <2>6, <2>7, <2>9, <3>2
      <4> QED
        BY <4>1
    <3> QED
      BY <3>1, <3>2
  <2>10. Good(g, k)
    BY <2>8, <2>9
  <2> QED
    BY <2>2, <2>10
<1>2. PICK f : Good(f, n)
  <2>1. n \in 0..n
    OBVIOUS
  <2> QED
    BY <1>1, <2>1
<1>3. \A i \in Pos : f[i] = Right(f, i)
  <2>1. \A i \in Pos : i + n > n
    OBVIOUS
  <2> HIDE DEF n
  <2> QED
    BY <1>2, <2>1
<1>4. f = [i \in Pos |-> Right(f, i)]
  BY <1>2, <1>3
<1> QED
  BY <1>4 DEF Tokens

\* No message has a negative size, so the later a message, the less from it on.
Sizes == IsSequence(entries) /\ \A i \in DOMAIN entries : entries[i].size \in Nat

LEMMA TokensFall ==
  ASSUME Sizes
  PROVE  /\ \A i \in Nat \ {0} : Tokens[i] \in Nat
         /\ \A i, j \in Nat \ {0} : i <= j => Tokens[j] <= Tokens[i]
<1> DEFINE n == Len(entries)
           Pos == Nat \ {0}
<1>1. n \in Nat /\ DOMAIN entries = 1..n
  BY AppendPositions DEF Sizes
<1>2. \A i \in Pos : Tokens[i] = IF i > n THEN 0 ELSE entries[i].size + Tokens[i + 1]
  BY <1>1, TokensAreSums
<1>3. \A i \in Pos : ~(i > n) => entries[i].size \in Nat
  BY <1>1 DEF Sizes
<1> HIDE DEF n
<1>4. \A i \in Pos : Tokens[i] \in Nat
  <2> DEFINE Bad == {k \in 0..n : \E i \in Pos : i + k > n /\ Tokens[i] \notin Nat}
  <2>1. Bad = {}
    <3> SUFFICES ASSUME Bad # {} PROVE FALSE
      OBVIOUS
    <3>1. Bad \subseteq Nat
      OBVIOUS
    <3>2. PICK k \in Bad : \A l \in Bad : k <= l
      BY <3>1, LeastNatural
    <3>3. PICK i \in Pos : i + k > n /\ Tokens[i] \notin Nat
      BY <3>2
    <3>4. ~(i > n)
      BY <1>2, <3>3
    <3>5. k - 1 \in 0..n /\ i + 1 \in Pos /\ i + 1 + (k - 1) > n
      BY <1>1, <3>2, <3>3, <3>4
    <3>6. Tokens[i + 1] \in Nat
      <4>1. k - 1 \notin Bad
        BY <3>2, <3>5
      <4> QED
        BY <3>5, <4>1
    <3> QED
      BY <1>2, <1>3, <3>3, <3>4, <3>6
  <2>2. \A i \in Pos : i + n > n /\ n \in 0..n
    BY <1>1
  <2> QED
    BY <2>1, <2>2
<1>5. ASSUME NEW i \in Pos
      PROVE  i + 1 \in Pos /\ Tokens[i + 1] <= Tokens[i]
  <2>1. i + 1 \in Pos /\ Tokens[i + 1] \in Nat
    BY <1>4
  <2>2. CASE i > n
    <3>1. i + 1 > n
      BY <1>1, <2>2
    <3> QED
      BY <1>2, <2>1, <2>2, <3>1
  <2>3. CASE ~(i > n)
    BY <1>2, <1>3, <2>1, <2>3
  <2> QED
    BY <2>1, <2>2, <2>3
<1>6. ASSUME NEW i \in Pos
      PROVE  \A j \in Pos : i <= j => Tokens[j] <= Tokens[i]
  <2> DEFINE Bad == {j \in Pos : i <= j /\ ~(Tokens[j] <= Tokens[i])}
  <2> SUFFICES ASSUME Bad # {} PROVE FALSE
    OBVIOUS
  <2>1. Bad \subseteq Nat
    OBVIOUS
  <2>2. PICK j \in Bad : \A l \in Bad : j <= l
    BY <2>1, LeastNatural
  <2>3. j # i
    BY <1>4, <2>2
  <2>4. j - 1 \in Pos /\ i <= j - 1 /\ j - 1 \notin Bad /\ j - 1 + 1 = j
    BY <2>2, <2>3
  <2> QED
    BY <1>4, <1>5, <2>2, <2>4
<1> QED
  BY <1>4, <1>6

\* Of positions there is a last.
LEMMA LastIsOne ==
  ASSUME NEW n \in Nat, NEW S, S \subseteq 1..n, S # {}
  PROVE  Max(S) \in S /\ \A x \in S : Max(S) >= x
<1> DEFINE R == {n - x : x \in S}
<1>1. \A x \in S : x \in 1..n /\ n - x \in Nat
  OBVIOUS
<1>2. R \subseteq Nat /\ R # {}
  BY <1>1
<1>3. PICK r \in R : \A q \in R : r <= q
  BY <1>2, LeastNatural
<1>4. PICK x \in S : r = n - x
  BY <1>3
<1>5. ASSUME NEW y \in S PROVE x >= y
  <2>1. n - x <= n - y
    BY <1>3, <1>4
  <2> QED
    BY <1>1, <2>1
<1> QED
  BY <1>5 DEF Max

LEMMA FirstIsLeast ==
  ASSUME NEW S, S \subseteq Nat, NEW c \in S
  PROVE  Min(S) <= c
<1>1. PICK x \in S : \A y \in S : x <= y
  BY LeastNatural
<1> QED
  BY <1>1 DEF Min

\* A message that begins less than what is to be kept is behind the cut.
LEMMA CutKeepsTail ==
  ASSUME Transcript, Sizes, NEW keep \in Nat, NEW c \in DOMAIN entries,
         entries[c].kind # "tool", Tokens[c] < keep, c >= firstKept
  PROVE  c >= Cut(keep)
<1> DEFINE n == Len(entries)
           points == {i \in firstKept .. n : entries[i].kind # "tool"}
           reach  == {i \in firstKept .. n : Tokens[i] >= keep}
           below  == {p \in points : reach # {} /\ p >= Max(reach)}
<1>1. n \in Nat /\ DOMAIN entries = 1..n /\ firstKept \in Nat /\ firstKept >= 2
  BY LenProperties DEF Transcript, Messages, IsSequence, CutAtMessage
<1>2. c \in points /\ c \in Nat \ {0}
  BY <1>1
<1>3. Cut(keep) = CASE points = {} -> firstKept
                    [] below # {} -> Min(below)
                    [] OTHER -> Min(points)
  BY DEF Cut
<1>4. points \subseteq Nat /\ below \subseteq Nat
  BY <1>1
<1>5. CASE reach = {}
  <2>1. Cut(keep) = Min(points)
    BY <1>2, <1>3, <1>5
  <2> QED
    BY <1>2, <1>4, <2>1, FirstIsLeast
<1>6. CASE reach # {}
  <2> DEFINE r == Max(reach)
  <2>1. reach \subseteq 1..n
    BY <1>1
  <2>2. r \in reach
    BY <1>1, <1>6, <2>1, LastIsOne
  <2> HIDE DEF r
  <2>3. r \in Nat \ {0} /\ Tokens[r] >= keep
    BY <1>1, <2>2
  <2>4. ~(c <= r)
    <3>1. Tokens[c] \in Nat /\ Tokens[r] \in Nat /\ (c <= r => Tokens[r] <= Tokens[c])
      BY <1>2, <2>3, TokensFall
    <3> QED
      BY <2>3, <3>1
  <2>5. c >= r
    BY <1>2, <2>3, <2>4
  <2>6. c \in below
    BY <1>2, <1>6, <2>5 DEF r
  <2>7. Cut(keep) = Min(below)
    BY <1>2, <1>3, <2>6
  <2> QED
    BY <1>4, <2>6, <2>7, FirstIsLeast
<1> QED
  BY <1>5, <1>6

LEMMA SizedAtFirst == Init => Sizes
<1> SUFFICES ASSUME Init PROVE Sizes
  OBVIOUS
<1> DEFINE e == Entry("task", <<>>, None, 1)
<1>1. entries = <<e>> /\ e.size = 1
  BY DEF Init, Entry
<1> HIDE DEF e
<1>2. IsSequence(entries)
  BY InvariantHolds DEF IInv, RanIsPast
<1> QED
  BY <1>1, <1>2 DEF Sizes

LEMMA SizesStay ==
  ASSUME Sizes, [Next]_vars
  PROVE  Sizes'
<1> USE DEF folded, memory, turn, env
<1>1. ASSUME NEW e, e.size \in Nat, entries' = Append(entries, e)
      PROVE  Sizes'
  <2>1. PICK n : n = Len(entries)
    OBVIOUS
  <2>2. /\ IsSequence(entries') /\ n \in Nat /\ DOMAIN entries = 1..n
        /\ DOMAIN entries' = 1..n + 1
        /\ \A i \in 1..n : entries'[i] = entries[i]
        /\ entries'[n + 1] = e
    BY <1>1, <2>1, AppendPositions DEF Sizes
  <2>3. \A i \in 1..n + 1 : i \in 1..n \/ i = n + 1
    BY <2>2
  <2> QED
    BY <1>1, <2>2, <2>3 DEF Sizes
<1>2. ASSUME UNCHANGED entries
      PROVE  Sizes'
  BY <1>2 DEF Sizes
<1>3. \A kind, calls, ref, size : Entry(kind, calls, ref, size).size = size
  BY DEF Entry
<1>4. ToolSizes \subseteq Nat /\ 1 \in Nat
  BY HarnessAssumption DEF HarnessAssumption
<1>5. \A key : Notice(key).size = 1
  BY <1>3 DEF Notice
<1>6. ASSUME NEW calls, Reply(calls) PROVE Sizes'
  BY <1>1, <1>3, <1>6 DEF Reply
<1>7. ASSUME NEW c, NEW size \in Nat, NEW review, Result(c, size, review) PROVE Sizes'
  BY <1>1, <1>3, <1>7 DEF Result
<1>8. CASE Exhausted \/ Remind
  BY <1>1, <1>5, <1>8 DEF Exhausted, Remind
<1>9. CASE BudgetNotices \/ Recorded
  BY <1>1, <1>2, <1>5, <1>9 DEF BudgetNotices, NewNotice, Recorded
<1>10. CASE Incoming
  BY <1>1, <1>3, <1>10 DEF Incoming
<1>11. CASE Polled \/ Compact \/ NothingToCut \/ Overflow \/ ProviderFails
  BY <1>2, <1>11 DEF Polled, Compact, NothingToCut, Overflow, ProviderFails, Finish
<1>12. CASE GiveUp \/ ClosingFails \/ Accepted \/ Cancel
  BY <1>2, <1>12 DEF GiveUp, ClosingFails, Accepted, Cancel, Finish
<1>13. CASE CallsTools \/ Close
  BY <1>6, <1>13 DEF CallsTools, Close
<1>14. CASE SaysNothing("empty", EmptyTurnRetries) \/ SaysNothing("length", LengthRetries)
  BY <1>6, <1>14 DEF SaysNothing
<1>15. CASE Issue \/ Flush \/ RunTool \/ Dispatched
  BY <1>2, <1>15 DEF Issue, Flush, RunTool, Dispatched
<1>16. CASE RecordResult
  BY <1>4, <1>7, <1>16 DEF RecordResult
<1>17. CASE Duplicate \/ Reject \/ Review \/ Accept
  BY <1>4, <1>7, <1>17 DEF Duplicate, Reject, Review, Accept
<1>18. CASE RecordClosed \/ Resume
  BY <1>2, <1>4, <1>7, <1>18 DEF RecordClosed, Resume, Finish
<1>19. CASE Elapse \/ Crash \/ UNCHANGED vars
  BY <1>2, <1>19 DEF Elapse, Crash, vars
<1> QED
  BY <1>8, <1>9, <1>10, <1>11, <1>12, <1>13, <1>14, <1>15, <1>16, <1>17, <1>18, <1>19 DEF Next, Loop

\* Nothing but a compaction moves the cut.
LEMMA OnlyCompactCuts ==
  ASSUME [Next]_vars
  PROVE  firstKept' = firstKept \/ (firstKept' = Cut(Kept) /\ UNCHANGED entries)
<1> USE DEF folded, memory, turn, env
<1>1. CASE Compact
  BY <1>1 DEF Compact
<1>2. CASE Exhausted \/ BudgetNotices \/ Incoming \/ Polled \/ NothingToCut
  BY <1>2 DEF Exhausted, BudgetNotices, NewNotice, Incoming, Polled, NothingToCut, Finish
<1>3. CASE CallsTools \/ Close \/ SaysNothing("empty", EmptyTurnRetries)
           \/ SaysNothing("length", LengthRetries)
  BY <1>3 DEF CallsTools, Close, SaysNothing, Reply
<1>4. CASE Remind \/ GiveUp \/ Overflow \/ ProviderFails \/ ClosingFails
  BY <1>4 DEF Remind, GiveUp, Overflow, ProviderFails, ClosingFails, Finish
<1>5. CASE Issue \/ Flush \/ RunTool \/ Dispatched
  BY <1>5 DEF Issue, Flush, RunTool, Dispatched
<1>6. CASE RecordResult \/ Recorded \/ Duplicate \/ Reject \/ Review \/ Accept \/ Accepted
  BY <1>6 DEF RecordResult, Recorded, Duplicate, Reject, Review, Accept, Accepted, Result, Finish
<1>7. CASE RecordClosed \/ Resume
  BY <1>7 DEF RecordClosed, Resume, Result, Finish
<1>8. CASE Elapse \/ Cancel \/ Crash \/ UNCHANGED vars
  BY <1>8 DEF Elapse, Cancel, Crash, Finish, vars
<1> QED
  BY <1>1, <1>2, <1>3, <1>4, <1>5, <1>6, <1>7, <1>8 DEF Next, Loop

\* TailKept, for any sizes and any tail to keep: of what comes last compaction
\* folds nothing that is worth less than the tail and can be cut at.
THEOREM CompactionKeepsTail == Spec => TailKept
<1>1. Init => AInv /\ Sizes
  BY AnsweredAtFirst, SizedAtFirst
<1>2. AInv /\ Sizes /\ [Next]_vars => (AInv /\ Sizes)'
  BY AnsweringStep, SizesStay
<1>3. AInv /\ Sizes /\ [Next]_vars =>
        [\A c \in DOMAIN entries :
           (entries[c].kind # "tool" /\ Tokens[c] < Kept /\ c >= firstKept) => c >= firstKept']_vars
  <2> SUFFICES ASSUME AInv, Sizes, [Next]_vars, NEW c \in DOMAIN entries,
                      entries[c].kind # "tool", Tokens[c] < Kept, c >= firstKept
               PROVE  c >= firstKept'
    OBVIOUS
  <2>1. CASE firstKept' = firstKept
    BY <2>1
  <2>2. CASE firstKept' = Cut(Kept)
    <3>1. Kept \in Nat
      BY HarnessAssumption DEF HarnessAssumption, Kept
    <3> QED
      BY <2>2, <3>1, CutKeepsTail DEF AInv
  <2> QED
    BY <2>1, <2>2, OnlyCompactCuts
<1> QED
  BY <1>1, <1>2, <1>3, PTL DEF Spec, TailKept
=============================================================================
