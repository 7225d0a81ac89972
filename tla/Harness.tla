------------------------------ MODULE Harness ------------------------------
(***************************************************************************)
(* One activation of one agent: the loop of sciteam/harness/loop.py, with  *)
(* the dispatch of tool calls, the budget and the compaction of the        *)
(* context it calls.  Every event of the activation's stream is one step;  *)
(* what is folded from the stream (state.py) survives the process, the     *)
(* rest is memory.  The process may die between any two events, and the    *)
(* activation be resumed from its stream; it may be cancelled wherever it  *)
(* awaits something.                                                       *)
(***************************************************************************)
EXTENDS Integers, Sequences, FiniteSets, SequencesExt, FiniteSetsExt

CONSTANTS
  Turns,            \* the tool calls a reply of the model may carry
  ToolSizes,        \* tokens of a tool's result (anything else is 1)
  SummarySize,      \* tokens of the summary of a compaction
  Threshold, Keep,  \* tokens that trigger a compaction; tokens it keeps
  MaxSteps, WarnAt, DecideAt, StatusEvery,  \* the budget, in steps
  FinishReviews, EmptyTurnRetries, LengthRetries,
  MaxIncoming,      \* bound on messages that arrive during the activation
  MayOverflow,      \* the provider may refuse a context for its length
  MaxCrashes        \* bound on deaths of the process

Kinds == {"read", "write", "bad", "finish"}  \* bad: refused by precheck()

ASSUME HarnessAssumption ==
  /\ Turns \subseteq Seq(Kinds)
  /\ ToolSizes \subseteq Nat \ {0}
  /\ {SummarySize, Threshold, Keep, WarnAt, DecideAt} \subseteq Nat
  /\ {MaxSteps, StatusEvery} \subseteq Nat \ {0}
  /\ {FinishReviews, EmptyTurnRetries, LengthRetries, MaxIncoming, MaxCrashes} \subseteq Nat
  /\ MayOverflow \in BOOLEAN

VARIABLES
  entries,    \* the messages of the activation: [kind, calls, ref, size]
  firstKept,  \* the first of them that is not folded into the summary
  steps,      \* replies of the model
  pending,    \* tool calls without a result: <<entry, position>>
  sent,       \* keys of the notices sent
  reviews,    \* finishes sent back for a review
  finished,   \* the outcome and its reason, or None
  pc,         \* where the loop is
  todo,       \* calls of the turn that are not dispatched, or recorded, yet
  batch,      \* readonly calls put off until a flush
  running,    \* calls under way
  failed,     \* calls of the turn whose result is an error
  retries,    \* empty turns, truncated turns and overflows in a row
  attempt,    \* compactions tried in this round
  skipUntil,  \* the number of entries a skipped compaction waits for
  elapsed,    \* wall clock and cost, scaled to MaxSteps
  crashes,
  ran,        \* history: the calls that were executed
  accepted    \* history: a finish was accepted

folded == <<entries, firstKept, steps, pending, sent, reviews, finished>>
turn == <<todo, batch, running, failed>>
memory == <<turn, retries, attempt, skipUntil>>
env == <<elapsed, crashes, ran, accepted>>
vars == <<folded, pc, memory, env>>

None == <<>>
NoRetries == [empty |-> 0, length |-> 0, overflow |-> 0]

-----------------------------------------------------------------------------
(* The messages.                                                           *)

Entry(kind, calls, ref, size) == [kind |-> kind, calls |-> calls, ref |-> ref, size |-> size]
CallsOf(e) == {<<e, k>> : k \in DOMAIN entries[e].calls}
KindOf(c) == entries[c[1]].calls[c[2]]

\* What the messages from the i-th on amount to.
Tokens[i \in Nat \ {0}] ==
  IF i > Len(entries) THEN 0 ELSE entries[i].size + Tokens[i + 1]

\* The task is pinned; a summary stands for what was folded.
ContextTokens(kept) ==
  entries[1].size + Tokens[kept] + (IF kept > 2 THEN SummarySize ELSE 0)

\* Mutant: the last cut point there is.
CutLast(keep) ==
  LET points == {i \in firstKept .. Len(entries) : entries[i].kind # "tool"}
  IN  IF points = {} THEN firstKept ELSE Max(points)

\* find_cut_point(): the place that keeps so many tokens, moved down to an entry
\* that is not the result of a tool.
Cut(keep) ==
  LET points == {i \in firstKept .. Len(entries) : entries[i].kind # "tool"}
      reach  == {i \in firstKept .. Len(entries) : Tokens[i] >= keep}
      below  == {c \in points : reach # {} /\ c >= Max(reach)}
  IN  CASE points = {} -> firstKept
        [] below # {}  -> Min(below)
        [] OTHER       -> Min(points)

Used == Max({steps, elapsed})    \* budget_status(): the limit that binds

Notice(key) == Entry("notice", <<>>, key, 1)

\* A result of call c is recorded; meta marks a finish sent back for review.
Result(c, size, review) ==
  /\ entries' = Append(entries, Entry("tool", <<>>, c, size))
  /\ pending' = pending \ {c}
  /\ reviews' = reviews + (IF review THEN 1 ELSE 0)
  /\ UNCHANGED <<firstKept, steps, sent, finished>>

NewNotice(keys) ==
  /\ IF keys = {}
     THEN UNCHANGED <<entries, sent>>
     ELSE \E key \in keys : entries' = Append(entries, Notice(key)) /\ sent' = sent \cup {key}
  /\ UNCHANGED <<firstKept, steps, pending, reviews, finished>>

\* activation_finished: the last event of the stream.
Finish(outcome, reason) ==
  /\ finished' = <<outcome, reason>>
  /\ pc' = "off"
  /\ UNCHANGED <<entries, firstKept, steps, pending, sent, reviews>>

-----------------------------------------------------------------------------
(* The top of the loop: budget, messages, compaction.                      *)

Exhausted ==
  /\ pc = "top" /\ Used >= MaxSteps
  /\ entries' = Append(entries, Notice(<<"exhausted", 0>>))
  /\ sent' = sent \cup {<<"exhausted", 0>>}
  /\ pc' = "closing"
  /\ UNCHANGED <<firstKept, steps, pending, reviews, finished, memory, env>>

Due(key, at) == Used >= at /\ <<key, 0>> \notin sent

BudgetKeys ==
  IF Due("decide", DecideAt) THEN {<<"decide", 0>>}
  ELSE IF Due("warn", WarnAt) THEN {<<"warn", 0>>}
  ELSE {<<"status", n>> : n \in {steps} \cap {k \in 1 .. steps : k % StatusEvery = 0}} \ sent

BudgetNotices ==
  /\ pc = "top" /\ Used < MaxSteps
  /\ NewNotice(BudgetKeys)
  /\ pc' = "poll"
  /\ UNCHANGED <<memory, env>>

Incoming ==
  /\ pc = "poll"
  /\ Cardinality({i \in DOMAIN entries : entries[i].kind = "incoming"}) < MaxIncoming
  /\ entries' = Append(entries, Entry("incoming", <<>>, None, 1))
  /\ UNCHANGED <<firstKept, steps, pending, sent, reviews, finished, pc, memory, env>>

Polled ==
  /\ pc = "poll"
  /\ LET due == ContextTokens(firstKept) > Threshold /\ Len(entries) >= skipUntil
     IN  pc' = IF due THEN "compact" ELSE "call"
  /\ attempt' = 0
  /\ UNCHANGED <<folded, turn, retries, skipUntil, env>>

\* _compact(): the second attempt keeps half as much.  After an overflow the
\* loop starts again at its top.
Overflowed == pc = "overflow"
Kept == IF attempt = 0 THEN Keep ELSE Keep \div 2

Compact ==
  /\ pc \in {"compact", "overflow"} /\ Cut(Kept) > firstKept
  /\ firstKept' = Cut(Kept)
  /\ LET fits == ContextTokens(Cut(Kept)) <= Threshold
     IN  IF attempt = 0 /\ ~fits
         THEN attempt' = 1 /\ UNCHANGED <<pc, finished>>
         ELSE /\ UNCHANGED attempt
              /\ IF fits \/ Overflowed
                 THEN pc' = (IF Overflowed THEN "top" ELSE "call") /\ UNCHANGED finished
                 ELSE pc' = "off" /\ finished' = <<"error", "compaction_insufficient">>
  /\ UNCHANGED <<entries, steps, pending, sent, reviews, turn, retries, skipUntil, env>>

\* Mutant: a compaction that was skipped is tried again at once.
NothingToCutRetries ==
  /\ pc \in {"compact", "overflow"} /\ Cut(Kept) <= firstKept
  /\ pc' = "top"
  /\ UNCHANGED <<folded, memory, env>>

NothingToCut ==
  /\ pc \in {"compact", "overflow"} /\ Cut(Kept) <= firstKept
  /\ IF Overflowed \/ attempt = 1
     THEN Finish("error", "compaction_failed") /\ UNCHANGED skipUntil
     ELSE /\ skipUntil' = Len(entries) + 2
          /\ pc' = "call"
          /\ UNCHANGED folded
  /\ UNCHANGED <<turn, retries, attempt, env>>

-----------------------------------------------------------------------------
(* The call of the model.  _call() retries what may pass and gives up in   *)
(* the end.                                                                *)

NewCalls(calls) == {<<Len(entries) + 1, k>> : k \in DOMAIN calls}

Reply(calls) ==
  /\ entries' = Append(entries, Entry("model", calls, None, 1))
  /\ steps' = steps + 1
  /\ pending' = NewCalls(calls)
  /\ UNCHANGED <<firstKept, sent, reviews, finished>>

\* finish is not dispatched: it comes after the other calls of its turn.
Others(calls) == {c \in NewCalls(calls) : calls[c[2]] # "finish"}

CallsTools ==
  /\ pc = "call"
  /\ \E calls \in Turns \ {<<>>} :
       /\ Reply(calls)
       /\ todo' = Others(calls)
  /\ batch' = {} /\ running' = {} /\ failed' = {}
  /\ retries' = NoRetries
  /\ pc' = "dispatch"
  /\ UNCHANGED <<attempt, skipUntil, env>>

\* A reply without a call: truncated, or empty.
SaysNothing(what, most) ==
  /\ pc = "call" /\ <<>> \in Turns
  /\ LET n == retries[what] + 1
     IN  IF n > most
         THEN pc' = "giveup"
         ELSE pc' = "remind"
  /\ Reply(<<>>)
  /\ retries' = [retries EXCEPT ![what] = @ + 1, !.overflow = 0]
  /\ UNCHANGED <<turn, attempt, skipUntil, env>>

Remind ==
  /\ pc = "remind"
  /\ entries' = Append(entries, Notice(None))
  /\ pc' = "top"
  /\ UNCHANGED <<firstKept, steps, pending, sent, reviews, finished, memory, env>>

GiveUp == pc = "giveup" /\ Finish("error", "no_finish") /\ UNCHANGED <<memory, env>>

Overflow ==
  /\ pc = "call" /\ MayOverflow
  /\ retries' = [retries EXCEPT !.overflow = @ + 1]
  /\ IF retries.overflow >= 2
     THEN Finish("error", "context_overflow") /\ UNCHANGED attempt
     ELSE pc' = "overflow" /\ attempt' = 0 /\ UNCHANGED folded
  /\ UNCHANGED <<turn, skipUntil, env>>

ProviderFails ==
  /\ pc = "call"
  /\ Finish("error", "provider")
  /\ UNCHANGED <<memory, env>>

-----------------------------------------------------------------------------
(* dispatch(): contiguous readonly calls run together, calls with effects  *)
(* alone and in order.                                                     *)

IsFirst(c, calls) == c \in calls /\ \A d \in calls : c[2] <= d[2]

Issue ==
  /\ pc = "dispatch" /\ running = {}
  /\ \E c \in todo :
       /\ IsFirst(c, todo)
       /\ todo' = todo \ {c}
       /\ \/ /\ KindOf(c) = "bad"
             /\ failed' = failed \cup {c}
             /\ UNCHANGED <<batch, running>>
          \/ /\ KindOf(c) = "read"
             /\ batch' = batch \cup {c}
             /\ UNCHANGED <<running, failed>>
          \/ /\ KindOf(c) = "write" /\ batch = {}
             /\ running' = {c}
             /\ UNCHANGED <<batch, failed>>
  /\ UNCHANGED <<folded, pc, retries, attempt, skipUntil, env>>

Flush ==
  /\ pc = "dispatch" /\ running = {} /\ batch # {}
  /\ \A c \in todo : IsFirst(c, todo) => KindOf(c) = "write"
  /\ running' = batch /\ batch' = {}
  /\ UNCHANGED <<folded, pc, todo, failed, retries, attempt, skipUntil, env>>

RunTool ==
  /\ pc = "dispatch"
  /\ \E c \in running, error \in BOOLEAN :
       /\ running' = running \ {c}
       /\ failed' = IF error THEN failed \cup {c} ELSE failed
       /\ ran' = Append(ran, c)
  /\ UNCHANGED <<folded, pc, todo, batch, retries, attempt, skipUntil, elapsed, crashes, accepted>>

Dispatched ==
  /\ pc = "dispatch" /\ running = {} /\ batch = {} /\ todo = {}
  /\ todo' = {c \in CallsOf(Len(entries)) : KindOf(c) # "finish"}
  /\ pc' = "record"
  /\ UNCHANGED <<folded, batch, running, failed, retries, attempt, skipUntil, env>>

RecordResult ==
  /\ pc = "record"
  /\ \E c \in todo, size \in ToolSizes :
       IsFirst(c, todo) /\ Result(c, size, FALSE) /\ todo' = todo \ {c}
  /\ UNCHANGED <<pc, batch, running, failed, retries, attempt, skipUntil, env>>

\* _check_loop() may find the turn repetitive.
Recorded ==
  /\ pc = "record" /\ todo = {}
  /\ IF pending = {}
     THEN \E repeats \in BOOLEAN :
            /\ entries' = IF repeats THEN Append(entries, Notice(None)) ELSE entries
            /\ pc' = "top"
     ELSE pc' = "finish" /\ UNCHANGED entries
  /\ UNCHANGED <<firstKept, steps, pending, sent, reviews, finished, memory, env>>

-----------------------------------------------------------------------------
(* finish: only what is left of the turn is pending.                       *)

First(calls) == CHOOSE c \in calls : IsFirst(c, calls)

Duplicate ==
  /\ pc = "finish" /\ Cardinality(pending) > 1
  /\ Result(First(pending \ {First(pending)}), 1, FALSE)
  /\ UNCHANGED <<pc, memory, env>>

\* Its arguments, a failed call of the turn or finish_check() stand against it.
Reject ==
  /\ pc = "finish" /\ Cardinality(pending) = 1
  /\ Result(First(pending), 1, FALSE)
  /\ pc' = "top"
  /\ UNCHANGED <<memory, env>>

WantsReview(outcome) == outcome = "completed" /\ reviews < FinishReviews /\ Used < DecideAt

Review ==
  /\ pc = "finish" /\ Cardinality(pending) = 1 /\ failed = {}
  /\ WantsReview("completed")
  /\ Result(First(pending), 1, TRUE)
  /\ pc' = "top"
  /\ UNCHANGED <<memory, env>>

Accept ==
  /\ pc = "finish" /\ Cardinality(pending) = 1 /\ failed = {}
  /\ \E outcome \in {"completed", "handoff"} :
       /\ ~WantsReview(outcome)
       /\ accepted' = <<outcome, None>>
  /\ Result(First(pending), 1, FALSE)
  /\ pc' = "accepted"
  /\ UNCHANGED <<memory, elapsed, crashes, ran>>

Accepted ==
  /\ pc = "accepted"
  /\ Finish(accepted[1], accepted[2])
  /\ UNCHANGED <<memory, env>>

-----------------------------------------------------------------------------
(* The closing call: one more reply, whose calls are not executed.         *)

Close ==
  /\ pc = "closing"
  /\ \E calls \in Turns : Reply(calls) /\ todo' = NewCalls(calls)
  /\ pc' = "closed"
  /\ UNCHANGED <<batch, running, failed, retries, attempt, skipUntil, env>>

ClosingFails ==
  /\ pc = "closing"
  /\ Finish("budget_exhausted", "closing call failed")
  /\ UNCHANGED <<memory, env>>

\* Mutant: once it is recorded the loop goes on.
RecordClosedLoops ==
  /\ pc = "closed"
  /\ IF todo # {}
     THEN Result(First(todo), 1, FALSE) /\ todo' = todo \ {First(todo)} /\ UNCHANGED pc
     ELSE pc' = "top" /\ UNCHANGED <<folded, todo>>
  /\ UNCHANGED <<batch, running, failed, retries, attempt, skipUntil, env>>

RecordClosed ==
  /\ pc = "closed"
  /\ IF todo # {}
     THEN Result(First(todo), 1, FALSE) /\ todo' = todo \ {First(todo)} /\ UNCHANGED pc
     ELSE Finish("budget_exhausted", None) /\ UNCHANGED todo
  /\ UNCHANGED <<batch, running, failed, retries, attempt, skipUntil, env>>

-----------------------------------------------------------------------------
(* The surroundings.                                                       *)

Elapse ==
  /\ pc # "off" /\ elapsed < MaxSteps
  /\ elapsed' = elapsed + 1
  /\ UNCHANGED <<folded, pc, memory, crashes, ran, accepted>>

\* CancelledError, where the coroutine awaits.
Cancel ==
  /\ \/ pc \in {"compact", "overflow", "call", "closing"}
     \/ pc = "dispatch" /\ running # {}
     \/ pc = "finish" /\ Cardinality(pending) = 1
  /\ Finish("error", "cancelled")
  /\ UNCHANGED <<memory, env>>

Forget ==
  /\ todo' = {} /\ batch' = {} /\ running' = {} /\ failed' = {}
  /\ retries' = NoRetries /\ attempt' = 0 /\ skipUntil' = 0

Crash ==
  /\ pc # "off" /\ crashes < MaxCrashes
  /\ crashes' = crashes + 1
  /\ pc' = "down"
  /\ Forget
  /\ UNCHANGED <<folded, elapsed, ran, accepted>>

\* Mutant: calls without a result stay so.
ResumeAtOnce ==
  /\ pc = "down"
  /\ pc' = "top"
  /\ UNCHANGED <<folded, memory, env>>

\* Mutant: calls without a result are executed.
ResumeReplays ==
  /\ pc = "down"
  /\ todo' = {c \in pending : KindOf(c) # "finish"}
  /\ pc' = IF pending = {} THEN "top" ELSE "dispatch"
  /\ UNCHANGED <<folded, batch, running, failed, retries, attempt, skipUntil, env>>

\* resume(): calls whose result was not recorded have an unknown one.
Resume ==
  /\ pc = "down"
  /\ IF pending # {}
     THEN Result(First(pending), 1, FALSE) /\ UNCHANGED pc
     ELSE pc' = "top" /\ UNCHANGED folded
  /\ UNCHANGED <<memory, env>>

Init ==
  /\ entries = <<Entry("task", <<>>, None, 1)>> /\ firstKept = 2
  /\ steps = 0 /\ pending = {} /\ sent = {} /\ reviews = 0 /\ finished = None
  /\ pc = "top"
  /\ todo = {} /\ batch = {} /\ running = {} /\ failed = {}
  /\ retries = NoRetries /\ attempt = 0 /\ skipUntil = 0
  /\ elapsed = 0 /\ crashes = 0 /\ ran = <<>> /\ accepted = None

Loop ==
  \/ Exhausted \/ BudgetNotices \/ Polled \/ Compact \/ NothingToCut
  \/ CallsTools \/ SaysNothing("empty", EmptyTurnRetries)
  \/ SaysNothing("length", LengthRetries) \/ Remind \/ GiveUp
  \/ Overflow \/ ProviderFails
  \/ Issue \/ Flush \/ RunTool \/ Dispatched \/ RecordResult \/ Recorded
  \/ Duplicate \/ Reject \/ Review \/ Accept \/ Accepted
  \/ Close \/ ClosingFails \/ RecordClosed
  \/ Resume

Next == Loop \/ Incoming \/ Elapse \/ Cancel \/ Crash

Spec == Init /\ [][Next]_vars

\* Calls of the provider time out, tools have time limits, and whoever runs
\* the activation resumes it.
FairSpec == Spec /\ WF_vars(Loop)

-----------------------------------------------------------------------------
(* Properties.                                                             *)

(* Whenever the model is called, each of the calls it made in the messages *)
(* it is shown is followed by exactly one result, before anything else,    *)
(* and there is no result without its call: through failing and refused    *)
(* tools, crashes in the midst of a turn, rejected finishes, compactions.  *)
Answered(i) ==
  LET n == Len(entries[i].calls) IN
  /\ i + n <= Len(entries)
  /\ \A j \in i + 1 .. i + n : entries[j].kind = "tool"
  /\ {entries[j].ref : j \in i + 1 .. i + n} = {<<i, k>> : k \in 1 .. n}

CallsAnswered ==
  pc \in {"call", "closing"} => \A i \in firstKept .. Len(entries) :
    /\ entries[i].kind = "model" => Answered(i)
    /\ entries[i].kind = "tool" => entries[i].ref[1] >= firstKept

(* No tool call is executed twice, though crashes may leave the harness    *)
(* without its result.                                                     *)
EffectsOnce == \A i, j \in DOMAIN ran : ran[i] = ran[j] => i = j

(* The budget is exceeded by the closing call at most, and by one more for *)
(* each time that call was made and lost; each warning about it is given   *)
(* once.  Resumptions, which know the stream only, are included.           *)
BudgetKept ==
  /\ steps <= MaxSteps + 1 + crashes
  /\ \A key \in {"warn", "decide"} :
       Cardinality({i \in DOMAIN entries :
                      entries[i].kind = "notice" /\ entries[i].ref = <<key, 0>>}) <= 1

(* Compaction folds no message of the tail it is to keep, except tool      *)
(* results whose call is not part of the tail.                             *)
TailKept ==
  [][\A c \in DOMAIN entries :
       (entries[c].kind # "tool" /\ Tokens[c] < Kept /\ c >= firstKept)
         => c >= firstKept']_vars

(* No activation without an outcome: it ends, whatever the model replies,  *)
(* the provider refuses, the tools do and the process survives.            *)
Terminates == <>(finished # None)
=============================================================================
