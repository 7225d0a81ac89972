----------------------------- MODULE EventStore -----------------------------
(***************************************************************************)
(* The append-only event store of sciteam/kernel/events.py: one SQLite     *)
(* table shared by several processes (the scheduler, `team post`, ...),    *)
(* each with one connection guarded by a process-wide lock.  append() is a *)
(* transaction of several steps; subscribe() polls the table from a cursor *)
(* and sleeps until an append of its own process wakes it or its polling   *)
(* timeout expires.  A process may die between any two steps.              *)
(***************************************************************************)
EXTENDS Integers, Sequences, FiniteSets

CONSTANTS
  Proc,            \* operating-system processes that opened the database
  Writer,          \* threads that call append()
  Subscriber,      \* subscribe() generators
  Home,            \* the process of each writer and subscriber
  Stream,          \* stream names
  Type,            \* event types
  Wants,           \* the types each subscriber asked for
  Hash(_,_,_,_),   \* _event_hash over (stream, stream_seq, type, prev_hash)
  GENESIS_HASH,    \* prev_hash of the first event of a stream
  NoOne,           \* nobody: the holder of a free lock
  Expected,        \* values of expected_stream_seq that callers pass
  Limit,           \* rows one read of a subscription returns (500 in the code)
  MaxCalls,        \* bound on the calls of append(), for TLC
  MaxCrashes       \* bound on process deaths, for TLC

ASSUME HomeAssumption == Home \in [Writer \cup Subscriber -> Proc]
ASSUME WantsAssumption == Wants \in [Subscriber -> SUBSET Type]
ASSUME NoOneAssumption == NoOne \notin Writer
ASSUME LimitAssumption == Limit \in Nat \ {0}
ASSUME BoundAssumption == MaxCalls \in Nat /\ MaxCrashes \in Nat

NotGiven == -1     \* expected_stream_seq is None

ASSUME ExpectedAssumption == Expected \subseteq Nat \cup {NotGiven}
ASSUME NoCallAssumption ==   \* nobody is not the arguments of a call
  NoOne \notin [stream : Stream, type : Type, expected : Expected \cup {NotGiven}]

VARIABLES
  rows,       \* the committed table, in seq order: seq is the index
  txn,        \* the writer whose write transaction is open (SQLite's lock)
  lock,       \* per process: the writer that holds EventStore._lock
  pc,         \* per writer: where its append() is
  call,       \* per writer: the arguments of its append()
  tail,       \* per writer: (stream_seq, hash) its SELECT returned
  outcome,    \* per writer: how its last append() ended
  calls,      \* append() calls so far
  spc,        \* per subscriber: "read" | "yield" | "wait"
  after,      \* per subscriber: the after_seq it was created with
  cursor,     \* per subscriber: seq of the last event it looked at
  batch,      \* per subscriber: rows read and not yet looked at
  posted,     \* per subscriber: wake.set is scheduled on its event loop
  wake,       \* per subscriber: its asyncio.Event is set
  delivered,  \* per subscriber: the rows it yielded (history)
  crashes     \* process deaths so far

wvars == <<txn, lock, pc, call, tail, outcome, calls>>
svars == <<spc, after, cursor, batch, posted, wake, delivered>>
vars == <<rows, wvars, svars, crashes>>

-----------------------------------------------------------------------------
(* The table.                                                              *)

RowFields == {"stream", "stream_seq", "type", "actor", "prev_hash", "hash"}

OfStream(s) == {i \in DOMAIN rows : rows[i].stream = s}

\* SELECT ... WHERE stream=? ORDER BY stream_seq DESC LIMIT 1, with the values
\* append() takes when the stream has no row.
IsTail(t, s) ==
  \/ /\ OfStream(s) = {}
     /\ t = [stream_seq |-> 0, hash |-> GENESIS_HASH]
  \/ \E i \in OfStream(s) :
       /\ \A j \in OfStream(s) : rows[j].stream_seq <= rows[i].stream_seq
       /\ t = [stream_seq |-> rows[i].stream_seq, hash |-> rows[i].hash]

TailsOf(s) ==
  {[stream_seq |-> 0, hash |-> GENESIS_HASH]}
    \cup {[stream_seq |-> rows[i].stream_seq, hash |-> rows[i].hash] : i \in DOMAIN rows}

\* The row append() inserts after the tail it read.
NewRow(w) ==
  LET n == tail[w].stream_seq + 1
      h == tail[w].hash
  IN  [stream |-> call[w].stream, stream_seq |-> n, type |-> call[w].type,
       actor |-> w, prev_hash |-> h, hash |-> Hash(call[w].stream, n, call[w].type, h)]

\* What the connection of process p sees: its own uncommitted row included.
Visible(p) ==
  IF txn # NoOne /\ Home[txn] = p /\ pc[txn] = "inserted"
    THEN Append(rows, NewRow(txn))
    ELSE rows

-----------------------------------------------------------------------------
(* append()                                                                *)

NoCall == [stream |-> NoOne, type |-> NoOne, expected |-> NotGiven]
NoTail == [stream_seq |-> 0, hash |-> GENESIS_HASH]

\* A thread calls append(); it normalises the payload before it takes the lock.
Call(w) ==
  /\ pc[w] = "idle" /\ calls < MaxCalls
  /\ \E s \in Stream, t \in Type, e \in Expected :
       call' = [call EXCEPT ![w] = [stream |-> s, type |-> t, expected |-> e]]
  /\ pc' = [pc EXCEPT ![w] = "called"]
  /\ outcome' = [outcome EXCEPT ![w] = "none"]
  /\ calls' = calls + 1
  /\ UNCHANGED <<rows, txn, lock, tail, svars, crashes>>

\* with self._lock
AcquireLock(w) ==
  /\ pc[w] = "called" /\ lock[Home[w]] = NoOne
  /\ lock' = [lock EXCEPT ![Home[w]] = w]
  /\ pc' = [pc EXCEPT ![w] = "locked"]
  /\ UNCHANGED <<rows, txn, call, tail, outcome, calls, svars, crashes>>

\* Mutant: a deferred BEGIN, which does not wait for other transactions.
BeginDeferred(w) ==
  /\ pc[w] = "locked"
  /\ txn' = w
  /\ pc' = [pc EXCEPT ![w] = "begun"]
  /\ UNCHANGED <<rows, lock, call, tail, outcome, calls, svars, crashes>>

BeginImmediate(w) ==
  /\ pc[w] = "locked" /\ txn = NoOne
  /\ txn' = w
  /\ pc' = [pc EXCEPT ![w] = "begun"]
  /\ UNCHANGED <<rows, lock, call, tail, outcome, calls, svars, crashes>>

\* append() ends, by its value or by an exception: its locals are gone.
Return(w) ==
  /\ pc' = [pc EXCEPT ![w] = "idle"]
  /\ call' = [call EXCEPT ![w] = NoCall]
  /\ tail' = [tail EXCEPT ![w] = NoTail]

\* append() raises: the lock is released and the caller sees the exception.
Raise(w, why) ==
  /\ Return(w)
  /\ lock' = [lock EXCEPT ![Home[w]] = NoOne]
  /\ outcome' = [outcome EXCEPT ![w] = why]

\* Another process keeps its write transaction open past SQLite's busy timeout:
\* BEGIN IMMEDIATE raises outside the try, so nothing is rolled back.
BeginBusy(w) ==
  /\ pc[w] = "locked" /\ txn # NoOne
  /\ Raise(w, "error")
  /\ UNCHANGED <<rows, txn, calls, svars, crashes>>

\* ROLLBACK, then the exception.
Rollback(w, why) ==
  /\ txn' = NoOne
  /\ Raise(w, why)

\* Mutant: expected_stream_seq is not compared with the tail.
ReadTailUnchecked(w) ==
  /\ pc[w] = "begun"
  /\ \E t \in TailsOf(call[w].stream) :
       /\ IsTail(t, call[w].stream)
       /\ tail' = [tail EXCEPT ![w] = t]
  /\ pc' = [pc EXCEPT ![w] = "read"]
  /\ UNCHANGED <<rows, txn, lock, call, outcome, calls, svars, crashes>>

ReadTail(w) ==
  /\ pc[w] = "begun"
  /\ \E t \in TailsOf(call[w].stream) :
       /\ IsTail(t, call[w].stream)
       /\ call[w].expected \in {NotGiven, t.stream_seq}
       /\ tail' = [tail EXCEPT ![w] = t]
  /\ pc' = [pc EXCEPT ![w] = "read"]
  /\ UNCHANGED <<rows, txn, lock, call, outcome, calls, svars, crashes>>

\* raise ConcurrencyConflict
Conflict(w) ==
  /\ pc[w] = "begun"
  /\ \E t \in TailsOf(call[w].stream) :
       /\ IsTail(t, call[w].stream)
       /\ call[w].expected \notin {NotGiven, t.stream_seq}
  /\ Rollback(w, "conflict")
  /\ UNCHANGED <<rows, calls, svars, crashes>>

\* INSERT: the row exists for this connection only.  The table's constraint
\* UNIQUE(stream, stream_seq) is left out: ChainOK shows that it never fires.
Insert(w) ==
  /\ pc[w] = "read"
  /\ pc' = [pc EXCEPT ![w] = "inserted"]
  /\ UNCHANGED <<rows, txn, lock, call, tail, outcome, calls, svars, crashes>>

\* Mutant: append() returns after the COMMIT without notifying.
CommitSilently(w) ==
  /\ pc[w] = "inserted"
  /\ rows' = Append(rows, NewRow(w))
  /\ txn' = NoOne
  /\ lock' = [lock EXCEPT ![Home[w]] = NoOne]
  /\ Return(w)
  /\ outcome' = [outcome EXCEPT ![w] = "ok"]
  /\ UNCHANGED <<calls, svars, crashes>>

\* COMMIT, then the end of the with block.
Commit(w) ==
  /\ pc[w] = "inserted"
  /\ rows' = Append(rows, NewRow(w))
  /\ txn' = NoOne
  /\ lock' = [lock EXCEPT ![Home[w]] = NoOne]
  /\ pc' = [pc EXCEPT ![w] = "committed"]
  /\ outcome' = [outcome EXCEPT ![w] = "ok"]
  /\ UNCHANGED <<call, tail, calls, svars, crashes>>

\* An I/O error of the INSERT or the COMMIT: the row disappears again.
CommitFails(w) ==
  /\ pc[w] = "inserted"
  /\ Rollback(w, "error")
  /\ UNCHANGED <<rows, calls, svars, crashes>>

\* _notify: schedules wake.set on the loop of every waiter of this process.
Notify(w) ==
  /\ pc[w] = "committed"
  /\ posted' = [s \in Subscriber |-> posted[s] \/ Home[s] = Home[w]]
  /\ Return(w)
  /\ UNCHANGED <<rows, txn, lock, outcome, calls,
                 spc, after, cursor, batch, wake, delivered, crashes>>

-----------------------------------------------------------------------------
(* subscribe()                                                             *)

\* Mutant: read_global without the lock, on the connection of an open append.
ReadBatchUnlocked(s) ==
  /\ spc[s] = "read"
  /\ LET seen == Visible(Home[s])
         n    == Len(seen)
         upto == IF n > cursor[s] + Limit THEN cursor[s] + Limit ELSE n
     IN  /\ batch' = [batch EXCEPT ![s] = SubSeq(seen, cursor[s] + 1, upto)]
         /\ spc' = [spc EXCEPT ![s] = IF n > cursor[s] THEN "yield" ELSE "wait"]
  /\ wake' = [wake EXCEPT ![s] = FALSE]
  /\ UNCHANGED <<rows, wvars, after, cursor, posted, delivered, crashes>>

\* wake.clear() and read_global(after_seq=cursor, limit=500), under the lock.
\* No await separates the two, so the loop cannot run wake.set in between.
ReadBatch(s) ==
  /\ spc[s] = "read" /\ lock[Home[s]] = NoOne
  /\ LET seen == Visible(Home[s])
         n    == Len(seen)
         upto == IF n > cursor[s] + Limit THEN cursor[s] + Limit ELSE n
     IN  /\ batch' = [batch EXCEPT ![s] = SubSeq(seen, cursor[s] + 1, upto)]
         /\ spc' = [spc EXCEPT ![s] = IF n > cursor[s] THEN "yield" ELSE "wait"]
  /\ wake' = [wake EXCEPT ![s] = FALSE]
  /\ UNCHANGED <<rows, wvars, after, cursor, posted, delivered, crashes>>

\* One turn of the for loop: the event is yielded if the caller wants its type.
Yield(s) ==
  /\ spc[s] = "yield"
  /\ cursor' = [cursor EXCEPT ![s] = @ + 1]
  /\ delivered' = [delivered EXCEPT ![s] =
        IF Head(batch[s]).type \in Wants[s] THEN Append(@, Head(batch[s])) ELSE @]
  /\ batch' = [batch EXCEPT ![s] = Tail(@)]
  /\ spc' = [spc EXCEPT ![s] = IF Len(batch[s]) = 1 THEN "read" ELSE "yield"]
  /\ UNCHANGED <<rows, wvars, after, posted, wake, crashes>>

\* The event loop runs a scheduled wake.set.
RunPosted(s) ==
  /\ posted[s]
  /\ posted' = [posted EXCEPT ![s] = FALSE]
  /\ wake' = [wake EXCEPT ![s] = TRUE]
  /\ UNCHANGED <<rows, wvars, spc, after, cursor, batch, delivered, crashes>>

Woken(s) ==
  /\ spc[s] = "wait" /\ wake[s]
  /\ spc' = [spc EXCEPT ![s] = "read"]
  /\ UNCHANGED <<rows, wvars, after, cursor, batch, posted, wake, delivered, crashes>>

\* Mutant: no polling, subscribers only listen to their own process.
NoPolling(s) == spc[s] = "wait" /\ UNCHANGED vars

\* POLL_INTERVAL_S expires: the only way to learn of other processes' appends.
PollTimeout(s) ==
  /\ spc[s] = "wait"
  /\ spc' = [spc EXCEPT ![s] = "read"]
  /\ UNCHANGED <<rows, wvars, after, cursor, batch, posted, wake, delivered, crashes>>

-----------------------------------------------------------------------------
(* A process is killed and started again: SQLite discards its open         *)
(* transaction; its subscriptions are created anew after some seq.         *)

Crash(p) ==
  /\ crashes < MaxCrashes
  /\ crashes' = crashes + 1
  /\ txn' = IF txn # NoOne /\ Home[txn] = p THEN NoOne ELSE txn
  /\ lock' = [lock EXCEPT ![p] = NoOne]
  /\ pc' = [w \in Writer |-> IF Home[w] = p THEN "idle" ELSE pc[w]]
  /\ call' = [w \in Writer |-> IF Home[w] = p THEN NoCall ELSE call[w]]
  /\ tail' = [w \in Writer |-> IF Home[w] = p THEN NoTail ELSE tail[w]]
  /\ outcome' = [w \in Writer |->
        IF Home[w] = p /\ pc[w] # "idle" THEN "none" ELSE outcome[w]]
  /\ \E a \in 0..Len(rows) :
       /\ after' = [s \in Subscriber |-> IF Home[s] = p THEN a ELSE after[s]]
       /\ cursor' = [s \in Subscriber |-> IF Home[s] = p THEN a ELSE cursor[s]]
  /\ spc' = [s \in Subscriber |-> IF Home[s] = p THEN "read" ELSE spc[s]]
  /\ batch' = [s \in Subscriber |-> IF Home[s] = p THEN <<>> ELSE batch[s]]
  /\ posted' = [s \in Subscriber |-> posted[s] /\ Home[s] # p]
  /\ wake' = [s \in Subscriber |-> wake[s] /\ Home[s] # p]
  /\ delivered' = [s \in Subscriber |-> IF Home[s] = p THEN <<>> ELSE delivered[s]]
  /\ UNCHANGED <<rows, calls>>

-----------------------------------------------------------------------------

Init ==
  /\ rows = <<>> /\ txn = NoOne
  /\ lock = [p \in Proc |-> NoOne]
  /\ pc = [w \in Writer |-> "idle"]
  /\ call = [w \in Writer |-> NoCall]
  /\ tail = [w \in Writer |-> NoTail]
  /\ outcome = [w \in Writer |-> "none"]
  /\ calls = 0
  /\ spc = [s \in Subscriber |-> "read"]
  /\ after = [s \in Subscriber |-> 0]
  /\ cursor = [s \in Subscriber |-> 0]
  /\ batch = [s \in Subscriber |-> <<>>]
  /\ posted = [s \in Subscriber |-> FALSE]
  /\ wake = [s \in Subscriber |-> FALSE]
  /\ delivered = [s \in Subscriber |-> <<>>]
  /\ crashes = 0

\* What an append() that was called does by itself.
AppendStep(w) ==
  \/ AcquireLock(w) \/ BeginImmediate(w) \/ BeginBusy(w) \/ ReadTail(w)
  \/ Conflict(w) \/ Insert(w) \/ Commit(w) \/ CommitFails(w) \/ Notify(w)

SubscriberStep(s) ==
  ReadBatch(s) \/ Yield(s) \/ RunPosted(s) \/ Woken(s) \/ PollTimeout(s)

Next ==
  \/ \E w \in Writer : Call(w) \/ AppendStep(w)
  \/ \E s \in Subscriber : SubscriberStep(s)
  \/ \E p \in Proc : Crash(p)

Spec == Init /\ [][Next]_vars

\* Threads and event loops keep running; nobody has to call append() or die.
FairSpec ==
  /\ Spec
  /\ \A w \in Writer : WF_vars(AppendStep(w))
  /\ \A s \in Subscriber : WF_vars(SubscriberStep(s))

-----------------------------------------------------------------------------
(* Properties.                                                             *)

PcStates == {"idle", "called", "locked", "begun", "read", "inserted", "committed"}

CallRecord == [stream : Stream \cup {NoOne}, type : Type \cup {NoOne},
               expected : Expected \cup {NotGiven}]

IsRow(r) ==
  /\ DOMAIN r = RowFields
  /\ r.stream \in Stream /\ r.stream_seq \in Nat \ {0}
  /\ r.type \in Type /\ r.actor \in Writer

TableOK ==
  /\ rows \in Seq({rows[i] : i \in DOMAIN rows})
  /\ \A i \in DOMAIN rows : IsRow(rows[i])

AppendsOK ==
  /\ txn \in Writer \cup {NoOne}
  /\ lock \in [Proc -> Writer \cup {NoOne}]
  /\ pc \in [Writer -> PcStates]
  /\ call \in [Writer -> CallRecord]
  /\ \A w \in Writer :
       pc[w] # "idle" => call[w].stream \in Stream /\ call[w].type \in Type
  /\ DOMAIN tail = Writer /\ \A w \in Writer : tail[w].stream_seq \in Nat
  /\ outcome \in [Writer -> {"none", "ok", "conflict", "error"}]
  /\ calls \in Nat /\ crashes \in Nat

SubscribersOK ==
  /\ spc \in [Subscriber -> {"read", "yield", "wait"}]
  /\ after \in [Subscriber -> Nat] /\ cursor \in [Subscriber -> Nat]
  /\ posted \in [Subscriber -> BOOLEAN] /\ wake \in [Subscriber -> BOOLEAN]

\* The state has the shape the code gives it: the table is a sequence of whole
\* rows, and every append under way carries a stream and a type.
TypeOK == TableOK /\ AppendsOK /\ SubscribersOK

\* Row i continues its stream: it is the first of it, or it follows the row
\* just before it in the stream by number and by hash.
Continues(i) ==
  \/ /\ rows[i].stream_seq = 1 /\ rows[i].prev_hash = GENESIS_HASH
     /\ \A j \in OfStream(rows[i].stream) : i <= j
  \/ \E j \in OfStream(rows[i].stream) :
       /\ j < i
       /\ rows[i].stream_seq = rows[j].stream_seq + 1
       /\ rows[i].prev_hash = rows[j].hash
       /\ \A k \in OfStream(rows[i].stream) : ~(j < k /\ k < i)

\* verify() succeeds on every stream at every moment, whatever appends of
\* threads and processes interleave, fail or die half-way: no gap, no fork, no
\* broken hash (docs/10-kernel.md promises it for threads and for kills).
ChainOK ==
  \A i \in DOMAIN rows :
    /\ Continues(i)
    /\ rows[i].hash = Hash(rows[i].stream, rows[i].stream_seq, rows[i].type,
                           rows[i].prev_hash)

\* The two facts about appends under way that make ChainOK inductive: a thread
\* between BEGIN IMMEDIATE and COMMIT owns the write transaction, and the tail it
\* read is still the tail; and within a stream numbers grow with seq.
TxnExclusive ==
  \A w \in Writer : pc[w] \in {"begun", "read", "inserted"} => txn = w

TailFresh ==
  \A w \in Writer : pc[w] \in {"read", "inserted"} => IsTail(tail[w], call[w].stream)

Ordered ==
  \A i, j \in DOMAIN rows :
    rows[i].stream = rows[j].stream /\ i < j => rows[i].stream_seq < rows[j].stream_seq

IInv == TypeOK /\ TxnExclusive /\ TailFresh /\ Ordered /\ ChainOK

\* A subscription yields each committed event of a wanted type after its
\* after_seq exactly once and in seq order: nothing skipped between two polls,
\* nothing twice, and never a row that was later rolled back.
SubscriberExact ==
  \A s \in Subscriber :
    LET wanted == {i \in after[s] + 1 .. cursor[s] : rows[i].type \in Wants[s]} IN
    /\ cursor[s] \in after[s]..Len(rows)
    /\ \E at \in [DOMAIN delivered[s] -> wanted] :
         /\ \A i \in wanted : \E k \in DOMAIN at : at[k] = i
         /\ \A k, l \in DOMAIN at : k < l => at[k] < at[l]
         /\ \A k \in DOMAIN at : delivered[s][k] = rows[at[k]]

\* A subscriber that sleeps while an event of its own process is committed and
\* unread is about to be woken: the wake-up is set, scheduled or being sent.
\* Otherwise every event would cost a polling interval.
NoLostWakeup ==
  \A s \in Subscriber :
    (/\ spc[s] = "wait"
     /\ \E i \in cursor[s] + 1 .. Len(rows) : Home[rows[i].actor] = Home[s])
    => \/ wake[s] \/ posted[s]
       \/ \E w \in Writer : Home[w] = Home[s] /\ pc[w] = "committed"

\* No step changes or removes a committed row, and one commit adds one row.
AppendOnly ==
  [][ \/ rows' = rows
      \/ \E r \in {rows'[Len(rows')]} : rows' = Append(rows, r) ]_vars

\* Callers of append() see one log that grows by whole events; the transaction
\* is invisible.  A call takes effect when it commits.
Log ==
  INSTANCE StreamLog WITH
    Client <- Writer,
    Nothing <- NoOne,
    log <- [i \in DOMAIN rows |-> [stream |-> rows[i].stream, type |-> rows[i].type]],
    todo <- [w \in Writer |-> IF pc[w] \in {"idle", "committed"} THEN NoOne ELSE call[w]],
    result <- outcome

\* append() is atomic for its callers: it implements the one-step log, so a call
\* that names the expected length succeeds only at that length, and a conflict is
\* reported only when the stream really had another length at that moment.
ImplementsLog == Log!LogSpec

\* Every event committed so far is looked at by every subscriber in the end, also
\* by those of another process, which only their polling tells.
EventuallySeen ==
  \A s \in Subscriber : \A n \in 1..MaxCalls :
    (Len(rows) >= n) ~> (cursor[s] >= n)
=============================================================================
