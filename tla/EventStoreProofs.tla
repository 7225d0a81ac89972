-------------------------- MODULE EventStoreProofs --------------------------
(***************************************************************************)
(* Machine-checked facts about EventStore, for any number of processes,    *)
(* threads, subscriptions, streams and events.                             *)
(***************************************************************************)
EXTENDS EventStore, SequenceTheorems, FiniteSetTheorems, TLAPS

-----------------------------------------------------------------------------
(* Facts on sequences that grow.                                           *)

\* A sequence of whatever: of its own elements.
IsSequence(s) == s \in Seq({s[i] : i \in DOMAIN s})

\* Whatever set a sequence was taken from, it is one of its own elements.
LEMMA SequenceIsOne ==
  ASSUME NEW T, NEW s \in Seq(T)
  PROVE  /\ IsSequence(s)
         /\ Len(s) \in Nat
         /\ DOMAIN s = 1..Len(s)
BY SeqOfRange, LenProperties DEF IsSequence, Range

LEMMA EmptyIsSequence == IsSequence(<<>>) /\ Len(<<>>) = 0 /\ DOMAIN <<>> = {}
<1>1. <<>> \in Seq({}) /\ Len(<<>>) = 0
  BY EmptySeq
<1>2. 1..0 = {}
  OBVIOUS
<1> QED
  BY <1>1, <1>2, SequenceIsOne

\* The parts of a sequence.
LEMMA PiecePositions ==
  ASSUME NEW s, IsSequence(s), NEW m \in 1..Len(s) + 1, NEW n \in 0..Len(s)
  PROVE  /\ IsSequence(SubSeq(s, m, n))
         /\ Len(SubSeq(s, m, n)) = IF m <= n THEN n - m + 1 ELSE 0
         /\ \A i \in 1..n - m + 1 : SubSeq(s, m, n)[i] = s[m + i - 1]
<1> DEFINE U == {s[i] : i \in DOMAIN s}
<1>1. s \in Seq(U)
  BY DEF IsSequence
<1>2. Len(s) \in Nat /\ DOMAIN s = 1..Len(s)
  BY <1>1, SequenceIsOne
<1>3. \A i \in m..n : s[i] \in U
  BY <1>2
<1> HIDE DEF U
<1>4. m \in Int /\ n \in Int
  BY <1>2
<1>5. /\ SubSeq(s, m, n) \in Seq(U)
      /\ Len(SubSeq(s, m, n)) = IF m <= n THEN n - m + 1 ELSE 0
      /\ \A i \in 1..n - m + 1 : SubSeq(s, m, n)[i] = s[m + i - 1]
  BY <1>3, <1>4, SubSeqProperties
<1> QED
  BY <1>5, SequenceIsOne

LEMMA TailPositions ==
  ASSUME NEW s, IsSequence(s), Len(s) > 0
  PROVE  /\ Head(s) = s[1]
         /\ IsSequence(Tail(s))
         /\ Len(Tail(s)) = Len(s) - 1
         /\ \A i \in 1..Len(s) - 1 : Tail(s)[i] = s[i + 1]
<1> DEFINE U == {s[i] : i \in DOMAIN s}
<1>1. s \in Seq(U) /\ s # <<>> /\ Head(s) = s[1]
  BY EmptySeq DEF IsSequence
<1> HIDE DEF U
<1> QED
  BY <1>1, HeadTailProperties, SequenceIsOne

\* What Append does to the positions of a sequence.
LEMMA AppendPositions ==
  ASSUME NEW s, IsSequence(s), NEW r
  PROVE  /\ IsSequence(Append(s, r))
         /\ Len(s) \in Nat
         /\ DOMAIN s = 1..Len(s)
         /\ DOMAIN Append(s, r) = 1..(Len(s) + 1)
         /\ \A i \in 1..Len(s) : Append(s, r)[i] = s[i]
         /\ Append(s, r)[Len(s) + 1] = r
<1> DEFINE T == {s[i] : i \in DOMAIN s} \cup {r}
<1>1. s \in Seq(T) /\ r \in T
  BY DEF IsSequence
<1> HIDE DEF T
<1>2. /\ Append(s, r) \in Seq(T) /\ Len(Append(s, r)) = Len(s) + 1
      /\ \A i \in 1..Len(s) : Append(s, r)[i] = s[i]
      /\ Append(s, r)[Len(s) + 1] = r
  BY <1>1, AppendProperties
<1>3. IsSequence(Append(s, r)) /\ DOMAIN Append(s, r) = 1..Len(Append(s, r))
  BY <1>2, SequenceIsOne
<1>4. Len(s) \in Nat /\ DOMAIN s = 1..Len(s)
  BY <1>1, LenProperties
<1> QED
  BY <1>2, <1>3, <1>4

-----------------------------------------------------------------------------
(* Type correctness.                                                       *)

LEMMA TableAppend ==
  ASSUME TableOK, NEW r, rows' = Append(rows, r)
  PROVE  /\ rows' \in Seq({rows'[i] : i \in DOMAIN rows'})
         /\ DOMAIN rows = 1..Len(rows) /\ Len(rows) \in Nat
         /\ DOMAIN rows' = 1..(Len(rows) + 1)
         /\ \A i \in 1..Len(rows) : rows'[i] = rows[i]
         /\ rows'[Len(rows) + 1] = r
<1>1. rows \in Seq({rows[i] : i \in DOMAIN rows})
  BY DEF TableOK
<1>2. /\ Append(rows, r) \in Seq({Append(rows, r)[i] : i \in DOMAIN Append(rows, r)})
      /\ Len(rows) \in Nat
      /\ DOMAIN rows = 1..Len(rows)
      /\ DOMAIN Append(rows, r) = 1..(Len(rows) + 1)
      /\ \A i \in 1..Len(rows) : Append(rows, r)[i] = rows[i]
      /\ Append(rows, r)[Len(rows) + 1] = r
  BY ONLY <1>1, AppendPositions DEF IsSequence
<1> QED
  BY <1>2

LEMMA TableUnchanged ==
  ASSUME TableOK, UNCHANGED rows
  PROVE  TableOK'
BY DEF TableOK, IsRow

LEMMA AppendsUnchanged ==
  ASSUME AppendsOK, UNCHANGED <<wvars, crashes>>
  PROVE  AppendsOK'
BY DEF AppendsOK, wvars

LEMMA SubscribersUnchanged ==
  ASSUME SubscribersOK, UNCHANGED svars
  PROVE  SubscribersOK'
BY DEF SubscribersOK, svars

\* A step of a subscription leaves the table and the appends alone.
LEMMA TypeSubscriber ==
  ASSUME TypeOK, NEW s \in Subscriber, SubscriberStep(s)
  PROVE  TypeOK'
<1>1. UNCHANGED <<rows, wvars, crashes>>
  BY DEF SubscriberStep, ReadBatch, Yield, RunPosted, Woken, PollTimeout
<1>2. SubscribersOK'
  <2> USE DEF TypeOK, SubscribersOK
  <2>1. CASE ReadBatch(s)
    BY <2>1 DEF ReadBatch
  <2>2. CASE Yield(s)
    BY <2>2 DEF Yield
  <2>3. CASE RunPosted(s)
    BY <2>3 DEF RunPosted
  <2>4. CASE Woken(s)
    BY <2>4 DEF Woken
  <2>5. CASE PollTimeout(s)
    BY <2>5 DEF PollTimeout
  <2> QED
    BY <2>1, <2>2, <2>3, <2>4, <2>5 DEF SubscriberStep
<1> QED
  BY <1>1, <1>2, TableUnchanged, AppendsUnchanged DEF TypeOK

\* Whoever raises releases its lock and forgets its call.
LEMMA TypeReturn ==
  ASSUME AppendsOK, NEW w \in Writer, NEW why \in {"conflict", "error"}, Raise(w, why),
         txn' \in {txn, NoOne}, UNCHANGED <<calls, crashes>>
  PROVE  AppendsOK'
<1>1. NoCall \in CallRecord /\ NoTail.stream_seq = 0
  BY DEF NoCall, NoTail, CallRecord
<1>2. /\ call' \in [Writer -> CallRecord]
      /\ pc' \in [Writer -> PcStates]
      /\ DOMAIN tail' = Writer /\ \A v \in Writer : tail'[v].stream_seq \in Nat
  BY <1>1 DEF AppendsOK, Raise, Return, PcStates
<1>3. \A v \in Writer :
        pc'[v] # "idle" => call'[v].stream \in Stream /\ call'[v].type \in Type
  BY DEF AppendsOK, Raise, Return
<1>4. /\ lock' \in [Proc -> Writer \cup {NoOne}]
      /\ outcome' \in [Writer -> {"none", "ok", "conflict", "error"}]
  BY HomeAssumption DEF AppendsOK, Raise
<1> QED
  BY <1>2, <1>3, <1>4 DEF AppendsOK

LEMMA TypeAppend ==
  ASSUME TypeOK, NEW w \in Writer, Call(w) \/ AppendStep(w)
  PROVE  TypeOK'
<1> USE NoOneAssumption, ExpectedAssumption, HomeAssumption
<1>1. CASE Call(w)
  <2>1. PICK s \in Stream, t \in Type, e \in Expected :
          call' = [call EXCEPT ![w] = [stream |-> s, type |-> t, expected |-> e]]
    BY <1>1 DEF Call
  <2>2. [stream |-> s, type |-> t, expected |-> e] \in CallRecord
    BY DEF CallRecord
  <2>3. AppendsOK'
    BY <1>1, <2>1, <2>2 DEF Call, TypeOK, AppendsOK, PcStates
  <2> QED
    BY <1>1, <2>3, TableUnchanged, SubscribersUnchanged DEF Call, TypeOK
<1>2. CASE AcquireLock(w)
  <2>1. AppendsOK'
    BY <1>2 DEF AcquireLock, TypeOK, AppendsOK, PcStates
  <2> QED
    BY <1>2, <2>1, TableUnchanged, SubscribersUnchanged DEF AcquireLock, TypeOK
<1>3. CASE BeginImmediate(w)
  <2>1. AppendsOK'
    BY <1>3 DEF BeginImmediate, TypeOK, AppendsOK, PcStates
  <2> QED
    BY <1>3, <2>1, TableUnchanged, SubscribersUnchanged DEF BeginImmediate, TypeOK
<1>4. CASE ReadTail(w)
  <2>1. PICK t \in TailsOf(call[w].stream) : tail' = [tail EXCEPT ![w] = t]
    BY <1>4 DEF ReadTail
  <2>2. t.stream_seq \in Nat
    BY DEF TailsOf, TypeOK, TableOK, IsRow
  <2>3. AppendsOK'
    BY <1>4, <2>1, <2>2 DEF ReadTail, TypeOK, AppendsOK, PcStates
  <2> QED
    BY <1>4, <2>3, TableUnchanged, SubscribersUnchanged DEF ReadTail, TypeOK
<1>5. CASE BeginBusy(w)
  BY <1>5, TypeReturn, TableUnchanged, SubscribersUnchanged DEF BeginBusy, TypeOK
<1>6. CASE Conflict(w)
  BY <1>6, TypeReturn, TableUnchanged, SubscribersUnchanged DEF Conflict, Rollback, TypeOK
<1>7. CASE CommitFails(w)
  BY <1>7, TypeReturn, TableUnchanged, SubscribersUnchanged DEF CommitFails, Rollback, TypeOK
<1>8. CASE Insert(w)
  <2>1. AppendsOK'
    BY <1>8 DEF Insert, TypeOK, AppendsOK, PcStates
  <2> QED
    BY <1>8, <2>1, TableUnchanged, SubscribersUnchanged DEF Insert, TypeOK
<1>9. CASE Commit(w)
  <2>1. IsRow(NewRow(w))
    BY <1>9 DEF Commit, IsRow, NewRow, RowFields, TypeOK, AppendsOK
  <2>2. TableOK'
    <3>1. /\ rows' \in Seq({rows'[i] : i \in DOMAIN rows'})
          /\ DOMAIN rows = 1..Len(rows) /\ Len(rows) \in Nat
          /\ DOMAIN rows' = 1..(Len(rows) + 1)
          /\ \A i \in 1..Len(rows) : rows'[i] = rows[i]
          /\ rows'[Len(rows) + 1] = NewRow(w)
      BY <1>9, TableAppend DEF Commit, TypeOK
    <3> QED
      BY <2>1, <3>1, SMTT(30) DEF TypeOK, TableOK
  <2>3. AppendsOK'
    BY <1>9 DEF Commit, TypeOK, AppendsOK, PcStates
  <2> QED
    BY <1>9, <2>2, <2>3, SubscribersUnchanged DEF Commit, TypeOK
<1>10. CASE Notify(w)
  <2>1. NoCall \in CallRecord /\ NoTail.stream_seq = 0
    BY DEF NoCall, NoTail, CallRecord
  <2>2. AppendsOK'
    BY <1>10, <2>1 DEF Notify, Return, TypeOK, AppendsOK, PcStates
  <2>3. SubscribersOK'
    BY <1>10 DEF Notify, TypeOK, SubscribersOK
  <2> QED
    BY <1>10, <2>2, <2>3, TableUnchanged DEF Notify, TypeOK
<1> QED
  BY <1>1, <1>2, <1>3, <1>4, <1>5, <1>6, <1>7, <1>8, <1>9, <1>10 DEF AppendStep

LEMMA TypeCrash ==
  ASSUME TypeOK, NEW p \in Proc, Crash(p)
  PROVE  TypeOK'
<1>1. Len(rows) \in Nat
  BY LenProperties DEF TypeOK, TableOK
<1>2. NoCall \in CallRecord /\ NoTail.stream_seq = 0
  BY DEF NoCall, NoTail, CallRecord
<1>3. AppendsOK'
  BY <1>2 DEF Crash, TypeOK, AppendsOK, PcStates
<1>4. SubscribersOK'
  BY <1>1 DEF Crash, TypeOK, SubscribersOK
<1> QED
  BY <1>3, <1>4, TableUnchanged DEF Crash, TypeOK

LEMMA TypeStep ==
  ASSUME TypeOK, [Next]_vars
  PROVE  TypeOK'
<1>1. CASE \E w \in Writer : Call(w) \/ AppendStep(w)
  BY <1>1, TypeAppend
<1>2. CASE \E s \in Subscriber : SubscriberStep(s)
  BY <1>2, TypeSubscriber
<1>3. CASE \E p \in Proc : Crash(p)
  BY <1>3, TypeCrash
<1>4. CASE UNCHANGED vars
  BY <1>4, TableUnchanged, AppendsUnchanged, SubscribersUnchanged DEF vars, TypeOK
<1> QED
  BY <1>1, <1>2, <1>3, <1>4 DEF Next

LEMMA TypeInit == Init => TypeOK
<1> SUFFICES ASSUME Init PROVE TypeOK
  OBVIOUS
<1>1. TableOK
  BY EmptySeq DEF Init, TableOK
<1>2. NoCall \in CallRecord /\ NoTail.stream_seq = 0
  BY DEF NoCall, NoTail, CallRecord
<1>3. AppendsOK
  BY <1>2 DEF Init, AppendsOK, PcStates
<1>4. SubscribersOK
  BY DEF Init, SubscribersOK
<1> QED
  BY <1>1, <1>3, <1>4 DEF TypeOK

\* The state keeps the shape the code gives it: the table is a sequence of whole
\* rows, and every append under way carries a stream and a type.
THEOREM TypeCorrect == Spec => []TypeOK
<1>1. TypeOK /\ [Next]_vars => TypeOK'
  BY TypeStep
<1> QED
  BY <1>1, TypeInit, PTL DEF Spec
-----------------------------------------------------------------------------
(* The chain.  The table changes by a commit only, and the thread that     *)
(* commits owns the write transaction since before it read the tail, so    *)
(* the tail it read is the tail still.                                     *)

\* A commit after the true tail extends a sound chain to a sound chain.
LEMMA ChainCommit ==
  ASSUME TypeOK, Ordered, ChainOK, NEW w \in Writer, Commit(w),
         IsTail(tail[w], call[w].stream)
  PROVE  Ordered' /\ ChainOK'
<1> DEFINE n == Len(rows)
<1> DEFINE r == NewRow(w)
<1> DEFINE mine == OfStream(call[w].stream)
<1>1. /\ DOMAIN rows = 1..n /\ n \in Nat
      /\ DOMAIN rows' = 1..(n + 1)
      /\ \A i \in 1..n : rows'[i] = rows[i]
      /\ rows'[n + 1] = r
  BY TableAppend DEF Commit, TypeOK
<1>2. /\ r.stream = call[w].stream /\ r.stream_seq = tail[w].stream_seq + 1
      /\ r.prev_hash = tail[w].hash
      /\ r.hash = Hash(r.stream, r.stream_seq, r.type, r.prev_hash)
  BY DEF NewRow
<1>3. \A i \in 1..n : rows[i].stream_seq \in Nat \ {0}
  BY <1>1 DEF TypeOK, TableOK, IsRow
<1> HIDE DEF n, r
<1> DEFINE After(s) == {k \in DOMAIN rows' : rows'[k].stream = s}
<1> DEFINE Linked(i) == Continues(i)'
<1>4. \A s : \A k : k \in After(s) <=> (k \in OfStream(s) \/ (k = n + 1 /\ s = r.stream))
  BY <1>1 DEF OfStream
<1>5. \A i \in 1..(n + 1) :
        \/ /\ rows'[i].stream_seq = 1 /\ rows'[i].prev_hash = GENESIS_HASH
           /\ \A j \in After(rows'[i].stream) : i <= j
        \/ \E j \in After(rows'[i].stream) :
             /\ j < i
             /\ rows'[i].stream_seq = rows'[j].stream_seq + 1
             /\ rows'[i].prev_hash = rows'[j].hash
             /\ \A k \in After(rows'[i].stream) : ~(j < k /\ k < i)
        => Linked(i)
  BY DEF Continues, OfStream
<1> HIDE DEF After, Linked
<1>6. \A s, k : k \in OfStream(s) <=> (k \in 1..n /\ rows[k].stream = s)
  BY <1>1 DEF OfStream
<1>7. \A k : k \in mine <=> (k \in 1..n /\ rows[k].stream = r.stream)
  BY <1>2, <1>6
<1>8. \/ mine = {} /\ tail[w] = [stream_seq |-> 0, hash |-> GENESIS_HASH]
      \/ \E i \in mine :
           /\ \A j \in mine : rows[j].stream_seq <= rows[i].stream_seq
           /\ tail[w] = [stream_seq |-> rows[i].stream_seq, hash |-> rows[i].hash]
  BY DEF IsTail
<1> HIDE DEF mine
<1>9. \A j \in mine : rows[j].stream_seq < r.stream_seq
  <2> TAKE j \in mine
  <2>1. PICK i \in mine :
          /\ rows[j].stream_seq <= rows[i].stream_seq
          /\ tail[w] = [stream_seq |-> rows[i].stream_seq, hash |-> rows[i].hash]
    BY <1>8
  <2>2. r.stream_seq = rows[i].stream_seq + 1
    BY <1>2, <2>1
  <2>3. rows[i].stream_seq \in Nat /\ rows[j].stream_seq \in Nat
    BY <1>3, <1>7
  <2> QED
    BY <2>1, <2>2, <2>3
<1>10. Ordered'
  BY <1>1, <1>3, <1>9, <1>7 DEF Ordered
<1>11. \A i \in 1..n : Linked(i)
  <2> TAKE i \in 1..n
  <2>1. Continues(i)
    BY <1>1 DEF ChainOK
  <2>2. rows'[i] = rows[i] /\ i <= n + 1 /\ i < n + 1
    BY <1>1
  <2>3. CASE /\ rows[i].stream_seq = 1 /\ rows[i].prev_hash = GENESIS_HASH
             /\ \A j \in OfStream(rows[i].stream) : i <= j
    <3>1. \A j \in After(rows[i].stream) : i <= j
      BY <1>4, <2>2, <2>3
    <3> QED
      BY <1>5, <2>2, <2>3, <3>1
  <2>4. CASE \E j \in OfStream(rows[i].stream) :
               /\ j < i
               /\ rows[i].stream_seq = rows[j].stream_seq + 1
               /\ rows[i].prev_hash = rows[j].hash
               /\ \A k \in OfStream(rows[i].stream) : ~(j < k /\ k < i)
    <3>1. PICK j \in OfStream(rows[i].stream) :
               /\ j < i
               /\ rows[i].stream_seq = rows[j].stream_seq + 1
               /\ rows[i].prev_hash = rows[j].hash
               /\ \A k \in OfStream(rows[i].stream) : ~(j < k /\ k < i)
      BY <2>4
    <3>2. rows'[j] = rows[j] /\ j \in After(rows[i].stream)
      BY <1>1, <1>4, <1>6
    <3>3. \A k \in After(rows[i].stream) : ~(j < k /\ k < i)
      BY <1>1, <1>4, <2>2, <3>1
    <3> QED
      BY <1>5, <2>2, <3>1, <3>2, <3>3
  <2> QED
    BY <2>1, <2>3, <2>4 DEF Continues
<1>12. Linked(n + 1)
  <2> n + 1 \in 1..(n + 1)
    BY <1>1
  <2>1. CASE mine = {} /\ tail[w] = [stream_seq |-> 0, hash |-> GENESIS_HASH]
    <3>1. r.stream_seq = 1 /\ r.prev_hash = GENESIS_HASH
      BY <1>2, <2>1
    <3>2. \A j \in After(r.stream) : n + 1 <= j
      BY <1>1, <1>4, <1>7, <2>1, <1>6
    <3> QED
      BY <1>1, <1>5, <3>1, <3>2
  <2>2. CASE \E i \in mine :
               /\ \A j \in mine : rows[j].stream_seq <= rows[i].stream_seq
               /\ tail[w] = [stream_seq |-> rows[i].stream_seq, hash |-> rows[i].hash]
    <3>1. PICK i \in mine :
               /\ \A j \in mine : rows[j].stream_seq <= rows[i].stream_seq
               /\ tail[w] = [stream_seq |-> rows[i].stream_seq, hash |-> rows[i].hash]
      BY <2>2
    <3>2. /\ i \in 1..n /\ rows'[i] = rows[i] /\ i \in After(r.stream)
          /\ rows[i].stream = r.stream
      BY <1>1, <1>4, <1>6, <1>7
    <3>3. r.stream_seq = rows[i].stream_seq + 1 /\ r.prev_hash = rows[i].hash
      BY <1>2, <3>1
    <3>4. \A k \in After(r.stream) : ~(i < k /\ k < n + 1)
      <4> SUFFICES ASSUME NEW k \in After(r.stream), i < k, k < n + 1 PROVE FALSE
        OBVIOUS
      <4>1. k \in mine /\ k \in 1..n /\ rows[k].stream = r.stream
        BY <1>1, <1>4, <1>6, <1>7
      <4>2. rows[i].stream_seq < rows[k].stream_seq
        BY <1>1, <3>2, <4>1 DEF Ordered
      <4>3. rows[k].stream_seq <= rows[i].stream_seq
        BY <3>1, <4>1
      <4> QED
        BY <1>3, <3>2, <4>1, <4>2, <4>3
    <3>5. i < n + 1
      BY <1>1, <3>2
    <3> QED
      BY <1>1, <1>5, <3>2, <3>3, <3>4, <3>5
  <2> QED
    BY <1>8, <2>1, <2>2
<1>13. ChainOK'
  <2>1. \A i \in 1..(n + 1) : Linked(i)
    BY <1>1, <1>11, <1>12
  <2>2. \A i \in 1..(n + 1) :
          rows'[i].hash = Hash(rows'[i].stream, rows'[i].stream_seq, rows'[i].type,
                               rows'[i].prev_hash)
    <3> SUFFICES ASSUME NEW i \in 1..(n + 1)
                 PROVE  rows'[i].hash = Hash(rows'[i].stream, rows'[i].stream_seq,
                                             rows'[i].type, rows'[i].prev_hash)
      OBVIOUS
    <3>1. CASE i \in 1..n
      BY <1>1, <3>1 DEF ChainOK
    <3>2. CASE i = n + 1
      BY <1>1, <1>2, <3>2
    <3> QED
      BY <1>1, <3>1, <3>2
  <2> QED
    BY <1>1, <2>1, <2>2 DEF ChainOK, Linked
<1> QED
  BY <1>10, <1>13

\* While the table does not change, the chain and the tails read stay as they are.
LEMMA ChainUnchanged ==
  ASSUME Ordered, ChainOK, UNCHANGED rows
  PROVE  Ordered' /\ ChainOK' /\ \A t, s : IsTail(t, s)' = IsTail(t, s)
BY DEF Ordered, ChainOK, Continues, OfStream, IsTail

\* An append that does not commit leaves the table alone, and the invariant of the
\* transaction: only its owner is between BEGIN IMMEDIATE and COMMIT.
LEMMA InvAppend ==
  ASSUME IInv, TypeOK', NEW w \in Writer, Call(w) \/ AppendStep(w)
  PROVE  IInv'
<1> USE DEF IInv
<1>1. CASE Commit(w)
  <2>1. Ordered' /\ ChainOK'
    BY <1>1, ChainCommit DEF TailFresh, Commit
  <2>2. TxnExclusive' /\ TailFresh'
    BY <1>1 DEF Commit, TxnExclusive, TailFresh, TypeOK, AppendsOK
  <2> QED
    BY <2>1, <2>2
<1>2. CASE ReadTail(w)
  <2>1. Ordered' /\ ChainOK' /\ \A t, s : IsTail(t, s)' = IsTail(t, s)
    BY <1>2, ChainUnchanged DEF ReadTail
  <2>2. IsTail(tail[w], call[w].stream)'
    BY <1>2, <2>1 DEF ReadTail, TypeOK, AppendsOK
  <2>3. TailFresh'
    BY <1>2, <2>1, <2>2 DEF ReadTail, TailFresh, TypeOK, AppendsOK
  <2>4. TxnExclusive'
    BY <1>2 DEF ReadTail, TxnExclusive, TypeOK, AppendsOK
  <2> QED
    BY <2>1, <2>3, <2>4
<1>3. CASE Call(w)
  <2>1. Ordered' /\ ChainOK' /\ \A t, s : IsTail(t, s)' = IsTail(t, s)
    BY <1>3, ChainUnchanged DEF Call
  <2>2. TailFresh' /\ TxnExclusive'
    BY <1>3, <2>1 DEF Call, TailFresh, TxnExclusive, TypeOK, AppendsOK
  <2> QED
    BY <2>1, <2>2
<1>4. CASE AcquireLock(w) \/ BeginImmediate(w) \/ Insert(w)
  <2>1. UNCHANGED <<rows, call, tail>>
    BY <1>4 DEF AcquireLock, BeginImmediate, Insert
  <2>2. Ordered' /\ ChainOK' /\ \A t, s : IsTail(t, s)' = IsTail(t, s)
    BY <2>1, ChainUnchanged
  <2>3. TailFresh'
    BY <1>4, <2>1, <2>2
    DEF TailFresh, TypeOK, AppendsOK, AcquireLock, BeginImmediate, Insert
  <2>4. TxnExclusive'
    BY <1>4, NoOneAssumption
    DEF TxnExclusive, TypeOK, AppendsOK, AcquireLock, BeginImmediate, Insert
  <2> QED
    BY <2>2, <2>3, <2>4
<1>5. CASE BeginBusy(w) \/ Conflict(w) \/ CommitFails(w) \/ Notify(w)
  <2>1. UNCHANGED rows /\ Return(w)
    BY <1>5 DEF BeginBusy, Conflict, CommitFails, Rollback, Raise, Notify
  <2>2. Ordered' /\ ChainOK' /\ \A t, s : IsTail(t, s)' = IsTail(t, s)
    BY <2>1, ChainUnchanged
  <2>3. TailFresh'
    BY <2>1, <2>2 DEF Return, TailFresh, TypeOK, AppendsOK
  <2>4. \/ txn' = txn
        \/ pc[w] \in {"begun", "inserted"}
    BY <1>5 DEF BeginBusy, Conflict, CommitFails, Notify
  <2>5. TxnExclusive'
    BY <2>1, <2>4 DEF Return, TxnExclusive, TypeOK, AppendsOK
  <2> QED
    BY <2>2, <2>3, <2>5
<1> QED
  BY <1>1, <1>2, <1>3, <1>4, <1>5 DEF AppendStep

LEMMA InvCrash ==
  ASSUME IInv, TypeOK', NEW p \in Proc, Crash(p)
  PROVE  IInv'
<1>1. Ordered' /\ ChainOK' /\ \A t, s : IsTail(t, s)' = IsTail(t, s)
  BY ChainUnchanged DEF Crash, IInv
<1>2. TailFresh'
  BY <1>1 DEF IInv, TailFresh, Crash, TypeOK, AppendsOK
<1>3. TxnExclusive'
  BY DEF IInv, TxnExclusive, Crash, TypeOK, AppendsOK
<1> QED
  BY <1>1, <1>2, <1>3 DEF IInv

LEMMA InvStep ==
  ASSUME IInv, [Next]_vars
  PROVE  IInv'
<1>1. TypeOK'
  BY TypeStep DEF IInv
<1>2. CASE \E w \in Writer : Call(w) \/ AppendStep(w)
  BY <1>1, <1>2, InvAppend
<1>3. CASE \E p \in Proc : Crash(p)
  BY <1>1, <1>3, InvCrash
<1>4. CASE UNCHANGED <<rows, wvars>>
  <2>1. Ordered' /\ ChainOK' /\ \A t, s : IsTail(t, s)' = IsTail(t, s)
    BY <1>4, ChainUnchanged DEF IInv
  <2>2. TailFresh' /\ TxnExclusive'
    BY <1>4, <2>1 DEF IInv, TailFresh, TxnExclusive, wvars
  <2> QED
    BY <1>1, <2>1, <2>2 DEF IInv
<1>5. CASE \E s \in Subscriber : SubscriberStep(s)
  BY <1>4, <1>5 DEF SubscriberStep, ReadBatch, Yield, RunPosted, Woken, PollTimeout
<1>6. CASE UNCHANGED vars
  BY <1>4, <1>6 DEF vars
<1> QED
  BY <1>2, <1>3, <1>5, <1>6 DEF Next

LEMMA InvInit == Init => IInv
<1> SUFFICES ASSUME Init PROVE IInv
  OBVIOUS
<1>1. DOMAIN rows = {}
  BY DEF Init
<1>2. Ordered /\ ChainOK
  BY <1>1 DEF Ordered, ChainOK
<1>3. TxnExclusive /\ TailFresh
  BY DEF Init, TxnExclusive, TailFresh
<1> QED
  BY <1>2, <1>3, TypeInit DEF IInv

\* verify() succeeds on every stream at every moment, for any number of threads,
\* processes, streams, failures and deaths: BEGIN IMMEDIATE alone, taken before
\* the tail is read, keeps every stream a gapless unforked hash chain.
THEOREM ChainAlwaysVerifies == Spec => []ChainOK
<1>1. IInv /\ [Next]_vars => IInv'
  BY InvStep
<1>2. IInv => ChainOK
  BY DEF IInv
<1> QED
  BY <1>1, <1>2, InvInit, PTL DEF Spec

\* No step removes or rewrites an event that was committed.
THEOREM HistoryIsAppendOnly == Spec => AppendOnly
<1>1. ASSUME TypeOK, [Next]_vars
      PROVE  [ \/ rows' = rows
               \/ \E r \in {rows'[Len(rows')]} : rows' = Append(rows, r) ]_vars
  <2>1. CASE \E w \in Writer : Commit(w)
    <3>1. PICK w \in Writer : rows' = Append(rows, NewRow(w))
      BY <2>1 DEF Commit
    <3>2. rows'[Len(rows')] = NewRow(w)
      <4>1. /\ rows' \in Seq({rows'[i] : i \in DOMAIN rows'})
            /\ Len(rows) \in Nat
            /\ DOMAIN rows' = 1..(Len(rows) + 1)
            /\ rows'[Len(rows) + 1] = NewRow(w)
        BY <1>1, <3>1, TableAppend DEF TypeOK
      <4>2. Len(rows') = Len(rows) + 1
        BY <4>1, LenProperties
      <4> QED
        BY <4>1, <4>2
    <3> QED
      BY <3>1, <3>2
  <2>2. CASE ~\E w \in Writer : Commit(w)
    BY <1>1, <2>2
    DEF Next, vars, Call, AppendStep, AcquireLock, BeginImmediate, BeginBusy, ReadTail,
        Conflict, Insert, CommitFails, Notify, SubscriberStep, ReadBatch, Yield, RunPosted,
        Woken, PollTimeout, Crash
  <2> QED
    BY <2>1, <2>2
<1> QED
  BY <1>1, TypeCorrect, PTL DEF Spec, AppendOnly

-----------------------------------------------------------------------------
(* Subscriptions.  What has been read and not yet yielded is the piece of  *)
(* the table after the cursor, because a read waits for the lock that      *)
(* whoever has an open transaction in this process holds.                  *)

LockHeld ==
  \A w \in Writer :
    pc[w] \in {"locked", "begun", "read", "inserted"} => lock[Home[w]] = w

\* The rows subscriber s has read continue the table after its cursor.
Fits(s) ==
  /\ IsSequence(batch[s])
  /\ cursor[s] + Len(batch[s]) <= Len(rows)
  /\ \A k \in 1..Len(batch[s]) : batch[s][k] = rows[cursor[s] + k]
  /\ spc[s] = "yield" => Len(batch[s]) > 0

\* The rows subscriber s has yielded are those it wants, each once and in order.
Wanted(s) == {i \in after[s] + 1 .. cursor[s] : rows[i].type \in Wants[s]}

\* The elements of list are those of table at the positions in W, in order.
Lists(at, list, table, W) ==
  /\ at \in [DOMAIN list -> W]
  /\ \A i \in W : \E k \in DOMAIN at : at[k] = i
  /\ \A k, l \in DOMAIN at : k < l => at[k] < at[l]
  /\ \A k \in DOMAIN at : list[k] = table[at[k]]

Exact(s) ==
  /\ IsSequence(delivered[s])
  /\ cursor[s] \in after[s]..Len(rows)
  /\ \E at : Lists(at, delivered[s], rows, Wanted(s))

SInv ==
  /\ LockHeld
  /\ DOMAIN batch = Subscriber /\ DOMAIN delivered = Subscriber
  /\ \A s \in Subscriber : Fits(s) /\ Exact(s)

LEMMA LockStep ==
  ASSUME TypeOK, IInv, LockHeld, [Next]_vars
  PROVE  LockHeld'
<1> USE NoOneAssumption, HomeAssumption DEF TypeOK, AppendsOK, LockHeld
<1>1. ASSUME NEW w \in Writer, Call(w) \/ AppendStep(w)
      PROVE  LockHeld'
  <2>1. CASE AcquireLock(w)
    BY <2>1 DEF AcquireLock
  <2>2. CASE Call(w)
    BY <2>2 DEF Call
  <2>3. CASE BeginImmediate(w) \/ ReadTail(w) \/ Insert(w)
    BY <2>3 DEF BeginImmediate, ReadTail, Insert
  <2>4. CASE Commit(w)
    BY <2>4 DEF Commit
  <2>5. CASE BeginBusy(w) \/ Conflict(w) \/ CommitFails(w)
    <3>1. Return(w) /\ lock' = [lock EXCEPT ![Home[w]] = NoOne] /\ pc[w] \in {"locked", "begun", "inserted"}
      BY <2>5 DEF BeginBusy, Conflict, CommitFails, Rollback, Raise
    <3> QED
      BY <3>1 DEF Return
  <2>6. CASE Notify(w)
    BY <2>6 DEF Notify, Return
  <2> QED
    BY <1>1, <2>1, <2>2, <2>3, <2>4, <2>5, <2>6 DEF AppendStep
<1>2. CASE \E p \in Proc : Crash(p)
  BY <1>2 DEF Crash
<1>3. CASE \E s \in Subscriber : SubscriberStep(s)
  BY <1>3 DEF SubscriberStep, ReadBatch, Yield, RunPosted, Woken, PollTimeout, wvars
<1>4. CASE UNCHANGED vars
  BY <1>4 DEF vars, wvars
<1> QED
  BY <1>1, <1>2, <1>3, <1>4 DEF Next

\* With the lock free, no transaction of the process has a row inserted.
LEMMA LockedOut ==
  ASSUME TypeOK, LockHeld, NEW p \in Proc, lock[p] = NoOne
  PROVE  Visible(p) = rows
BY NoOneAssumption, HomeAssumption DEF TypeOK, AppendsOK, LockHeld, Visible

\* A table that grows disturbs no subscription.
LEMMA SubscriptionsKept ==
  ASSUME TypeOK, NEW s \in Subscriber, Fits(s), Exact(s),
         cursor'[s] = cursor[s], after'[s] = after[s], batch'[s] = batch[s],
         delivered'[s] = delivered[s], spc'[s] = spc[s] \/ spc'[s] # "yield",
         rows' = rows \/ \E r : rows' = Append(rows, r)
  PROVE  Fits(s)' /\ Exact(s)'
<1>1. /\ DOMAIN rows = 1..Len(rows) /\ Len(rows) \in Nat /\ Len(rows') \in Nat
      /\ Len(rows) <= Len(rows')
      /\ \A i \in 1..Len(rows) : rows'[i] = rows[i]
  <2>1. CASE rows' = rows
    BY <2>1, LenProperties DEF TypeOK, TableOK
  <2>2. CASE \E r : rows' = Append(rows, r)
    BY <2>2, TableAppend, LenProperties DEF TypeOK
  <2> QED
    BY <2>1, <2>2
<1>2. Len(batch[s]) \in Nat
  BY LenProperties DEF Fits, IsSequence
<1>3. cursor[s] \in Nat /\ after[s] \in Nat
  BY DEF TypeOK, SubscribersOK
<1>4. \A k \in 1..Len(batch[s]) : cursor[s] + k \in 1..Len(rows)
  BY <1>1, <1>2, <1>3 DEF Fits
<1>5. Fits(s)'
  <2>1. cursor'[s] + Len(batch'[s]) <= Len(rows')
    BY <1>1, <1>2, <1>3 DEF Fits
  <2> QED
    BY <1>1, <1>4, <2>1 DEF Fits, IsSequence
<1>6. \A i \in after[s] + 1 .. cursor[s] : rows'[i] = rows[i]
  BY <1>1, <1>3 DEF Exact
<1>7. Wanted(s)' = Wanted(s)
  BY <1>6 DEF Wanted
<1>8. Exact(s)'
  <2>1. PICK at : Lists(at, delivered[s], rows, Wanted(s))
    BY DEF Exact
  <2>2. Lists(at, delivered[s], rows', Wanted(s))
    BY <1>6, <2>1 DEF Wanted, Lists
  <2>3. cursor'[s] \in after'[s]..Len(rows')
    BY <1>1, <1>3 DEF Exact
  <2> QED
    BY <1>7, <2>2, <2>3 DEF Exact
<1> QED
  BY <1>5, <1>8

\* A read takes the next rows, and there are some if it goes on to yield.
LEMMA ReadFits ==
  ASSUME TypeOK, SInv, NEW s \in Subscriber, ReadBatch(s)
  PROVE  Fits(s)' /\ Exact(s)'
<1> DEFINE n == Len(rows)
           c == cursor[s]
           upto == IF n > c + Limit THEN c + Limit ELSE n
<1>1. Home[s] \in Proc /\ Visible(Home[s]) = rows
  BY HomeAssumption, LockedOut DEF ReadBatch, SInv
<1>2. /\ batch'[s] = SubSeq(rows, c + 1, upto)
      /\ spc'[s] = IF n > c THEN "yield" ELSE "wait"
      /\ UNCHANGED <<rows, cursor, after, delivered>>
  BY <1>1 DEF ReadBatch, TypeOK, SubscribersOK, SInv
<1>3. IsSequence(rows) /\ n \in Nat
  BY LenProperties DEF TypeOK, TableOK, IsSequence
<1>4. c \in Nat /\ c <= n /\ upto \in 0..n /\ Limit \in Nat \ {0}
  BY <1>3, LimitAssumption DEF TypeOK, SubscribersOK, SInv, Exact
<1>5. c + 1 \in 1..n + 1 /\ (n > c => upto >= c + 1)
  BY <1>3, <1>4
<1> HIDE DEF n, c, upto
<1>6. /\ IsSequence(batch'[s])
      /\ Len(batch'[s]) = IF c + 1 <= upto THEN upto - c ELSE 0
      /\ \A i \in 1..upto - c : batch'[s][i] = rows[c + i]
  <2>1. /\ IsSequence(batch'[s])
        /\ Len(batch'[s]) = IF c + 1 <= upto THEN upto - (c + 1) + 1 ELSE 0
        /\ \A i \in 1..upto - (c + 1) + 1 : batch'[s][i] = rows[c + 1 + i - 1]
    BY <1>2, <1>3, <1>4, <1>5, PiecePositions, SMTT(30) DEF n
  <2> QED
    BY <1>4, <2>1
<1>7. Fits(s)'
  <2>1. cursor'[s] = c /\ Len(rows') = n
    BY <1>2 DEF c, n
  <2>2. c + Len(batch'[s]) <= n
    BY <1>3, <1>4, <1>6
  <2>3. \A k \in 1..Len(batch'[s]) : batch'[s][k] = rows'[c + k]
    BY <1>2, <1>4, <1>6
  <2>4. spc'[s] = "yield" => Len(batch'[s]) > 0
    BY <1>2, <1>4, <1>5, <1>6
  <2> QED
    BY <1>6, <2>1, <2>2, <2>3, <2>4 DEF Fits, IsSequence
<1>8. Exact(s)'
  <2>1. Wanted(s)' = Wanted(s)
    BY <1>2 DEF Wanted
  <2> QED
    BY <1>2, <2>1 DEF SInv, Exact
<1> QED
  BY <1>7, <1>8

\* A turn of the loop yields the row after the cursor, if it is wanted.
LEMMA YieldFits ==
  ASSUME TypeOK, SInv, NEW s \in Subscriber, Yield(s)
  PROVE  Fits(s)' /\ Exact(s)'
<1> DEFINE b == batch[s]
           c == cursor[s]
           d == delivered[s]
           row == rows[c + 1]
<1>1. /\ IsSequence(b) /\ Len(b) \in Nat /\ Len(b) > 0
      /\ c + Len(b) <= Len(rows)
      /\ \A k \in 1..Len(b) : b[k] = rows[c + k]
  BY SequenceIsOne DEF SInv, Fits, Yield, IsSequence
<1>2. c \in Nat /\ after[s] \in Nat /\ c >= after[s] /\ Len(rows) \in Nat
  BY LenProperties DEF SInv, Exact, TypeOK, SubscribersOK, TableOK
<1>3. /\ Head(b) = row /\ IsSequence(Tail(b)) /\ Len(Tail(b)) = Len(b) - 1
      /\ \A i \in 1..Len(b) - 1 : Tail(b)[i] = b[i + 1]
  BY <1>1, TailPositions
<1>4. /\ cursor'[s] = c + 1 /\ batch'[s] = Tail(b)
      /\ delivered'[s] = IF row.type \in Wants[s] THEN Append(d, row) ELSE d
      /\ spc'[s] = IF Len(b) = 1 THEN "read" ELSE "yield"
      /\ UNCHANGED <<rows, after>>
  BY <1>3 DEF Yield, SInv, TypeOK, SubscribersOK
<1> HIDE DEF b, c, d, row
<1>5. Fits(s)'
  <2>1. ASSUME NEW k \in 1..Len(Tail(b))
        PROVE  Tail(b)[k] = rows[c + 1 + k]
    <3>1. k \in 1..Len(b) - 1 /\ k + 1 \in 1..Len(b)
      BY <1>1, <1>3
    <3>2. Tail(b)[k] = rows[c + (k + 1)]
      BY <1>1, <1>3, <3>1
    <3>3. c + (k + 1) = c + 1 + k
      BY <1>2, <3>1
    <3> QED
      BY <3>2, <3>3
  <2>2. /\ Len(Tail(b)) = Len(b) - 1 /\ Len(b) \in Nat /\ Len(b) > 0
        /\ c + Len(b) <= Len(rows)
    BY <1>1, <1>3
  <2>5. \A x, y, z \in Nat : y > 0 /\ x + y <= z =>
          x + 1 + (y - 1) <= z /\ (y # 1 => y - 1 > 0)
    OBVIOUS
  <2>6. c + 1 + (Len(b) - 1) <= Len(rows) /\ (Len(b) # 1 => Len(b) - 1 > 0)
    BY ONLY <1>2, <2>2, <2>5
  <2>3. c + 1 + Len(Tail(b)) <= Len(rows)
    BY ONLY <2>2, <2>6
  <2>4. spc'[s] = "yield" => Len(Tail(b)) > 0
    <3>1. CASE Len(b) = 1
      BY <1>4, <3>1
    <3>2. CASE Len(b) # 1
      BY ONLY <2>2, <2>6, <3>2
    <3> QED
      BY <3>1, <3>2
  <2> QED
    BY <1>3, <1>4, <2>1, <2>3, <2>4 DEF Fits, IsSequence
<1> DEFINE more == row.type \in Wants[s]
           W == Wanted(s)
<1>6. Wanted(s)' = W \cup (IF more THEN {c + 1} ELSE {})
  <2>1. after[s] + 1 .. c + 1 = (after[s] + 1 .. c) \cup {c + 1}
    BY <1>2
  <2>2. \A i : i \in Wanted(s)' <=> (i \in after[s] + 1 .. c + 1 /\ rows[i].type \in Wants[s])
    BY <1>4 DEF Wanted
  <2>3. \A i : i \in Wanted(s) <=> (i \in after[s] + 1 .. c /\ rows[i].type \in Wants[s])
    BY DEF Wanted, c
  <2> QED
    BY <2>1, <2>2, <2>3 DEF row
<1>7. PICK at : Lists(at, d, rows, W)
  BY DEF SInv, Exact, d
<1>8. IsSequence(d) /\ c + 1 \in after[s] .. Len(rows)
  BY <1>1, <1>2 DEF SInv, Exact, d
<1>9. \A i \in W : i < c + 1
  BY <1>2 DEF Wanted, c
<1>10. CASE ~more
  <2>1. Wanted(s)' = W /\ delivered'[s] = d
    BY <1>4, <1>6, <1>10
  <2>2. Lists(at, delivered'[s], rows', Wanted(s)')
    BY ONLY <1>4, <1>7, <2>1
  <2>3. IsSequence(delivered[s])'
    BY <1>8, <2>1 DEF IsSequence
  <2>4. cursor'[s] \in after'[s]..Len(rows')
    BY <1>4, <1>8
  <2> QED
    BY <1>5, <2>2, <2>3, <2>4 DEF Exact
<1>11. CASE more
  <2> DEFINE n == Len(d)
             next == [k \in 1..n + 1 |-> IF k \in 1..n THEN at[k] ELSE c + 1]
  <2>1. /\ IsSequence(delivered'[s]) /\ n \in Nat /\ DOMAIN d = 1..n
        /\ DOMAIN delivered'[s] = 1..n + 1
        /\ \A k \in 1..n : delivered'[s][k] = d[k]
        /\ delivered'[s][n + 1] = row
    BY <1>4, <1>8, <1>11, AppendPositions
  <2> HIDE DEF n
  <2>2. /\ \A k \in 1..n : at[k] \in W /\ d[k] = rows[at[k]]
        /\ \A k, l \in 1..n : k < l => at[k] < at[l]
        /\ \A i \in W : \E k \in 1..n : at[k] = i
    BY <1>7, <2>1 DEF Lists
  <2>3. \A k : k \in 1..n + 1 <=> (k \in 1..n \/ k = n + 1)
    BY <2>1
  <2>4. /\ DOMAIN next = 1..n + 1 /\ next[n + 1] = c + 1
        /\ \A k \in 1..n : next[k] = at[k]
    BY <2>1
  <2>5. Wanted(s)' = W \cup {c + 1}
    BY <1>6, <1>11
  <2>6. next \in [DOMAIN delivered'[s] -> Wanted(s)']
    BY <2>1, <2>2, <2>3, <2>5
  <2> HIDE DEF next, W
  <2>7. \A i \in Wanted(s)' : \E k \in DOMAIN next : next[k] = i
    BY <2>1, <2>2, <2>3, <2>4, <2>5
  <2>8. \A k, l \in DOMAIN next : k < l => next[k] < next[l]
    <3> SUFFICES ASSUME NEW k \in 1..n + 1, NEW l \in 1..n + 1, k < l
                 PROVE  next[k] < next[l]
      BY <2>4
    <3>1. k \in 1..n
      BY <2>1
    <3>2. CASE l \in 1..n
      BY <2>2, <2>4, <3>1, <3>2
    <3>3. CASE l = n + 1
      BY <1>9, <2>2, <2>4, <3>1, <3>3 DEF W
    <3> QED
      BY <2>3, <3>2, <3>3
  <2>9. \A k \in DOMAIN next : delivered'[s][k] = rows'[next[k]]
    BY <1>4, <2>1, <2>2, <2>3, <2>4 DEF row
  <2>10. Lists(next, delivered'[s], rows', Wanted(s)')
    BY <2>6, <2>7, <2>8, <2>9 DEF Lists
  <2>11. cursor'[s] \in after'[s]..Len(rows')
    BY <1>4, <1>8
  <2>12. IsSequence(delivered[s])'
    BY <2>1 DEF IsSequence
  <2> QED
    BY <1>5, <2>10, <2>11, <2>12 DEF Exact
<1> QED
  BY <1>5, <1>10, <1>11
\* A restart begins a subscription anew, with nothing yielded.
LEMMA RestartFits ==
  ASSUME TypeOK, NEW s \in Subscriber, rows' = rows,
         cursor'[s] = after'[s], after'[s] \in 0..Len(rows),
         batch'[s] = <<>>, delivered'[s] = <<>>, spc'[s] = "read"
  PROVE  Fits(s)' /\ Exact(s)'
<1> DEFINE at == [k \in {} |-> k]
<1>1. IsSequence(<<>>) /\ Len(<<>>) = 0 /\ DOMAIN <<>> = {}
  BY EmptyIsSequence
<1>2. Len(rows) \in Nat
  BY LenProperties DEF TypeOK, TableOK
<1>3. Fits(s)'
  <2>1. cursor'[s] + 0 <= Len(rows')
    BY <1>2
  <2>2. 1..0 = {}
    OBVIOUS
  <2> QED
    BY <1>1, <2>1, <2>2 DEF Fits, IsSequence
<1>4. Wanted(s)' = {}
  BY <1>2 DEF Wanted
<1>5. Lists(at, <<>>, rows, {})
  BY <1>1 DEF Lists
<1>6. cursor'[s] \in after'[s]..Len(rows')
  BY <1>2
<1> QED
  BY <1>1, <1>3, <1>4, <1>5, <1>6 DEF Exact, IsSequence

\* No step lets a subscription miss, repeat or invent a row.
LEMMA SubscriptionsStep ==
  ASSUME TypeOK, IInv, SInv, [Next]_vars
  PROVE  SInv'
<1> DEFINE Kept(s) ==
      /\ cursor'[s] = cursor[s] /\ after'[s] = after[s]
      /\ batch'[s] = batch[s] /\ delivered'[s] = delivered[s]
      /\ spc'[s] = spc[s] \/ spc'[s] # "yield"
<1>1. LockHeld'
  BY LockStep DEF SInv
<1>2. rows' = rows \/ \E r : rows' = Append(rows, r)
  BY DEF Next, AppendStep, SubscriberStep, Call, AcquireLock, BeginImmediate, BeginBusy,
         ReadTail, Conflict, Rollback, Insert, Commit, CommitFails, Notify, ReadBatch,
         Yield, RunPosted, Woken, PollTimeout, Crash, vars
<1>3. ASSUME NEW s \in Subscriber, Kept(s)
      PROVE  Fits(s)' /\ Exact(s)'
  BY <1>2, <1>3, SubscriptionsKept DEF SInv
<1>4. ASSUME UNCHANGED <<spc, after, cursor, batch, delivered>>
      PROVE  SInv'
  BY <1>1, <1>3, <1>4 DEF SInv
<1>5. ASSUME NEW w \in Writer, Call(w) \/ AppendStep(w)
      PROVE  SInv'
  BY <1>4, <1>5 DEF AppendStep, Call, AcquireLock, BeginImmediate, BeginBusy, ReadTail,
         Conflict, Rollback, Raise, Insert, Commit, CommitFails, Notify, svars
<1>6. ASSUME NEW s \in Subscriber, SubscriberStep(s)
      PROVE  SInv'
  <2>1. DOMAIN batch' = Subscriber /\ DOMAIN delivered' = Subscriber
    BY <1>6 DEF SubscriberStep, ReadBatch, Yield, RunPosted, Woken, PollTimeout, SInv
  <2>2. ASSUME NEW t \in Subscriber, t # s
        PROVE  Kept(t)
    BY <1>6, <2>2 DEF SubscriberStep, ReadBatch, Yield, RunPosted, Woken, PollTimeout, SInv,
                      TypeOK, SubscribersOK
  <2>3. Fits(s)' /\ Exact(s)'
    <3>1. CASE ReadBatch(s)
      BY <3>1, ReadFits
    <3>2. CASE Yield(s)
      BY <3>2, YieldFits
    <3>3. CASE RunPosted(s) \/ Woken(s) \/ PollTimeout(s)
      <4>1. Kept(s)
        BY <3>3 DEF RunPosted, Woken, PollTimeout, TypeOK, SubscribersOK
      <4> QED
        BY <1>3, <4>1
    <3> QED
      BY <1>6, <3>1, <3>2, <3>3 DEF SubscriberStep
  <2> QED
    BY <1>1, <1>3, <2>1, <2>2, <2>3 DEF SInv
<1>7. ASSUME NEW p \in Proc, Crash(p)
      PROVE  SInv'
  <2>1. DOMAIN batch' = Subscriber /\ DOMAIN delivered' = Subscriber
    BY <1>7 DEF Crash
  <2>2. ASSUME NEW s \in Subscriber, Home[s] # p
        PROVE  Kept(s)
    BY <1>7, <2>2 DEF Crash
  <2>3. ASSUME NEW s \in Subscriber, Home[s] = p
        PROVE  Fits(s)' /\ Exact(s)'
    <3>1. /\ rows' = rows /\ cursor'[s] = after'[s] /\ after'[s] \in 0..Len(rows)
          /\ batch'[s] = <<>> /\ delivered'[s] = <<>> /\ spc'[s] = "read"
      BY <1>7, <2>3 DEF Crash
    <3> QED
      BY <3>1, RestartFits
  <2> QED
    BY <1>1, <1>3, <2>1, <2>2, <2>3 DEF SInv
<1>8. CASE UNCHANGED vars
  BY <1>4, <1>8 DEF vars, svars
<1> QED
  BY <1>5, <1>6, <1>7, <1>8 DEF Next

\* SubscriberExact, for any number of processes, writers and subscribers: what a
\* subscription yields are the committed events it wants, each once and in order.
THEOREM SubscribersSeeAll == Spec => []SubscriberExact
<1>1. Init => SInv
  <2> SUFFICES ASSUME Init PROVE SInv
    OBVIOUS
  <2>1. IsSequence(<<>>) /\ Len(<<>>) = 0 /\ DOMAIN <<>> = {}
    BY EmptyIsSequence
  <2>2. ASSUME NEW s \in Subscriber
        PROVE  Fits(s) /\ Exact(s)
    <3> DEFINE at == [k \in {} |-> k]
    <3>1. 1..0 = {} /\ 0 + 1 .. 0 = {}
      OBVIOUS
    <3>2. Wanted(s) = {}
      BY <3>1 DEF Init, Wanted
    <3>3. Lists(at, delivered[s], rows, Wanted(s))
      BY <2>1, <3>2 DEF Lists, Init
    <3> QED
      BY <2>1, <3>1, <3>3 DEF Init, Fits, Exact
  <2> QED
    BY <2>2 DEF Init, SInv, LockHeld
<1>2. TypeOK /\ IInv /\ SInv /\ [Next]_vars => SInv'
  BY SubscriptionsStep
<1>3. SInv => SubscriberExact
  BY DEF SInv, Exact, Lists, Wanted, SubscriberExact
<1>4. IInv /\ [Next]_vars => IInv'
  BY InvStep
<1>5. IInv => TypeOK
  BY DEF IInv
<1> QED
  BY <1>1, <1>2, <1>3, <1>4, <1>5, InvInit, PTL DEF Spec

-----------------------------------------------------------------------------
(* Wake-ups.  A subscription goes to sleep in the step that reads the      *)
(* table, so whatever it has not seen was committed later, and the thread  *)
(* that committed it has a notification still to send.                     *)

\* An append that does not commit neither adds rows nor ends a notification.
LEMMA WakeupAppend ==
  ASSUME TypeOK, NoLostWakeup, NEW w \in Writer, Call(w) \/ AppendStep(w)
  PROVE  NoLostWakeup'
<1>1. CASE Notify(w)
  <2>1. \A s \in Subscriber : posted'[s] = (posted[s] \/ Home[s] = Home[w])
    BY <1>1 DEF Notify
  <2>2. UNCHANGED <<rows, spc, cursor, wake>>
    BY <1>1 DEF Notify
  <2>3. \A v \in Writer : pc[v] = "committed" /\ v # w => pc'[v] = "committed"
    BY <1>1 DEF Notify, Return, TypeOK, AppendsOK
  <2> QED
    BY <2>1, <2>2, <2>3 DEF NoLostWakeup
<1>2. CASE Commit(w)
  <2>1. UNCHANGED <<spc, cursor, wake, posted>>
    BY <1>2 DEF Commit, svars
  <2>2. /\ Len(rows) \in Nat /\ Len(rows') = Len(rows) + 1
        /\ \A i \in 1..Len(rows) : rows'[i] = rows[i]
        /\ rows'[Len(rows) + 1] = NewRow(w)
    <3>1. /\ rows' \in Seq({rows'[i] : i \in DOMAIN rows'})
          /\ DOMAIN rows = 1..Len(rows) /\ Len(rows) \in Nat
          /\ DOMAIN rows' = 1..(Len(rows) + 1)
          /\ \A i \in 1..Len(rows) : rows'[i] = rows[i]
          /\ rows'[Len(rows) + 1] = NewRow(w)
      BY <1>2, TableAppend DEF Commit, TypeOK
    <3> QED
      BY <3>1, LenProperties
  <2>3. pc'[w] = "committed" /\ \A v \in Writer : pc[v] = "committed" => pc'[v] = "committed"
    BY <1>2 DEF Commit, TypeOK, AppendsOK
  <2>4. NewRow(w).actor = w
    BY DEF NewRow
  <2> SUFFICES ASSUME NEW s \in Subscriber, spc[s] = "wait",
                      NEW i \in cursor[s] + 1 .. Len(rows'), Home[rows'[i].actor] = Home[s]
               PROVE  \/ wake[s] \/ posted[s]
                      \/ \E v \in Writer : Home[v] = Home[s] /\ pc'[v] = "committed"
    BY <2>1 DEF NoLostWakeup
  <2>5. cursor[s] \in Nat
    BY DEF TypeOK, SubscribersOK
  <2>6. CASE i = Len(rows) + 1
    BY <2>2, <2>3, <2>4, <2>6
  <2>7. CASE i # Len(rows) + 1
    <3>1. i \in cursor[s] + 1 .. Len(rows) /\ rows'[i] = rows[i]
      BY <2>2, <2>5, <2>7
    <3> QED
      BY <2>3, <3>1 DEF NoLostWakeup
  <2> QED
    BY <2>6, <2>7
<1>3. CASE /\ ~Notify(w) /\ ~Commit(w)
  <2>1. UNCHANGED <<rows, spc, cursor, wake, posted>>
    BY <1>3 DEF svars, Call, AppendStep, AcquireLock, BeginImmediate, BeginBusy, ReadTail,
        Conflict, Insert, CommitFails
  <2>2. \A v \in Writer : pc[v] = "committed" => pc'[v] = "committed"
    BY <1>3 DEF TypeOK, AppendsOK, Call, AppendStep, AcquireLock, BeginImmediate, BeginBusy,
        ReadTail, Conflict, Insert, CommitFails, Rollback, Raise, Return
  <2> QED
    BY <2>1, <2>2 DEF NoLostWakeup
<1> QED
  BY <1>1, <1>2, <1>3

\* What a connection sees includes all that is committed.
LEMMA SeesCommitted ==
  ASSUME TypeOK, NEW p
  PROVE  Len(Visible(p)) \in Nat /\ Len(rows) \in Nat /\ Len(rows) <= Len(Visible(p))
<1>1. IsSequence(rows)
  BY DEF TypeOK, TableOK, IsSequence
<1>2. CASE Visible(p) = rows
  BY <1>1, <1>2, LenProperties DEF IsSequence
<1>3. CASE Visible(p) = Append(rows, NewRow(txn))
  <2>1. /\ IsSequence(Append(rows, NewRow(txn))) /\ Len(rows) \in Nat
        /\ DOMAIN Append(rows, NewRow(txn)) = 1..(Len(rows) + 1)
    BY <1>1, AppendPositions
  <2>2. Len(Append(rows, NewRow(txn))) = Len(rows) + 1
    BY <2>1, LenProperties DEF IsSequence
  <2> QED
    BY <1>3, <2>1, <2>2
<1> QED
  BY <1>2, <1>3 DEF Visible

LEMMA WakeupSubscriber ==
  ASSUME TypeOK, NoLostWakeup, NEW s \in Subscriber, SubscriberStep(s)
  PROVE  NoLostWakeup'
<1>1. UNCHANGED <<rows, pc>>
  BY DEF SubscriberStep, ReadBatch, Yield, RunPosted, Woken, PollTimeout, wvars
<1>2. CASE ReadBatch(s)
  <2>1. /\ spc' = [spc EXCEPT ![s] = IF Len(Visible(Home[s])) > cursor[s] THEN "yield" ELSE "wait"]
        /\ wake' = [wake EXCEPT ![s] = FALSE]
        /\ UNCHANGED <<cursor, posted>>
    BY <1>2 DEF ReadBatch
  <2>2. spc'[s] = "wait" => ~\E i \in cursor[s] + 1 .. Len(rows) : TRUE
    BY <2>1, SeesCommitted DEF TypeOK, SubscribersOK
  <2>3. \A r \in Subscriber \ {s} : spc'[r] = spc[r] /\ wake'[r] = wake[r]
    BY <2>1 DEF TypeOK, SubscribersOK
  <2> QED
    BY <1>1, <2>1, <2>2, <2>3 DEF NoLostWakeup
<1>3. CASE Yield(s)
  <2>1. spc'[s] # "wait" /\ \A r \in Subscriber \ {s} : spc'[r] = spc[r] /\ cursor'[r] = cursor[r]
    BY <1>3 DEF Yield, TypeOK, SubscribersOK
  <2>2. UNCHANGED <<wake, posted>>
    BY <1>3 DEF Yield
  <2> QED
    BY <1>1, <2>1, <2>2 DEF NoLostWakeup
<1>4. CASE RunPosted(s)
  <2>1. /\ posted' = [posted EXCEPT ![s] = FALSE] /\ wake' = [wake EXCEPT ![s] = TRUE]
        /\ UNCHANGED <<spc, cursor>>
    BY <1>4 DEF RunPosted
  <2>2. wake'[s] /\ \A r \in Subscriber \ {s} : posted'[r] = posted[r] /\ wake'[r] = wake[r]
    BY <2>1 DEF TypeOK, SubscribersOK
  <2> QED
    BY <1>1, <2>1, <2>2 DEF NoLostWakeup
<1>5. CASE Woken(s) \/ PollTimeout(s)
  <2>1. spc'[s] # "wait" /\ \A r \in Subscriber \ {s} : spc'[r] = spc[r]
    BY <1>5 DEF Woken, PollTimeout, TypeOK, SubscribersOK
  <2>2. UNCHANGED <<cursor, wake, posted>>
    BY <1>5 DEF Woken, PollTimeout
  <2> QED
    BY <1>1, <2>1, <2>2 DEF NoLostWakeup
<1> QED
  BY <1>2, <1>3, <1>4, <1>5 DEF SubscriberStep

LEMMA WakeupCrash ==
  ASSUME TypeOK, NoLostWakeup, NEW p \in Proc, Crash(p)
  PROVE  NoLostWakeup'
<1>1. UNCHANGED rows
  BY DEF Crash
<1>2. \A w \in Writer : Home[w] # p => pc'[w] = pc[w]
  BY DEF Crash
<1>3. \A s \in Subscriber : Home[s] = p => spc'[s] = "read"
  BY DEF Crash
<1>4. \A s \in Subscriber : Home[s] # p =>
        /\ spc'[s] = spc[s] /\ cursor'[s] = cursor[s]
        /\ (wake[s] => wake'[s]) /\ (posted[s] => posted'[s])
  BY DEF Crash
<1> QED
  BY <1>1, <1>2, <1>3, <1>4 DEF NoLostWakeup

\* A subscription never sleeps until its timeout while an event of its own process
\* is committed and unread: the flag is cleared before the table is read, and each
\* commit is followed by a notification (EventStore.subscribe, EventStore._notify).
THEOREM NoWakeupIsLost == Spec => []NoLostWakeup
<1>1. Init => NoLostWakeup
  BY DEF Init, NoLostWakeup
<1>2. TypeOK /\ NoLostWakeup /\ [Next]_vars => NoLostWakeup'
  <2> SUFFICES ASSUME TypeOK, NoLostWakeup, [Next]_vars
               PROVE  NoLostWakeup'
    OBVIOUS
  <2>1. CASE \E w \in Writer : Call(w) \/ AppendStep(w)
    BY <2>1, WakeupAppend
  <2>2. CASE \E s \in Subscriber : SubscriberStep(s)
    BY <2>2, WakeupSubscriber
  <2>3. CASE \E p \in Proc : Crash(p)
    BY <2>3, WakeupCrash
  <2>4. CASE UNCHANGED vars
    BY <2>4 DEF vars, wvars, svars, NoLostWakeup
  <2> QED
    BY <2>1, <2>2, <2>3, <2>4 DEF Next
<1> QED
  BY <1>1, <1>2, TypeCorrect, PTL DEF Spec

-----------------------------------------------------------------------------
(* The refinement.                                                         *)

\* The number of a stream's last row is the number of its rows.
TailCounts ==
  \A s \in Stream : \A i \in OfStream(s) :
    (\A j \in OfStream(s) : rows[j].stream_seq <= rows[i].stream_seq)
      => rows[i].stream_seq = Cardinality(OfStream(s))

\* What was compared with the tail still agrees with it.
ExpectedMet ==
  \A w \in Writer :
    pc[w] \in {"read", "inserted"} => call[w].expected \in {NotGiven, tail[w].stream_seq}

RInv == IInv /\ TailCounts /\ ExpectedMet

LEMMA LengthIsTail ==
  ASSUME TypeOK, TailCounts, NEW s \in Stream, NEW t, IsTail(t, s)
  PROVE  t.stream_seq = Cardinality(OfStream(s))
BY FS_EmptySet DEF TailCounts, IsTail

LEMMA OfStreamFinite ==
  ASSUME TypeOK, NEW s
  PROVE  IsFiniteSet(OfStream(s)) /\ Cardinality(OfStream(s)) \in Nat
<1>1. DOMAIN rows = 1..Len(rows) /\ Len(rows) \in Nat
  BY LenProperties DEF TypeOK, TableOK
<1>2. OfStream(s) \subseteq 1..Len(rows)
  BY <1>1 DEF OfStream
<1>3. IsFiniteSet(1..Len(rows))
  BY <1>1, FS_Interval
<1> QED
  BY <1>2, <1>3, FS_Subset, FS_CardinalityType

LEMMA CountsCommit ==
  ASSUME RInv, IInv', NEW w \in Writer, Commit(w)
  PROVE  TailCounts'
<1> USE DEF RInv, IInv
<1> DEFINE n == Len(rows)
           r == NewRow(w)
<1>1. /\ DOMAIN rows = 1..n /\ n \in Nat
      /\ DOMAIN rows' = 1..(n + 1)
      /\ \A i \in 1..n : rows'[i] = rows[i]
      /\ rows'[n + 1] = r
  BY TableAppend DEF Commit, TypeOK
<1>2. call[w].stream \in Stream /\ IsTail(tail[w], call[w].stream)
  BY DEF Commit, TypeOK, AppendsOK, TailFresh
<1>3. r.stream = call[w].stream /\ r.stream_seq = Cardinality(OfStream(r.stream)) + 1
  BY <1>2, LengthIsTail DEF NewRow
<1> HIDE DEF n, r
<1>4. \A s : OfStream(s)' = IF s = r.stream THEN OfStream(s) \cup {n + 1} ELSE OfStream(s)
  BY <1>1 DEF OfStream
<1>5. n + 1 \notin OfStream(r.stream)
  BY <1>1 DEF OfStream
<1> SUFFICES ASSUME NEW s \in Stream, NEW i \in OfStream(s)',
                    \A j \in OfStream(s)' : rows'[j].stream_seq <= rows'[i].stream_seq
             PROVE  rows'[i].stream_seq = Cardinality(OfStream(s)')
  BY DEF TailCounts
<1>6. CASE s # r.stream
  <2>1. OfStream(s)' = OfStream(s)
    BY <1>4, <1>6
  <2>2. \A j \in OfStream(s) : rows'[j] = rows[j]
    BY <1>1 DEF OfStream
  <2> QED
    BY <2>1, <2>2 DEF TailCounts
<1>7. CASE s = r.stream
  <2>1. OfStream(s)' = OfStream(s) \cup {n + 1}
    BY <1>4, <1>7
  <2>2. i = n + 1
    <3>1. i \in DOMAIN rows' /\ n + 1 \in DOMAIN rows' /\ rows'[i].stream = rows'[n + 1].stream
      BY <1>1, <1>7, <2>1 DEF OfStream
    <3>2. rows'[n + 1].stream_seq <= rows'[i].stream_seq
      BY <2>1
    <3>3. rows'[i].stream_seq \in Nat /\ rows'[n + 1].stream_seq \in Nat
      BY <3>1 DEF TypeOK, TableOK, IsRow
    <3>4. ~(i < n + 1)
      BY <3>1, <3>2, <3>3 DEF Ordered
    <3> QED
      BY <1>1, <3>1, <3>4
  <2>3. Cardinality(OfStream(s)') = Cardinality(OfStream(s)) + 1
    <3>1. IsFiniteSet(OfStream(s))
      BY OfStreamFinite
    <3>2. n + 1 \notin OfStream(s)
      BY <1>5, <1>7
    <3> QED
      BY <2>1, <3>1, <3>2, FS_AddElement
  <2> QED
    BY <1>1, <1>3, <1>7, <2>2, <2>3
<1> QED
  BY <1>6, <1>7

LEMMA RInvStep ==
  ASSUME RInv, [Next]_vars
  PROVE  RInv'
<1> USE DEF RInv
<1>1. IInv'
  BY InvStep
<1>2. TailCounts'
  <2>1. CASE \E w \in Writer : Commit(w)
    BY <1>1, <2>1, CountsCommit
  <2>2. CASE ~\E w \in Writer : Commit(w)
    <3>1. UNCHANGED rows
      BY <2>2
      DEF Next, vars, Call, AppendStep, AcquireLock, BeginImmediate, BeginBusy, ReadTail,
          Conflict, Insert, CommitFails, Notify, SubscriberStep, ReadBatch, Yield, RunPosted,
          Woken, PollTimeout, Crash
    <3> QED
      BY <3>1 DEF TailCounts, OfStream
  <2> QED
    BY <2>1, <2>2
<1>3. ExpectedMet'
  <2> USE DEF ExpectedMet, IInv, TypeOK, AppendsOK
  <2>1. ASSUME NEW w \in Writer, Call(w) \/ AppendStep(w)
        PROVE  ExpectedMet'
    <3>1. CASE ReadTail(w)
      <4>1. PICK t \in TailsOf(call[w].stream) :
              /\ call[w].expected \in {NotGiven, t.stream_seq}
              /\ tail' = [tail EXCEPT ![w] = t]
        BY <3>1 DEF ReadTail
      <4>2. pc' = [pc EXCEPT ![w] = "read"] /\ UNCHANGED call
        BY <3>1 DEF ReadTail
      <4> QED
        BY <4>1, <4>2
    <3>2. CASE Call(w)
      BY <3>2 DEF Call
    <3>3. CASE AcquireLock(w) \/ BeginImmediate(w) \/ Insert(w) \/ Commit(w)
      BY <3>3 DEF AcquireLock, BeginImmediate, Insert, Commit
    <3>4. CASE BeginBusy(w) \/ Conflict(w) \/ CommitFails(w) \/ Notify(w)
      <4>1. Return(w)
        BY <3>4 DEF BeginBusy, Conflict, CommitFails, Rollback, Raise, Notify
      <4> QED
        BY <4>1 DEF Return
    <3> QED
      BY <2>1, <3>1, <3>2, <3>3, <3>4 DEF AppendStep
  <2>2. CASE \E p \in Proc : Crash(p)
    BY <2>2 DEF Crash
  <2>3. CASE \E s \in Subscriber : SubscriberStep(s)
    BY <2>3 DEF SubscriberStep, ReadBatch, Yield, RunPosted, Woken, PollTimeout, wvars
  <2>4. CASE UNCHANGED vars
    BY <2>4 DEF vars, wvars
  <2> QED
    BY <2>1, <2>2, <2>3, <2>4 DEF Next
<1> QED
  BY <1>1, <1>2, <1>3

-----------------------------------------------------------------------------
\* The events callers see.
LogOf == [i \in DOMAIN rows |-> [stream |-> rows[i].stream, type |-> rows[i].type]]
TodoOf == [w \in Writer |-> IF pc[w] \in {"idle", "committed"} THEN NoOne ELSE call[w]]

LEMMA CallIsNoOne ==
  ASSUME TypeOK, NEW w \in Writer, pc[w] # "idle"
  PROVE  call[w] # NoOne
<1>1. /\ call[w] \in CallRecord
      /\ call[w].stream \in Stream /\ call[w].type \in Type
  BY DEF TypeOK, AppendsOK
<1>2. call[w] \in [stream : Stream, type : Type, expected : Expected \cup {NotGiven}]
  BY <1>1 DEF CallRecord
<1> QED
  BY <1>2, NoCallAssumption

\* The instance has a Cardinality of its own.
LEMMA SameCardinality ==
  ASSUME NEW S
  PROVE  Log!Cardinality(S) = Cardinality(S)
BY Zenon DEF Log!Cardinality, Cardinality

LEMMA LengthOfIs ==
  ASSUME NEW s
  PROVE  Log!LengthOf(s) = Cardinality(OfStream(s))
<1> DEFINE S == {i \in DOMAIN LogOf : LogOf[i].stream = s}
<1>1. S = OfStream(s)
  BY DEF LogOf, OfStream
<1>2. Log!LengthOf(s) = Log!Cardinality(S)
  BY DEF Log!LengthOf, LogOf
<1> QED
  BY <1>1, <1>2, SameCardinality

\* A commit appends one event to what callers see.
LEMMA LogAppend ==
  ASSUME TableOK, NEW r, rows' = Append(rows, r)
  PROVE  LogOf' = Append(LogOf, [stream |-> r.stream, type |-> r.type])
<1> DEFINE n == Len(rows)
           e == [stream |-> r.stream, type |-> r.type]
<1>1. /\ DOMAIN rows = 1..n /\ n \in Nat
      /\ DOMAIN rows' = 1..(n + 1)
      /\ \A i \in 1..n : rows'[i] = rows[i]
      /\ rows'[n + 1] = r
  BY TableAppend
<1>2. DOMAIN LogOf = 1..n /\ IsSequence(LogOf)
  <2> DEFINE T == {LogOf[i] : i \in DOMAIN LogOf}
  <2>1. DOMAIN LogOf = 1..n
    BY <1>1 DEF LogOf
  <2>2. LogOf \in [1..n -> T]
    BY <2>1 DEF LogOf
  <2> HIDE DEF T
  <2>3. LogOf \in Seq(T)
    BY <1>1, <2>2
  <2> QED
    BY <2>1, <2>3 DEF T, IsSequence
<1>3. Len(LogOf) = n
  BY <1>1, <1>2, LenProperties DEF IsSequence
<1> HIDE DEF n, e
<1>4. /\ DOMAIN Append(LogOf, e) = 1..(n + 1)
      /\ \A i \in 1..n : Append(LogOf, e)[i] = LogOf[i]
      /\ Append(LogOf, e)[n + 1] = e
      /\ IsSequence(Append(LogOf, e))
  BY <1>2, <1>3, AppendPositions
<1>5. DOMAIN LogOf' = 1..(n + 1)
  BY <1>1 DEF LogOf
<1>6. \A i \in 1..(n + 1) : LogOf'[i] = Append(LogOf, e)[i]
  <2> TAKE i \in 1..(n + 1)
  <2>1. LogOf'[i] = [stream |-> rows'[i].stream, type |-> rows'[i].type]
    BY <1>1 DEF LogOf
  <2>2. CASE i \in 1..n
    BY <1>1, <1>4, <2>1, <2>2 DEF LogOf
  <2>3. CASE i = n + 1
    BY <1>1, <1>4, <2>1, <2>3 DEF e
  <2>4. i \in 1..n \/ i = n + 1
    BY <1>1
  <2> QED
    BY <2>2, <2>3, <2>4
<1>7. LogOf' = [i \in 1..(n + 1) |-> LogOf'[i]]
  BY <1>5 DEF LogOf
<1>8. Append(LogOf, e) = [i \in 1..(n + 1) |-> Append(LogOf, e)[i]]
  <2>1. Append(LogOf, e) = [i \in DOMAIN Append(LogOf, e) |-> Append(LogOf, e)[i]]
    BY <1>4, LenProperties DEF IsSequence
  <2> QED
    BY <1>4, <2>1
<1> QED
  BY <1>6, <1>7, <1>8 DEF e

\* What a step of the store is to the callers of append(): an answer, or nothing.
LEMMA AbstractUnchanged ==
  ASSUME UNCHANGED <<rows, outcome>>, TodoOf' = TodoOf
  PROVE  UNCHANGED Log!lvars
<1>1. LogOf' = LogOf
  BY DEF LogOf
<1> QED
  BY <1>1 DEF Log!lvars, LogOf, TodoOf

\* A call ends without a commit.
LEMMA AbstractRaise ==
  ASSUME TypeOK, NEW w \in Writer, NEW why, Raise(w, why), pc[w] \in {"locked", "begun", "inserted"},
         UNCHANGED rows
  PROVE  Log!Answer(w, why) /\ LogOf' = LogOf
<1>1. TodoOf[w] # NoOne
  BY CallIsNoOne DEF TodoOf
<1>2. TodoOf' = [TodoOf EXCEPT ![w] = NoOne]
  BY DEF Raise, Return, TodoOf, TypeOK, AppendsOK
<1>3. outcome' = [outcome EXCEPT ![w] = why]
  BY DEF Raise
<1>4. LogOf' = LogOf
  BY DEF LogOf
<1> QED
  BY <1>1, <1>2, <1>3, <1>4 DEF Log!Answer, TodoOf

LEMMA AbstractAppend ==
  ASSUME RInv, NEW w \in Writer, Call(w) \/ AppendStep(w)
  PROVE  [Log!LogNext]_(Log!lvars)
<1> USE DEF RInv, IInv
<1>1. CASE Call(w)
  <2>1. PICK s \in Stream, t \in Type, e \in Expected :
          call' = [call EXCEPT ![w] = [stream |-> s, type |-> t, expected |-> e]]
    BY <1>1 DEF Call
  <2>2. TodoOf[w] = NoOne
    BY <1>1 DEF Call, TodoOf
  <2>3. TodoOf' = [TodoOf EXCEPT ![w] = [stream |-> s, type |-> t, expected |-> e]]
    BY <1>1, <2>1 DEF Call, TodoOf, TypeOK, AppendsOK
  <2>4. LogOf' = LogOf /\ outcome' = [outcome EXCEPT ![w] = "none"]
    BY <1>1 DEF Call, LogOf
  <2>5. Log!Ask(w)
    <3>1. TodoOf[w] = NoOne /\ LogOf' = LogOf
      BY <2>2, <2>4
    <3>2. \E u \in Stream, v \in Type, x \in Expected :
            TodoOf' = [TodoOf EXCEPT ![w] = [stream |-> u, type |-> v, expected |-> x]]
      BY <2>3
    <3> QED
      BY <2>4, <3>1, <3>2 DEF Log!Ask, LogOf, TodoOf
  <2> QED
    BY <2>5 DEF Log!LogNext
<1>2. CASE AcquireLock(w) \/ BeginImmediate(w) \/ ReadTail(w) \/ Insert(w)
  <2>1. UNCHANGED <<rows, outcome, call>>
    BY <1>2 DEF AcquireLock, BeginImmediate, ReadTail, Insert
  <2>2. TodoOf' = TodoOf
    BY <1>2, <2>1
    DEF TodoOf, AcquireLock, BeginImmediate, ReadTail, Insert, TypeOK, AppendsOK
  <2> QED
    BY <2>1, <2>2, AbstractUnchanged
<1>3. CASE Notify(w)
  <2>1. UNCHANGED <<rows, outcome>>
    BY <1>3 DEF Notify
  <2>2. TodoOf' = TodoOf
    BY <1>3 DEF TodoOf, Notify, Return, TypeOK, AppendsOK
  <2> QED
    BY <2>1, <2>2, AbstractUnchanged
<1>4. CASE BeginBusy(w) \/ CommitFails(w)
  <2>1. Raise(w, "error") /\ UNCHANGED rows /\ pc[w] \in {"locked", "begun", "inserted"}
    BY <1>4 DEF BeginBusy, CommitFails, Rollback
  <2>2. Log!Fail(w)
    BY <2>1, AbstractRaise DEF Log!Fail, LogOf
  <2> QED
    BY <2>2 DEF Log!LogNext
<1>5. CASE Conflict(w)
  <2>1. Raise(w, "conflict") /\ UNCHANGED rows /\ pc[w] = "begun"
    BY <1>5 DEF Conflict, Rollback
  <2>2. PICK t \in TailsOf(call[w].stream) :
          IsTail(t, call[w].stream) /\ call[w].expected \notin {NotGiven, t.stream_seq}
    BY <1>5 DEF Conflict
  <2>3. call[w].stream \in Stream
    BY <2>1 DEF TypeOK, AppendsOK
  <2>4. t.stream_seq = Log!LengthOf(call[w].stream)
    BY <2>2, <2>3, LengthIsTail, LengthOfIs
  <2>5. TodoOf[w] = call[w]
    BY <2>1 DEF TodoOf
  <2>6. ~Log!Agrees(w)
    BY <2>2, <2>4, <2>5 DEF Log!Agrees, TodoOf
  <2>7. Log!Refuse(w)
    BY <2>1, <2>6, AbstractRaise DEF Log!Refuse, LogOf
  <2> QED
    BY <2>7 DEF Log!LogNext
<1>6. CASE Commit(w)
  <2>1. /\ pc[w] = "inserted" /\ rows' = Append(rows, NewRow(w))
        /\ pc' = [pc EXCEPT ![w] = "committed"] /\ UNCHANGED call
        /\ outcome' = [outcome EXCEPT ![w] = "ok"]
    BY <1>6 DEF Commit
  <2>2. TodoOf[w] = call[w] /\ call[w] # NoOne /\ call[w].stream \in Stream
    BY <2>1, CallIsNoOne DEF TodoOf, TypeOK, AppendsOK
  <2>3. TodoOf' = [TodoOf EXCEPT ![w] = NoOne]
    BY <2>1 DEF TodoOf, TypeOK, AppendsOK
  <2>4. LogOf' = Append(LogOf, [stream |-> call[w].stream, type |-> call[w].type])
    <3>1. NewRow(w).stream = call[w].stream /\ NewRow(w).type = call[w].type
      BY DEF NewRow
    <3> QED
      BY <2>1, <3>1, LogAppend DEF TypeOK
  <2>5. tail[w].stream_seq = Log!LengthOf(call[w].stream)
    BY <2>1, <2>2, LengthIsTail, LengthOfIs DEF TailFresh
  <2>6. Log!Agrees(w)
    BY <2>1, <2>2, <2>5 DEF Log!Agrees, TodoOf, ExpectedMet
  <2>7. Log!Answer(w, "ok")
    BY <2>1, <2>2, <2>3 DEF Log!Answer, TodoOf
  <2>8. Log!Succeed(w)
    BY <2>2, <2>4, <2>6, <2>7 DEF Log!Succeed, LogOf, TodoOf
  <2> QED
    BY <2>8 DEF Log!LogNext
<1> QED
  BY <1>1, <1>2, <1>3, <1>4, <1>5, <1>6 DEF AppendStep

\* The threads of a process that dies lose their calls.
LEMMA AbstractCrash ==
  ASSUME TypeOK, NEW p \in Proc, Crash(p)
  PROVE  Log!LogNext
<1> DEFINE D == {w \in Writer : Home[w] = p /\ pc[w] # "idle"}
<1>1. LogOf' = LogOf
  BY DEF Crash, LogOf
<1>2. TodoOf' = [w \in Writer |-> IF w \in D THEN NoOne ELSE TodoOf[w]]
  BY DEF Crash, TodoOf
<1>3. outcome' = [w \in Writer |-> IF w \in D THEN "none" ELSE outcome[w]]
  BY DEF Crash
<1>4. D \in SUBSET Writer
  OBVIOUS
<1> HIDE DEF D
<1>5. \E d \in SUBSET Writer : Log!Die(d)
  BY <1>1, <1>2, <1>3, <1>4 DEF Log!Die, LogOf, TodoOf
<1> QED
  BY <1>5 DEF Log!LogNext

LEMMA AbstractStep ==
  ASSUME RInv, [Next]_vars
  PROVE  [Log!LogNext]_(Log!lvars)
<1>1. CASE \E w \in Writer : Call(w) \/ AppendStep(w)
  BY <1>1, AbstractAppend
<1>2. CASE \E p \in Proc : Crash(p)
  BY <1>2, AbstractCrash DEF RInv, IInv
<1>3. CASE UNCHANGED <<rows, wvars>>
  BY <1>3, AbstractUnchanged DEF wvars, TodoOf
<1>4. CASE \E s \in Subscriber : SubscriberStep(s)
  BY <1>3, <1>4 DEF SubscriberStep, ReadBatch, Yield, RunPosted, Woken, PollTimeout
<1>5. CASE UNCHANGED vars
  BY <1>3, <1>5 DEF vars
<1> QED
  BY <1>1, <1>2, <1>4, <1>5 DEF Next

LEMMA AbstractInit ==
  ASSUME Init
  PROVE  Log!LogInit
<1>1. LogOf = <<>>
  BY DEF Init, LogOf
<1>2. TodoOf = [w \in Writer |-> NoOne]
  BY DEF Init, TodoOf
<1> QED
  BY <1>1, <1>2 DEF Init, Log!LogInit, LogOf, TodoOf

LEMMA RInvInit ==
  ASSUME Init
  PROVE  RInv
<1>1. \A s \in Stream : OfStream(s) = {}
  BY DEF Init, OfStream
<1> QED
  BY <1>1, InvInit DEF RInv, TailCounts, ExpectedMet, Init

\* append() is atomic to those who call it: each behaviour of threads, processes,
\* transactions, failures and deaths is one of the log that takes an event in one
\* step, compares the expected length as it does so, and answers truthfully.
THEOREM AppendIsAtomic == Spec => ImplementsLog
<1>1. Init => RInv
  BY RInvInit
<1>2. Init => Log!LogInit
  BY AbstractInit
<1>3. RInv /\ [Next]_vars => RInv'
  BY RInvStep
<1>4. RInv /\ [Next]_vars => [Log!LogNext]_(Log!lvars)
  BY AbstractStep
<1> QED
  BY <1>1, <1>2, <1>3, <1>4, PTL DEF Spec, ImplementsLog, Log!LogSpec
=============================================================================
