---------------------- MODULE OperationCorrelationProofs ----------------------
(***************************************************************************)
(* The store of correlations keeps one record per operation and a bounded  *)
(* number of terminal ones, and nothing unresolved is lost from it.  Each  *)
(* is carried by the next fact:                                            *)
(*   - the calls of two waiting transactions differ, and a call waits as   *)
(*     its transaction says: the one at the head is of a call that is      *)
(*     beginning, or was answered, so its operation and digest are known;  *)
(*   - a terminal record is of an operation that was completed: an         *)
(*     operation that was not has a record that writeRecord() keeps.       *)
(***************************************************************************)
EXTENDS OperationCorrelation, SubsequenceProofs

\* A call waits for the transaction it put in the queue.
WaitsAsQueued ==
    \A i \in 1..Len(queue) :
        call[queue[i].call].state = IF queue[i].what = "begin" THEN "beginning" ELSE "answered"

\* A record is terminal only after its operation was completed.
TerminalIsCompleted ==
    \A i \in 1..Len(records) : records[i].state = "terminal" => records[i].op \in completed

IInv == RecordsBounded /\ WaitsAsQueued /\ TerminalIsCompleted /\ OneMeaningInFlight

UniqueOps(rs) == \A i, k \in 1..Len(rs) : i # k => rs[i].op # rs[k].op

Terminals(rs) == {i \in 1..Len(rs) : rs[i].state = "terminal"}

-------------------------------------------------------------------------------
\* The terminal records that are retained are at most TerminalLimit: the first
\* of them is followed by fewer.
LEMMA RetainedAreFew ==
    ASSUME NEW rs \in Seq(Record)
    PROVE  LET some == {i \in Terminals(rs) : Retained(rs, i)}
           IN  IsFiniteSet(some) /\ Cardinality(some) <= TerminalLimit
<1> DEFINE some == {i \in Terminals(rs) : Retained(rs, i)}
           after(m) == {k \in m + 1..Len(rs) : rs[k].state = "terminal"}
<1>1. Len(rs) \in Nat /\ some \in SUBSET (1..Len(rs)) /\ TerminalLimit \in Nat \ {0}
  BY CorrelationAssumption, LenProperties DEF Terminals
<1>2. /\ IsFiniteSet(some) /\ Cardinality(some) \in Nat
      /\ \A p \in some : Rank(some, p) \in 1..Cardinality(some)
      /\ \A p, q \in some : p < q => Rank(some, p) < Rank(some, q)
  BY <1>1, RankGrows
<1>3. CASE some = {}
  <2>1. Cardinality(some) = 0
    BY <1>3, FS_EmptySet
  <2>2. QED
    BY <1>1, <1>2, <2>1
<1>4. CASE some # {}
  <2>1. 1 \in 1..Cardinality(some)
    BY <1>2, <1>4
  <2>2. \A i \in 1..Cardinality(some) : Nth(some, i) \in some /\ Rank(some, Nth(some, i)) = i
    BY <1>1, NthCounts
  <2>3. PICK m \in some : Rank(some, m) = 1
    BY <2>1, <2>2
  <2>4. \A k \in some : k = m \/ k > m
    <3>1. ASSUME NEW k \in some, k < m PROVE FALSE
      <4>1. Rank(some, k) < 1 /\ Rank(some, k) \in 1..Cardinality(some)
        BY <1>2, <2>3, <3>1
      <4>2. QED
        BY <1>2, <4>1
    <3>2. \A k \in some : k \in Nat
      BY <1>1
    <3>3. QED
      BY <3>1, <3>2
  <2>5. some \ {m} \subseteq after(m)
    <3>1. ASSUME NEW k \in some \ {m} PROVE k \in after(m)
      <4>1. k > m /\ k \in 1..Len(rs) /\ m \in Nat /\ rs[k].state = "terminal"
        BY <1>1, <2>4, <3>1 DEF Terminals
      <4>2. k \in m + 1..Len(rs)
        BY <1>1, <4>1
      <4>3. QED
        BY <4>1, <4>2
    <3>2. QED
      BY <3>1
  <2>6. IsFiniteSet(after(m)) /\ Cardinality(after(m)) \in Nat
    <3>1. after(m) \in SUBSET (1..Len(rs))
      BY <1>1
    <3>2. QED
      BY <1>1, <3>1, RankGrows
  <2>7. Cardinality(after(m)) < TerminalLimit
    BY DEF Retained, Terminals
  <2>8. Cardinality(some \ {m}) = Cardinality(some) - 1
    BY <1>2, FS_RemoveElement
  <2>9. Cardinality(some \ {m}) <= Cardinality(after(m))
    BY <2>5, <2>6, FS_Subset
  <2>10. QED
    BY <1>1, <1>2, <2>6, <2>7, <2>8, <2>9
<1>5. QED
  BY <1>3, <1>4

\* What retention leaves: records that were there, each once, all that are
\* retained, and at most TerminalLimit terminal ones.
LEMMA KeepFacts ==
    ASSUME NEW rs \in Seq(Record)
    PROVE  /\ Keep(rs) \in Seq(Record)
           /\ \A k \in 1..Len(Keep(rs)) : \E i \in 1..Len(rs) : Keep(rs)[k] = rs[i]
           /\ UniqueOps(rs) => UniqueOps(Keep(rs))
           /\ \A i \in 1..Len(rs) : Retained(rs, i) =>
                 \E k \in 1..Len(Keep(rs)) : Keep(rs)[k] = rs[i]
           /\ Cardinality(Terminals(Keep(rs))) <= TerminalLimit
<1> DEFINE at == {i \in 1..Len(rs) : Retained(rs, i)}
           some == {i \in Terminals(rs) : Retained(rs, i)}
<1>1. at \in SUBSET (1..Len(rs)) /\ Keep(rs) = Picked(rs, at)
  BY DEF Keep
<1> HIDE DEF at
<1>2. /\ Keep(rs) \in Seq(Record)
      /\ Len(Keep(rs)) = Cardinality(at) /\ Cardinality(at) \in Nat
      /\ \A i \in 1..Cardinality(at) : Nth(at, i) \in at /\ Keep(rs)[i] = rs[Nth(at, i)]
      /\ \A p \in at : \E i \in 1..Cardinality(at) : Nth(at, i) = p
      /\ \A i, k \in 1..Cardinality(at) : i < k => Nth(at, i) < Nth(at, k)
  BY <1>1, PickedFacts
<1>3. \A i, k \in 1..Cardinality(at) : i # k => Nth(at, i) # Nth(at, k)
  <2>1. \A i \in 1..Cardinality(at) : Nth(at, i) \in Nat
    <3>1. \A p \in at : p \in Nat
      BY <1>1
    <3>2. QED
      BY <1>2, <3>1
  <2>2. QED
    BY <1>2, <2>1
<1>4. UniqueOps(rs) => UniqueOps(Keep(rs))
  <2>1. SUFFICES ASSUME UniqueOps(rs),
                        NEW i \in 1..Len(Keep(rs)), NEW k \in 1..Len(Keep(rs)), i # k
                 PROVE  Keep(rs)[i].op # Keep(rs)[k].op
    BY DEF UniqueOps
  <2>2. PICK p \in 1..Len(rs), q \in 1..Len(rs) :
           p # q /\ Keep(rs)[i] = rs[p] /\ Keep(rs)[k] = rs[q]
    <3>1. /\ Nth(at, i) \in 1..Len(rs) /\ Keep(rs)[i] = rs[Nth(at, i)]
          /\ Nth(at, k) \in 1..Len(rs) /\ Keep(rs)[k] = rs[Nth(at, k)]
          /\ Nth(at, i) # Nth(at, k)
      BY <1>1, <1>2, <1>3, <2>1
    <3>2. QED
      BY <3>1
  <2>3. QED
    BY <2>1, <2>2 DEF UniqueOps
<1>5. IsFiniteSet(some) /\ Cardinality(some) <= TerminalLimit
  BY RetainedAreFew
<1>6. Cardinality(Terminals(Keep(rs))) <= Cardinality(some)
  <2> DEFINE nth == [i \in Terminals(Keep(rs)) |-> Nth(at, i)]
  <2>1. \A i \in Terminals(Keep(rs)) : i \in 1..Cardinality(at) /\ Nth(at, i) \in some
    BY <1>1, <1>2 DEF Terminals, at
  <2>2. nth \in Injection(Terminals(Keep(rs)), some)
    BY <1>3, <2>1 DEF Injection, IsInjective
  <2>3. IsFiniteSet(Terminals(Keep(rs))) /\ Cardinality(Terminals(Keep(rs))) \in Nat
    <3>1. Terminals(Keep(rs)) \in SUBSET (1..Cardinality(at))
      BY <2>1
    <3>2. QED
      BY <1>2, <3>1, RankGrows
  <2>4. QED
    BY <1>5, <2>2, <2>3, FS_Injection
<1>7. QED
  <2>1. /\ Cardinality(some) \in Nat /\ TerminalLimit \in Nat
        /\ Cardinality(Terminals(Keep(rs))) \in Nat
    <3>1. Terminals(Keep(rs)) \in SUBSET (1..Cardinality(at))
      BY <1>2 DEF Terminals
    <3>2. QED
      BY <1>2, <1>5, <3>1, RankGrows, FS_CardinalityType, CorrelationAssumption
  <2>2. Cardinality(Terminals(Keep(rs))) <= TerminalLimit
    BY <1>5, <1>6, <2>1
  <2>3. \A i \in 1..Len(rs) : Retained(rs, i) => i \in at
    BY DEF at
  <2>4. QED
    BY <1>1, <1>2, <1>4, <2>2, <2>3
\* What writeRecord() does to the collection: the new record is in it, every
\* other record was in it before under another operation, and the unresolved
\* ones of other operations all stay.
LEMMA WriteFacts ==
    ASSUME NEW r \in Record, records \in Seq(Record), UniqueOps(records), WriteRecord(r)
    PROVE  /\ records' \in Seq(Record)
           /\ UniqueOps(records')
           /\ Cardinality(Terminals(records')) <= TerminalLimit
           /\ \A k \in 1..Len(records') :
                 \/ records'[k] = r
                 \/ \E i \in 1..Len(records) : records'[k] = records[i]
           /\ \E k \in 1..Len(records') : records'[k] = r
           /\ \A i \in 1..Len(records) : records[i].op # r.op /\ records[i].state # "terminal" =>
                 \E k \in 1..Len(records') : records'[k] = records[i]
<1> DEFINE others == {i \in 1..Len(records) : records[i].op # r.op}
           rest == Picked(records, others)
           new == Append(rest, r)
<1>1. Len(records) \in Nat /\ others \in SUBSET (1..Len(records))
  BY LenProperties
<1>2. /\ rest \in Seq(Record)
      /\ Len(rest) = Cardinality(others) /\ Cardinality(others) \in Nat
      /\ \A i \in 1..Len(rest) : Nth(others, i) \in others /\ rest[i] = records[Nth(others, i)]
      /\ \A p \in others : \E i \in 1..Len(rest) : Nth(others, i) = p
      /\ \A i, k \in 1..Len(rest) : i < k => Nth(others, i) < Nth(others, k)
  <2> HIDE DEF others, rest
  <2>1. /\ rest \in Seq(Record) /\ Len(rest) = Cardinality(others)
        /\ Cardinality(others) \in 0..Len(records)
        /\ \A i \in 1..Cardinality(others) :
              Nth(others, i) \in others /\ rest[i] = records[Nth(others, i)]
        /\ \A p \in others : \E i \in 1..Cardinality(others) : Nth(others, i) = p
        /\ \A i, k \in 1..Cardinality(others) : i < k => Nth(others, i) < Nth(others, k)
    BY <1>1, PickedFacts DEF rest
  <2>2. Cardinality(others) \in Nat
    BY <1>1, <2>1
  <2>3. QED
    BY <2>1, <2>2
<1>3. \A i, k \in 1..Len(rest) : i # k => Nth(others, i) # Nth(others, k)
  <2>1. \A i \in 1..Len(rest) : Nth(others, i) \in Nat
    <3>1. \A p \in others : p \in Nat
      BY <1>1
    <3>2. QED
      BY <1>2, <3>1
  <2>2. ASSUME NEW i \in 1..Len(rest), NEW k \in 1..Len(rest), i # k
        PROVE  Nth(others, i) # Nth(others, k)
    <3>1. PICK p, q \in Nat : p = Nth(others, i) /\ q = Nth(others, k)
      BY <2>1
    <3>2. i \in Nat /\ k \in Nat /\ (i < k \/ k < i)
      BY <1>2, <2>2
    <3>3. (i < k => p < q) /\ (k < i => q < p)
      BY <1>2, <3>1
    <3>4. p # q
      BY <3>2, <3>3
    <3>5. QED
      BY <3>1, <3>4
  <2>3. QED
    BY <2>2
<1> HIDE DEF rest
<1>4. /\ new \in Seq(Record) /\ Len(new) = Len(rest) + 1 /\ Len(rest) \in Nat
      /\ new[Len(new)] = r
      /\ \A i \in 1..Len(rest) : new[i] = rest[i]
  <2>1. rest \in Seq(Record) /\ Len(rest) \in Nat
    BY <1>2
  <2>2. QED
    BY <2>1, AppendProperties
<1>5. UniqueOps(new)
  <2>1. \A i \in 1..Len(rest) : rest[i].op # r.op
    BY <1>2
  <2>2. \A i, k \in 1..Len(rest) : i # k => rest[i].op # rest[k].op
    <3>1. SUFFICES ASSUME NEW i \in 1..Len(rest), NEW k \in 1..Len(rest), i # k
                   PROVE  rest[i].op # rest[k].op
      OBVIOUS
    <3>2. /\ Nth(others, i) \in 1..Len(records) /\ Nth(others, k) \in 1..Len(records)
          /\ Nth(others, i) # Nth(others, k)
          /\ rest[i] = records[Nth(others, i)] /\ rest[k] = records[Nth(others, k)]
      BY <1>2, <1>3, <3>1
    <3>3. QED
      BY <3>2 DEF UniqueOps
  <2>3. \A i \in 1..Len(new) : i \in 1..Len(rest) \/ i = Len(new)
    BY <1>4
  <2>4. QED
    BY <1>4, <2>1, <2>2, <2>3 DEF UniqueOps
<1> HIDE DEF new
<1>6. records' = Keep(new)
  BY DEF WriteRecord, new, rest
<1>7. /\ Keep(new) \in Seq(Record)
      /\ \A k \in 1..Len(Keep(new)) : \E i \in 1..Len(new) : Keep(new)[k] = new[i]
      /\ UniqueOps(Keep(new))
      /\ \A i \in 1..Len(new) : Retained(new, i) =>
            \E k \in 1..Len(Keep(new)) : Keep(new)[k] = new[i]
      /\ Cardinality(Terminals(Keep(new))) <= TerminalLimit
  BY <1>4, <1>5, KeepFacts
<1>8. \A i \in 1..Len(new) : new[i] = r \/ \E k \in 1..Len(records) : new[i] = records[k]
  <2>1. SUFFICES ASSUME NEW i \in 1..Len(new), new[i] # r
                 PROVE  \E k \in 1..Len(records) : new[i] = records[k]
    OBVIOUS
  <2>2. i \in 1..Len(rest) /\ new[i] = rest[i]
    BY <1>4, <2>1
  <2>3. QED
    BY <1>2, <2>2
<1>9. Retained(new, Len(new)) /\ Len(new) \in 1..Len(new)
  <2>1. {k \in Len(new) + 1..Len(new) : new[k].state = "terminal"} = {}
    BY <1>4
  <2>2. Retained(new, Len(new))
    <3>1. Cardinality({k \in Len(new) + 1..Len(new) : new[k].state = "terminal"}) = 0
      BY <2>1, FS_EmptySet
    <3>2. QED
      BY <3>1, CorrelationAssumption DEF Retained
  <2>3. QED
    BY <1>4, <2>2
<1>10. ASSUME NEW i \in 1..Len(records), records[i].op # r.op, records[i].state # "terminal"
       PROVE  \E k \in 1..Len(Keep(new)) : Keep(new)[k] = records[i]
  <2>1. PICK k \in 1..Len(rest) : Nth(others, k) = i
    BY <1>2, <1>10
  <2>2. k \in 1..Len(new) /\ new[k] = records[i]
    <3>1. k \in 1..Len(new) /\ new[k] = rest[k]
      BY <1>4
    <3>2. rest[k] = records[i]
      BY <1>2, <2>1
    <3>3. QED
      BY <3>1, <3>2
  <2>3. Retained(new, k)
    BY <1>10, <2>2 DEF Retained
  <2>4. QED
    BY <1>7, <2>2, <2>3
<1>11. \E k \in 1..Len(Keep(new)) : Keep(new)[k] = r
  BY <1>4, <1>7, <1>9
<1>12. \A k \in 1..Len(Keep(new)) :
          Keep(new)[k] = r \/ \E i \in 1..Len(records) : Keep(new)[k] = records[i]
  BY <1>7, <1>8
<1>13. QED
  BY <1>6, <1>7, <1>10, <1>11, <1>12

-------------------------------------------------------------------------------
\* What the invariant says of the transaction at the head of the queue.
LEMMA HeadFacts ==
    ASSUME IInv, NEW what, Transaction(what)
    PROVE  /\ Head(queue).call \in Calls /\ Head(queue).what = what
           /\ what \in {"begin", "terminal"}
           /\ call[Head(queue).call].state = IF what = "begin" THEN "beginning" ELSE "answered"
           /\ call[Head(queue).call].op \in Ops /\ call[Head(queue).call].digest \in Digests
<1>1. queue \in Seq([call : Calls, what : {"begin", "terminal"}]) /\ queue # <<>>
      /\ call \in [Calls -> Call]
  BY DEF IInv, RecordsBounded, TypeOK, Transaction
<1>2. Len(queue) \in Nat /\ 1 \in 1..Len(queue) /\ Head(queue) = queue[1]
      /\ Head(queue) \in [call : Calls, what : {"begin", "terminal"}]
  <2> DEFINE Item == [call : Calls, what : {"begin", "terminal"}]
  <2> HIDE DEF Item
  <2>1. queue \in Seq(Item) /\ queue # <<>>
    BY <1>1 DEF Item
  <2>2. Len(queue) \in Nat /\ 1 \in 1..Len(queue) /\ Head(queue) = queue[1]
        /\ Head(queue) \in Item
    BY <2>1
  <2>3. QED
    BY <2>2 DEF Item
<1>3. call[Head(queue).call].state = IF what = "begin" THEN "beginning" ELSE "answered"
  BY <1>2 DEF IInv, WaitsAsQueued, Transaction
<1>4. call[Head(queue).call] \in Call /\ Head(queue).what = what
  BY <1>1, <1>2 DEF Transaction
<1>5. QED
  BY <1>2, <1>3, <1>4 DEF Call

\* Every transaction is taken off the queue, and its call goes on from there.
LEMMA DequeueFacts ==
    ASSUME IInv, queue # <<>>, queue' = Tail(queue),
           NEW to \in {"failed", "dispatched", "done"}, Move(Head(queue).call, to)
    PROVE  /\ queue' \in Seq([call : Calls, what : {"begin", "terminal"}])
           /\ \A i, k \in 1..Len(queue') : i # k => queue'[i].call # queue'[k].call
           /\ call' \in [Calls -> Call]
           /\ WaitsAsQueued'
           /\ \A c \in Calls : c # Head(queue).call => call'[c] = call[c]
           /\ call'[Head(queue).call].state = to
           /\ call'[Head(queue).call].op = call[Head(queue).call].op
           /\ call'[Head(queue).call].digest = call[Head(queue).call].digest
<1> DEFINE Item == [call : Calls, what : {"begin", "terminal"}]
<1>1. queue \in Seq(Item) /\ call \in [Calls -> Call]
  BY DEF IInv, RecordsBounded, TypeOK
<1>2. PICK c \in Calls : c = Head(queue).call
  <2> HIDE DEF Item
  <2>1. Head(queue) \in Item
    BY <1>1
  <2>2. QED
    BY <2>1 DEF Item
<1>3. /\ queue' \in Seq(Item) /\ Len(queue) \in Nat /\ Len(queue) # 0
      /\ Len(queue') = Len(queue) - 1
      /\ \A i \in 1..Len(queue') : queue'[i] = queue[i + 1]
      /\ Head(queue) = queue[1]
  BY <1>1, HeadTailProperties, EmptySeq, LenProperties
<1>4. \A i, k \in 1..Len(queue) : i # k => queue[i].call # queue[k].call
  BY DEF IInv, RecordsBounded, TypeOK
<1>5. \A i, k \in 1..Len(queue') : i # k => queue'[i].call # queue'[k].call
  BY <1>3, <1>4
<1>6. \A i \in 1..Len(queue') :
         /\ i + 1 \in 1..Len(queue) /\ queue'[i] = queue[i + 1]
         /\ queue'[i].call # c /\ queue'[i].call \in Calls
  <2>1. SUFFICES ASSUME NEW i \in 1..Len(queue')
                 PROVE  /\ i + 1 \in 1..Len(queue) /\ queue'[i] = queue[i + 1]
                        /\ queue'[i].call # c /\ queue'[i].call \in Calls
    OBVIOUS
  <2>2. i + 1 \in 1..Len(queue) /\ queue'[i] = queue[i + 1] /\ i + 1 # 1 /\ 1 \in 1..Len(queue)
    BY <1>3
  <2>3. queue[i + 1] \in Item
    BY <1>1, <2>2, ElementOfSeq
  <2>4. QED
    BY <1>2, <1>3, <1>4, <2>2, <2>3
<1>7. call[c].state \in {"beginning", "answered"} /\ call[c].op \in Ops /\ call[c].digest \in Digests
  <2>1. 1 \in 1..Len(queue) /\ queue[1].call = c
    BY <1>2, <1>3
  <2>2. call[c].state \in {"beginning", "answered"}
    BY <2>1 DEF IInv, WaitsAsQueued
  <2>3. QED
    BY <1>1, <2>2 DEF Call
<1>8. call' = [call EXCEPT ![c].state = to]
  BY <1>2 DEF Move
<1>9. /\ call' \in [Calls -> Call]
      /\ \A d \in Calls : d # c => call'[d] = call[d]
      /\ call'[c].state = to /\ call'[c].op = call[c].op /\ call'[c].digest = call[c].digest
  BY <1>1, <1>7, <1>8 DEF Call
<1>10. WaitsAsQueued'
  BY <1>6, <1>9 DEF WaitsAsQueued, IInv
<1>11. QED
  BY <1>2, <1>3, <1>5, <1>9, <1>10
\* Putting a transaction in the queue: the call was not waiting before.
LEMMA EnqueueFacts ==
    ASSUME IInv, NEW c \in Calls, NEW what \in {"begin", "terminal"},
           queue' = Append(queue, [call |-> c, what |-> what]),
           call[c].state \in {"idle", "dispatched"},
           call' \in [Calls -> Call],
           call'[c].state = IF what = "begin" THEN "beginning" ELSE "answered",
           \A d \in Calls : d # c => call'[d] = call[d]
    PROVE  /\ queue' \in Seq([call : Calls, what : {"begin", "terminal"}])
           /\ \A i, k \in 1..Len(queue') : i # k => queue'[i].call # queue'[k].call
           /\ WaitsAsQueued'
<1> DEFINE Item == [call : Calls, what : {"begin", "terminal"}]
           item == [call |-> c, what |-> what]
<1>1. /\ queue \in Seq(Item) /\ item \in Item
      /\ \A i, k \in 1..Len(queue) : i # k => queue[i].call # queue[k].call
  BY DEF IInv, RecordsBounded, TypeOK
<1>2. \A i \in 1..Len(queue) : queue[i].call \in Calls /\ queue[i].call # c
  <2>1. \A i \in 1..Len(queue) : queue[i] \in Item
    <3> HIDE DEF Item
    <3>1. QED
      BY <1>1, ElementOfSeq
  <2>2. \A i \in 1..Len(queue) : call[queue[i].call].state \in {"beginning", "answered"}
    BY DEF IInv, WaitsAsQueued
  <2>3. QED
    BY <2>1, <2>2
<1>3. /\ queue' \in Seq(Item) /\ Len(queue') = Len(queue) + 1 /\ Len(queue) \in Nat
      /\ queue'[Len(queue) + 1] = item
      /\ \A i \in 1..Len(queue) : queue'[i] = queue[i]
  <2> HIDE DEF Item, item
  <2>1. queue' = Append(queue, item)
    BY DEF item
  <2>2. QED
    BY <1>1, <2>1, AppendProperties, LenProperties
<1>4. \A i \in 1..Len(queue') : i \in 1..Len(queue) \/ i = Len(queue) + 1
  BY <1>3
<1>5. \A i, k \in 1..Len(queue') : i # k => queue'[i].call # queue'[k].call
  BY <1>1, <1>2, <1>3, <1>4
<1>6. WaitsAsQueued'
  <2>1. SUFFICES ASSUME NEW i \in 1..Len(queue')
                 PROVE  call'[queue'[i].call].state =
                           IF queue'[i].what = "begin" THEN "beginning" ELSE "answered"
    BY DEF WaitsAsQueued
  <2>2. CASE i \in 1..Len(queue)
    <3>1. queue'[i] = queue[i] /\ call'[queue[i].call] = call[queue[i].call]
      BY <1>2, <1>3, <2>2
    <3>2. QED
      BY <2>2, <3>1 DEF IInv, WaitsAsQueued
  <2>3. CASE i = Len(queue) + 1
    BY <1>3, <2>3
  <2>4. QED
    BY <1>4, <2>2, <2>3
<1>7. QED
  BY <1>3, <1>5, <1>6

\* A step that leaves the records alone and brings nothing in flight.
LEMMA RecordsUntouched ==
    ASSUME IInv, UNCHANGED <<records, completed>>,
           \A c \in InFlight' : /\ c \in InFlight
                                /\ call'[c].op = call[c].op /\ call'[c].digest = call[c].digest
    PROVE  /\ records' \in Seq(Record) /\ completed' \subseteq Ops
           /\ (UniqueOps(records) /\ Cardinality(Terminals(records)) <= TerminalLimit)'
           /\ TerminalIsCompleted'
           /\ OneMeaningInFlight'
BY DEF IInv, RecordsBounded, TypeOK, UniqueOps, Terminals, TerminalIsCompleted,
       OneMeaningInFlight, OfOp

\* The parts a step is shown to keep, put together.
LEMMA Together ==
    ASSUME (records \in Seq(Record) /\ completed \subseteq Ops)',
           (UniqueOps(records) /\ Cardinality(Terminals(records)) <= TerminalLimit)',
           TerminalIsCompleted', OneMeaningInFlight', WaitsAsQueued',
           queue' \in Seq([call : Calls, what : {"begin", "terminal"}]),
           \A i, k \in 1..Len(queue') : i # k => queue'[i].call # queue'[k].call,
           call' \in [Calls -> Call],
           (aborted \subseteq Calls /\ cancelled \subseteq aborted /\ crashes \in Nat)'
    PROVE  IInv'
BY DEF IInv, RecordsBounded, TypeOK, UniqueOps, Terminals

\* A transaction that writes nothing ends with a call that failed.
LEMMA FailedTransaction ==
    ASSUME IInv, queue # <<>>, queue' = Tail(queue), Move(Head(queue).call, "failed"),
           UNCHANGED <<records, aborted, cancelled, crashes, completed>>
    PROVE  IInv'
<1>1. /\ queue' \in Seq([call : Calls, what : {"begin", "terminal"}])
      /\ \A i, k \in 1..Len(queue') : i # k => queue'[i].call # queue'[k].call
      /\ call' \in [Calls -> Call]
      /\ WaitsAsQueued'
      /\ \A c \in Calls : c # Head(queue).call => call'[c] = call[c]
      /\ call'[Head(queue).call].state = "failed"
  BY DequeueFacts
<1>2. \A c \in InFlight' : c \in InFlight /\ call'[c] = call[c]
  BY <1>1 DEF InFlight
<1>3. /\ records' \in Seq(Record) /\ completed' \subseteq Ops
      /\ (UniqueOps(records) /\ Cardinality(Terminals(records)) <= TerminalLimit)'
      /\ TerminalIsCompleted'
      /\ OneMeaningInFlight'
  BY <1>2, RecordsUntouched
<1>4. (aborted \subseteq Calls /\ cancelled \subseteq aborted /\ crashes \in Nat)'
  BY DEF IInv, RecordsBounded, TypeOK
<1>5. QED
  BY <1>1, <1>3, <1>4, Together

\* begin() under the digest of the record there is, or of a new one.
LEMMA BeginReturnsKeeps == IInv /\ BeginReturns => IInv'
<1> SUFFICES ASSUME IInv, BeginReturns PROVE IInv'
  OBVIOUS
<1>1. PICK c : c = Head(queue).call
  OBVIOUS
<1>2. c \in Calls /\ call[c].op \in Ops /\ call[c].digest \in Digests /\ Transaction("begin")
  BY <1>1, HeadFacts DEF BeginReturns
<1>3. PICK to \in {"failed", "dispatched", "done"} :
         Move(Head(queue).call, to) /\ queue # <<>> /\ queue' = Tail(queue)
  BY DEF BeginReturns, Transaction
<1>4. /\ queue' \in Seq([call : Calls, what : {"begin", "terminal"}])
      /\ \A i, k \in 1..Len(queue') : i # k => queue'[i].call # queue'[k].call
      /\ call' \in [Calls -> Call]
      /\ WaitsAsQueued'
      /\ \A d \in Calls : d # c => call'[d] = call[d]
      /\ call'[c].op = call[c].op /\ call'[c].digest = call[c].digest
  BY <1>1, <1>3, DequeueFacts
<1>5. /\ records \in Seq(Record) /\ UniqueOps(records)
      /\ Cardinality(Terminals(records)) <= TerminalLimit /\ completed \subseteq Ops
  BY DEF IInv, RecordsBounded, TypeOK, UniqueOps, Terminals
<1>6. UNCHANGED <<aborted, cancelled, crashes, completed>>
  BY DEF BeginReturns
<1>7. (aborted \subseteq Calls /\ cancelled \subseteq aborted /\ crashes \in Nat)'
  BY <1>6 DEF IInv, RecordsBounded, TypeOK
<1>8. CASE OfOp(call[c].op) = {}
  <2>1. PICK r \in Record :
           /\ r = [op |-> call[c].op, digest |-> call[c].digest, state |-> "dispatching"]
           /\ WriteRecord(r)
    BY <1>1, <1>2, <1>8 DEF BeginReturns, Record
  <2>2. /\ records' \in Seq(Record)
        /\ UniqueOps(records')
        /\ Cardinality(Terminals(records')) <= TerminalLimit
        /\ \A k \in 1..Len(records') :
              \/ records'[k] = r
              \/ \E i \in 1..Len(records) : records'[k] = records[i]
        /\ \E k \in 1..Len(records') : records'[k] = r
        /\ \A i \in 1..Len(records) : records[i].op # r.op /\ records[i].state # "terminal" =>
              \E k \in 1..Len(records') : records'[k] = records[i]
    BY <1>5, <2>1, WriteFacts
  <2>3. TerminalIsCompleted'
    BY <1>6, <2>1, <2>2 DEF TerminalIsCompleted, IInv
  <2>4. OneMeaningInFlight'
    <3>1. SUFFICES ASSUME NEW d \in Calls, call'[d].state \in {"dispatched", "answered"},
                          call'[d].op \notin completed
                   PROVE  \E k \in 1..Len(records') :
                             records'[k].op = call'[d].op /\ records'[k].digest = call'[d].digest
      BY <1>6 DEF OneMeaningInFlight, InFlight, OfOp
    <3>2. CASE d = c
      BY <1>4, <2>1, <2>2, <3>2
    <3>3. CASE d # c
      <4>1. PICK i \in 1..Len(records) :
               records[i].op = call[d].op /\ records[i].digest = call[d].digest
        BY <1>4, <3>1, <3>3 DEF IInv, OneMeaningInFlight, InFlight, OfOp
      <4>2. records[i].op # r.op
        BY <1>8, <2>1 DEF OfOp
      <4>3. records[i].state # "terminal"
        BY <1>4, <3>1, <3>3, <4>1 DEF IInv, TerminalIsCompleted
      <4>4. PICK k \in 1..Len(records') : records'[k] = records[i]
        BY <2>2, <4>1, <4>2, <4>3
      <4>5. call'[d] = call[d]
        BY <1>4, <3>3
      <4>6. records'[k].op = call'[d].op /\ records'[k].digest = call'[d].digest
        BY <4>1, <4>4, <4>5
      <4>7. QED
        BY <4>6
    <3>4. QED
      BY <3>2, <3>3
  <2>5. completed' \subseteq Ops
    BY <1>5, <1>6
  <2>6. QED
    BY <1>4, <1>7, <2>2, <2>3, <2>4, <2>5, Together
<1>9. CASE OfOp(call[c].op) # {}
  <2>1. UNCHANGED records /\ ~Conflicts(c)
    BY <1>1, <1>9 DEF BeginReturns
  <2>2. OneMeaningInFlight'
    <3>1. SUFFICES ASSUME NEW d \in Calls, call'[d].state \in {"dispatched", "answered"},
                          call'[d].op \notin completed
                   PROVE  \E k \in 1..Len(records) :
                             records[k].op = call'[d].op /\ records[k].digest = call'[d].digest
      BY <1>6, <2>1 DEF OneMeaningInFlight, InFlight, OfOp
    <3>2. CASE d = c
      BY <1>4, <1>9, <2>1, <3>2 DEF Conflicts, OfOp
    <3>3. CASE d # c
      BY <1>4, <3>1, <3>3 DEF IInv, OneMeaningInFlight, InFlight, OfOp
    <3>4. QED
      BY <3>2, <3>3
  <2>3. TerminalIsCompleted' /\ completed' \subseteq Ops /\ records' \in Seq(Record)
        /\ (UniqueOps(records) /\ Cardinality(Terminals(records)) <= TerminalLimit)'
    BY <1>5, <1>6, <2>1 DEF TerminalIsCompleted, IInv, UniqueOps, Terminals
  <2>4. QED
    BY <1>4, <1>7, <2>2, <2>3, Together
<1>10. QED
  BY <1>8, <1>9

\* The outcome is recorded: the operation is completed from here on.
LEMMA TerminalReturnsKeeps == IInv /\ TerminalReturns => IInv'
<1> SUFFICES ASSUME IInv, TerminalReturns PROVE IInv'
  OBVIOUS
<1>1. PICK c : c = Head(queue).call
  OBVIOUS
<1>2. c \in Calls /\ call[c].op \in Ops /\ call[c].digest \in Digests
  BY <1>1, HeadFacts DEF TerminalReturns
<1>3. Move(Head(queue).call, "done") /\ queue # <<>> /\ queue' = Tail(queue)
  BY DEF TerminalReturns, Transaction
<1>4. /\ queue' \in Seq([call : Calls, what : {"begin", "terminal"}])
      /\ \A i, k \in 1..Len(queue') : i # k => queue'[i].call # queue'[k].call
      /\ call' \in [Calls -> Call]
      /\ WaitsAsQueued'
      /\ \A d \in Calls : d # c => call'[d] = call[d]
      /\ call'[c].state = "done"
  BY <1>1, <1>3, DequeueFacts
<1>5. /\ records \in Seq(Record) /\ UniqueOps(records)
      /\ Cardinality(Terminals(records)) <= TerminalLimit /\ completed \subseteq Ops
  BY DEF IInv, RecordsBounded, TypeOK, UniqueOps, Terminals
<1>6. UNCHANGED <<aborted, cancelled, crashes>> /\ completed' = completed \cup {call[c].op}
  BY <1>1 DEF TerminalReturns
<1>7. (aborted \subseteq Calls /\ cancelled \subseteq aborted /\ crashes \in Nat)'
  BY <1>6 DEF IInv, RecordsBounded, TypeOK
<1>8. PICK r \in Record : r.op = call[c].op /\ WriteRecord(r)
  <2>1. PICK i \in OfOp(call[c].op) : WriteRecord([records[i] EXCEPT !.state = "terminal"])
    BY <1>1 DEF TerminalReturns
  <2>2. records[i] \in Record /\ records[i].op = call[c].op
    BY <1>5, <2>1, ElementOfSeq DEF OfOp
  <2>3. [records[i] EXCEPT !.state = "terminal"] \in Record
        /\ [records[i] EXCEPT !.state = "terminal"].op = call[c].op
    BY <2>2 DEF Record
  <2>4. QED
    BY <2>1, <2>3
<1>9. /\ records' \in Seq(Record)
      /\ UniqueOps(records')
      /\ Cardinality(Terminals(records')) <= TerminalLimit
      /\ \A k \in 1..Len(records') :
            \/ records'[k] = r
            \/ \E i \in 1..Len(records) : records'[k] = records[i]
      /\ \A i \in 1..Len(records) : records[i].op # r.op /\ records[i].state # "terminal" =>
            \E k \in 1..Len(records') : records'[k] = records[i]
  BY <1>5, <1>8, WriteFacts
<1>10. TerminalIsCompleted'
  BY <1>6, <1>8, <1>9 DEF TerminalIsCompleted, IInv
<1>11. OneMeaningInFlight'
  <2>1. SUFFICES ASSUME NEW d \in Calls, call'[d].state \in {"dispatched", "answered"},
                        call'[d].op \notin completed'
                 PROVE  \E k \in 1..Len(records') :
                           records'[k].op = call'[d].op /\ records'[k].digest = call'[d].digest
    BY DEF OneMeaningInFlight, InFlight, OfOp
  <2>2. d # c /\ call'[d] = call[d] /\ call[d].op \notin completed /\ call[d].op # r.op
    BY <1>4, <1>6, <1>8, <2>1
  <2>3. PICK i \in 1..Len(records) :
           records[i].op = call[d].op /\ records[i].digest = call[d].digest
    BY <2>1, <2>2 DEF IInv, OneMeaningInFlight, InFlight, OfOp
  <2>4. records[i].state # "terminal"
    BY <2>2, <2>3 DEF IInv, TerminalIsCompleted
  <2>5. QED
    BY <1>9, <2>2, <2>3, <2>4
<1>12. completed' \subseteq Ops
  BY <1>2, <1>5, <1>6
<1>13. QED
  BY <1>4, <1>7, <1>9, <1>10, <1>11, <1>12, Together
\* The invariant holds initially and every step keeps it.
LEMMA InitIInv == Init => IInv
<1> SUFFICES ASSUME Init PROVE IInv
  OBVIOUS
<1>1. records = <<>> /\ queue = <<>> /\ Len(records) = 0 /\ Len(queue) = 0
  BY DEF Init
<1>2. TypeOK
  <2>1. call \in [Calls -> Call]
    BY DEF Init, Call
  <2>2. QED
    BY <1>1, <2>1 DEF Init, TypeOK
<1>3. Cardinality({i \in 1..Len(records) : records[i].state = "terminal"}) <= TerminalLimit
  <2>1. {i \in 1..Len(records) : records[i].state = "terminal"} = {}
    BY <1>1
  <2>2. Cardinality({i \in 1..Len(records) : records[i].state = "terminal"}) = 0
    BY <2>1, FS_EmptySet
  <2>3. QED
    BY <2>2, CorrelationAssumption
<1>4. WaitsAsQueued /\ TerminalIsCompleted /\ OneMeaningInFlight
  BY <1>1 DEF Init, WaitsAsQueued, TerminalIsCompleted, OneMeaningInFlight, InFlight
<1>5. QED
  BY <1>1, <1>2, <1>3, <1>4 DEF IInv, RecordsBounded

LEMMA StepIInv == IInv /\ [Next]_vars => IInv'
<1> SUFFICES ASSUME IInv, [Next]_vars PROVE IInv'
  OBVIOUS
<1>1. /\ queue \in Seq([call : Calls, what : {"begin", "terminal"}])
      /\ \A i, k \in 1..Len(queue) : i # k => queue[i].call # queue[k].call
      /\ call \in [Calls -> Call]
      /\ aborted \subseteq Calls /\ cancelled \subseteq aborted /\ crashes \in Nat
      /\ WaitsAsQueued
  BY DEF IInv, RecordsBounded, TypeOK
<1>2. \A i \in 1..Len(queue) : queue[i].call \in Calls
  <2> DEFINE Item == [call : Calls, what : {"begin", "terminal"}]
  <2>1. \A i \in 1..Len(queue) : queue[i] \in Item
    <3> HIDE DEF Item
    <3>1. queue \in Seq(Item)
      BY <1>1 DEF Item
    <3>2. QED
      BY <3>1, ElementOfSeq
  <2>2. QED
    BY <2>1
<1>3. ASSUME NEW c \in Calls, NEW op \in Ops, NEW d \in Digests, Execute(c, op, d) PROVE IInv'
  <2>1. /\ call' \in [Calls -> Call] /\ call'[c].state = "beginning"
        /\ \A e \in Calls : e # c => call'[e] = call[e]
    BY <1>1, <1>3 DEF Execute, Call
  <2>2. /\ queue' \in Seq([call : Calls, what : {"begin", "terminal"}])
        /\ \A i, k \in 1..Len(queue') : i # k => queue'[i].call # queue'[k].call
        /\ WaitsAsQueued'
    BY <1>3, <2>1, EnqueueFacts DEF Execute
  <2>3. \A e \in InFlight' : e \in InFlight /\ call'[e] = call[e]
    BY <2>1 DEF InFlight
  <2>4. UNCHANGED <<records, completed, aborted, cancelled, crashes>>
    BY <1>3 DEF Execute
  <2>5. QED
    BY <1>1, <2>1, <2>2, <2>3, <2>4, RecordsUntouched, Together
<1>4. ASSUME NEW c \in Calls, Answered(c) PROVE IInv'
  <2>1. /\ call' \in [Calls -> Call] /\ call'[c].state = "answered"
        /\ call'[c].op = call[c].op /\ call'[c].digest = call[c].digest
        /\ \A e \in Calls : e # c => call'[e] = call[e]
    BY <1>1, <1>4 DEF Answered, Move, Call
  <2>2. /\ queue' \in Seq([call : Calls, what : {"begin", "terminal"}])
        /\ \A i, k \in 1..Len(queue') : i # k => queue'[i].call # queue'[k].call
        /\ WaitsAsQueued'
    BY <1>4, <2>1, EnqueueFacts DEF Answered
  <2>3. \A e \in InFlight' : /\ e \in InFlight
                             /\ call'[e].op = call[e].op /\ call'[e].digest = call[e].digest
    BY <1>4, <2>1 DEF InFlight, Answered
  <2>4. UNCHANGED <<records, completed, aborted, cancelled, crashes>>
    BY <1>4 DEF Answered
  <2>5. QED
    BY <1>1, <2>1, <2>2, <2>3, <2>4, RecordsUntouched, Together
<1>5. ASSUME NEW c \in Calls, DispatchFails(c) PROVE IInv'
  <2>1. /\ call' \in [Calls -> Call] /\ call'[c].state = "failed"
        /\ \A e \in Calls : e # c => call'[e] = call[e]
    BY <1>1, <1>5 DEF DispatchFails, Move, Call
  <2>2. UNCHANGED <<records, queue, completed, aborted, cancelled, crashes>>
    BY <1>5 DEF DispatchFails
  <2>3. WaitsAsQueued'
    <3>1. \A i \in 1..Len(queue) : queue[i].call # c
      BY <1>1, <1>5 DEF WaitsAsQueued, DispatchFails
    <3>2. QED
      BY <1>1, <1>2, <2>1, <2>2, <3>1 DEF WaitsAsQueued
  <2>4. \A e \in InFlight' : e \in InFlight /\ call'[e] = call[e]
    BY <2>1 DEF InFlight
  <2>5. QED
    BY <1>1, <2>1, <2>2, <2>3, <2>4, RecordsUntouched, Together
<1>6. ASSUME NEW c \in Calls, Abort(c) PROVE IInv'
  <2>1. UNCHANGED <<records, queue, call, crashes, completed>>
    BY <1>6 DEF Abort
  <2>2. (aborted \subseteq Calls /\ cancelled \subseteq aborted /\ crashes \in Nat)'
    BY <1>1, <1>6 DEF Abort
  <2>3. InFlight' = InFlight /\ WaitsAsQueued'
    BY <1>1, <2>1 DEF InFlight, WaitsAsQueued
  <2>4. QED
    BY <1>1, <2>1, <2>2, <2>3, RecordsUntouched, Together
<1>7. CASE BeginConflicts
  BY <1>7, FailedTransaction DEF BeginConflicts, Transaction
<1>8. CASE BeginReturns
  BY <1>8, BeginReturnsKeeps
<1>9. CASE TransactionThrows
  BY <1>9, FailedTransaction DEF TransactionThrows
<1>10. CASE TerminalReturns
  BY <1>10, TerminalReturnsKeeps
<1>11. CASE TerminalMissing
  BY <1>11, FailedTransaction DEF TerminalMissing, Transaction
<1>12. CASE Restart
  <2>1. /\ queue' = <<>> /\ crashes' = crashes + 1
        /\ UNCHANGED <<records, aborted, cancelled, completed>>
    BY <1>12 DEF Restart
  <2>2. call' \in [Calls -> Call] /\ InFlight' = {}
    BY <1>1, <1>12 DEF Restart, Call, InFlight
  <2>3. /\ queue' \in Seq([call : Calls, what : {"begin", "terminal"}]) /\ Len(queue') = 0
        /\ WaitsAsQueued'
    BY <2>1 DEF WaitsAsQueued
  <2>4. (aborted \subseteq Calls /\ cancelled \subseteq aborted /\ crashes \in Nat)'
    BY <1>1, <2>1
  <2>5. QED
    BY <2>1, <2>2, <2>3, <2>4, RecordsUntouched, Together
<1>13. CASE UNCHANGED vars
  BY <1>13 DEF vars, IInv, RecordsBounded, TypeOK, WaitsAsQueued, TerminalIsCompleted,
               OneMeaningInFlight, InFlight, OfOp
<1>14. QED
  BY <1>3, <1>4, <1>5, <1>6, <1>7, <1>8, <1>9, <1>10, <1>11, <1>12, <1>13 DEF Next

THEOREM Inductive == Spec => []IInv
BY InitIInv, StepIInv, PTL DEF Spec

-------------------------------------------------------------------------------
\* One record per operation and at most TerminalLimit terminal ones, whatever the
\* number of calls, retries, failed writes and restarts (writeRecord).
THEOREM CollectionIsBounded == Spec => []RecordsBounded
<1>1. IInv => RecordsBounded
  BY DEF IInv
<1>2. QED
  BY <1>1, Inductive, PTL

\* Before an operation is completed all that is in flight for it was dispatched
\* under the digest of its record (the comparison in begin).
THEOREM FlightHasOneMeaning == Spec => []OneMeaningInFlight
<1>1. IInv => OneMeaningInFlight
  BY DEF IInv
<1>2. QED
  BY <1>1, Inductive, PTL

\* What a step of the store keeps of an unresolved record.
StaysRecorded ==
    \A i \in 1..Len(records) : records[i].state = "dispatching" =>
        \E k \in 1..Len(records') :
            /\ records'[k].op = records[i].op
            /\ records'[k].digest = records[i].digest

LEMMA StepStaysRecorded == IInv /\ [Next]_vars => StaysRecorded
<1> SUFFICES ASSUME IInv, [Next]_vars PROVE StaysRecorded
  OBVIOUS
<1>1. records \in Seq(Record) /\ UniqueOps(records)
  BY DEF IInv, RecordsBounded, TypeOK, UniqueOps
<1>2. CASE UNCHANGED records
  BY <1>2 DEF StaysRecorded
<1>3. ASSUME NEW r \in Record, WriteRecord(r),
             \A i \in 1..Len(records) : records[i].op = r.op => records[i].digest = r.digest
      PROVE  StaysRecorded
  <2>1. /\ \E k \in 1..Len(records') : records'[k] = r
        /\ \A i \in 1..Len(records) : records[i].op # r.op /\ records[i].state # "terminal" =>
              \E k \in 1..Len(records') : records'[k] = records[i]
    BY <1>1, <1>3, WriteFacts
  <2>2. QED
    BY <1>3, <2>1 DEF StaysRecorded
<1>4. CASE BeginReturns
  <2>1. PICK c : c = Head(queue).call
    OBVIOUS
  <2>2. call[c].op \in Ops /\ call[c].digest \in Digests
    BY <1>4, <2>1, HeadFacts DEF BeginReturns
  <2>3. CASE OfOp(call[c].op) = {}
    <3>1. PICK r \in Record : r.op = call[c].op /\ WriteRecord(r)
      BY <1>4, <2>1, <2>2, <2>3 DEF BeginReturns, Record
    <3>2. \A i \in 1..Len(records) : records[i].op # r.op
      BY <2>3, <3>1 DEF OfOp
    <3>3. QED
      BY <1>3, <3>1, <3>2
  <2>4. CASE OfOp(call[c].op) # {}
    BY <1>2, <1>4, <2>1, <2>4 DEF BeginReturns
  <2>5. QED
    BY <2>3, <2>4
<1>5. CASE TerminalReturns
  <2>1. PICK i \in 1..Len(records) : WriteRecord([records[i] EXCEPT !.state = "terminal"])
    BY <1>5 DEF TerminalReturns, OfOp
  <2>2. PICK r \in Record : /\ r.op = records[i].op /\ r.digest = records[i].digest
                            /\ WriteRecord(r)
    <3>1. records[i] \in Record
      BY <1>1, ElementOfSeq
    <3>2. [records[i] EXCEPT !.state = "terminal"] \in Record
      BY <3>1 DEF Record
    <3>3. [records[i] EXCEPT !.state = "terminal"].op = records[i].op
          /\ [records[i] EXCEPT !.state = "terminal"].digest = records[i].digest
      BY <3>1 DEF Record
    <3>4. QED
      BY <2>1, <3>2, <3>3
  <2>3. \A k \in 1..Len(records) : records[k].op = r.op => records[k].digest = r.digest
    BY <1>1, <2>2 DEF UniqueOps
  <2>4. QED
    BY <1>3, <2>2, <2>3
<1>6. QED
  BY <1>2, <1>4, <1>5
  DEF Next, vars, Execute, Answered, DispatchFails, Abort, BeginConflicts,
      TransactionThrows, TerminalMissing, Restart

\* Every unresolved record stays, under its digest, until its operation is recorded
\* as terminal: retention takes terminal records only (the filter in writeRecord).
THEOREM UnresolvedRecordsStay == Spec => UnresolvedStays
<1>1. IInv /\ [Next]_vars => [StaysRecorded]_vars
  BY StepStaysRecorded
<1>2. Spec => [][StaysRecorded]_vars
  BY <1>1, Inductive, PTL DEF Spec
<1>3. QED
  BY <1>2 DEF UnresolvedStays, StaysRecorded
===============================================================================
