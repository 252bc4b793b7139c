-------------------------- MODULE GatewayDaemonProofs --------------------------
(***************************************************************************)
(* Theorems about a gateway, for every number of requests, operation ids   *)
(* and digests, every journal limit and retention time, and any number of  *)
(* failed saves, crashes and restarts.                                     *)
(*                                                                         *)
(* First GatewayDaemon alone: who runs (IInv), what the journal owes to    *)
(* the outcomes it has seen (JInv), and that the set it is here is the     *)
(* ordered Map of the code (JournalMap).  Then its two refinements:        *)
(* GatewayDaemon implements ExecutionContract, and HostExecution, with its *)
(* processes, implements GatewayDaemon.  What the processes show of the    *)
(* runs follows from HostInv: a run is in flight exactly as long as its    *)
(* promise is pending, and Sound holds of every process.                   *)
(***************************************************************************)
EXTENDS GatewayDaemonContract, HostExecution, JournalMap, SubsequenceProofs,
        FiniteSetTheorems, TLAPS

-------------------------------------------------------------------------------
(* Who runs. *)

\* The history is finite, holds everything the journal and the file hold, and
\* its stamps never exceed its size: the next stamp is larger than all of them.
HistoryOK ==
    /\ IsFiniteSet(completed)
    /\ \A e \in completed : e.stamp <= Cardinality(completed)
    /\ journal \subseteq completed
    /\ disk \subseteq durable
    /\ durable \subseteq completed

\* A process that is down has nothing in memory, and only running requests can
\* have been aborted.
MemoryOK ==
    /\ ~up => /\ running = {}
              /\ \A op \in Ops : controllers[op] = None
    /\ aborted \subseteq running
    /\ \A r \in running : reply[r] = "accepted"
    /\ \A r \in Requests : reply[r] \in {"accepted", "done"} => envelope[r] # None

\* The inductive invariant: no part is inductive without the others.
\* OneRunPerOperation needs MemoryOK across a restart, RunningNotRetained needs
\* OneRunPerOperation when a run finishes, StoppingAborts needs both.
IInv ==
    /\ TypeOK
    /\ HistoryOK
    /\ MemoryOK
    /\ OneRunPerOperation
    /\ RunningNotRetained
    /\ StoppingAborts

-------------------------------------------------------------------------------
\* prune() and the lookups only ever return entries that were there, and put()
\* adds none but its own.
LEMMA JournalSubsets ==
    ASSUME NEW j, NEW now, NEW e
    PROVE  /\ Prune(j, now) \subseteq Live(j, now)
           /\ Prune(j, now) \subseteq j
           /\ Put(j, e, now) \subseteq Live(j, now) \cup {e}
  BY DEF Prune, Evict, Live, Put, Lookup

\* What journal.put() is given is an entry, newer than every outcome so far.
LEMMA OutcomeType ==
    ASSUME TypeOK, HistoryOK, NEW r \in running, envelope[r] \in Envelope
    PROVE  /\ Outcome(r) \in Entry
           /\ \A e \in completed : e.stamp < Outcome(r).stamp
           /\ IsFiniteSet(completed \cup {Outcome(r)})
           /\ Cardinality(completed \cup {Outcome(r)}) = Outcome(r).stamp
<1>1. Cardinality(completed) \in Nat
  BY FS_CardinalityType DEF HistoryOK
<1>2. Outcome(r) \in Entry
  BY <1>1, JournalAssumption DEF TypeOK, Outcome, Entry, Envelope
<1>3. \A e \in completed : e.stamp < Outcome(r).stamp
  <2>1. Outcome(r).stamp = Cardinality(completed) + 1
    BY DEF Outcome
  <2>2. \A e \in completed : e.stamp \in Nat
    BY DEF TypeOK, Entry
  <2>3. QED
    BY <1>1, <2>1, <2>2 DEF HistoryOK
<1>4. Outcome(r) \notin completed
  BY <1>2, <1>3 DEF Entry
<1>5. QED
  BY <1>2, <1>3, <1>4, FS_AddElement DEF HistoryOK, Outcome

\* inspect() leaves the invariant's parts about the journal as they were.
LEMMA InspectStep ==
    ASSUME TypeOK, HistoryOK, Inspect, UNCHANGED completed
    PROVE  /\ journal' \subseteq Live(journal, clock)
           /\ journal' \subseteq Entry
           /\ disk' \subseteq Entry
           /\ durable' \subseteq Entry
           /\ HistoryOK'
<1>1. Prune(journal, clock) \subseteq Live(journal, clock)
  BY JournalSubsets
<1>2. Prune(journal, clock) \subseteq journal
  BY JournalSubsets
<1>3. QED
  BY <1>1, <1>2 DEF Inspect, Save, HistoryOK, TypeOK

\* Everything handle() does before its first suspension point.
LEMMA HandleStep ==
    ASSUME IInv, NEW r \in Requests, NEW e \in Envelope, Handle(r, e)
    PROVE  IInv'
<1> USE DEF IInv
<1>1. CASE RefuseStopping(r, e) \/ RefuseMisbound(r, e)
  BY <1>1 DEF RefuseStopping, RefuseMisbound, Arrives, Respond, TypeOK, Replies,
       HistoryOK, MemoryOK, OneRunPerOperation, RunningNotRetained, StoppingAborts,
       Live, Lookup
<1>2. CASE InspectFails(r, e)
  <2>1. journal' \subseteq journal
    BY <1>2, JournalSubsets DEF InspectFails
  <2>2. QED
    BY <1>2, <2>1 DEF InspectFails, Admissible, Arrives, Respond, TypeOK, Replies,
         HistoryOK, MemoryOK, OneRunPerOperation, RunningNotRetained, StoppingAborts,
         Live, Lookup
<1>3. CASE RefuseRedelivery(r, e) \/ RefuseConflict(r, e) \/ RefuseActive(r, e)
  <2>1. /\ journal' \subseteq Live(journal, clock)
        /\ journal' \subseteq Entry /\ disk' \subseteq Entry /\ durable' \subseteq Entry
        /\ HistoryOK'
    BY <1>3, InspectStep DEF RefuseRedelivery, RefuseConflict, RefuseActive
  <2>2. QED
    BY <1>3, <2>1 DEF RefuseRedelivery, RefuseConflict, RefuseActive, Admissible,
         Arrives, Respond, TypeOK, Replies, MemoryOK, OneRunPerOperation,
         RunningNotRetained, StoppingAborts, Live, Lookup
<1>4. CASE Replay(r, e)
  <2>1. /\ journal' \subseteq Live(journal, clock)
        /\ journal' \subseteq Entry /\ disk' \subseteq Entry /\ durable' \subseteq Entry
        /\ HistoryOK'
    BY <1>4, InspectStep DEF Replay
  <2>2. r \notin running
    BY <1>4 DEF Replay, Admissible, Arrives, MemoryOK
  <2>3. \A op \in Ops : controllers[op] # r
    BY <2>2, DaemonAssumption DEF OneRunPerOperation, TypeOK
  <2>4. Found(e.op) \subseteq Entry
    BY JournalSubsets DEF Found, Lookup, TypeOK
  <2>5. QED
    BY <1>4, <2>1, <2>2, <2>3, <2>4, DaemonAssumption DEF Replay, Admissible, Arrives,
         Respond, Remember, TypeOK, Replies, MemoryOK, OneRunPerOperation, Entry,
         RunningNotRetained, StoppingAborts, Live, Lookup
<1>5. CASE Accept(r, e)
  <2>1. /\ journal' \subseteq Live(journal, clock)
        /\ journal' \subseteq Entry /\ disk' \subseteq Entry /\ durable' \subseteq Entry
        /\ HistoryOK'
    BY <1>5, InspectStep DEF Accept, Begin
  <2>2. r \notin running /\ up /\ ~stopping
    BY <1>5 DEF Accept, Begin, Admissible, Arrives, MemoryOK
  <2>3. \A op \in Ops : controllers[op] # r
    BY <2>2, DaemonAssumption DEF OneRunPerOperation, TypeOK
  <2>4. envelope' = [envelope EXCEPT ![r] = e] /\ envelope'[r] = e /\ e.op \in Ops /\ e # None
    BY <1>5, DaemonAssumption DEF Accept, Begin, Remember, TypeOK, Envelope
  <2>5. TypeOK' /\ MemoryOK' /\ StoppingAborts'
    BY <1>5, <2>1, <2>2, <2>4 DEF Accept, Begin, Respond, TypeOK, Replies, MemoryOK,
         StoppingAborts
  <2>6. OneRunPerOperation'
    BY <1>5, <2>3, <2>4, DaemonAssumption DEF Accept, Begin, OneRunPerOperation, TypeOK
  <2>7. Lookup(Live(journal', clock), e.op) = {}
    BY <1>5 DEF Accept, Begin, Inspect, Found, Lookup, Live
  <2>8. RunningNotRetained'
    BY <1>5, <2>1, <2>4, <2>7, <2>2 DEF Accept, Begin, RunningNotRetained, Lookup, Live, TypeOK
  <2>9. QED
    BY <2>1, <2>5, <2>6, <2>8
<1>6. QED
  BY <1>1, <1>2, <1>3, <1>4, <1>5 DEF Handle
\* Freeing the operation of a run that settled keeps the bookkeeping exact.
LEMMA ReleaseStep ==
    ASSUME IInv, NEW r \in running, Release(r), UNCHANGED <<up, stopping, envelope>>,
           NEW kind \in Replies, Respond(r, kind)
    PROVE  /\ envelope[r] \in Envelope
           /\ controllers' \in [Ops -> Requests \cup {None}]
           /\ running' \subseteq Requests /\ aborted' \subseteq Requests
           /\ reply' \in [Requests -> Replies]
           /\ MemoryOK'
           /\ OneRunPerOperation'
           /\ StoppingAborts'
           /\ \A q \in running' : q \in running /\ envelope[q].op # envelope[r].op
<1> USE DEF IInv
<1>1. r \in Requests /\ envelope[r] \in Envelope /\ envelope[r].op \in Ops
  BY DEF TypeOK, OneRunPerOperation, Envelope
<1>2. \A q \in running' : q \in running /\ q # r /\ envelope[q].op # envelope[r].op
  BY DEF Release, OneRunPerOperation
<1>3. /\ controllers' \in [Ops -> Requests \cup {None}]
      /\ running' \subseteq Requests /\ aborted' \subseteq Requests
      /\ reply' \in [Requests -> Replies]
  BY <1>1 DEF Release, Respond, TypeOK
<1>4. MemoryOK'
  BY <1>1, <1>2, <1>3, DaemonAssumption DEF Release, Respond, MemoryOK, TypeOK
<1>5. OneRunPerOperation'
  BY <1>1, <1>2, DaemonAssumption DEF Release, OneRunPerOperation, TypeOK
<1>6. StoppingAborts'
  BY DEF Release, StoppingAborts
<1>7. QED
  BY <1>1, <1>2, <1>3, <1>4, <1>5, <1>6

\* Storing the outcome of a run keeps the history in order, and puts no entry of
\* another operation into the journal.
LEMMA PutStep ==
    ASSUME TypeOK, HistoryOK, NEW r \in running, envelope[r] \in Envelope,
           completed' = completed \cup {Outcome(r)}
    PROVE  /\ Put(journal, Outcome(r), clock) \subseteq Live(journal, clock) \cup {Outcome(r)}
           /\ Put(journal, Outcome(r), clock) \subseteq completed'
           /\ completed' \subseteq Entry
           /\ IsFiniteSet(completed')
           /\ \A e \in completed' : e.stamp <= Cardinality(completed')
           /\ Outcome(r).op = envelope[r].op
<1>1. Put(journal, Outcome(r), clock) \subseteq Live(journal, clock) \cup {Outcome(r)}
  BY JournalSubsets
<1>2. Put(journal, Outcome(r), clock) \subseteq completed'
  BY <1>1 DEF Live, HistoryOK
<1>3. /\ Outcome(r) \in Entry
      /\ \A e \in completed : e.stamp < Outcome(r).stamp
      /\ IsFiniteSet(completed')
      /\ Cardinality(completed') = Outcome(r).stamp
  BY OutcomeType
<1>4. \A e \in completed' : e.stamp <= Cardinality(completed')
  BY <1>3 DEF TypeOK, Entry
<1>5. QED
  BY <1>1, <1>2, <1>3, <1>4 DEF TypeOK, Outcome

LEMMA SettleStep ==
    ASSUME IInv, NEW r \in Requests, Settle(r)
    PROVE  IInv'
<1> USE DEF IInv
<1>1. r \in running
  BY DEF Settle, Finish, FinishUnsaved, RunFails
<1>2. envelope[r] \in Envelope
  BY <1>1 DEF TypeOK, OneRunPerOperation
<1>3. CASE Finish(r)
  <2>1. PICK kind \in Replies : Respond(r, kind)
    BY <1>3 DEF Finish, Replies
  <2>2. /\ controllers' \in [Ops -> Requests \cup {None}]
        /\ running' \subseteq Requests /\ aborted' \subseteq Requests
        /\ reply' \in [Requests -> Replies]
        /\ MemoryOK' /\ OneRunPerOperation' /\ StoppingAborts'
        /\ \A q \in running' : q \in running /\ envelope[q].op # envelope[r].op
    BY <1>1, <1>3, <2>1, ReleaseStep DEF Finish
  <2>3. /\ journal' \subseteq Live(journal, clock) \cup {Outcome(r)}
        /\ journal' \subseteq completed'
        /\ completed' \subseteq Entry
        /\ IsFiniteSet(completed')
        /\ \A e \in completed' : e.stamp <= Cardinality(completed')
        /\ Outcome(r).op = envelope[r].op
    BY <1>1, <1>2, <1>3, PutStep DEF Finish, Journalled
  <2>4. disk' = journal' /\ durable' = durable \cup journal'
    BY <1>3 DEF Finish, Save, Journalled
  <2>5. HistoryOK'
    BY <1>3, <2>3, <2>4 DEF Finish, Journalled, HistoryOK
  <2>6. Outcome(r).stamp \in Nat
    BY FS_CardinalityType DEF Outcome, HistoryOK
  <2>7. TypeOK'
    BY <1>3, <2>2, <2>3, <2>4, <2>6 DEF Finish, TypeOK
  <2>8. RunningNotRetained'
    BY <1>3, <2>2, <2>3 DEF Finish, RunningNotRetained, Lookup, Live
  <2>9. QED
    BY <2>2, <2>5, <2>7, <2>8
<1>4. CASE FinishUnsaved(r)
  <2>1. PICK kind \in Replies : Respond(r, kind)
    BY <1>4 DEF FinishUnsaved, Replies
  <2>2. /\ controllers' \in [Ops -> Requests \cup {None}]
        /\ running' \subseteq Requests /\ aborted' \subseteq Requests
        /\ reply' \in [Requests -> Replies]
        /\ MemoryOK' /\ OneRunPerOperation' /\ StoppingAborts'
        /\ \A q \in running' : q \in running /\ envelope[q].op # envelope[r].op
    BY <1>1, <1>4, <2>1, ReleaseStep DEF FinishUnsaved
  <2>3. /\ journal' \subseteq Live(journal, clock) \cup {Outcome(r)}
        /\ journal' \subseteq completed'
        /\ completed' \subseteq Entry
        /\ IsFiniteSet(completed')
        /\ \A e \in completed' : e.stamp <= Cardinality(completed')
        /\ Outcome(r).op = envelope[r].op
    BY <1>1, <1>2, <1>4, PutStep DEF FinishUnsaved, Journalled
  <2>4. HistoryOK'
    BY <1>4, <2>3 DEF FinishUnsaved, Journalled, HistoryOK
  <2>5. TypeOK'
    BY <1>4, <2>2, <2>3 DEF FinishUnsaved, TypeOK
  <2>6. RunningNotRetained'
    BY <1>4, <2>2, <2>3 DEF FinishUnsaved, RunningNotRetained, Lookup, Live
  <2>7. QED
    BY <2>2, <2>4, <2>5, <2>6
<1>5. CASE RunFails(r)
  <2>1. PICK kind \in Replies : Respond(r, kind)
    BY <1>5 DEF RunFails, Replies
  <2>2. /\ controllers' \in [Ops -> Requests \cup {None}]
        /\ running' \subseteq Requests /\ aborted' \subseteq Requests
        /\ reply' \in [Requests -> Replies]
        /\ MemoryOK' /\ OneRunPerOperation' /\ StoppingAborts'
        /\ \A q \in running' : q \in running /\ envelope[q].op # envelope[r].op
    BY <1>1, <1>5, <2>1, ReleaseStep DEF RunFails
  <2>3. QED
    BY <1>5, <2>2 DEF RunFails, TypeOK, HistoryOK, RunningNotRetained, Lookup, Live
<1>6. QED
  BY <1>3, <1>4, <1>5 DEF Settle

\* A process that dies leaves an empty memory behind.
LEMMA DieStep ==
    ASSUME IInv, Die, UNCHANGED <<stopping, boot, clock, envelope, answer>>
    PROVE  /\ up' \in BOOLEAN /\ running' = {} /\ aborted' = {} /\ journal' = {}
           /\ controllers' \in [Ops -> Requests \cup {None}]
           /\ reply' \in [Requests -> Replies]
           /\ MemoryOK' /\ OneRunPerOperation' /\ RunningNotRetained' /\ StoppingAborts'
<1>1. reply' \in [Requests -> Replies]
  BY DEF Die, IInv, TypeOK, Replies
<1>2. \A r \in Requests : reply'[r] \in {"accepted", "done"} => envelope'[r] # None
  BY DEF Die, IInv, MemoryOK
<1>3. QED
  BY <1>1, <1>2 DEF Die, MemoryOK, OneRunPerOperation, RunningNotRetained, StoppingAborts

LEMMA CrashStep ==
    ASSUME IInv, Crash \/ \E r \in Requests : CrashBeforeReply(r)
    PROVE  IInv'
<1> USE DEF IInv
<1>1. /\ up' \in BOOLEAN /\ running' = {} /\ aborted' = {} /\ journal' = {}
      /\ controllers' \in [Ops -> Requests \cup {None}]
      /\ reply' \in [Requests -> Replies]
      /\ MemoryOK' /\ OneRunPerOperation' /\ RunningNotRetained' /\ StoppingAborts'
  BY DieStep DEF Crash, CrashBeforeReply
<1>2. CASE Crash
  BY <1>1, <1>2 DEF Crash, TypeOK, HistoryOK
<1>3. ASSUME NEW r \in Requests, CrashBeforeReply(r)
      PROVE  IInv'
  <2>1. r \in running /\ envelope[r] \in Envelope
    BY <1>3 DEF CrashBeforeReply, TypeOK, OneRunPerOperation
  <2>2. /\ Put(journal, Outcome(r), clock) \subseteq completed'
        /\ completed' \subseteq Entry
        /\ IsFiniteSet(completed')
        /\ \A e \in completed' : e.stamp <= Cardinality(completed')
    BY <1>3, <2>1, PutStep DEF CrashBeforeReply
  <2>3. HistoryOK' /\ TypeOK'
    BY <1>1, <1>3, <2>2 DEF CrashBeforeReply, Save, HistoryOK, TypeOK
  <2>4. QED
    BY <1>1, <2>3
<1>4. QED
  BY <1>2, <1>3
LEMMA RestartStep ==
    ASSUME IInv, Restart
    PROVE  IInv'
<1> USE DEF IInv
<1>1. Prune(disk, clock) \subseteq disk
  BY JournalSubsets
<1>2. running = {} /\ aborted = {} /\ up' /\ ~stopping'
  BY DEF Restart, MemoryOK
<1>3. TypeOK'
  <2>1. up' \in BOOLEAN /\ stopping' \in BOOLEAN
    BY Zenon DEF Restart
  <2>2. boot' = boot + 1 /\ boot \in Nat
    BY Zenon DEF Restart, TypeOK
  <2>3. journal' \subseteq Entry /\ disk' \subseteq Entry /\ durable' \subseteq Entry
    BY <1>1 DEF Restart, Save, TypeOK
  <2>4. QED
    BY <2>1, <2>2, <2>3 DEF Restart, TypeOK
<1>4. HistoryOK'
  BY <1>1 DEF Restart, Save, HistoryOK
<1>5. MemoryOK' /\ OneRunPerOperation' /\ RunningNotRetained' /\ StoppingAborts'
  BY <1>2 DEF Restart, MemoryOK, OneRunPerOperation, RunningNotRetained, StoppingAborts
<1>6. QED
  BY <1>3, <1>4, <1>5

\* Cancelling, stopping and the passing of time.
LEMMA ControlStep ==
    ASSUME IInv, (\E op \in Ops : Cancel(op)) \/ Shutdown \/ Terminate \/ Tick
    PROVE  IInv'
<1> USE DEF IInv
<1>1. ASSUME NEW op \in Ops, Cancel(op)
      PROVE  IInv'
  BY <1>1 DEF Cancel, TypeOK, HistoryOK, MemoryOK, OneRunPerOperation,
       RunningNotRetained, StoppingAborts, Lookup, Live
<1>2. CASE Shutdown
  <2>1. running = {}
    BY <1>2, DaemonAssumption DEF Shutdown, OneRunPerOperation, TypeOK, Envelope
  <2>2. QED
    BY <1>2, <2>1 DEF Shutdown, TypeOK, HistoryOK, MemoryOK, OneRunPerOperation,
         RunningNotRetained, StoppingAborts
<1>3. CASE Terminate
  <2>1. aborted' = running
    BY <1>3, DaemonAssumption DEF Terminate, OneRunPerOperation, TypeOK, Envelope
  <2>2. QED
    BY <1>3, <2>1 DEF Terminate, TypeOK, HistoryOK, MemoryOK, OneRunPerOperation,
         RunningNotRetained, StoppingAborts, Lookup, Live
<1>4. CASE Tick
  <2>1. Live(journal, clock') \subseteq Live(journal, clock)
    BY <1>4 DEF Tick, Live, TypeOK, Entry
  <2>2. RunningNotRetained'
    BY <1>4, <2>1 DEF Tick, RunningNotRetained, Lookup
  <2>3. QED
    BY <1>4, <2>2 DEF Tick, TypeOK, HistoryOK, MemoryOK, OneRunPerOperation, StoppingAborts
<1>5. QED
  BY <1>1, <1>2, <1>3, <1>4

-------------------------------------------------------------------------------
LEMMA InitIInv == Init => IInv
<1> SUFFICES ASSUME Init PROVE IInv
  OBVIOUS
<1>1. TypeOK
  BY DEF Init, TypeOK, Replies
<1>2. HistoryOK
  BY FS_EmptySet DEF Init, HistoryOK
<1>3. MemoryOK /\ OneRunPerOperation /\ RunningNotRetained /\ StoppingAborts
  BY DEF Init, MemoryOK, OneRunPerOperation, RunningNotRetained, StoppingAborts
<1>4. QED
  BY <1>1, <1>2, <1>3 DEF IInv

LEMMA NextIInv == IInv /\ [Next]_vars => IInv'
<1> SUFFICES ASSUME IInv, [Next]_vars PROVE IInv'
  OBVIOUS
<1>1. CASE UNCHANGED vars
  BY <1>1 DEF vars, IInv, TypeOK, HistoryOK, MemoryOK, OneRunPerOperation,
       RunningNotRetained, StoppingAborts
<1>2. CASE \E r \in Requests, e \in Envelope : Handle(r, e)
  BY <1>2, HandleStep
<1>3. CASE \E r \in Requests : Settle(r)
  BY <1>3, SettleStep
<1>4. CASE Crash \/ \E r \in Requests : CrashBeforeReply(r)
  BY <1>4, CrashStep
<1>5. CASE Restart
  BY <1>5, RestartStep
<1>6. CASE (\E op \in Ops : Cancel(op)) \/ Shutdown \/ Terminate \/ Tick
  BY <1>6, ControlStep
<1>7. QED
  BY <1>1, <1>2, <1>3, <1>4, <1>5, <1>6 DEF Next

\* The inductive invariant holds in every state of the daemon.
THEOREM Inductive == Spec => []IInv
  BY InitIInv, NextIInv, PTL DEF Spec

\* Every variable of the daemon keeps its type.
THEOREM TypeCorrect == Spec => []TypeOK
<1>1. IInv => TypeOK
  BY DEF IInv
<1>2. QED
  BY <1>1, Inductive, PTL

\* No operation id is ever executed twice at once, whatever requests, cancels,
\* crashes and restarts come in between (daemon.mjs 123-134 and 160).
THEOREM ExclusiveRuns == Spec => []OneRunPerOperation
<1>1. IInv => OneRunPerOperation
  BY DEF IInv
<1>2. QED
  BY <1>1, Inductive, PTL

\* A running operation has no outcome that could be replayed, so the journal
\* check and the active check of handle() never contradict each other.
THEOREM RunningNeverRetained == Spec => []RunningNotRetained
<1>1. IInv => RunningNotRetained
  BY DEF IInv
<1>2. QED
  BY <1>1, Inductive, PTL

\* A stopping gateway runs nothing that was not told to stop.
THEOREM StoppingGateway == Spec => []StoppingAborts
<1>1. IInv => StoppingAborts
  BY DEF IInv
<1>2. QED
  BY <1>1, Inductive, PTL
-------------------------------------------------------------------------------
\* put() never prunes the outcome it is given: it is live, and the newest.
LEMMA PutKeeps ==
    ASSUME TypeOK, HistoryOK, NEW r \in running, envelope[r] \in Envelope
    PROVE  Outcome(r) \in Put(journal, Outcome(r), clock)
<1> DEFINE e == Outcome(r)
           pruned == Prune(journal, clock)
           held == (pruned \ Lookup(pruned, e.op)) \cup {e}
<1>1. /\ e \in Entry
      /\ \A f \in completed : f.stamp < e.stamp
  BY OutcomeType
<1>2. \A f \in held : f = e \/ f \in completed
  BY JournalSubsets DEF HistoryOK
<1>3. e \in Live(held, clock)
  BY JournalAssumption DEF Live, Outcome, TypeOK
<1>4. Newer(Live(held, clock), e) = {}
  BY <1>1, <1>2 DEF Newer, Live, Entry, TypeOK
<1>5. Cardinality(Newer(Live(held, clock), e)) < JournalLimit
  BY <1>4, FS_EmptySet, JournalAssumption
<1>6. e \in Prune(held, clock)
  BY <1>3, <1>5 DEF Prune, Evict
<1>7. QED
  BY <1>6 DEF Put

\* An ok response to a request's own run is sent only after the outcome was in
\* operations.json (daemon.mjs 154 before 156, journal.mjs 66-71).
THEOREM DoneDurable == Spec => []DoneIsDurable
<1>1. Init => DoneIsDurable
  BY DEF Init, DoneIsDurable
<1>2. IInv /\ DoneIsDurable /\ [Next]_vars => DoneIsDurable'
  <2> SUFFICES ASSUME IInv, DoneIsDurable, [Next]_vars,
                      NEW r \in Requests, reply'[r] = "done"
               PROVE  \E e \in durable' : e.stamp = answer'[r] /\ e.op = envelope'[r].op
    BY DEF DoneIsDurable
  <2> USE DEF IInv
  <2>1. durable \subseteq durable'
    BY DEF Next, vars, Handle, Settle, RefuseStopping, RefuseMisbound, InspectFails,
         RefuseRedelivery, RefuseConflict, Replay, RefuseActive, Accept, Begin, Inspect, Save,
         Finish, FinishUnsaved, RunFails, CrashBeforeReply, Cancel, Shutdown, Terminate,
         Crash, Restart, Tick
  <2>2. CASE reply[r] = "done"
    <3>1. envelope'[r] = envelope[r] /\ answer'[r] = answer[r]
      BY <2>2 DEF Next, vars, Handle, Settle, RefuseStopping, RefuseMisbound,
           InspectFails, RefuseRedelivery, RefuseConflict, Replay, RefuseActive, Accept, Begin,
           Admissible, Arrives, Remember, TypeOK, MemoryOK,
           Finish, FinishUnsaved, RunFails, CrashBeforeReply, Cancel, Shutdown,
           Terminate, Crash, Restart, Tick
    <3>2. QED
      BY <2>1, <2>2, <3>1 DEF DoneIsDurable
  <2>3. CASE reply[r] # "done"
    <3>1. Finish(r)
      BY <2>3 DEF Next, vars, Handle, Settle, RefuseStopping, RefuseMisbound,
           InspectFails, RefuseRedelivery, RefuseConflict, Replay, RefuseActive, Accept, Begin,
           Respond, Die, TypeOK,
           Finish, FinishUnsaved, RunFails, CrashBeforeReply, Cancel, Shutdown,
           Terminate, Crash, Restart, Tick
    <3>2. envelope[r] \in Envelope
      BY <3>1 DEF Finish, TypeOK, OneRunPerOperation
    <3>3. Outcome(r) \in durable'
      BY <3>1, <3>2, PutKeeps DEF Finish, Save
    <3>4. Outcome(r).stamp = answer'[r] /\ Outcome(r).op = envelope'[r].op
      BY <3>1 DEF Finish, Outcome, TypeOK
    <3>5. QED
      BY <3>3, <3>4
  <2>4. QED
    BY <2>2, <2>3
<1>3. QED
  BY <1>1, <1>2, Inductive, PTL DEF Spec

-------------------------------------------------------------------------------
(* The journal. *)

\* What a journal j owes to the outcomes it knows, among all there are: those in
\* their window are in j, and what it would replay is not older than one it knows.
Faithful(j, known, all, now) ==
    /\ \A e \in known : /\ e.expiresAt > now
                        /\ Cardinality(Newer(all, e)) < JournalLimit
                        => e \in j
    /\ \A f \in Live(j, now), g \in known : g.op = f.op => g.stamp <= f.stamp

\* A Map has one entry per key.
OnePerOp(j) == \A e, f \in j : e.op = f.op => e = f

\* What the process in memory may know: its own outcomes and those of the file.
Known == {e \in completed : e.boot = boot \/ e \in durable}

\* The stamps number the outcomes, and no outcome is of a boot to come.
StampsOK ==
    /\ \A e, f \in completed : e.stamp = f.stamp => e = f
    /\ \A e \in completed : e.boot <= boot /\ e.stamp > 0

\* The second inductive invariant, on top of IInv.
JInv ==
    /\ StampsOK
    /\ JournalBounded
    /\ Faithful(disk, durable, completed, clock)
    /\ up => Faithful(journal, Known, completed, clock)

\* The outcomes of another operation are not touched by put(), and prune() drops
\* only what its window does not hold: the entries that expired and those with at
\* least as many newer ones as the limit.
LEMMA EvictBounded ==
    ASSUME NEW j, IsFiniteSet(j), \A e \in j : e.stamp \in Nat,
           \A e, f \in j : e.stamp = f.stamp => e = f
    PROVE  IsFiniteSet(Evict(j)) /\ Cardinality(Evict(j)) <= JournalLimit
<1> DEFINE rank == [e \in Evict(j) |-> Cardinality(Newer(j, e))]
           places == 0..(JournalLimit - 1)
<1>1. IsFiniteSet(places) /\ Cardinality(places) = JournalLimit
  <2>1. PICK last \in Nat : last = JournalLimit - 1
    BY JournalAssumption
  <2>2. last \in Int /\ 0 \in Int /\ ~(0 > last) /\ last - 0 + 1 = JournalLimit
    BY <2>1, JournalAssumption
  <2>3. IsFiniteSet(0..last) /\ Cardinality(0..last) = IF 0 > last THEN 0 ELSE last - 0 + 1
    BY <2>2, FS_Interval
  <2>4. QED
    BY <2>1, <2>2, <2>3
<1>2. \A e \in j : IsFiniteSet(Newer(j, e)) /\ Cardinality(Newer(j, e)) \in Nat
  BY FS_Subset, FS_CardinalityType DEF Newer
<1>3. rank \in [Evict(j) -> places]
  BY <1>2, JournalAssumption DEF Evict
<1>4. ASSUME NEW e \in Evict(j), NEW f \in Evict(j), e.stamp < f.stamp
      PROVE  rank[e] # rank[f]
  <2>1. Newer(j, f) \subseteq Newer(j, e) /\ f \in Newer(j, e) /\ f \notin Newer(j, f)
    BY <1>4 DEF Newer, Evict
  <2>2. Cardinality(Newer(j, f)) # Cardinality(Newer(j, e))
    BY <1>2, <2>1, FS_Subset DEF Evict
  <2>3. QED
    BY <2>2
<1>5. \A e, f \in Evict(j) : rank[e] = rank[f] => e = f
  <2> SUFFICES ASSUME NEW e \in Evict(j), NEW f \in Evict(j), e # f
               PROVE  rank[e] # rank[f]
    OBVIOUS
  <2>1. e.stamp < f.stamp \/ f.stamp < e.stamp
    BY DEF Evict
  <2>2. QED
    BY <1>4, <2>1
<1>6. rank \in Injection(Evict(j), places)
  BY <1>3, <1>5 DEF Injection, IsInjective
<1>7. QED
  BY <1>1, <1>6, FS_Injection

\* A newer outcome is also newer among more outcomes.
LEMMA NewerGrows ==
    ASSUME NEW j, NEW all, IsFiniteSet(all), j \subseteq all, NEW e
    PROVE  /\ IsFiniteSet(Newer(j, e))
           /\ Cardinality(Newer(j, e)) \in Nat /\ Cardinality(Newer(all, e)) \in Nat
           /\ Cardinality(Newer(j, e)) <= Cardinality(Newer(all, e))
<1>1. Newer(j, e) \subseteq Newer(all, e) /\ Newer(all, e) \subseteq all
  BY DEF Newer
<1>2. IsFiniteSet(Newer(all, e))
  BY <1>1, FS_Subset
<1>3. QED
  BY <1>1, <1>2, FS_Subset, FS_CardinalityType

\* Pruning keeps what the window holds.
LEMMA PruneFaithful ==
    ASSUME NEW j, NEW known, NEW all, NEW now, IsFiniteSet(all), j \subseteq all,
           Faithful(j, known, all, now)
    PROVE  Faithful(Prune(j, now), known, all, now)
<1>1. ASSUME NEW e \in known, e.expiresAt > now, Cardinality(Newer(all, e)) < JournalLimit
      PROVE  e \in Prune(j, now)
  <2>1. e \in Live(j, now)
    BY <1>1 DEF Faithful, Live
  <2>2. Live(j, now) \subseteq all
    BY DEF Live
  <2>3. Cardinality(Newer(Live(j, now), e)) < JournalLimit
    BY <1>1, <2>2, NewerGrows, JournalAssumption
  <2>4. QED
    BY <2>1, <2>3 DEF Prune, Evict
<1>2. Live(Prune(j, now), now) \subseteq Live(j, now)
  BY JournalSubsets DEF Live
<1>3. QED
  BY <1>1, <1>2 DEF Faithful

\* Learning what one holds, when each operation has one entry, owes nothing new.
LEMMA LearnOwn ==
    ASSUME NEW j, NEW known, NEW all, NEW now, NEW more, more \subseteq known \cup j,
           Faithful(j, known, all, now), OnePerOp(j), \A e \in j : e.stamp \in Nat
    PROVE  Faithful(j, more, all, now)
  BY DEF Faithful, OnePerOp, Live

\* An outcome more makes windows shorter; time makes them shorter, too.
LEMMA LaterFaithful ==
    ASSUME NEW j, NEW known, NEW all, NEW now \in Nat, NEW all2, NEW now2 \in Nat,
           IsFiniteSet(all2), all \subseteq all2, now <= now2,
           \A e \in j \cup known : e.expiresAt \in Nat,
           Faithful(j, known, all, now)
    PROVE  Faithful(j, known, all2, now2)
<1>1. ASSUME NEW e \in known, e.expiresAt > now2, Cardinality(Newer(all2, e)) < JournalLimit
      PROVE  e \in j
  <2>1. Cardinality(Newer(all, e)) < JournalLimit
    BY <1>1, NewerGrows, JournalAssumption
  <2>2. QED
    BY <1>1, <2>1 DEF Faithful
<1>2. Live(j, now2) \subseteq Live(j, now)
  BY DEF Live
<1>3. QED
  BY <1>1, <1>2 DEF Faithful

\* put() of the newest outcome, whose operation has no live entry.
LEMMA PutFaithful ==
    ASSUME NEW j, NEW known, NEW all, NEW now, NEW e,
           IsFiniteSet(all \cup {e}), j \subseteq all, known \subseteq all,
           Faithful(j, known, all, now), Lookup(Live(j, now), e.op) = {},
           e.expiresAt > now, \A f \in all : f.stamp \in Nat /\ f.stamp < e.stamp,
           e.stamp \in Nat
    PROVE  Faithful(Put(j, e, now), known \cup {e}, all \cup {e}, now)
<1> DEFINE pruned == Prune(j, now)
           held == (pruned \ Lookup(pruned, e.op)) \cup {e}
<1>1. IsFiniteSet(all)
  BY FS_Subset
<1>2. pruned \subseteq Live(j, now) /\ pruned \subseteq j
  BY JournalSubsets
<1>3. held = pruned \cup {e}
  BY <1>2 DEF Lookup
<1>4. Faithful(pruned, known, all, now)
  BY <1>1, PruneFaithful
<1>5. ASSUME NEW f \in known, f.expiresAt > now,
             Cardinality(Newer(all \cup {e}, f)) < JournalLimit
      PROVE  f \in held
  <2>1. Cardinality(Newer(all, f)) < JournalLimit
    BY <1>5, NewerGrows, JournalAssumption
  <2>2. QED
    BY <1>3, <1>4, <1>5, <2>1 DEF Faithful
<1>6. ASSUME NEW f \in Live(held, now), NEW g \in known \cup {e}, g.op = f.op
      PROVE  g.stamp <= f.stamp
  <2>1. CASE f = e
    BY <2>1
  <2>2. CASE f # e
    <3>1. f \in Live(j, now) /\ f \in Live(pruned, now)
      BY <1>2, <1>3, <2>2, <1>6 DEF Live
    <3>2. f.op # e.op
      BY <3>1 DEF Lookup
    <3>3. QED
      BY <1>4, <1>6, <3>1, <3>2 DEF Faithful
  <2>3. QED
    BY <2>1, <2>2
<1>7. Faithful(held, known \cup {e}, all \cup {e}, now)
  BY <1>3, <1>5, <1>6 DEF Faithful
<1>8. held \subseteq all \cup {e}
  BY <1>2, <1>3
<1>9. Faithful(Prune(held, now), known \cup {e}, all \cup {e}, now)
  BY <1>7, <1>8, PruneFaithful
<1>10. QED
  BY <1>9 DEF Put

\* prune() and put() leave one entry per operation, and no more than the limit.
LEMMA PruneBounded ==
    ASSUME NEW j, NEW now, OnePerOp(j), IsFiniteSet(j), \A f \in j : f.stamp \in Nat,
           \A f, g \in j : f.stamp = g.stamp => f = g
    PROVE  OnePerOp(Prune(j, now)) /\ Cardinality(Prune(j, now)) <= JournalLimit
<1>1. Live(j, now) \subseteq j /\ Prune(j, now) \subseteq j
  BY JournalSubsets DEF Live
<1>2. IsFiniteSet(Live(j, now))
  BY <1>1, FS_Subset
<1>3. Cardinality(Prune(j, now)) <= JournalLimit
  BY <1>1, <1>2, EvictBounded DEF Prune
<1>4. QED
  BY <1>1, <1>3 DEF OnePerOp

LEMMA PutBounded ==
    ASSUME NEW j, NEW now, NEW e, OnePerOp(j), IsFiniteSet(j \cup {e}),
           \A f \in j \cup {e} : f.stamp \in Nat,
           \A f, g \in j \cup {e} : f.stamp = g.stamp => f = g
    PROVE  OnePerOp(Put(j, e, now)) /\ Cardinality(Put(j, e, now)) <= JournalLimit
<1> DEFINE pruned == Prune(j, now)
           held == (pruned \ Lookup(pruned, e.op)) \cup {e}
<1>1. pruned \subseteq j
  BY JournalSubsets
<1>2. held \subseteq j \cup {e} /\ OnePerOp(held)
  BY <1>1 DEF OnePerOp, Lookup
<1>3. IsFiniteSet(held)
  BY <1>2, FS_Subset
<1>4. QED
  BY <1>2, <1>3, PruneBounded DEF Put

\* What IInv and JInv say about the journals, in the form the lemmas above need.
LEMMA JournalFacts ==
    ASSUME IInv, JInv
    PROVE  /\ IsFiniteSet(completed)
           /\ journal \subseteq completed /\ disk \subseteq durable /\ durable \subseteq completed
           /\ OnePerOp(journal) /\ OnePerOp(disk)
           /\ \A e \in completed : e.stamp \in Nat /\ e.expiresAt \in Nat /\ e.boot \in Nat
           /\ durable \subseteq Known /\ Known \subseteq completed
           /\ \A e, f \in completed : e.stamp = f.stamp => e = f
           /\ IsFiniteSet(journal)
           /\ clock \in Nat /\ boot \in Nat
  BY FS_Subset DEF StampsOK, IInv, JInv, TypeOK, HistoryOK, JournalBounded, OnePerOp, Known, Entry

LEMMA UnchangedJ ==
    ASSUME IInv, JInv, UNCHANGED <<up, boot, clock, journal, disk, completed, durable>>
    PROVE  JInv'
<1>1. Known' = Known
  BY DEF Known
<1>2. JournalBounded'
  BY DEF JInv, JournalBounded
<1>3. QED
  BY <1>1, <1>2 DEF JInv, StampsOK

\* The inspect() of handle().
LEMMA InspectJ ==
    ASSUME IInv, JInv, up, Inspect, UNCHANGED <<up, boot, clock, completed>>
    PROVE  JInv'
<1> USE JournalFacts
<1> DEFINE pruned == Prune(journal, clock)
<1>1. /\ journal' = pruned /\ pruned \subseteq journal
      /\ OnePerOp(pruned) /\ Cardinality(pruned) <= JournalLimit
  BY JournalSubsets, PruneBounded DEF Inspect
<1>2. Faithful(pruned, Known, completed, clock)
  BY PruneFaithful DEF JInv
<1>3. StampsOK'
  BY DEF JInv, StampsOK
<1>4. CASE pruned # journal
  <2>1. disk' = pruned /\ durable' = durable \cup pruned
    BY <1>4 DEF Inspect, Save
  <2>2. Known' \subseteq Known \cup pruned /\ durable' \subseteq Known \cup pruned
    BY <2>1 DEF Known
  <2>3. /\ Faithful(pruned, Known', completed, clock)
        /\ Faithful(pruned, durable', completed, clock)
    BY <1>1, <1>2, <2>2, LearnOwn
  <2>4. JournalBounded'
    BY <1>1, <2>1 DEF JournalBounded, OnePerOp
  <2>5. QED
    BY <1>1, <1>3, <2>1, <2>3, <2>4 DEF JInv
<1>5. CASE pruned = journal
  <2>1. disk' = disk /\ durable' = durable /\ journal' = journal
    BY <1>1, <1>5 DEF Inspect
  <2>2. JournalBounded' /\ Known' = Known
    BY <2>1 DEF JInv, JournalBounded, Known
  <2>3. QED
    BY <1>3, <2>1, <2>2 DEF JInv
<1>6. QED
  BY <1>4, <1>5

LEMMA HandleJ ==
    ASSUME IInv, JInv, NEW r \in Requests, NEW e \in Envelope, Handle(r, e)
    PROVE  JInv'
<1> USE JournalFacts
<1>1. CASE RefuseStopping(r, e) \/ RefuseMisbound(r, e)
  <2>1. UNCHANGED <<up, boot, clock, journal, disk, completed, durable>>
    BY <1>1 DEF RefuseStopping, RefuseMisbound
  <2>2. QED
    BY <2>1, UnchangedJ
<1>2. CASE InspectFails(r, e)
  <2>1. /\ OnePerOp(journal') /\ Cardinality(journal') <= JournalLimit
        /\ Faithful(journal', Known, completed, clock)
    BY <1>2, PruneBounded, PruneFaithful DEF InspectFails, Admissible, Arrives, JInv
  <2>2. UNCHANGED <<up, boot, clock, completed, disk, durable>>
    BY <1>2 DEF InspectFails
  <2>3. QED
    BY <2>1, <2>2 DEF JInv, StampsOK, JournalBounded, OnePerOp, Known
<1>3. CASE \/ RefuseRedelivery(r, e) \/ RefuseConflict(r, e) \/ Replay(r, e)
           \/ RefuseActive(r, e) \/ Accept(r, e)
  BY <1>3, InspectJ DEF RefuseRedelivery, RefuseConflict, Replay, RefuseActive, Accept,
       Begin, Admissible, Arrives
<1>4. QED
  BY <1>1, <1>2, <1>3 DEF Handle

\* The journal after put(), and what the process and the file then know.
LEMMA PutJ ==
    ASSUME IInv, JInv, up, NEW r \in running,
           completed' = completed \cup {Outcome(r)}, UNCHANGED <<boot, clock>>
    PROVE  LET put == Put(journal, Outcome(r), clock)
           IN  /\ Outcome(r) \in put /\ put \subseteq completed' /\ IsFiniteSet(completed')
               /\ OnePerOp(put) /\ Cardinality(put) <= JournalLimit
               /\ Faithful(put, Known \cup {Outcome(r)}, completed', clock)
               /\ StampsOK'
               /\ Outcome(r) \notin durable /\ Outcome(r).boot = boot
<1> USE JournalFacts
<1> DEFINE e == Outcome(r)
           put == Put(journal, e, clock)
<1>1. /\ TypeOK /\ HistoryOK /\ envelope[r] \in Envelope
      /\ Lookup(Live(journal, clock), envelope[r].op) = {}
  BY DEF IInv, TypeOK, OneRunPerOperation, RunningNotRetained
<1>2. /\ put \subseteq completed' /\ completed' \subseteq Entry /\ IsFiniteSet(completed')
      /\ e \in put /\ e.op = envelope[r].op
  BY <1>1, PutStep, PutKeeps
<1>3. /\ e \in Entry
      /\ \A f \in completed : f.stamp \in Nat /\ f.stamp < e.stamp
  BY <1>1, OutcomeType
<1>4. e.stamp \in Nat /\ e.expiresAt > clock /\ e.boot = boot /\ e.stamp > 0
  <2>1. Cardinality(completed) \in Nat
    BY FS_CardinalityType
  <2>2. QED
    BY <2>1, JournalAssumption DEF Outcome
<1>5. e \notin completed
  BY <1>3, <1>4
<1>6. \A f, g \in completed' : f.stamp = g.stamp => f = g
  BY <1>3, <1>4 DEF JInv, StampsOK
<1>7. OnePerOp(put) /\ Cardinality(put) <= JournalLimit
  <2>1. journal \cup {e} \subseteq completed'
    OBVIOUS
  <2>2. IsFiniteSet(journal \cup {e})
    BY <1>2, <2>1, FS_Subset
  <2>3. QED
    BY <1>2, <1>6, <2>1, <2>2, PutBounded DEF Entry
<1>8. Faithful(put, Known \cup {e}, completed \cup {e}, clock)
  <2>1. Faithful(journal, Known, completed, clock)
    BY DEF JInv
  <2>2. QED
    BY <1>1, <1>2, <1>3, <1>4, <2>1, PutFaithful
<1>9. StampsOK'
  BY <1>4, <1>6 DEF JInv, StampsOK
<1>10. QED
  BY <1>2, <1>4, <1>5, <1>7, <1>8, <1>9

LEMMA SettleJ ==
    ASSUME IInv, JInv, NEW r \in Requests, Settle(r)
    PROVE  JInv'
<1> USE JournalFacts
<1> DEFINE e == Outcome(r)
           put == Put(journal, e, clock)
<1>1. CASE Finish(r)
  <2>1. /\ up /\ r \in running /\ completed' = completed \cup {e}
        /\ UNCHANGED <<up, boot, clock>>
        /\ journal' = put /\ disk' = put /\ durable' = durable \cup put
    BY <1>1 DEF Finish, Journalled, Save
  <2>2. /\ e \in put /\ OnePerOp(put) /\ Cardinality(put) <= JournalLimit
        /\ Faithful(put, Known \cup {e}, completed', clock)
        /\ StampsOK' /\ put \subseteq completed' /\ IsFiniteSet(completed')
        /\ e.boot = boot
    BY <2>1, PutJ
  <2>3. Known' \subseteq (Known \cup {e}) \cup put /\ durable' \subseteq (Known \cup {e}) \cup put
    BY <2>1 DEF Known
  <2>4. \A f \in put : f.stamp \in Nat
    BY <1>1, <2>2, NextIInv DEF IInv, TypeOK, Entry, Next, Settle
  <2>5. /\ Faithful(put, Known', completed', clock)
        /\ Faithful(put, durable', completed', clock)
    BY <2>2, <2>3, <2>4, LearnOwn
  <2>6. JournalBounded'
    BY <2>1, <2>2 DEF JournalBounded, OnePerOp
  <2>7. QED
    BY <2>1, <2>2, <2>5, <2>6 DEF JInv
<1>2. CASE FinishUnsaved(r)
  <2>1. /\ up /\ r \in running /\ completed' = completed \cup {e}
        /\ UNCHANGED <<up, boot, clock, disk, durable>>
        /\ journal' = put
    BY <1>2 DEF FinishUnsaved, Journalled
  <2>2. /\ e \in put /\ OnePerOp(put) /\ Cardinality(put) <= JournalLimit
        /\ Faithful(put, Known \cup {e}, completed', clock)
        /\ StampsOK' /\ put \subseteq completed' /\ IsFiniteSet(completed')
        /\ e.boot = boot
    BY <2>1, PutJ
  <2>3. Known' = Known \cup {e}
    BY <2>1, <2>2 DEF Known
  <2>4. Faithful(disk, durable, completed', clock)
    BY <2>1, <2>2, LaterFaithful DEF JInv
  <2>5. JournalBounded'
    BY <2>1, <2>2 DEF JInv, JournalBounded, OnePerOp
  <2>6. QED
    BY <2>1, <2>2, <2>3, <2>4, <2>5 DEF JInv
<1>3. CASE RunFails(r)
  BY <1>3, UnchangedJ DEF RunFails
<1>4. QED
  BY <1>1, <1>2, <1>3 DEF Settle

LEMMA BothBounded ==
    ASSUME Cardinality(journal') <= JournalLimit, OnePerOp(journal'),
           Cardinality(disk') <= JournalLimit, OnePerOp(disk')
    PROVE  JournalBounded'
  BY DEF JournalBounded, OnePerOp

LEMMA CrashJ ==
    ASSUME IInv, JInv, Crash \/ \E r \in Requests : CrashBeforeReply(r)
    PROVE  JInv'
<1> USE JournalFacts
<1>1. ~up' /\ journal' = {} /\ UNCHANGED <<boot, clock>>
  BY DEF Crash, CrashBeforeReply, Die
<1>2. CASE Crash
  <2>1. UNCHANGED <<disk, completed, durable>>
    BY <1>2 DEF Crash
  <2>2. JournalBounded'
    BY <1>1, <2>1, FS_EmptySet, JournalAssumption DEF JInv, JournalBounded
  <2>3. QED
    BY <1>1, <2>1, <2>2 DEF JInv, StampsOK
<1>3. ASSUME NEW r \in Requests, CrashBeforeReply(r)
      PROVE  JInv'
  <2> DEFINE e == Outcome(r)
             put == Put(journal, e, clock)
  <2>1. /\ up /\ r \in running /\ completed' = completed \cup {e}
        /\ disk' = put /\ durable' = durable \cup put
    BY <1>3 DEF CrashBeforeReply, Save
  <2>2. /\ e \in put /\ OnePerOp(put) /\ Cardinality(put) <= JournalLimit
        /\ Faithful(put, Known \cup {e}, completed', clock)
        /\ StampsOK' /\ put \subseteq completed'
    BY <1>1, <2>1, PutJ
  <2>3. durable' \subseteq (Known \cup {e}) \cup put
    BY <2>1
  <2>4. \A f \in put : f.stamp \in Nat
    BY <1>3, <2>2, NextIInv DEF IInv, TypeOK, Entry, Next
  <2>5. Faithful(put, durable', completed', clock)
    BY <2>2, <2>3, <2>4, LearnOwn
  <2>6. JournalBounded'
    <3>1. Cardinality(journal') <= JournalLimit /\ OnePerOp(journal')
      BY <1>1, FS_EmptySet, JournalAssumption DEF OnePerOp
    <3>2. Cardinality(disk') <= JournalLimit /\ OnePerOp(disk')
      BY <2>1, <2>2
    <3>3. QED
      BY <3>1, <3>2, BothBounded
  <2>7. QED
    BY <1>1, <2>1, <2>2, <2>5, <2>6 DEF JInv
<1>4. QED
  BY <1>2, <1>3

\* A new process knows what the file held.
LEMMA RestartJ ==
    ASSUME IInv, JInv, Restart
    PROVE  JInv'
<1> USE JournalFacts
<1> DEFINE pruned == Prune(disk, clock)
<1>1. /\ journal' = pruned /\ disk' = pruned /\ durable' = durable \cup pruned
      /\ boot' = boot + 1 /\ UNCHANGED <<clock, completed>>
  BY DEF Restart, Save
<1>2. pruned \subseteq disk
  BY JournalSubsets
<1>3. durable' = durable
  BY <1>1, <1>2
<1>4. Known' = durable
  BY <1>1, <1>3 DEF Known, JInv, StampsOK
<1>5. Faithful(pruned, durable, completed, clock)
  BY PruneFaithful DEF JInv
<1>6. OnePerOp(pruned) /\ Cardinality(pruned) <= JournalLimit
  <2>1. IsFiniteSet(disk)
    BY FS_Subset
  <2>2. QED
    BY <2>1, PruneBounded
<1>7. JournalBounded'
  BY <1>1, <1>6 DEF JournalBounded, OnePerOp
<1>8. StampsOK'
  BY <1>1 DEF JInv, StampsOK
<1>9. QED
  BY <1>1, <1>3, <1>4, <1>5, <1>7, <1>8 DEF JInv

LEMMA ControlJ ==
    ASSUME IInv, JInv, (\E op \in Ops : Cancel(op)) \/ Shutdown \/ Terminate \/ Tick
    PROVE  JInv'
<1> USE JournalFacts
<1>1. CASE (\E op \in Ops : Cancel(op)) \/ Shutdown \/ Terminate
  BY <1>1, UnchangedJ DEF Cancel, Shutdown, Terminate
<1>2. CASE Tick
  <2>1. clock' = clock + 1 /\ UNCHANGED <<up, boot, journal, disk, completed, durable>>
    BY <1>2 DEF Tick
  <2>2. Known' = Known /\ JournalBounded' /\ StampsOK'
    BY <2>1 DEF JInv, Known, JournalBounded, StampsOK
  <2>3. Faithful(disk, durable, completed, clock')
    BY <2>1, LaterFaithful DEF JInv
  <2>4. up => Faithful(journal, Known, completed, clock')
    BY <2>1, LaterFaithful DEF JInv
  <2>5. QED
    BY <2>1, <2>2, <2>3, <2>4 DEF JInv
<1>3. QED
  BY <1>1, <1>2

LEMMA NextJInv == IInv /\ JInv /\ [Next]_vars => JInv'
<1> SUFFICES ASSUME IInv, JInv, [Next]_vars PROVE JInv'
  OBVIOUS
<1>1. CASE UNCHANGED vars
  BY <1>1, UnchangedJ DEF vars
<1>2. CASE \E r \in Requests, e \in Envelope : Handle(r, e)
  BY <1>2, HandleJ
<1>3. CASE \E r \in Requests : Settle(r)
  BY <1>3, SettleJ
<1>4. CASE Crash \/ \E r \in Requests : CrashBeforeReply(r)
  BY <1>4, CrashJ
<1>5. CASE Restart
  BY <1>5, RestartJ
<1>6. CASE (\E op \in Ops : Cancel(op)) \/ Shutdown \/ Terminate \/ Tick
  BY <1>6, ControlJ
<1>7. QED
  BY <1>1, <1>2, <1>3, <1>4, <1>5, <1>6 DEF Next

LEMMA InitJInv == Init => JInv
<1> SUFFICES ASSUME Init PROVE JInv
  OBVIOUS
<1>1. JournalBounded
  BY FS_EmptySet, JournalAssumption DEF Init, JournalBounded
<1>2. StampsOK
  BY DEF Init, StampsOK
<1>3. Faithful(disk, durable, completed, clock) /\ Faithful(journal, Known, completed, clock)
  BY DEF Init, Faithful, Known, Live
<1>4. QED
  BY <1>1, <1>2, <1>3 DEF JInv

\* The journal keeps its promises in every state of the daemon.
THEOREM JournalInductive == Spec => []JInv
  BY InitJInv, NextJInv, Inductive, PTL DEF Spec, InitIInv

\* The journal and its file hold one outcome per operation id and no more than the
\* limit, whatever is put, evicted, expired, saved or not saved, and loaded
\* (journal.mjs 37-52, 66-71).
THEOREM JournalIsBounded == Spec => []JournalBounded
<1>1. JInv => JournalBounded
  BY DEF JInv
<1>2. QED
  BY <1>1, JournalInductive, PTL

-------------------------------------------------------------------------------
(* The Map that the journal is. *)

\* Entries are numbered by their stamps.
Stamped(j) ==
    /\ IsFiniteSet(j)
    /\ \A e \in j : e.stamp \in Nat
    /\ \A e, f \in j : e.stamp = f.stamp => e = f

\* The Map m holds the entries of j, each once, in the order of their stamps.
Orders(m, j) ==
    /\ m \in Seq(j)
    /\ \A e \in j : \E i \in 1..Len(m) : m[i] = e
    /\ \A i, k \in 1..Len(m) : i < k => m[i].stamp < m[k].stamp

\* The entries before the one at a place are as many as the places before it, and
\* those after it as many as the places after it.
LEMMA PlacesCount ==
    ASSUME NEW j, Stamped(j), NEW m, Orders(m, j)
    PROVE  /\ Len(m) \in Nat /\ Len(m) = Cardinality(j)
           /\ \A i \in 1..Len(m) : m[i] \in j
           /\ \A i, k \in 1..Len(m) : m[i].stamp < m[k].stamp <=> i < k
           /\ \A i \in 1..Len(m) : /\ Cardinality(Older(j, m[i])) = i - 1
                                   /\ Cardinality(Newer(j, m[i])) = Len(m) - i
<1>1. Len(m) \in Nat /\ \A i \in 1..Len(m) : m[i] \in j
  BY LenProperties, ElementOfSeq DEF Orders
<1>2. \A i \in 1..Len(m) : m[i].stamp \in Nat
  BY <1>1 DEF Stamped
<1>3. ASSUME NEW i \in 1..Len(m), NEW k \in 1..Len(m)
      PROVE  m[i].stamp < m[k].stamp <=> i < k
  <2>1. PICK s \in Nat, t \in Nat : s = m[i].stamp /\ t = m[k].stamp
    BY <1>2
  <2>2. /\ i < k => s < t
        /\ k < i => t < s
        /\ i = k => s = t
    BY <2>1 DEF Orders
  <2>3. i \in Nat /\ k \in Nat
    BY <1>1
  <2>4. s < t <=> i < k
    BY <2>2, <2>3
  <2>5. QED
    BY <2>1, <2>4
<1>4. \A i, k \in 1..Len(m) : m[i] = m[k] => i = k
  <2>1. SUFFICES ASSUME NEW i \in 1..Len(m), NEW k \in 1..Len(m), i # k
                 PROVE  m[i] # m[k]
    OBVIOUS
  <2>2. i < k \/ k < i
    BY <1>1, <2>1
  <2>3. PICK s \in Nat, t \in Nat : s = m[i].stamp /\ t = m[k].stamp
    BY <1>2
  <2>4. s < t \/ t < s
    BY <2>2, <2>3 DEF Orders
  <2>5. QED
    BY <2>3, <2>4
<1>5. ASSUME NEW a \in Nat, NEW b \in Nat, a <= b, b <= Len(m), NEW S,
             S = {m[p] : p \in a + 1..b}
      PROVE  Cardinality(S) = b - a
  <2> DEFINE places == a + 1..b
             f == [p \in places |-> m[p]]
  <2>1. \A p \in places : p \in 1..Len(m)
    BY <1>1, <1>5
  <2>2. IsFiniteSet(places) /\ Cardinality(places) = b - a
    <3>1. PICK c \in Nat : c = a + 1
      OBVIOUS
    <3>2. c \in Int /\ b \in Int
      OBVIOUS
    <3>3. IsFiniteSet(c..b) /\ Cardinality(c..b) = IF c > b THEN 0 ELSE b - c + 1
      BY <3>2, FS_Interval
    <3>4. (IF c > b THEN 0 ELSE b - c + 1) = b - a
      BY <1>5, <3>1
    <3>5. QED
      BY <3>1, <3>3, <3>4
  <2>3. f \in Bijection(places, S)
    <3>1. f \in [places -> S]
      BY <1>5
    <3>2. \A p, q \in places : f[p] = f[q] => p = q
      BY <1>4, <2>1
    <3>3. \A e \in S : \E p \in places : f[p] = e
      BY <1>5
    <3>4. QED
      BY <3>1, <3>2, <3>3 DEF Bijection, Injection, Surjection, IsInjective
  <2>4. ExistsBijection(places, S)
    BY <2>3 DEF ExistsBijection
  <2> HIDE DEF places, f
  <2>5. QED
    BY <2>2, <2>4, FS_Bijection
<1>6. Len(m) = Cardinality(j)
  <2>0. PICK a \in Nat, b \in Nat : a = 0 /\ b = Len(m)
    BY <1>1
  <2>1. j = {m[p] : p \in a + 1..b}
    <3>1. \A e \in j : \E p \in 1..Len(m) : m[p] = e
      BY DEF Orders
    <3>2. QED
      BY <1>1, <2>0, <3>1
  <2>2. a <= b /\ b <= Len(m)
    BY <2>0
  <2>3. Cardinality(j) = b - a
    BY <1>5, <2>1, <2>2
  <2>4. QED
    BY <1>1, <2>0, <2>3
<1>7. ASSUME NEW i \in 1..Len(m)
      PROVE  /\ Cardinality(Older(j, m[i])) = i - 1
             /\ Cardinality(Newer(j, m[i])) = Len(m) - i
  <2>1. i \in Nat /\ i >= 1 /\ i <= Len(m)
    BY <1>1
  <2>2. PICK a \in Nat, b \in Nat : a = 0 /\ b = i - 1
    BY <2>1
  <2>3. ASSUME NEW e \in j
        PROVE  \E p \in 1..Len(m) : /\ m[p] = e
                                    /\ e.stamp < m[i].stamp <=> p < i
                                    /\ e.stamp > m[i].stamp <=> p > i
    <3>1. PICK p \in 1..Len(m) : m[p] = e
      BY DEF Orders
    <3>2. (m[p].stamp < m[i].stamp <=> p < i) /\ (m[i].stamp < m[p].stamp <=> i < p)
      BY <1>3
    <3>3. PICK s \in Nat, t \in Nat : s = m[i].stamp /\ t = m[p].stamp
      BY <1>2
    <3>4. QED
      BY <3>1, <3>2, <3>3
  <2>4. Older(j, m[i]) = {m[p] : p \in a + 1..b}
    <3>1. \A p \in a + 1..b : p \in 1..Len(m) /\ p < i
      BY <1>1, <2>1, <2>2
    <3>2. \A p \in 1..Len(m) : p < i => p \in a + 1..b
      BY <1>1, <2>1, <2>2
    <3>3. \A p \in a + 1..b : m[p] \in Older(j, m[i])
      BY <1>1, <1>3, <3>1 DEF Older
    <3>4. \A e \in Older(j, m[i]) : \E p \in a + 1..b : e = m[p]
      BY <2>3, <3>2 DEF Older
    <3>5. QED
      BY <3>3, <3>4
  <2>5. Newer(j, m[i]) = {m[p] : p \in i + 1..Len(m)}
    <3>1. \A p \in i + 1..Len(m) : p \in 1..Len(m) /\ i < p
      BY <1>1, <2>1
    <3>2. \A p \in 1..Len(m) : p > i => p \in i + 1..Len(m)
      BY <1>1, <2>1
    <3>3. ASSUME NEW p \in i + 1..Len(m)
          PROVE  m[p] \in Newer(j, m[i])
      <4>1. m[p] \in j /\ m[i].stamp < m[p].stamp
        BY <1>1, <1>3, <3>1
      <4>2. PICK s \in Nat, t \in Nat : s = m[i].stamp /\ t = m[p].stamp
        BY <1>2, <3>1
      <4>3. QED
        BY <4>1, <4>2 DEF Newer
    <3>4. \A e \in Newer(j, m[i]) : \E p \in i + 1..Len(m) : e = m[p]
      BY <2>3, <3>2 DEF Newer
    <3>5. QED
      BY <3>3, <3>4
  <2>6. Cardinality(Older(j, m[i])) = b - a
    <3>1. a <= b /\ b <= Len(m)
      BY <1>1, <2>1, <2>2
    <3>2. QED
      BY <1>5, <2>4, <3>1
  <2>7. Cardinality(Newer(j, m[i])) = Len(m) - i
    <3>1. PICK k \in Nat, n \in Nat : k = i /\ n = Len(m)
      BY <1>1, <2>1
    <3>2. k <= n /\ n <= Len(m)
      BY <2>1, <3>1
    <3>3. Newer(j, m[i]) = {m[p] : p \in k + 1..n}
      BY <2>5, <3>1
    <3>4. Cardinality(Newer(j, m[i])) = n - k
      BY <1>5, <3>2, <3>3
    <3>5. QED
      BY <3>1, <3>4
  <2>8. QED
    BY <2>2, <2>6, <2>7
<1>8. QED
  BY <1>1, <1>3, <1>6, <1>7

\* A later entry has more entries before it.
LEMMA OlderGrows ==
    ASSUME NEW j, Stamped(j)
    PROVE  /\ Cardinality(j) \in Nat
           /\ \A e \in j : Cardinality(Older(j, e)) \in 0..(Cardinality(j) - 1)
           /\ \A e, f \in j : e.stamp < f.stamp =>
                 Cardinality(Older(j, e)) < Cardinality(Older(j, f))
           /\ \A e, f \in j : Cardinality(Older(j, e)) = Cardinality(Older(j, f)) => e = f
<1>1. IsFiniteSet(j) /\ Cardinality(j) \in Nat
  BY FS_CardinalityType DEF Stamped
<1>2. \A e \in j : e.stamp \in Nat
  BY DEF Stamped
<1>3. ASSUME NEW e \in j
      PROVE  /\ IsFiniteSet(Older(j, e)) /\ Cardinality(Older(j, e)) \in Nat
             /\ Cardinality(Older(j, e)) < Cardinality(j)
  <2>1. Older(j, e) \in SUBSET j /\ Older(j, e) # j
    BY <1>2 DEF Older
  <2>2. /\ IsFiniteSet(Older(j, e)) /\ Cardinality(Older(j, e)) <= Cardinality(j)
        /\ Cardinality(j) # Cardinality(Older(j, e))
    BY <1>1, <2>1, FS_Subset
  <2>3. Cardinality(Older(j, e)) \in Nat
    BY <2>2, FS_CardinalityType
  <2>4. QED
    BY <1>1, <2>2, <2>3
<1>4. ASSUME NEW e \in j, NEW f \in j, e.stamp < f.stamp
      PROVE  Cardinality(Older(j, e)) < Cardinality(Older(j, f))
  <2>1. \A d \in j : d.stamp < e.stamp => d.stamp < f.stamp
    BY <1>2, <1>4
  <2>2. e \in Older(j, f) /\ e \notin Older(j, e)
    BY <1>2, <1>4 DEF Older
  <2>3. Older(j, e) \in SUBSET Older(j, f) /\ Older(j, e) # Older(j, f)
    BY <2>1, <2>2 DEF Older
  <2>4. IsFiniteSet(Older(j, f))
    BY <1>3
  <2>5. /\ Cardinality(Older(j, e)) <= Cardinality(Older(j, f))
        /\ Cardinality(Older(j, f)) # Cardinality(Older(j, e))
    BY <2>3, <2>4, FS_Subset
  <2>6. Cardinality(Older(j, e)) \in Nat /\ Cardinality(Older(j, f)) \in Nat
    BY <1>3
  <2>7. QED
    BY <2>5, <2>6
<1>5. ASSUME NEW e \in j, NEW f \in j, e # f
      PROVE  Cardinality(Older(j, e)) # Cardinality(Older(j, f))
  <2>1. e.stamp # f.stamp
    BY <1>5 DEF Stamped
  <2>2. e.stamp < f.stamp \/ f.stamp < e.stamp
    BY <1>2, <2>1
  <2>3. PICK a \in Nat, b \in Nat :
           a = Cardinality(Older(j, e)) /\ b = Cardinality(Older(j, f))
    BY <1>3
  <2>4. a < b \/ b < a
    BY <1>4, <2>2, <2>3
  <2>5. QED
    BY <2>3, <2>4
<1>6. ASSUME NEW e \in j
      PROVE  Cardinality(Older(j, e)) \in 0..(Cardinality(j) - 1)
  <2>1. PICK a \in Nat, b \in Nat : a = Cardinality(Older(j, e)) /\ b = Cardinality(j)
    BY <1>1, <1>3
  <2>2. a < b
    BY <1>3, <2>1
  <2>3. QED
    BY <2>1, <2>2
<1>7. QED
  BY <1>1, <1>4, <1>5, <1>6

\* The Map of a journal holds its entries in the order of their stamps.
LEMMA MapOrders ==
    ASSUME NEW j, Stamped(j)
    PROVE  Orders(MapOf(j), j)
<1> DEFINE rank == [e \in j |-> Cardinality(Older(j, e)) + 1]
<1>1. /\ Cardinality(j) \in Nat
      /\ \A e \in j : Cardinality(Older(j, e)) \in 0..(Cardinality(j) - 1)
      /\ \A e, f \in j : Cardinality(Older(j, e)) = Cardinality(Older(j, f)) => e = f
      /\ \A e, f \in j : e.stamp < f.stamp => Cardinality(Older(j, e)) < Cardinality(Older(j, f))
  BY OlderGrows
<1>2. PICK size \in Nat : size = Cardinality(j)
  BY <1>1
<1>3. \A e \in j : Cardinality(Older(j, e)) \in 0..(size - 1)
  BY <1>1, <1>2
<1>4. rank \in Injection(j, 1..size)
  <2>1. \A e \in j : rank[e] \in 1..size
    BY <1>3
  <2>2. ASSUME NEW e \in j, NEW f \in j, rank[e] = rank[f]
        PROVE  e = f
    <3>1. PICK a \in Nat, b \in Nat :
             a = Cardinality(Older(j, e)) /\ b = Cardinality(Older(j, f))
      BY <1>3
    <3>2. a = b
      BY <2>2, <3>1
    <3>3. QED
      BY <1>1, <3>1, <3>2
  <2>3. rank \in [j -> 1..size]
    BY <2>1
  <2> HIDE DEF rank
  <2>4. QED
    BY <2>2, <2>3 DEF Injection, IsInjective
<1>5. IsFiniteSet(1..size) /\ Cardinality(1..size) = size
  <2>1. size \in Int /\ 1 \in Int /\ (IF 1 > size THEN 0 ELSE size - 1 + 1) = size
    OBVIOUS
  <2>2. IsFiniteSet(1..size) /\ Cardinality(1..size) = IF 1 > size THEN 0 ELSE size - 1 + 1
    BY <2>1, FS_Interval
  <2>3. QED
    BY <2>1, <2>2
<1>6. rank \in Surjection(j, 1..size)
  <2> HIDE DEF rank
  <2>1. QED
    BY <1>2, <1>4, <1>5, FS_Injection
<1>7. \A i \in 1..size : \E e \in j : Cardinality(Older(j, e)) = i - 1
  <2>1. SUFFICES ASSUME NEW i \in 1..size
                 PROVE  \E e \in j : Cardinality(Older(j, e)) = i - 1
    OBVIOUS
  <2>2. PICK e \in j : rank[e] = i
    BY <1>6 DEF Surjection
  <2>3. PICK a \in Nat : a = Cardinality(Older(j, e))
    BY <1>3
  <2>4. a + 1 = i
    BY <2>2, <2>3
  <2>5. a = i - 1
    BY <2>4
  <2>6. QED
    BY <2>3, <2>5
<1> HIDE DEF rank
<1>8. PICK m : m = MapOf(j)
  OBVIOUS
<1>9. \A i \in 1..size : m[i] \in j /\ Cardinality(Older(j, m[i])) = i - 1
  BY <1>2, <1>7, <1>8 DEF MapOf
<1>10. m \in Seq(j) /\ Len(m) = size
  <2>1. m = [i \in 1..size |-> m[i]]
    BY <1>2, <1>8 DEF MapOf
  <2>2. m \in [1..size -> j]
    BY <1>9, <2>1
  <2>3. QED
    BY <2>2, SeqDef, LenProperties
<1>11. ASSUME NEW e \in j
       PROVE  \E i \in 1..size : m[i] = e
  <2>1. PICK a \in Nat : a = Cardinality(Older(j, e))
    BY <1>3
  <2>2. PICK i \in 1..size : i - 1 = a
    <3>1. a \in 0..(size - 1)
      BY <1>3, <2>1
    <3>2. a + 1 \in 1..size /\ (a + 1) - 1 = a
      BY <3>1
    <3>3. QED
      BY <3>2
  <2>3. m[i] \in j /\ Cardinality(Older(j, m[i])) = Cardinality(Older(j, e))
    BY <1>9, <2>1, <2>2
  <2>4. QED
    BY <1>1, <2>3
<1>12. ASSUME NEW i \in 1..size, NEW k \in 1..size, i < k
       PROVE  m[i].stamp < m[k].stamp
  <2>1. PICK e \in j, f \in j : e = m[i] /\ f = m[k]
    BY <1>9
  <2>2. Cardinality(Older(j, e)) = i - 1 /\ Cardinality(Older(j, f)) = k - 1
    BY <1>9, <2>1
  <2>3. e.stamp \in Nat /\ f.stamp \in Nat
    BY DEF Stamped
  <2>4. i \in Nat /\ k \in Nat
    OBVIOUS
  <2>5. ~(f.stamp < e.stamp)
    <3>1. ASSUME f.stamp < e.stamp PROVE k - 1 < i - 1
      BY <1>1, <2>2, <3>1
    <3>2. QED
      BY <1>12, <2>4, <3>1
  <2>6. f.stamp # e.stamp
    <3>1. ASSUME f.stamp = e.stamp PROVE k - 1 = i - 1
      <4>1. e = f
        BY <3>1 DEF Stamped
      <4>2. QED
        BY <2>2, <4>1
    <3>2. QED
      BY <1>12, <2>4, <3>1
  <2>7. e.stamp < f.stamp
    BY <2>3, <2>5, <2>6
  <2>8. QED
    BY <2>1, <2>7
<1>13. Orders(m, j)
  BY <1>10, <1>11, <1>12 DEF Orders
<1>14. QED
  BY <1>8, <1>13

\* No other Map does.
LEMMA OnlyMap ==
    ASSUME NEW j, Stamped(j), NEW m, Orders(m, j)
    PROVE  m = MapOf(j)
<1>1. /\ Len(m) \in Nat /\ Len(m) = Cardinality(j)
      /\ \A i \in 1..Len(m) : m[i] \in j
      /\ \A i \in 1..Len(m) : /\ Cardinality(Older(j, m[i])) = i - 1
                              /\ Cardinality(Newer(j, m[i])) = Len(m) - i
  BY PlacesCount
<1>2. \A e, f \in j : Cardinality(Older(j, e)) = Cardinality(Older(j, f)) => e = f
  BY OlderGrows
<1>3. ASSUME NEW i \in 1..Len(m)
      PROVE  m[i] = CHOOSE e \in j : Cardinality(Older(j, e)) = i - 1
  <2>1. PICK d : d = CHOOSE e \in j : Cardinality(Older(j, e)) = i - 1
    OBVIOUS
  <2>2. \E e \in j : Cardinality(Older(j, e)) = i - 1
    BY <1>1
  <2>3. d \in j /\ Cardinality(Older(j, d)) = i - 1
    BY <2>1, <2>2
  <2>4. m[i] = d
    BY <1>1, <1>2, <2>3
  <2>5. QED
    BY <2>1, <2>4
<1>4. m = [i \in 1..Len(m) |-> m[i]]
  BY <1>1, LenProperties DEF Orders
<1>5. QED
  BY <1>1, <1>3, <1>4 DEF MapOf

\* A part of a numbered journal is one.
LEMMA StampedPart ==
    ASSUME NEW j, Stamped(j), NEW k \in SUBSET j
    PROVE  Stamped(k)
<1>1. IsFiniteSet(k)
  BY FS_Subset DEF Stamped
<1>2. QED
  BY <1>1 DEF Stamped

\* The first loop of prune() leaves the live entries in their order.
LEMMA UnexpiredOrders ==
    ASSUME NEW j, Stamped(j), NEW m, Orders(m, j)
    PROVE  Orders(Unexpired(m), Live(j, clock))
<1> DEFINE at == {i \in 1..Len(m) : m[i].expiresAt > clock}
<1>1. /\ Len(m) \in Nat /\ \A i \in 1..Len(m) : m[i] \in j
      /\ \A i, k \in 1..Len(m) : m[i].stamp < m[k].stamp <=> i < k
  BY PlacesCount
<1>2. m \in Seq(j) /\ \A e \in j : \E i \in 1..Len(m) : m[i] = e
  BY DEF Orders
<1>3. \A p \in at : p \in 1..Len(m) /\ m[p] \in Live(j, clock)
  BY <1>1 DEF Live
<1>4. ASSUME NEW e \in Live(j, clock)
      PROVE  \E p \in at : m[p] = e
  BY <1>2 DEF Live
<1>5. at \in SUBSET (1..Len(m)) /\ Unexpired(m) = Picked(m, at)
  BY DEF Unexpired
<1> HIDE DEF at
<1>6. PICK n, pm : n = Cardinality(at) /\ pm = Picked(m, at)
  OBVIOUS
<1>7. /\ pm \in Seq(j) /\ Len(pm) = n /\ n \in 0..Len(m)
      /\ \A i \in 1..n : Nth(at, i) \in at /\ pm[i] = m[Nth(at, i)]
      /\ \A p \in at : \E i \in 1..n : Nth(at, i) = p
      /\ \A i, k \in 1..n : i < k => Nth(at, i) < Nth(at, k)
  <2>1. /\ Picked(m, at) \in Seq(j)
        /\ Len(Picked(m, at)) = Cardinality(at)
        /\ Cardinality(at) \in 0..Len(m)
        /\ \A i \in 1..Cardinality(at) :
              Nth(at, i) \in at /\ Picked(m, at)[i] = m[Nth(at, i)]
        /\ \A p \in at : \E i \in 1..Cardinality(at) : Nth(at, i) = p
        /\ \A i, k \in 1..Cardinality(at) : i < k => Nth(at, i) < Nth(at, k)
    BY <1>2, <1>5, PickedFacts
  <2>2. QED
    BY <1>6, <2>1
<1>8. n \in Nat /\ \A i \in 1..n : pm[i] \in Live(j, clock)
  BY <1>1, <1>3, <1>7
<1>9. pm \in Seq(Live(j, clock))
  <2>1. pm \in [1..n -> Live(j, clock)]
    <3>1. pm = [i \in 1..n |-> pm[i]]
      BY <1>7, LenProperties
    <3>2. QED
      BY <1>8, <3>1
  <2>2. QED
    BY <1>8, <2>1, SeqDef
<1>10. ASSUME NEW e \in Live(j, clock)
       PROVE  \E i \in 1..n : pm[i] = e
  <2>1. PICK p \in at : m[p] = e
    BY <1>4
  <2>2. PICK i \in 1..n : Nth(at, i) = p
    BY <1>7
  <2>3. QED
    BY <1>7, <2>1, <2>2
<1>11. ASSUME NEW i \in 1..n, NEW k \in 1..n, i < k
       PROVE  pm[i].stamp < pm[k].stamp
  <2>1. PICK p \in at, q \in at : p = Nth(at, i) /\ q = Nth(at, k)
    BY <1>7
  <2>2. pm[i] = m[p] /\ pm[k] = m[q] /\ p < q
    BY <1>7, <1>11, <2>1
  <2>3. m[p].stamp < m[q].stamp
    BY <1>1, <1>3, <2>2
  <2>4. QED
    BY <2>2, <2>3
<1>12. Orders(pm, Live(j, clock))
  BY <1>7, <1>9, <1>10, <1>11 DEF Orders
<1>13. QED
  BY <1>5, <1>6, <1>12

\* The second loop deletes the first entries down to the limit: the ones that have as
\* many entries after them.
LEMMA DropOldestOrders ==
    ASSUME NEW j, Stamped(j), NEW m, Orders(m, j)
    PROVE  Orders(DropOldest(m), Evict(j))
<1>1. /\ Len(m) \in Nat /\ \A i \in 1..Len(m) : m[i] \in j
      /\ \A i \in 1..Len(m) : Cardinality(Newer(j, m[i])) = Len(m) - i
      /\ \A i, k \in 1..Len(m) : m[i].stamp < m[k].stamp <=> i < k
  BY PlacesCount
<1>2. m \in Seq(j) /\ \A e \in j : \E i \in 1..Len(m) : m[i] = e
  BY DEF Orders
<1>3. PICK size \in Nat, limit \in Nat : size = Len(m) /\ limit = JournalLimit /\ limit >= 1
  BY <1>1, JournalAssumption
<1>4. ASSUME NEW n \in 0..size
      PROVE  /\ SubSeq(m, n + 1, size) \in Seq(j)
             /\ Len(SubSeq(m, n + 1, size)) = size - n
             /\ \A i \in 1..size - n : SubSeq(m, n + 1, size)[i] = m[n + i]
  <2>1. PICK a \in Nat : a = n + 1
    OBVIOUS
  <2>2. a \in Int /\ size \in Int /\ \A i \in a..size : m[i] \in j
    BY <1>1, <1>3, <2>1
  <2>3. /\ SubSeq(m, a, size) \in Seq(j)
        /\ Len(SubSeq(m, a, size)) = IF a <= size THEN size - a + 1 ELSE 0
        /\ \A i \in 1..size - a + 1 : SubSeq(m, a, size)[i] = m[a + i - 1]
    BY <2>2, SubSeqProperties
  <2>4. size - a + 1 = size - n /\ (IF a <= size THEN size - a + 1 ELSE 0) = size - n
    BY <2>1
  <2>5. \A i \in 1..size - n : a + i - 1 = n + i
    BY <2>1
  <2>6. QED
    BY <2>1, <2>3, <2>4, <2>5
<1>5. PICK d \in 0..size : /\ DropOldest(m) = SubSeq(m, d + 1, size)
                           /\ size - d <= limit
                           /\ \A k \in 0..d : k < d => size - k > limit
  <2> DEFINE Ends(n) == /\ ~(Len(SubSeq(m, n + 1, size)) > limit)
                        /\ \A k \in 0..n : k < n => Len(SubSeq(m, k + 1, size)) > limit
  <2>1. DropOldest(m) = SubSeq(m, (CHOOSE n \in 0..size : Ends(n)) + 1, size)
    BY <1>3 DEF DropOldest
  <2>2. ASSUME NEW n \in 0..size
        PROVE  Ends(n) <=> size - n <= limit /\ \A k \in 0..n : k < n => size - k > limit
    <3>1. \A k \in 0..n : Len(SubSeq(m, k + 1, size)) = size - k
      BY <1>4
    <3>2. Len(SubSeq(m, n + 1, size)) = size - n
      BY <1>4
    <3>3. QED
      BY <3>1, <3>2
  <2> HIDE DEF Ends
  <2>3. \E n \in 0..size : Ends(n)
    <3>1. PICK n \in 0..size : n = IF size <= limit THEN 0 ELSE size - limit
      BY <1>3
    <3>2. size - n <= limit
      BY <1>3, <3>1
    <3>3. \A k \in 0..n : k < n => size - k > limit
      BY <1>3, <3>1
    <3>4. QED
      BY <2>2, <3>2, <3>3
  <2>4. PICK d : d = CHOOSE n \in 0..size : Ends(n)
    OBVIOUS
  <2>5. d \in 0..size /\ Ends(d)
    BY <2>3, <2>4
  <2>6. QED
    BY <2>1, <2>2, <2>4, <2>5
<1>6. ASSUME NEW i \in 1..size
      PROVE  i > d <=> size - i < limit
  <2>1. CASE d = 0
    BY <1>5, <2>1
  <2>2. CASE d # 0
    <3>1. PICK k \in 0..d : k = d - 1
      BY <2>2
    <3>2. size - k > limit
      BY <1>5, <3>1
    <3>3. QED
      BY <1>3, <1>5, <3>1, <3>2
  <2>3. QED
    BY <2>1, <2>2
<1>7. ASSUME NEW i \in 1..size
      PROVE  i > d <=> m[i] \in Evict(j)
  <2>1. Cardinality(Newer(j, m[i])) = size - i /\ m[i] \in j
    BY <1>1, <1>3
  <2>2. m[i] \in Evict(j) <=> size - i < limit
    BY <1>3, <2>1 DEF Evict
  <2>3. QED
    BY <1>6, <2>2
<1>a. PICK left : left = SubSeq(m, d + 1, size)
  OBVIOUS
<1>8. PICK n \in Nat : n = size - d
  OBVIOUS
<1>9. left \in Seq(j) /\ Len(left) = n /\ \A i \in 1..n : left[i] = m[d + i]
  BY <1>4, <1>8, <1>a
<1>10. \A i \in 1..n : d + i \in 1..size /\ d + i > d
  BY <1>8
<1>11. left \in Seq(Evict(j))
  <2>1. \A i \in 1..n : left[i] \in Evict(j)
    BY <1>7, <1>9, <1>10
  <2>2. left = [i \in 1..n |-> left[i]]
    BY <1>9, LenProperties
  <2>3. left \in [1..n -> Evict(j)]
    BY <2>1, <2>2
  <2>4. QED
    BY <2>3, SeqDef
<1>12. ASSUME NEW e \in Evict(j)
       PROVE  \E i \in 1..n : left[i] = e
  <2>1. PICK p \in 1..size : m[p] = e
    BY <1>2, <1>3 DEF Evict
  <2>2. p > d
    BY <1>7, <2>1
  <2>3. PICK i \in 1..n : d + i = p
    <3>1. p - d \in 1..n /\ d + (p - d) = p
      BY <1>8, <2>2
    <3>2. QED
      BY <3>1
  <2>4. QED
    BY <1>9, <2>1, <2>3
<1>13. ASSUME NEW i \in 1..n, NEW k \in 1..n, i < k
       PROVE  left[i].stamp < left[k].stamp
  <2>1. PICK p \in 1..Len(m), q \in 1..Len(m) : p = d + i /\ q = d + k
    BY <1>3, <1>10
  <2>2. p < q
    BY <1>8, <1>13, <2>1
  <2>3. m[p].stamp < m[q].stamp
    BY <1>1, <2>2
  <2>4. left[i] = m[p] /\ left[k] = m[q]
    BY <1>9, <2>1
  <2>5. QED
    BY <2>3, <2>4
<1>14. Orders(left, Evict(j))
  BY <1>9, <1>11, <1>12, <1>13 DEF Orders
<1>15. QED
  BY <1>5, <1>a, <1>14

\* prune() leaves the Map of what Prune leaves.
LEMMA PruneMapOrders ==
    ASSUME NEW j, Stamped(j), NEW m, Orders(m, j)
    PROVE  Orders(PruneMap(m), Prune(j, clock))
<1>1. PICK live, um : live = Live(j, clock) /\ um = Unexpired(m)
  OBVIOUS
<1>2. live \in SUBSET j
  BY <1>1 DEF Live
<1>3. Stamped(live)
  BY <1>2, StampedPart
<1>4. Orders(Unexpired(m), Live(j, clock))
  BY UnexpiredOrders
<1>5. Orders(um, live)
  BY <1>1, <1>4
<1>6. Orders(DropOldest(um), Evict(live))
  BY <1>3, <1>5, DropOldestOrders
<1>7. QED
  BY <1>1, <1>6 DEF PruneMap, Prune

\* A key that is newer than all goes last.
LEMMA AppendOrders ==
    ASSUME NEW j, Stamped(j), NEW m, Orders(m, j), NEW e, \A f \in j : f.stamp < e.stamp
    PROVE  Orders(Append(m, e), j \cup {e})
<1>1. m \in Seq(j) /\ \A f \in j : \E i \in 1..Len(m) : m[i] = f
  BY DEF Orders
<1>2. /\ Len(m) \in Nat /\ \A i \in 1..Len(m) : m[i] \in j
      /\ \A i, k \in 1..Len(m) : m[i].stamp < m[k].stamp <=> i < k
  BY PlacesCount
<1>3. m \in Seq(j \cup {e}) /\ e \in j \cup {e}
  BY <1>1, SeqMonotonic
<1>4. PICK size, am : size = Len(m) /\ am = Append(m, e)
  OBVIOUS
<1>5. /\ Append(m, e) \in Seq(j \cup {e}) /\ Len(Append(m, e)) = Len(m) + 1
      /\ \A i \in 1..Len(m) : Append(m, e)[i] = m[i]
      /\ Append(m, e)[Len(m) + 1] = e
  BY <1>3, AppendProperties
<1>6. /\ am \in Seq(j \cup {e}) /\ Len(am) = size + 1
      /\ \A i \in 1..size : am[i] = m[i]
      /\ am[size + 1] = e
      /\ size \in Nat
  BY <1>2, <1>4, <1>5
<1>7. ASSUME NEW f \in j \cup {e}
      PROVE  \E i \in 1..size + 1 : am[i] = f
  <2>1. CASE f = e
    BY <1>6, <2>1
  <2>2. CASE f \in j
    <3>1. PICK i \in 1..size : m[i] = f
      BY <1>1, <1>4, <2>2
    <3>2. i \in 1..size + 1 /\ am[i] = f
      BY <1>6, <3>1
    <3>3. QED
      BY <3>2
  <2>3. QED
    BY <2>1, <2>2
<1>8. ASSUME NEW i \in 1..size + 1, NEW k \in 1..size + 1, i < k
      PROVE  am[i].stamp < am[k].stamp
  <2>1. i \in 1..size /\ am[i] = m[i] /\ m[i] \in j
    BY <1>2, <1>4, <1>6, <1>8
  <2>2. CASE k = size + 1
    BY <1>6, <2>1, <2>2
  <2>3. CASE k # size + 1
    <3>1. k \in 1..size /\ am[k] = m[k]
      BY <1>6, <2>3
    <3>2. m[i].stamp < m[k].stamp
      BY <1>2, <1>4, <1>8, <2>1, <3>1
    <3>3. QED
      BY <2>1, <3>1, <3>2
  <2>4. QED
    BY <2>2, <2>3
<1>9. Orders(am, j \cup {e})
  BY <1>6, <1>7, <1>8 DEF Orders
<1>10. QED
  BY <1>4, <1>9

\* The Map that the loops leave is that of what the set operators leave.
LEMMA PruneMapIsMap ==
    ASSUME NEW j, Stamped(j), NEW m, Orders(m, j)
    PROVE  PruneMap(m) = MapOf(Prune(j, clock))
<1>1. PICK p, pm : p = Prune(j, clock) /\ pm = PruneMap(m)
  OBVIOUS
<1>2. Orders(PruneMap(m), Prune(j, clock))
  BY PruneMapOrders
<1>3. p \in SUBSET j
  BY <1>1 DEF Prune, Evict, Live
<1>4. Stamped(p)
  BY <1>3, StampedPart
<1>5. Orders(pm, p)
  BY <1>1, <1>2
<1>6. pm = MapOf(p)
  BY <1>4, <1>5, OnlyMap
<1>7. QED
  BY <1>1, <1>6

\* The journal of the model and the Map of the code are the same thing: put() only
\* ever sets a key that is absent, because no run's operation is retained.
LEMMA JournalIsMap ==
    ASSUME IInv, JInv
    PROVE  SameJournal
<1>1. Stamped(completed)
  BY JournalFacts DEF Stamped
<1>2. journal \in SUBSET completed /\ disk \in SUBSET completed
  BY JournalFacts
<1>3. ASSUME NEW j \in SUBSET completed
      PROVE  PruneMap(MapOf(j)) = MapOf(Prune(j, clock))
  <2>1. Stamped(j)
    BY <1>1, StampedPart
  <2>2. PICK m : m = MapOf(j)
    OBVIOUS
  <2>3. Orders(m, j)
    BY <2>1, <2>2, MapOrders
  <2>4. PruneMap(m) = MapOf(Prune(j, clock))
    BY <2>1, <2>3, PruneMapIsMap
  <2>5. QED
    BY <2>2, <2>4
<1>4. ASSUME NEW r \in running
      PROVE  PutMap(MapOf(journal), Outcome(r)) = MapOf(Put(journal, Outcome(r), clock))
  <2>1. PICK e, p, m : /\ e = Outcome(r) /\ p = Prune(journal, clock)
                       /\ m = PruneMap(MapOf(journal))
    OBVIOUS
  <2>2. envelope[r] \in Envelope
    BY DEF IInv, TypeOK, OneRunPerOperation
  <2>3. /\ Outcome(r) \in Entry /\ Outcome(r).stamp = Cardinality(completed) + 1
        /\ Outcome(r).op = envelope[r].op
    BY <2>2, OutcomeType DEF IInv, Outcome
  <2>4. \A f \in completed : f.stamp \in Nat /\ f.stamp <= Cardinality(completed)
    BY JournalFacts DEF IInv, HistoryOK
  <2>5. Cardinality(completed) \in Nat
    BY JournalFacts, FS_CardinalityType
  <2>6. p \in SUBSET completed /\ p \subseteq Live(journal, clock)
    BY <1>2, <2>1, JournalSubsets
  <2>7. \A f \in p : f.stamp < e.stamp
    BY <2>1, <2>3, <2>4, <2>5, <2>6
  <2>8. e.stamp \in Nat
    BY <2>1, <2>3, <2>5
  <2>9. \A f \in p : f.op # e.op
    <3>1. Lookup(Live(journal, clock), envelope[r].op) = {}
      BY DEF IInv, RunningNotRetained
    <3>2. QED
      BY <2>1, <2>3, <2>6, <3>1 DEF Lookup
  <2>10. Stamped(p)
    BY <1>1, <2>6, StampedPart
  <2>11. Orders(m, p)
    <3>1. m = MapOf(p)
      BY <1>2, <1>3, <2>1
    <3>2. QED
      BY <2>10, <3>1, MapOrders
  <2>12. \A i \in 1..Len(m) : m[i] \in p
    BY <2>10, <2>11, PlacesCount
  <2>13. SetKey(m, e) = Append(m, e)
    BY <2>9, <2>12 DEF SetKey
  <2>14. Orders(Append(m, e), p \cup {e})
    BY <2>7, <2>10, <2>11, AppendOrders
  <2>15. PICK s, q : s = Append(m, e) /\ q = p \cup {e}
    OBVIOUS
  <2>16. Stamped(q)
    <3>1. IsFiniteSet(q)
      BY <2>10, <2>15, FS_AddElement DEF Stamped
    <3>2. \A f \in q : f.stamp \in Nat
      BY <2>8, <2>10, <2>15 DEF Stamped
    <3>3. ASSUME NEW f \in q, NEW g \in q, f.stamp = g.stamp
          PROVE  f = g
      <4>1. CASE f \in p /\ g \in p
        BY <2>10, <3>3, <4>1 DEF Stamped
      <4>2. CASE f = e \/ g = e
        <5>1. \A h \in p : h.stamp \in Nat /\ h.stamp # e.stamp
          BY <2>7, <2>8, <2>10 DEF Stamped
        <5>2. QED
          BY <2>15, <3>3, <4>2, <5>1
      <4>3. QED
        BY <2>15, <4>1, <4>2
    <3>4. QED
      BY <3>1, <3>2, <3>3 DEF Stamped
  <2>17. Orders(s, q)
    BY <2>14, <2>15
  <2>18. PruneMap(s) = MapOf(Prune(q, clock))
    BY <2>16, <2>17, PruneMapIsMap
  <2>19. PutMap(MapOf(journal), e) = PruneMap(s)
    BY <2>1, <2>13, <2>15 DEF PutMap
  <2>20. Put(journal, e, clock) = Prune(q, clock)
    <3>1. Lookup(p, e.op) = {}
      BY <2>9 DEF Lookup
    <3>2. (p \ Lookup(p, e.op)) \cup {e} = q
      BY <2>15, <3>1
    <3>3. QED
      BY <2>1, <3>2 DEF Put
  <2>21. QED
    BY <2>1, <2>18, <2>19, <2>20
<1>5. JournalBounded
  BY DEF JInv
<1>6. \A j \in {journal, disk, completed} : PruneMap(MapOf(j)) = MapOf(Prune(j, clock))
  BY <1>2, <1>3
<1>7. QED
  BY <1>4, <1>5, <1>6 DEF SameJournal

\* The loops over the Map do what the model's set operators do, on every journal, file
\* and history that a gateway reaches, and on every put() it may come to
\* (journal.mjs 41-53 and 66-71).
THEOREM JournalIsTheMap == Spec => []SameJournal
<1>1. IInv /\ JInv => SameJournal
  BY JournalIsMap
<1>2. QED
  BY <1>1, Inductive, JournalInductive, PTL

-------------------------------------------------------------------------------
(* What is replayed and what is run again. *)

\* Only a replay says "replayed".
LEMMA OnlyReplays ==
    ASSUME IInv, [Next]_vars, NEW r \in Requests, reply[r] # "replayed",
           reply'[r] = "replayed"
    PROVE  \E e \in Envelope : Replay(r, e)
  BY DEF IInv, TypeOK, Next, vars, Handle, Settle, RefuseStopping, RefuseMisbound,
       InspectFails, RefuseRedelivery, RefuseConflict, Replay, RefuseActive, Accept, Begin,
       Respond, Die, Finish, FinishUnsaved, RunFails, CrashBeforeReply, Cancel, Shutdown,
       Terminate, Crash, Restart, Tick

\* A replay answers with the newest outcome of the operation that the process can
\* know, within its retention time, and for the same request (daemon.mjs 109-120).
THEOREM ReplaysAreFaithful == Spec => ReplayFaithful
<1> DEFINE Step == \A r \in Requests : reply[r] # "replayed" /\ reply'[r] = "replayed" =>
          /\ envelope'[r].secret = "none"
          /\ \E e \in completed :
                /\ e.stamp = answer'[r]
                /\ e.op = envelope'[r].op
                /\ e.digest = envelope'[r].digest
                /\ e.expiresAt > clock
                /\ \A f \in Lookup(Newer(completed, e), e.op) :
                      f.boot < boot /\ f \notin durable
<1>1. IInv /\ JInv /\ [Next]_vars => Step
  <2> SUFFICES ASSUME IInv, JInv, [Next]_vars, NEW r \in Requests,
                      reply[r] # "replayed", reply'[r] = "replayed"
               PROVE  /\ envelope'[r].secret = "none"
                      /\ \E e \in completed :
                            /\ e.stamp = answer'[r]
                            /\ e.op = envelope'[r].op
                            /\ e.digest = envelope'[r].digest
                            /\ e.expiresAt > clock
                            /\ \A f \in Lookup(Newer(completed, e), e.op) :
                                  f.boot < boot /\ f \notin durable
    OBVIOUS
  <2> USE JournalFacts
  <2>1. PICK q \in Envelope : Replay(r, q)
    BY OnlyReplays
  <2>2. PICK e \in Found(q.op) : e.digest = q.digest /\ answer' = [answer EXCEPT ![r] = e.stamp]
    BY <2>1 DEF Replay
  <2>3. envelope'[r] = q /\ answer'[r] = e.stamp /\ q.secret = "none" /\ up
    BY <2>1, <2>2 DEF Replay, Remember, Admissible, Arrives, IInv, TypeOK
  <2>4. e \in Live(journal, clock) /\ e.op = q.op
    BY JournalSubsets DEF Found, Lookup
  <2>5. ASSUME NEW f \in Lookup(Newer(completed, e), e.op)
        PROVE  f.boot < boot /\ f \notin durable
    <3>1. f \in completed /\ f.op = e.op /\ f.stamp > e.stamp
      BY DEF Lookup, Newer
    <3>2. f \notin Known
      BY <2>3, <2>4, <3>1 DEF JInv, Faithful, Live
    <3>3. QED
      BY <3>1, <3>2 DEF Known, JInv, StampsOK
  <2>6. QED
    BY <2>2, <2>3, <2>4, <2>5 DEF Live
<1>2. QED
  BY <1>1, Inductive, JournalInductive, PTL DEF Spec, ReplayFaithful

\* An operation id is run again only when every outcome it had expired, was
\* displaced by as many later ones as the journal holds, or was lost by a restart
\* before any save held it (docs/protocol.md; daemon.mjs 109-134, journal.mjs).
THEOREM NoRerunsInWindow == Spec => NoRerunInWindow
<1> DEFINE Step == \A r \in running' \ running : \A e \in completed :
          e.op = envelope'[r].op =>
             \/ e.expiresAt <= clock
             \/ Cardinality(Newer(completed, e)) >= JournalLimit
             \/ e.boot < boot /\ e \notin durable
<1>1. IInv /\ JInv /\ [Next]_vars => Step
  <2> SUFFICES ASSUME IInv, JInv, [Next]_vars, NEW r \in running' \ running,
                      NEW e \in completed, e.op = envelope'[r].op,
                      e.expiresAt > clock,
                      ~(Cardinality(Newer(completed, e)) >= JournalLimit)
               PROVE  e.boot < boot /\ e \notin durable
    BY JournalFacts
  <2> USE JournalFacts
  <2>1. r \in Requests /\ \E q \in Envelope : Accept(r, q)
    <3>1. ASSUME NEW p \in Requests, NEW q \in Envelope, Handle(p, q)
          PROVE  running' = running \/ (Accept(p, q) /\ running' = running \cup {p})
      BY <3>1 DEF Handle, RefuseStopping, RefuseMisbound, InspectFails, RefuseRedelivery,
                  RefuseConflict, Replay, RefuseActive, Accept, Begin
    <3>2. ASSUME NEW p \in Requests, Settle(p) \/ CrashBeforeReply(p)
          PROVE  running' \subseteq running
      BY <3>2 DEF Settle, Finish, FinishUnsaved, RunFails, Release, CrashBeforeReply, Die
    <3>3. ASSUME \/ \E op \in Ops : Cancel(op)
                 \/ Shutdown \/ Terminate \/ Crash \/ Restart \/ Tick \/ UNCHANGED vars
          PROVE  running' \subseteq running
      BY <3>3 DEF Cancel, Shutdown, Terminate, Crash, Die, Restart, Tick, vars
    <3>4. ~(running' \subseteq running)
      OBVIOUS
    <3>5. QED
      BY <3>1, <3>2, <3>3, <3>4 DEF Next
  <2> PICK q \in Envelope : Accept(r, q)
    BY <2>1
  <2>2. /\ up /\ envelope'[r] = q /\ Found(q.op) = {}
    BY <2>1 DEF Accept, Begin, Remember, Admissible, Arrives, IInv, TypeOK
  <2>3. e \notin Prune(journal, clock)
    BY <2>2 DEF Found, Lookup
  <2>4. Faithful(Prune(journal, clock), Known, completed, clock)
    BY <2>2, PruneFaithful DEF JInv
  <2>5. Cardinality(Newer(completed, e)) < JournalLimit
    BY NewerGrows, JournalAssumption
  <2>6. e \notin Known
    BY <2>3, <2>4, <2>5 DEF Faithful
  <2>7. QED
    BY <2>6 DEF Known, JInv, StampsOK
<1>2. QED
  BY <1>1, Inductive, JournalInductive, PTL DEF Spec, NoRerunInWindow

-------------------------------------------------------------------------------
(* The contract. *)

\* The outcome an operation would be answered with, given the journal and the time.
KeptIn(j, now, op) ==
    LET e == Lookup(Live(j, now), op)
    IN  IF e = {} THEN 0 ELSE (CHOOSE f \in e : TRUE).stamp

\* A request that was accepted and not told more is running: what a crash loses.
AcceptedRuns == \A r \in Requests : reply[r] = "accepted" => r \in running

-------------------------------------------------------------------------------
\* A journal within its limit loses nothing to prune() but what has expired.
LEMMA PruneIsLive ==
    ASSUME NEW j, NEW now, IsFiniteSet(j), Cardinality(j) <= JournalLimit,
           \A e \in j : e.stamp \in Nat
    PROVE  Prune(j, now) = Live(j, now)
<1> SUFFICES ASSUME NEW e \in Live(j, now)
             PROVE  Cardinality(Newer(Live(j, now), e)) < JournalLimit
  BY DEF Prune, Evict
<1>1. /\ Newer(Live(j, now), e) \subseteq j \ {e} /\ e \in j
  BY DEF Newer, Live
<1>2. IsFiniteSet(j \ {e}) /\ Cardinality(j \ {e}) = Cardinality(j) - 1
  BY <1>1, FS_RemoveElement
<1>3. /\ Cardinality(Newer(Live(j, now), e)) <= Cardinality(j) - 1
      /\ Cardinality(Newer(Live(j, now), e)) \in Nat /\ Cardinality(j) \in Nat
  BY <1>1, <1>2, FS_Subset, FS_CardinalityType
<1>4. QED
  BY <1>3, JournalAssumption

\* What is kept is the stamp of the one live entry.
LEMMA KeptEntry ==
    ASSUME NEW j, NEW now, NEW op, OnePerOp(j)
    PROVE  /\ \A e \in Live(j, now) : e.op = op => KeptIn(j, now, op) = e.stamp
           /\ Lookup(Live(j, now), op) = {} => KeptIn(j, now, op) = 0
           /\ KeptIn(j, now, op) # 0 =>
                 \E e \in Live(j, now) : e.op = op /\ KeptIn(j, now, op) = e.stamp
<1>1. ASSUME NEW e \in Live(j, now), e.op = op
      PROVE  KeptIn(j, now, op) = e.stamp
  <2>1. Lookup(Live(j, now), op) = {e}
    BY <1>1 DEF Lookup, Live, OnePerOp
  <2>2. (CHOOSE f \in {e} : TRUE) = e
    OBVIOUS
  <2>3. QED
    BY <2>1, <2>2 DEF KeptIn
<1>2. Lookup(Live(j, now), op) = {} => KeptIn(j, now, op) = 0
  BY DEF KeptIn
<1>3. ASSUME KeptIn(j, now, op) # 0
      PROVE  \E e \in Live(j, now) : e.op = op /\ KeptIn(j, now, op) = e.stamp
  <2>1. PICK e \in Live(j, now) : e.op = op
    BY <1>2, <1>3 DEF Lookup
  <2>2. QED
    BY <1>1, <2>1
<1>4. QED
  BY <1>1, <1>2, <1>3

\* With fewer entries an operation keeps the outcome it had, or none.
LEMMA KeptShrinks ==
    ASSUME NEW j, NEW k, NEW now, NEW op, OnePerOp(j), k \subseteq Live(j, now)
    PROVE  KeptIn(k, now, op) \in {0, KeptIn(j, now, op)}
<1>1. OnePerOp(k)
  BY DEF OnePerOp, Live
<1>2. CASE Lookup(Live(k, now), op) = {}
  BY <1>1, <1>2, KeptEntry
<1>3. CASE Lookup(Live(k, now), op) # {}
  <2>1. PICK e \in Live(k, now) : e.op = op
    BY <1>3 DEF Lookup
  <2>2. e \in Live(j, now)
    BY DEF Live
  <2>3. QED
    BY <1>1, <2>1, <2>2, KeptEntry
<1>4. QED
  BY <1>2, <1>3

\* What the invariants say of the journal of the moment.
LEMMA StoredFacts ==
    ASSUME IInv, JInv
    PROVE  /\ Stored \subseteq completed /\ OnePerOp(Stored) /\ IsFiniteSet(Stored)
           /\ Cardinality(Stored) <= JournalLimit
           /\ \A e \in Stored : e.stamp \in Nat
  BY JournalFacts, FS_Subset DEF JInv, JournalBounded, Stored

\* Pruning the journal changes nothing that is kept.
LEMMA PruneKeeps ==
    ASSUME NEW j, NEW now, IsFiniteSet(j), Cardinality(j) <= JournalLimit,
           \A e \in j : e.stamp \in Nat
    PROVE  Live(Prune(j, now), now) = Live(j, now)
<1>1. Live(Live(j, now), now) = Live(j, now)
  BY DEF Live
<1>2. QED
  BY <1>1, PruneIsLive

LEMMA KeptSame ==
    ASSUME IInv, JInv, UNCHANGED clock, Stored' \in {Stored, Prune(Stored, clock)}
    PROVE  \A op : KeptOutcome(op)' = KeptOutcome(op)
<1>1. Live(Stored', clock) = Live(Stored, clock)
  BY StoredFacts, PruneKeeps
<1>2. QED
  BY <1>1 DEF KeptOutcome

LEMMA InspectStored ==
    ASSUME up, up', Inspect
    PROVE  Stored' \in {Stored, Prune(Stored, clock)}
  BY DEF Inspect, Stored

\* The contract's reply to a request whose own reply changes.
LEMMA ToldStep ==
    ASSUME TypeOK, NEW r \in Requests, NEW kind, Respond(r, kind)
    PROVE  /\ \A q \in Requests : q # r => Told(q)' = Told(q)
           /\ Told(r)' = CASE kind \in {"none", "accepted", "lost"} -> kind
                           [] kind \in {"done", "replayed"} -> "answered"
                           [] OTHER -> "refused"
<1>1. reply'[r] = kind /\ \A q \in Requests : q # r => reply'[q] = reply[q]
  BY DEF Respond, TypeOK
<1>2. QED
  BY <1>1 DEF Told

-------------------------------------------------------------------------------
\* Every refusal before a run is the contract's refusal.
LEMMA RefusalStep ==
    ASSUME IInv, JInv, NEW r \in Requests, reply[r] = "none",
           NEW kind \in {"error", "redelivery", "conflict", "in_progress"},
           Respond(r, kind), Stored' \in {Stored, Prune(Stored, clock)},
           UNCHANGED <<clock, controllers, completed, answer>>
    PROVE  Contract!Refuse(r)
<1>1. \A op : KeptOutcome(op)' = KeptOutcome(op)
  BY KeptSame
<1>2. Told(r) = "none" /\ Told(r)' = "refused" /\ \A q \in Requests : q # r => Told(q)' = Told(q)
  BY ToldStep DEF IInv, Told
<1>3. [q \in Requests |-> Told(q)]' = [[q \in Requests |-> Told(q)] EXCEPT ![r] = "refused"]
  BY <1>2
<1>4. QED
  BY <1>1, <1>2, <1>3 DEF Contract!Refuse, Contract!Tell

LEMMA HandleContract ==
    ASSUME IInv, JInv, NEW r \in Requests, NEW e \in Envelope, Handle(r, e)
    PROVE  Contract!CNext
<1>1. CASE RefuseStopping(r, e) \/ RefuseMisbound(r, e)
  <2>1. Contract!Refuse(r)
    BY <1>1, RefusalStep DEF RefuseStopping, RefuseMisbound, Arrives, Stored
  <2>2. QED
    BY <2>1 DEF Contract!CNext
<1>2. CASE InspectFails(r, e)
  <2>1. Contract!Refuse(r)
    BY <1>2, RefusalStep DEF InspectFails, Admissible, Arrives, Stored
  <2>2. QED
    BY <2>1 DEF Contract!CNext
<1>3. CASE RefuseRedelivery(r, e) \/ RefuseConflict(r, e) \/ RefuseActive(r, e)
  <2>1. Stored' \in {Stored, Prune(Stored, clock)}
    BY <1>3, InspectStored DEF RefuseRedelivery, RefuseConflict, RefuseActive, Admissible, Arrives
  <2>2. PICK kind \in {"redelivery", "conflict", "in_progress"} : Respond(r, kind)
    BY <1>3 DEF RefuseRedelivery, RefuseConflict, RefuseActive
  <2>3. reply[r] = "none" /\ UNCHANGED <<clock, controllers, completed, answer>>
    BY <1>3 DEF RefuseRedelivery, RefuseConflict, RefuseActive, Admissible, Arrives
  <2>4. Contract!Refuse(r)
    BY <2>1, <2>2, <2>3, RefusalStep
  <2>5. QED
    BY <2>4 DEF Contract!CNext
<1>4. CASE Replay(r, e)
  <2>1. /\ up /\ up' /\ Inspect /\ Respond(r, "replayed") /\ reply[r] = "none"
        /\ UNCHANGED <<clock, controllers, completed>>
    BY <1>4 DEF Replay, Admissible, Arrives
  <2>2. \A op : KeptOutcome(op)' = KeptOutcome(op)
    BY <2>1, KeptSame, InspectStored
  <2>3. PICK f \in Found(e.op) : answer' = [answer EXCEPT ![r] = f.stamp]
    BY <1>4 DEF Replay
  <2>4. f \in Live(Stored, clock) /\ f.op = e.op
    BY <2>1, JournalSubsets DEF Found, Lookup, Stored
  <2>5. KeptOutcome(e.op) = f.stamp
    BY <2>4, StoredFacts, KeptEntry DEF KeptOutcome, KeptIn
  <2>6. f.stamp # 0
    BY <2>4, StoredFacts DEF JInv, StampsOK, Live
  <2>7. Told(r) = "none" /\ Told(r)' = "answered" /\ \A q \in Requests : q # r => Told(q)' = Told(q)
    BY <2>1, ToldStep DEF IInv, Told
  <2>8. [q \in Requests |-> Told(q)]' = [[q \in Requests |-> Told(q)] EXCEPT ![r] = "answered"]
    BY <2>7
  <2>9. e.op \in Ops
    BY DEF Envelope
  <2>10. Contract!Repeat(r, e.op)
    BY <2>1, <2>2, <2>3, <2>5, <2>6, <2>7, <2>8, <2>9 DEF Contract!Repeat, Contract!Tell
  <2>11. QED
    BY <2>9, <2>10 DEF Contract!CNext
<1>5. CASE Accept(r, e)
  <2>1. /\ up /\ up' /\ Inspect /\ Respond(r, "accepted") /\ reply[r] = "none"
        /\ controllers[e.op] = None /\ controllers' = [controllers EXCEPT ![e.op] = r]
        /\ Found(e.op) = {}
        /\ UNCHANGED <<clock, completed, answer>>
    BY <1>5 DEF Accept, Begin, Admissible, Arrives
  <2>2. \A op : KeptOutcome(op)' = KeptOutcome(op)
    BY <2>1, KeptSame, InspectStored
  <2>3. Stored = journal
    BY <2>1 DEF Stored
  <2>4. Lookup(Live(Stored, clock), e.op) = {}
    BY <2>1, <2>3, StoredFacts, PruneIsLive DEF Found
  <2>5. KeptOutcome(e.op) = 0
    BY <2>4 DEF KeptOutcome
  <2>7. Told(r) = "none" /\ Told(r)' = "accepted" /\ \A q \in Requests : q # r => Told(q)' = Told(q)
    BY <2>1, ToldStep DEF IInv, Told
  <2>8. [q \in Requests |-> Told(q)]' = [[q \in Requests |-> Told(q)] EXCEPT ![r] = "accepted"]
    BY <2>7
  <2>9. e.op \in Ops
    BY DEF Envelope
  <2>10. Contract!Start(r, e.op)
    BY <2>1, <2>2, <2>5, <2>7, <2>8, <2>9 DEF Contract!Start, Contract!Tell
  <2>11. QED
    BY <2>9, <2>10 DEF Contract!CNext
<1>6. QED
  BY <1>1, <1>2, <1>3, <1>4, <1>5 DEF Handle
-------------------------------------------------------------------------------
\* What an operation is left with is the stamp of an outcome of its own, or 0.
LEMMA KeptIsOwn ==
    ASSUME NEW j, NEW now, NEW op, OnePerOp(j), NEW all, j \subseteq all
    PROVE  KeptIn(j, now, op) \in {0} \cup {e.stamp : e \in Lookup(all, op)}
<1>1. CASE KeptIn(j, now, op) = 0
  BY <1>1
<1>2. CASE KeptIn(j, now, op) # 0
  <2>1. PICK e \in Live(j, now) : e.op = op /\ KeptIn(j, now, op) = e.stamp
    BY <1>2, KeptEntry
  <2>2. e \in Lookup(all, op)
    BY <2>1 DEF Lookup, Live
  <2>3. QED
    BY <2>1, <2>2
<1>3. QED
  BY <1>1, <1>2

\* The outcome that put() adds, in the contract's terms: the next one, of the
\* operation that ran.
LEMMA ProduceStep ==
    ASSUME IInv, NEW r \in running, completed' = completed \cup {Outcome(r)}
    PROVE  /\ envelope[r] \in Envelope /\ envelope[r].op \in Ops /\ r \in Requests
           /\ controllers[envelope[r].op] = r
           /\ Outcome(r).op = envelope[r].op /\ Outcome(r).stamp = Cardinality(completed) + 1
           /\ Cardinality(completed') = Cardinality(completed) + 1
           /\ Cardinality(completed) \in Nat
           /\ Contract!Produce(envelope[r].op)
<1> DEFINE op == envelope[r].op
<1>1. r \in Requests /\ envelope[r] \in Envelope /\ op \in Ops /\ controllers[op] = r
  BY DEF IInv, TypeOK, OneRunPerOperation, Envelope
<1>2. /\ Outcome(r).op = op /\ Outcome(r).stamp = Cardinality(completed) + 1
      /\ Cardinality(completed') = Cardinality(completed) + 1
  BY <1>1, OutcomeType DEF IInv, Outcome
<1>3. \A o \in Ops : {e.stamp : e \in Lookup(completed', o)} =
         IF o = op THEN {e.stamp : e \in Lookup(completed, o)} \cup {Cardinality(completed) + 1}
                   ELSE {e.stamp : e \in Lookup(completed, o)}
  BY <1>2 DEF Lookup
<1>4. [o \in Ops |-> {e.stamp : e \in Lookup(completed, o)}]' =
         [[o \in Ops |-> {e.stamp : e \in Lookup(completed, o)}] EXCEPT
             ![op] = @ \cup {Cardinality(completed) + 1}]
  BY <1>1, <1>3
<1>5. Cardinality(completed) \in Nat
  BY FS_CardinalityType DEF IInv, HistoryOK
<1>6. QED
  BY <1>1, <1>2, <1>4, <1>5 DEF Contract!Produce

\* A run that ends with an outcome, told or not.
LEMMA CompleteStep ==
    ASSUME IInv, JInv, up, up', NEW r \in running, Journalled(r), Release(r),
           UNCHANGED <<clock, boot>>, NEW told \in BOOLEAN,
           Respond(r, IF told THEN "done" ELSE "failed"),
           answer' = IF told THEN [answer EXCEPT ![r] = Outcome(r).stamp] ELSE answer
    PROVE  Contract!CNext
<1>0. PICK op \in Ops : op = envelope[r].op
  BY ProduceStep DEF Journalled
<1> DEFINE put == Put(journal, Outcome(r), clock)
<1>1. /\ r \in Requests /\ controllers[op] = r
      /\ Outcome(r).op = op /\ Outcome(r).stamp = Cardinality(completed) + 1
      /\ Contract!Produce(op) /\ Cardinality(completed) \in Nat
  BY <1>0, ProduceStep DEF Journalled, Contract!Produce
<1>2. /\ Stored = journal /\ Stored' = put
  BY DEF Stored, Journalled
<1>3. /\ Outcome(r) \in put /\ OnePerOp(put)
      /\ put \subseteq Live(journal, clock) \cup {Outcome(r)}
  BY PutJ, JournalSubsets DEF Journalled
<1>4. Outcome(r) \in Live(put, clock)
  BY <1>3, JournalFacts, JournalAssumption DEF Live, Outcome
<1>5. \A o \in Ops : KeptOutcome(o)' = KeptIn(put, clock, o)
  BY <1>2 DEF KeptOutcome, KeptIn
<1>6. KeptIn(put, clock, op) = Cardinality(completed) + 1
  BY <1>1, <1>3, <1>4, KeptEntry
<1>7. ASSUME NEW o \in Ops, o # op
      PROVE  KeptIn(put, clock, o) \in {0, KeptOutcome(o)}
  <2>1. Lookup(Live(put, clock), o) = Lookup(Live(put \ {Outcome(r)}, clock), o)
    BY <1>1, <1>7 DEF Lookup, Live
  <2>2. KeptIn(put \ {Outcome(r)}, clock, o) \in {0, KeptIn(journal, clock, o)}
    BY <1>2, <1>3, StoredFacts, KeptShrinks
  <2>3. QED
    BY <1>2, <2>1, <2>2 DEF KeptOutcome, KeptIn
<1> DEFINE lost == {o \in Ops : KeptIn(put, clock, o) = 0}
<1>8. [o \in Ops |-> KeptOutcome(o)]' =
         [o \in Ops |-> IF o = op THEN Cardinality(completed) + 1
                        ELSE IF o \in lost THEN 0 ELSE [q \in Ops |-> KeptOutcome(q)][o]]
  <2>1. [o \in Ops |-> KeptOutcome(o)]' = [o \in Ops |-> KeptIn(put, clock, o)]
    BY <1>5
  <2>2. \A o \in Ops : KeptIn(put, clock, o) =
           IF o = op THEN Cardinality(completed) + 1
           ELSE IF o \in lost THEN 0 ELSE [q \in Ops |-> KeptOutcome(q)][o]
    BY <1>6, <1>7
  <2> HIDE DEF put, lost
  <2>3. QED
    BY <2>1, <2>2
<1>9. [q \in Requests |-> Told(q)]' =
         [[q \in Requests |-> Told(q)] EXCEPT ![r] = IF told THEN "answered" ELSE "refused"]
  <2>1. /\ \A q \in Requests : q # r => Told(q)' = Told(q)
        /\ Told(r)' = IF told THEN "answered" ELSE "refused"
    <3>1. CASE told
      BY <1>1, <3>1, ToldStep DEF IInv
    <3>2. CASE ~told
      BY <1>1, <3>2, ToldStep DEF IInv
    <3>3. QED
      BY <3>1, <3>2
  <2>2. QED
    BY <1>1, <2>1
<1>10. answer' = [answer EXCEPT ![r] = IF told THEN Cardinality(completed) + 1 ELSE @]
  BY <1>1 DEF IInv, TypeOK
<1>11. controllers' = [controllers EXCEPT ![op] = None]
  BY <1>0 DEF Release
<1>12. lost \in SUBSET Ops
  OBVIOUS
<1> HIDE DEF put, lost
<1>13. Contract!Complete(r, op, lost, told)
  BY <1>1, <1>8, <1>9, <1>10, <1>11 DEF Contract!Complete, Contract!Tell
<1>14. QED
  BY <1>1, <1>12, <1>13 DEF Contract!CNext

LEMMA SettleContract ==
    ASSUME IInv, JInv, NEW r \in Requests, Settle(r)
    PROVE  Contract!CNext
<1>1. CASE Finish(r)
  BY <1>1, CompleteStep DEF Finish
<1>2. CASE FinishUnsaved(r)
  BY <1>2, CompleteStep DEF FinishUnsaved
<1>3. CASE RunFails(r)
  <2>0. PICK op \in Ops : op = envelope[r].op
    BY <1>3 DEF RunFails, IInv, TypeOK, OneRunPerOperation, Envelope
  <2>1. /\ up /\ r \in running /\ Release(r) /\ Respond(r, "failed")
        /\ UNCHANGED <<up, clock, journal, disk, answer, completed>>
    BY <1>3 DEF RunFails
  <2>2. controllers[op] = r
    BY <2>0, <2>1 DEF IInv, TypeOK, OneRunPerOperation, Envelope
  <2>3. [q \in Requests |-> Told(q)]' = [[q \in Requests |-> Told(q)] EXCEPT ![r] = "refused"]
    <3>1. Told(r)' = "refused" /\ \A q \in Requests : q # r => Told(q)' = Told(q)
      BY <2>1, ToldStep DEF IInv
    <3>2. QED
      BY <3>1
  <2>4. \A o : KeptOutcome(o)' = KeptOutcome(o)
    BY <2>1, KeptSame DEF Stored
  <2>5. controllers' = [controllers EXCEPT ![op] = None]
    BY <2>0, <2>1 DEF Release
  <2>6. Contract!Abandon(r, op)
    BY <2>1, <2>2, <2>3, <2>4, <2>5 DEF Contract!Abandon, Contract!Tell
  <2>7. QED
    BY <2>2, <2>6 DEF Contract!CNext
<1>4. QED
  BY <1>1, <1>2, <1>3 DEF Settle

\* The process ends: what is left of an operation is what the file has of it.
LEMMA CrashContract ==
    ASSUME IInv, JInv, AcceptedRuns, Crash \/ \E r \in Requests : CrashBeforeReply(r)
    PROVE  Contract!CNext
<1>0. PICK k : k = [o \in Ops |-> KeptOutcome(o)]'
  OBVIOUS
<1>1. ~up' /\ Die /\ UNCHANGED <<clock, answer>>
  BY DEF Crash, CrashBeforeReply, Die
<1>2. /\ IInv' /\ JInv'
  BY NextIInv, NextJInv DEF Next
<1>3. [q \in Requests |-> Told(q)]' =
         [q \in Requests |-> IF [p \in Requests |-> Told(p)][q] = "accepted"
                             THEN "lost" ELSE [p \in Requests |-> Told(p)][q]]
  <2>1. \A q \in Requests : reply[q] = "accepted" <=> q \in running
    BY DEF AcceptedRuns, IInv, MemoryOK, TypeOK
  <2>2. \A q \in Requests : Told(q) = "accepted" <=> reply[q] = "accepted"
    BY DEF Told
  <2>3. \A q \in Requests : reply'[q] = IF q \in running THEN "lost" ELSE reply[q]
    BY <1>1 DEF Die
  <2>4. \A q \in Requests : Told(q)' = IF Told(q) = "accepted" THEN "lost" ELSE Told(q)
    BY <2>1, <2>2, <2>3 DEF Told
  <2>5. QED
    BY <2>4
<1>4. Stored' = disk' /\ OnePerOp(disk') /\ disk' \subseteq completed'
  BY <1>1, <1>2 DEF Stored, JInv, JournalBounded, OnePerOp, IInv, HistoryOK
<1>5. \A o \in Ops : k[o] \in {0} \cup {e.stamp : e \in Lookup(completed', o)}
  BY <1>0, <1>4, KeptIsOwn DEF KeptOutcome, KeptIn
<1>6. k \in [Ops -> 0..Cardinality(completed')]
  <2>1. \A e \in completed' : e.stamp \in Nat /\ e.stamp <= Cardinality(completed')
    BY <1>2 DEF IInv, HistoryOK, TypeOK, Entry
  <2>2. Cardinality(completed') \in Nat
    BY <1>2, FS_CardinalityType DEF IInv, HistoryOK
  <2>3. \A o \in Ops : k[o] \in 0..Cardinality(completed')
    BY <1>5, <2>1, <2>2 DEF Lookup
  <2>4. QED
    BY <1>0, <2>3
<1>7. controllers' = [op \in Ops |-> None] /\ Cardinality(completed) \in Nat
  BY <1>1, FS_CardinalityType DEF Die, IInv, HistoryOK
<1>8. CASE Crash
  <2>1. completed' = completed
    BY <1>8 DEF Crash
  <2>2. k \in [Ops -> 0..(Cardinality(completed) + 1)]
    BY <1>6, <1>7, <2>1
  <2>3. Contract!Lose(k)
    BY <1>0, <1>1, <1>3, <1>5, <1>7, <2>1 DEF Contract!Lose
  <2>4. QED
    BY <2>2, <2>3 DEF Contract!CNext
<1>9. ASSUME NEW r \in Requests, CrashBeforeReply(r)
      PROVE  Contract!CNext
  <2>1. r \in running /\ completed' = completed \cup {Outcome(r)}
    BY <1>9 DEF CrashBeforeReply
  <2>a. /\ envelope[r].op \in Ops /\ r \in Requests /\ controllers[envelope[r].op] = r
        /\ Cardinality(completed') = Cardinality(completed) + 1
        /\ Contract!Produce(envelope[r].op)
    BY <2>1, ProduceStep
  <2>2. PICK op \in Ops : op = envelope[r].op
    BY <2>a
  <2>3. /\ Contract!Produce(op) /\ controllers[op] # None
        /\ Cardinality(completed') = Cardinality(completed) + 1
    <3>1. controllers[op] # None
      BY <2>a, <2>2, DaemonAssumption
    <3>2. Contract!Produce(op)
      BY <2>a, <2>2 DEF Contract!Produce
    <3>3. QED
      BY <2>a, <3>1, <3>2
  <2>4. k \in [Ops -> 0..(Cardinality(completed) + 1)]
    BY <1>6, <2>3
  <2>5. \A o \in Ops : k[o] \in {0} \cup [p \in Ops |-> {e.stamp : e \in Lookup(completed, p)}]'[o]
    BY <1>5
  <2>6. Contract!Lose(k)
    BY <1>0, <1>1, <1>3, <1>7, <2>3, <2>5 DEF Contract!Lose
  <2>7. QED
    BY <2>4, <2>6 DEF Contract!CNext
<1>10. QED
  BY <1>8, <1>9

\* Restarting, cancelling and stopping show nothing; time makes outcomes forgotten.
LEMMA QuietStep ==
    ASSUME IInv, JInv,
           Restart \/ (\E op \in Ops : Cancel(op)) \/ Shutdown \/ Terminate \/ UNCHANGED vars
    PROVE  UNCHANGED Contract!cvars
<1>1. UNCHANGED <<clock, controllers, completed, reply, answer>>
  BY DEF Restart, Cancel, Shutdown, Terminate, vars
<1>2. Stored' \in {Stored, Prune(Stored, clock)}
  BY DEF Restart, Cancel, Shutdown, Terminate, vars, Stored
<1>3. \A o : KeptOutcome(o)' = KeptOutcome(o)
  BY <1>1, <1>2, KeptSame
<1>4. \A q : Told(q)' = Told(q)
  BY <1>1 DEF Told
<1>5. QED
  BY <1>1, <1>3, <1>4 DEF Contract!cvars

LEMMA TickContract ==
    ASSUME IInv, JInv, Tick
    PROVE  Contract!CNext
<1> DEFINE lost == {o \in Ops : KeptOutcome(o)' = 0}
<1>1. UNCHANGED <<Stored, controllers, completed, reply, answer>> /\ clock' = clock + 1
  BY DEF Tick, Stored
<1>2. Live(Stored, clock') \subseteq Live(Stored, clock)
  BY <1>1, StoredFacts, JournalFacts DEF Live
<1>3. ASSUME NEW o \in Ops
      PROVE  KeptOutcome(o)' \in {0, KeptOutcome(o)}
  <2>1. OnePerOp(Live(Stored, clock'))
    BY StoredFacts DEF OnePerOp, Live
  <2>2. KeptIn(Live(Stored, clock'), clock, o) \in {0, KeptIn(Stored, clock, o)}
    BY <1>2, StoredFacts, KeptShrinks
  <2>3. Live(Live(Stored, clock'), clock) = Live(Stored, clock')
    BY <1>2 DEF Live
  <2>4. QED
    BY <1>1, <2>2, <2>3 DEF KeptIn, KeptOutcome
<1>4. \A q : Told(q)' = Told(q)
  BY <1>1 DEF Told
<1>5. Contract!Forget(lost)
  BY <1>1, <1>3, <1>4 DEF Contract!Forget
<1>6. QED
  BY <1>5 DEF Contract!CNext

-------------------------------------------------------------------------------
LEMMA NextAcceptedRuns == IInv /\ AcceptedRuns /\ [Next]_vars => AcceptedRuns'
<1> SUFFICES ASSUME IInv, AcceptedRuns, [Next]_vars PROVE AcceptedRuns'
  OBVIOUS
<1>1. reply \in [Requests -> Replies]
  BY DEF IInv, TypeOK
<1>2. ASSUME NEW r \in Requests, NEW e \in Envelope, Handle(r, e) PROVE AcceptedRuns'
  <2>1. CASE Accept(r, e)
    BY <1>1, <2>1 DEF AcceptedRuns, Accept, Begin, Respond
  <2>2. CASE ~Accept(r, e)
    <3>1. PICK kind \in Replies \ {"accepted"} : Respond(r, kind)
      BY <1>2, <2>2 DEF Handle, RefuseStopping, RefuseMisbound, InspectFails,
           RefuseRedelivery, RefuseConflict, Replay, RefuseActive, Replies
    <3>2. running' = running
      BY <1>2, <2>2 DEF Handle, RefuseStopping, RefuseMisbound, InspectFails,
           RefuseRedelivery, RefuseConflict, Replay, RefuseActive
    <3>3. QED
      BY <1>1, <3>1, <3>2 DEF AcceptedRuns, Respond
  <2>3. QED
    BY <2>1, <2>2
<1>3. ASSUME NEW r \in Requests, Settle(r) PROVE AcceptedRuns'
  <2>1. running' = running \ {r} /\ \E kind \in {"done", "failed"} : Respond(r, kind)
    BY <1>3 DEF Settle, Finish, FinishUnsaved, RunFails, Release
  <2>2. QED
    BY <1>1, <2>1 DEF AcceptedRuns, Respond
<1>4. ASSUME Crash \/ \E r \in Requests : CrashBeforeReply(r) PROVE AcceptedRuns'
  <2>1. Die
    BY <1>4 DEF Crash, CrashBeforeReply
  <2>2. QED
    BY <1>1, <2>1 DEF AcceptedRuns, Die
<1>5. ASSUME \/ \E op \in Ops : Cancel(op)
             \/ Shutdown \/ Terminate \/ Restart \/ Tick \/ UNCHANGED vars
      PROVE  AcceptedRuns'
  <2>1. UNCHANGED <<running, reply>>
    BY <1>5 DEF Cancel, Shutdown, Terminate, Restart, Tick, vars
  <2>2. QED
    BY <2>1 DEF AcceptedRuns
<1>6. QED
  BY <1>2, <1>3, <1>4, <1>5 DEF Next

LEMMA ContractInit == Init => Contract!CInit
<1> SUFFICES ASSUME Init PROVE Contract!CInit
  OBVIOUS
<1>1. \A op \in Ops : KeptOutcome(op) = 0 /\ {e.stamp : e \in Lookup(completed, op)} = {}
  BY DEF Init, KeptOutcome, Stored, Lookup, Live
<1>2. \A r \in Requests : Told(r) = "none"
  BY DEF Init, Told
<1>3. QED
  BY <1>1, <1>2, FS_EmptySet DEF Init, Contract!CInit

LEMMA ContractNext ==
    IInv /\ JInv /\ AcceptedRuns /\ [Next]_vars => [Contract!CNext]_(Contract!cvars)
<1> SUFFICES ASSUME IInv, JInv, AcceptedRuns, [Next]_vars
             PROVE  Contract!CNext \/ UNCHANGED Contract!cvars
  OBVIOUS
<1>1. CASE \E r \in Requests, e \in Envelope : Handle(r, e)
  BY <1>1, HandleContract
<1>2. CASE \E r \in Requests : Settle(r)
  BY <1>2, SettleContract
<1>3. CASE Crash \/ \E r \in Requests : CrashBeforeReply(r)
  BY <1>3, CrashContract
<1>4. CASE Restart \/ (\E op \in Ops : Cancel(op)) \/ Shutdown \/ Terminate \/ UNCHANGED vars
  BY <1>4, QuietStep
<1>5. CASE Tick
  BY <1>5, TickContract
<1>6. QED
  BY <1>1, <1>2, <1>3, <1>4, <1>5 DEF Next

\* What the gateway does is what it promises about operation ids: an id has one run
\* at a time, is answered from a kept outcome and not run again while there is one,
\* and every answer is an outcome of that id, across failed saves, crashes and
\* restarts (daemon.mjs 77-161, journal.mjs).
THEOREM DaemonImplementsContract == Spec => ImplementsContract
<1>1. Init => AcceptedRuns
  BY DEF Init, AcceptedRuns
<1>2. QED
  BY <1>1, NextAcceptedRuns, ContractInit, ContractNext, Inductive, JournalInductive, PTL
     DEF Spec, ImplementsContract, Contract!CSpec

-------------------------------------------------------------------------------
(* One process. *)

\* What holds of the process of a run, whatever the gateway does.  A run that was
\* settled before its process closed was told to stop for a reason that its outcome
\* names, and SIGKILL was sent; one that was cancelled was sent SIGTERM, and a
\* SIGKILL is due.
Sound(p) ==
    /\ p.promise = "pending" => p.child \in {"unborn", "alive", "exited"}
    /\ p.child = "unborn" => p.promise \in {"pending", "resolved"}
    /\ p.child = "alive" => p.promise \in {"pending", "resolved"}
    /\ p.child = "exited" => p.promise \in {"pending", "resolved", "rejected"}
    /\ p.fallback => p.timedOut \/ p.cancelled
    /\ p.cancelled /\ p.promise = "pending" => p.sigterm /\ (p.killTimer \/ p.sigkill)
    /\ p.promise = "resolved" /\ p.child \in {"alive", "exited"}
       => p.sigkill /\ (p.timedOut \/ p.cancelled)

Reasons == P!Limits \cup {"abort"}

\* stop() settles nothing and ends nothing.
LEMMA StopIsSound ==
    ASSUME NEW p \in P!Process, Sound(p), NEW reason \in Reasons
    PROVE  /\ P!Stop(p, reason) \in P!Process /\ Sound(P!Stop(p, reason))
           /\ P!Stop(p, reason).promise = p.promise /\ P!Stop(p, reason).child = p.child
           /\ p.cancelled => P!Stop(p, reason).cancelled
           /\ reason = "abort" /\ p.promise = "pending" => P!Stop(p, reason).cancelled
<1>1. CASE p.promise = "resolved"
  <2>1. P!Stop(p, reason) = p  BY <1>1 DEF P!Stop
  <2>2. QED  BY <1>1, <2>1
<1>2. CASE p.promise # "resolved"
  <2>1. PICK s : s = P!Stop(p, reason)  OBVIOUS
  <2>2. s = [p EXCEPT !.sigterm = TRUE, !.killTimer = TRUE, !.fallback = TRUE,
                      !.timedOut = p.timedOut \/ reason \in P!Limits,
                      !.cancelled = p.cancelled \/ reason = "abort"]
    BY <1>2, <2>1 DEF P!Stop
  <2>a. p.timedOut \in BOOLEAN /\ p.cancelled \in BOOLEAN  BY DEF P!Process
  <2>b. PICK late \in BOOLEAN, told \in BOOLEAN :
           /\ late = (p.timedOut \/ reason \in P!Limits)
           /\ told = (p.cancelled \/ reason = "abort")
    BY <2>a
  <2>c. s = [p EXCEPT !.sigterm = TRUE, !.killTimer = TRUE, !.fallback = TRUE,
                      !.timedOut = late, !.cancelled = told]
    BY <2>2, <2>b
  <2>3. s \in P!Process  BY <2>c DEF P!Process
  <2>4. /\ s.promise = p.promise /\ s.child = p.child /\ s.sigkill = p.sigkill
        /\ s.sigterm /\ s.killTimer /\ s.fallback
        /\ s.timedOut <=> p.timedOut \/ reason \in P!Limits
        /\ s.cancelled <=> p.cancelled \/ reason = "abort"
    BY <2>2 DEF P!Process
  <2>5. Sound(s)  BY <1>2, <2>4 DEF Sound, Reasons
  <2>6. QED  BY <2>1, <2>3, <2>4, <2>5
<1>3. QED  BY <1>1, <1>2

LEMMA GoneIsSound ==
    ASSUME NEW child \in {"closed", "orphan"},
           NEW promise \in {"none", "resolved", "rejected", "lost"}
    PROVE  /\ P!Gone(child, promise) \in P!Process /\ Sound(P!Gone(child, promise))
           /\ P!Gone(child, promise).child = child /\ P!Gone(child, promise).promise = promise
BY DEF P!Gone, P!NoProcess, P!Process, Sound

LEMMA StartsAreSound ==
    ASSUME NEW p \in P!Starts
    PROVE  p \in P!Process /\ Sound(p) /\ p.promise = "pending"
<1> DEFINE new(child, limits) == [P!NoProcess EXCEPT !.child = child, !.promise = "pending",
                                                     !.limits = limits]
<1>1. ASSUME NEW child \in {"unborn", "alive"}, NEW limits \in SUBSET P!Limits
      PROVE  /\ new(child, limits) \in P!Process /\ Sound(new(child, limits))
             /\ new(child, limits).promise = "pending"
  BY <1>1 DEF P!NoProcess, P!Process, Sound
<1>2. \/ p = new("unborn", P!Limits) \/ p = new("alive", P!Limits)
      \/ p = P!Stop(new("alive", {"timeoutMs"}), "deadlineMs")
  BY DEF P!Starts
<1>3. {"timeoutMs"} \in SUBSET P!Limits /\ P!Limits \in SUBSET P!Limits /\ "deadlineMs" \in Reasons
  BY DEF P!Limits, Reasons
<1> HIDE DEF new
<1>4. CASE p = new("unborn", P!Limits) \/ p = new("alive", P!Limits)  BY <1>1, <1>3, <1>4
<1>5. CASE p = P!Stop(new("alive", {"timeoutMs"}), "deadlineMs")
  <2>1. PICK q \in P!Process : q = new("alive", {"timeoutMs"}) /\ Sound(q) /\ q.promise = "pending"
    BY <1>1, <1>3
  <2>2. p = P!Stop(q, "deadlineMs")  BY <1>5, <2>1
  <2>3. QED  BY <1>3, <2>1, <2>2, StopIsSound
<1>6. QED  BY <1>2, <1>4, <1>5

\* The process of one run changes, and no other.
LEMMA ChangeOne ==
    ASSUME process \in [Requests -> P!Process], NEW r \in Requests, NEW p, P!Change(r, p)
    PROVE  /\ process'[r] = p /\ \A x \in Requests \ {r} : process'[x] = process[x]
           /\ p \in P!Process => process' \in [Requests -> P!Process]
BY DEF P!Change

\* What may become of a process whose run is not settled by it.
Evolves(p, q) ==
    /\ q \in P!Process /\ Sound(q)
    /\ q.promise = p.promise
    /\ q.child \in {p.child, "exited", "closed"}
    /\ q.child = "exited" => p.child \in {"alive", "exited"}
    /\ p.promise = "pending" /\ p.cancelled => q.cancelled

\* What a process does of itself, and the timers of its run: nothing is settled.
LEMMA ProcessStepIsSound ==
    ASSUME process \in [Requests -> P!Process], NEW r \in Requests, Sound(process[r]),
           P!ProcessStep(r)
    PROVE  /\ process' \in [Requests -> P!Process] /\ Evolves(process[r], process'[r])
           /\ \A x \in Requests \ {r} : process'[x] = process[x]
<1>1. PICK p \in P!Process : p = process[r] /\ Sound(p)  OBVIOUS
<1>2. \E q : P!Change(r, q) /\ Evolves(p, q)
  <2>1. CASE P!Exit(r)
    <3>1. CASE p.child = "alive"
      <4>1. P!Change(r, [p EXCEPT !.child = "exited"])  BY <1>1, <2>1, <3>1 DEF P!Exit
      <4>2. Evolves(p, [p EXCEPT !.child = "exited"])
        BY <1>1, <3>1 DEF Evolves, Sound, P!Process
      <4>3. QED  BY <4>1, <4>2
    <3>2. CASE p.child = "orphan"
      <4>1. P!Change(r, P!Gone("closed", p.promise))  BY <1>1, <2>1, <3>2 DEF P!Exit
      <4>2. p.promise \in {"none", "resolved", "rejected", "lost"}
        BY <1>1, <3>2 DEF Sound, P!Process
      <4>3. Evolves(p, P!Gone("closed", p.promise))
        BY <4>2, GoneIsSound DEF Evolves
      <4>4. QED  BY <4>1, <4>3
    <3>3. QED  BY <1>1, <2>1, <3>1, <3>2 DEF P!Exit
  <2>2. CASE P!Overflow(r)
    <3>1. P!Change(r, [p EXCEPT !.truncated = TRUE, !.sigterm = TRUE])
      BY <1>1, <2>2 DEF P!Overflow
    <3>2. Evolves(p, [p EXCEPT !.truncated = TRUE, !.sigterm = TRUE])
      <4>1. PICK q : q = [p EXCEPT !.truncated = TRUE, !.sigterm = TRUE]  OBVIOUS
      <4>2. /\ q \in P!Process /\ q.child = p.child /\ q.promise = p.promise
            /\ q.fallback = p.fallback /\ q.timedOut = p.timedOut /\ q.cancelled = p.cancelled
            /\ q.sigterm /\ q.sigkill = p.sigkill /\ q.killTimer = p.killTimer
        BY <1>1, <4>1 DEF P!Process
      <4>3. Evolves(p, q)
        <5>1. p.child \in {"alive", "exited"}  BY <1>1, <2>2 DEF P!Overflow
        <5>2. QED  BY <1>1, <4>2, <5>1 DEF Evolves, Sound
      <4>4. QED  BY <4>1, <4>3
    <3>3. QED  BY <3>1, <3>2
  <2>3. CASE \E limit \in P!Limits : P!LimitFires(r, limit)
    <3>1. PICK limit \in P!Limits : P!LimitFires(r, limit)  BY <2>3
    <3>2. PICK q : q = [p EXCEPT !.limits = @ \ {limit}]  OBVIOUS
    <3>3. /\ q \in P!Process /\ q.child = p.child /\ q.promise = p.promise
          /\ q.fallback = p.fallback /\ q.timedOut = p.timedOut /\ q.cancelled = p.cancelled
          /\ q.sigterm = p.sigterm /\ q.sigkill = p.sigkill /\ q.killTimer = p.killTimer
      BY <1>1, <3>2 DEF P!Process
    <3>4. Sound(q)  BY <1>1, <3>3 DEF Sound
    <3>5. P!Change(r, P!Stop(q, limit))  BY <1>1, <3>1, <3>2 DEF P!LimitFires
    <3>6. /\ P!Stop(q, limit) \in P!Process /\ Sound(P!Stop(q, limit))
          /\ P!Stop(q, limit).promise = q.promise /\ P!Stop(q, limit).child = q.child
          /\ q.cancelled => P!Stop(q, limit).cancelled
      BY <3>3, <3>4, StopIsSound DEF Reasons
    <3>7. Evolves(p, P!Stop(q, limit))
      <4>1. p.child = "exited" => p.child \in {"alive", "exited"}  OBVIOUS
      <4>2. QED  BY <3>3, <3>6, <4>1 DEF Evolves
    <3>8. QED  BY <3>5, <3>7
  <2>4. CASE P!KillFires(r)
    <3>1. PICK q : q = [p EXCEPT !.killTimer = FALSE, !.sigkill = TRUE]  OBVIOUS
    <3>2. P!Change(r, q)  BY <1>1, <2>4, <3>1 DEF P!KillFires
    <3>3. /\ q \in P!Process /\ q.child = p.child /\ q.promise = p.promise
          /\ q.fallback = p.fallback /\ q.timedOut = p.timedOut /\ q.cancelled = p.cancelled
          /\ q.sigterm = p.sigterm /\ q.sigkill
      BY <1>1, <3>1 DEF P!Process
    <3>4. Evolves(p, q)  BY <1>1, <3>3 DEF Evolves, Sound
    <3>5. QED  BY <3>2, <3>4
  <2>5. CASE P!CloseLate(r)
    <3>1. P!Change(r, P!Gone("closed", p.promise)) /\ p.child = "exited" /\ p.promise # "pending"
      BY <1>1, <2>5 DEF P!CloseLate
    <3>2. p.promise \in {"resolved", "rejected"}  BY <1>1, <3>1 DEF Sound
    <3>3. Evolves(p, P!Gone("closed", p.promise))  BY <3>1, <3>2, GoneIsSound DEF Evolves
    <3>4. QED  BY <3>1, <3>3
  <2>6. QED  BY <2>1, <2>2, <2>3, <2>4, <2>5 DEF P!ProcessStep
<1>3. PICK q : P!Change(r, q) /\ Evolves(p, q)  BY <1>2
<1>4. QED  BY <1>1, <1>3, ChangeOne DEF Evolves

\* The settlement of a run: its promise is no longer pending.
LEMMA SettlementIsSound ==
    ASSUME process \in [Requests -> P!Process], NEW r \in Requests, Sound(process[r]),
           process[r].promise = "pending",
           P!CloseSettles(r) \/ P!ForceSettles(r) \/ P!Rejects(r)
    PROVE  /\ process' \in [Requests -> P!Process] /\ Sound(process'[r])
           /\ process'[r].promise # "pending"
           /\ \A x \in Requests \ {r} : process'[x] = process[x]
<1>1. PICK p \in P!Process : p = process[r] /\ Sound(p)  OBVIOUS
<1>2. p.promise = "pending"  BY <1>1
<1>3. \E q \in P!Process : P!Change(r, q) /\ Sound(q) /\ q.promise # "pending"
  <2>1. CASE P!CloseSettles(r)
    <3>1. P!Change(r, P!Gone("closed", "resolved"))  BY <2>1 DEF P!CloseSettles
    <3>2. QED  BY <3>1, GoneIsSound
  <2>2. CASE P!ForceSettles(r)
    <3>1. PICK q : q = P!Forced(p)  OBVIOUS
    <3>2. P!Change(r, q) /\ p.fallback /\ p.sigkill  BY <1>1, <2>2, <3>1 DEF P!ForceSettles
    <3>3. /\ q \in P!Process /\ q.child = p.child /\ q.promise = "resolved"
          /\ q.fallback = FALSE /\ q.timedOut = p.timedOut /\ q.cancelled = p.cancelled
          /\ q.sigkill = p.sigkill
      BY <1>1, <3>1 DEF P!Process, P!Forced
    <3>4. Sound(q)  BY <1>1, <1>2, <3>2, <3>3 DEF Sound
    <3>5. QED  BY <3>2, <3>3, <3>4
  <2>3. CASE P!Rejects(r)
    <3>1. PICK q : q = [p EXCEPT !.child = "exited", !.promise = "rejected"]  OBVIOUS
    <3>2. P!Change(r, q)  BY <1>1, <2>3, <3>1 DEF P!Rejects
    <3>3. /\ q \in P!Process /\ q.child = "exited" /\ q.promise = "rejected"
          /\ q.fallback = p.fallback /\ q.timedOut = p.timedOut /\ q.cancelled = p.cancelled
      BY <1>1, <3>1 DEF P!Process
    <3>4. Sound(q)  BY <1>1, <3>3 DEF Sound
    <3>5. QED  BY <3>2, <3>3, <3>4
  <2>4. QED  BY <2>1, <2>2, <2>3
<1>4. PICK q \in P!Process : P!Change(r, q) /\ Sound(q) /\ q.promise # "pending"  BY <1>3
<1>5. QED  BY <1>1, <1>2, <1>4, ChangeOne

\* The gateway dies, and its processes are no longer its own.
LEMMA OrphanIsSound ==
    ASSUME NEW p \in P!Process, Sound(p)
    PROVE  /\ P!Orphan(p) \in P!Process /\ Sound(P!Orphan(p))
           /\ P!Orphan(p).child \in {"none", "closed", "orphan"}
           /\ P!Orphan(p).promise # "pending"
<1>1. CASE p.child = "none"  BY <1>1 DEF P!Orphan, Sound
<1>2. CASE p.child # "none"
  <2>1. PICK child \in {"closed", "orphan"}, promise \in {"none", "resolved", "rejected", "lost"} :
           P!Orphan(p) = P!Gone(child, promise)
    BY <1>2 DEF P!Orphan, P!Process
  <2>2. QED  BY <2>1, GoneIsSound
<1>3. QED  BY <1>1, <1>2

-------------------------------------------------------------------------------
(* The gateway and its processes. *)

\* The daemon waits for the runs whose promise is pending, the aborted ones were
\* cancelled, and a gateway that is down has no process but orphans.
HostInv ==
    /\ IInv
    /\ process \in [Requests -> P!Process]
    /\ \A r \in Requests : r \in running <=> up /\ process[r].promise = "pending"
    /\ \A r \in Requests : Sound(process[r])
    /\ \A r \in aborted : process[r].cancelled
    /\ ~up => \A r \in Requests : process[r].child \in {"none", "closed", "orphan"}

\* Every step of the composition is one of the daemon, or leaves it alone.
LEMMA DaemonStep == [HostNext]_hostVars => [Next]_vars
<1> SUFFICES ASSUME [HostNext]_hostVars  PROVE [Next]_vars
  OBVIOUS
<1>1. CASE UNCHANGED hostVars  BY <1>1 DEF hostVars
<1>2. CASE \E r \in Requests, e \in Envelope : HostHandle(r, e)
  BY <1>2 DEF HostHandle, Next
<1>3. CASE \E r \in Requests : HostFinish(r) \/ HostFails(r)
  BY <1>3 DEF HostFinish, HostFails, Next, Settle
<1>4. CASE \E r \in Requests : ProcessGoesOn(r)  BY <1>4 DEF ProcessGoesOn
<1>5. CASE (\E op \in Ops : HostCancel(op)) \/ HostTerminate
  BY <1>5 DEF HostCancel, HostTerminate, Next
<1>6. CASE HostCrash  BY <1>6 DEF HostCrash, Next
<1>7. CASE Shutdown \/ Restart \/ Tick  BY <1>7 DEF Next
<1>8. QED  BY <1>1, <1>2, <1>3, <1>4, <1>5, <1>6, <1>7 DEF HostNext

LEMMA HostHandleKeeps ==
    ASSUME HostInv, IInv', NEW r \in Requests, NEW e \in Envelope, HostHandle(r, e)
    PROVE  HostInv'
<1>1. up /\ up' = up /\ aborted' = aborted /\ running \subseteq running'
      /\ running' \subseteq running \cup {r}
  BY DEF HostHandle, Handle, RefuseStopping, RefuseMisbound, InspectFails, RefuseRedelivery,
         RefuseConflict, Replay, RefuseActive, Accept, Begin, Admissible, Arrives
<1>2. aborted \subseteq running  BY DEF HostInv, IInv, MemoryOK
<1>3. CASE r \in running' \ running
  <2>1. PICK p \in P!Starts : P!Change(r, p)  BY <1>3 DEF HostHandle
  <2>2. p \in P!Process /\ Sound(p) /\ p.promise = "pending"  BY StartsAreSound
  <2>3. /\ process'[r] = p /\ process' \in [Requests -> P!Process]
        /\ \A x \in Requests \ {r} : process'[x] = process[x]
    BY <2>1, <2>2, ChangeOne DEF HostInv
  <2>4. \A x \in Requests : x \in running' <=> up' /\ process'[x].promise = "pending"
    BY <1>1, <1>3, <2>2, <2>3 DEF HostInv
  <2>5. \A x \in aborted' : process'[x].cancelled
    BY <1>1, <1>2, <1>3, <2>3 DEF HostInv, IInv, TypeOK
  <2>6. QED  BY <1>1, <2>2, <2>3, <2>4, <2>5 DEF HostInv
<1>4. CASE r \notin running' \ running
  <2>1. process' = process /\ running' = running  BY <1>1, <1>4 DEF HostHandle
  <2>2. QED  BY <1>1, <2>1 DEF HostInv
<1>5. QED  BY <1>3, <1>4

\* A run is settled: the daemon stops waiting for it in the same step.
LEMMA HostSettleKeeps ==
    ASSUME HostInv, IInv', NEW r \in Requests, HostFinish(r) \/ HostFails(r)
    PROVE  HostInv'
<1>1. /\ up /\ up' = up /\ r \in running /\ running' = running \ {r}
      /\ aborted' = aborted \ {r}
      /\ P!CloseSettles(r) \/ P!ForceSettles(r) \/ P!Rejects(r)
  BY DEF HostFinish, HostFails, Finish, FinishUnsaved, RunFails, Release
<1>2. process[r].promise = "pending" /\ Sound(process[r])  BY <1>1 DEF HostInv
<1>3. /\ process' \in [Requests -> P!Process] /\ Sound(process'[r])
      /\ process'[r].promise # "pending"
      /\ \A x \in Requests \ {r} : process'[x] = process[x]
  BY <1>1, <1>2, SettlementIsSound DEF HostInv
<1>4. \A x \in Requests : Sound(process'[x])  BY <1>3 DEF HostInv
<1>5. \A x \in aborted' : process'[x].cancelled
  BY <1>1, <1>3 DEF HostInv, IInv, TypeOK
<1>6. QED  BY <1>1, <1>3, <1>4, <1>5 DEF HostInv

\* An abort reaches the process of its run in the same step.
LEMMA AbortKeeps ==
    ASSUME HostInv, IInv', StopAborted, up, up' = up, running' = running
    PROVE  HostInv'
<1>1. process' = [r \in Requests |-> IF r \in aborted' \ aborted
                                     THEN P!Stop(process[r], "abort") ELSE process[r]]
  BY DEF StopAborted
<1>2. "abort" \in Reasons  BY DEF Reasons
<1>3. ASSUME NEW r \in Requests
      PROVE  /\ process'[r] \in P!Process /\ Sound(process'[r])
             /\ process'[r].promise = process[r].promise
             /\ r \in aborted' => process'[r].cancelled
  <2>1. process[r] \in P!Process /\ Sound(process[r])  BY DEF HostInv
  <2>2. CASE r \in aborted' \ aborted
    <3>1. r \in running  BY <2>2 DEF IInv, MemoryOK
    <3>2. process[r].promise = "pending"  BY <3>1 DEF HostInv
    <3>3. process'[r] = P!Stop(process[r], "abort")  BY <1>1, <2>2
    <3>4. QED  BY <1>2, <2>1, <3>2, <3>3, StopIsSound
  <2>3. CASE r \notin aborted' \ aborted
    <3>1. process'[r] = process[r]  BY <1>1, <2>3
    <3>2. QED  BY <2>1, <2>3, <3>1 DEF HostInv
  <2>4. QED  BY <2>2, <2>3
<1>4. aborted' \subseteq Requests  BY DEF IInv, TypeOK
<1>5. process' \in [Requests -> P!Process]  BY <1>1, <1>3
<1>6. \A r \in Requests : r \in running' <=> up' /\ process'[r].promise = "pending"
  BY <1>3 DEF HostInv
<1>7. QED  BY <1>3, <1>4, <1>5, <1>6 DEF HostInv

LEMMA HostCrashKeeps ==
    ASSUME HostInv, IInv', HostCrash
    PROVE  HostInv'
<1>1. up' = FALSE /\ running' = {} /\ aborted' = {}
  BY DEF HostCrash, Crash, CrashBeforeReply, Die
<1>2. process' = [r \in Requests |-> P!Orphan(process[r])]  BY DEF HostCrash
<1>3. ASSUME NEW r \in Requests
      PROVE  /\ process'[r] \in P!Process /\ Sound(process'[r])
             /\ process'[r].child \in {"none", "closed", "orphan"}
             /\ process'[r].promise # "pending"
  <2>1. process[r] \in P!Process /\ Sound(process[r])  BY DEF HostInv
  <2>2. process'[r] = P!Orphan(process[r])  BY <1>2
  <2>3. QED  BY <2>1, <2>2, OrphanIsSound
<1>4. process' \in [Requests -> P!Process]  BY <1>2, <1>3
<1>5. QED  BY <1>1, <1>3, <1>4 DEF HostInv

LEMMA ProcessGoesOnKeeps ==
    ASSUME HostInv, IInv', NEW r \in Requests, ProcessGoesOn(r)
    PROVE  HostInv'
<1>1. P!ProcessStep(r) /\ UNCHANGED <<up, running, aborted>>  BY DEF ProcessGoesOn, vars
<1>2. /\ process' \in [Requests -> P!Process] /\ Evolves(process[r], process'[r])
      /\ \A x \in Requests \ {r} : process'[x] = process[x]
  BY <1>1, ProcessStepIsSound DEF HostInv
<1>3. \A x \in Requests : Sound(process'[x]) /\ process'[x].promise = process[x].promise
  BY <1>2 DEF HostInv, Evolves
<1>4. ASSUME NEW x \in aborted'  PROVE process'[x].cancelled
  <2>1. x \in Requests /\ x \in running /\ process[x].cancelled
    BY <1>1, <1>4 DEF HostInv, IInv, TypeOK, MemoryOK
  <2>2. process[x].promise = "pending"  BY <2>1 DEF HostInv
  <2>3. QED  BY <1>2, <2>1, <2>2 DEF Evolves
<1>5. ~up' => \A x \in Requests : process'[x].child \in {"none", "closed", "orphan"}
  BY <1>1, <1>2 DEF HostInv, Evolves
<1>6. QED  BY <1>1, <1>2, <1>3, <1>4, <1>5 DEF HostInv

\* A restart finds no process of its own, and the clock ends none.
LEMMA QuietKeeps ==
    ASSUME HostInv, IInv', process' = process, running' = running, aborted' = aborted,
           up' = up \/ (~up /\ up' = TRUE)
    PROVE  HostInv'
<1>1. CASE up' = up  BY <1>1 DEF HostInv
<1>2. CASE ~up /\ up' = TRUE
  <2>1. \A r \in Requests : process[r].promise # "pending" /\ r \notin running
    BY <1>2 DEF HostInv, Sound
  <2>2. QED  BY <1>2, <2>1 DEF HostInv
<1>3. QED  BY <1>1, <1>2

LEMMA HostInitHolds == HostInit => HostInv
<1> SUFFICES ASSUME HostInit  PROVE HostInv
  OBVIOUS
<1>1. IInv /\ up = TRUE /\ running = {} /\ aborted = {}
  BY InitIInv DEF HostInit, Init
<1>2. P!NoProcess \in P!Process /\ Sound(P!NoProcess) /\ P!NoProcess.promise = "none"
  BY DEF P!NoProcess, P!Process, Sound
<1>3. process = [r \in Requests |-> P!NoProcess]  BY DEF HostInit
<1>4. QED  BY <1>1, <1>2, <1>3 DEF HostInv

LEMMA HostStepKeeps == HostInv /\ [HostNext]_hostVars => HostInv'
<1> SUFFICES ASSUME HostInv, [HostNext]_hostVars  PROVE HostInv'
  OBVIOUS
<1>1. IInv'  BY DaemonStep, NextIInv DEF HostInv
<1>2. CASE \E r \in Requests, e \in Envelope : HostHandle(r, e)
  BY <1>1, <1>2, HostHandleKeeps
<1>3. CASE \E r \in Requests : HostFinish(r) \/ HostFails(r)
  BY <1>1, <1>3, HostSettleKeeps
<1>4. CASE \E r \in Requests : ProcessGoesOn(r)  BY <1>1, <1>4, ProcessGoesOnKeeps
<1>5. CASE (\E op \in Ops : HostCancel(op)) \/ HostTerminate
  <2>1. StopAborted /\ up /\ up' = up /\ running' = running
    BY <1>5 DEF HostCancel, HostTerminate, Cancel, Terminate
  <2>2. QED  BY <1>1, <2>1, AbortKeeps
<1>6. CASE HostCrash  BY <1>1, <1>6, HostCrashKeeps
<1>7. CASE (Shutdown \/ Restart \/ Tick) /\ UNCHANGED process
  <2>1. /\ process' = process /\ running' = running /\ aborted' = aborted
        /\ up' = up \/ (~up /\ up' = TRUE)
    BY <1>7 DEF Shutdown, Restart, Tick
  <2>2. QED  BY <1>1, <2>1, QuietKeeps
<1>8. CASE UNCHANGED hostVars
  <2>1. process' = process /\ running' = running /\ aborted' = aborted /\ up' = up
    BY <1>8 DEF hostVars, vars
  <2>2. QED  BY <1>1, <2>1, QuietKeeps
<1>9. QED  BY <1>2, <1>3, <1>4, <1>5, <1>6, <1>7, <1>8 DEF HostNext

THEOREM HostInductive == HostSpec => []HostInv
<1>1. QED  BY HostInitHolds, HostStepKeeps, PTL DEF HostSpec

\* With processes that live, ignore signals and die as they like, the daemon still
\* does what GatewayDaemon says: all that is proved of it holds of the composition.
THEOREM HostIsADaemon == HostSpec => Spec
<1>1. HostInit => Init  BY DEF HostInit
<1>2. QED  BY <1>1, DaemonStep, PTL DEF HostSpec, Spec

\* A process that lives, or holds its pipes, after its run was settled was sent
\* SIGKILL, and the outcome says that it timed out or was cancelled (EndedInVain).
THEOREM NoneEndsInVain == HostSpec => []EndedInVain
<1>1. HostInv => EndedInVain
  <2>1. SUFFICES ASSUME HostInv  PROVE EndedInVain
    OBVIOUS
  <2>2. HostTypeOK  BY <2>1 DEF HostInv, IInv, HostTypeOK
  <2>3. ASSUME NEW r \in Requests \ running,
               \/ process[r].child = "alive"
               \/ process[r].child = "exited" /\ process[r].promise = "resolved"
        PROVE  process[r].sigkill /\ (process[r].timedOut \/ process[r].cancelled)
    <3>1. up  BY <2>1, <2>3 DEF HostInv
    <3>2. process[r].promise # "pending"  BY <2>1, <2>3, <3>1 DEF HostInv
    <3>3. QED  BY <2>1, <2>3, <3>2 DEF HostInv, Sound
  <2>4. QED  BY <2>2, <2>3 DEF EndedInVain
<1>2. QED  BY HostInductive, <1>1, PTL

\* A stopping gateway has sent SIGTERM to each of its processes that lives, and a
\* SIGKILL is due or was sent (StoppingSignals).
THEOREM StoppingIsSignalled == HostSpec => []StoppingSignals
<1>1. HostInv => StoppingSignals
  <2>1. SUFFICES ASSUME HostInv, stopping, up, NEW r \in running
                 PROVE  process[r].sigterm /\ (process[r].killTimer \/ process[r].sigkill)
    BY DEF StoppingSignals
  <2>2. r \in Requests /\ r \in aborted  BY <2>1 DEF HostInv, IInv, TypeOK, StoppingAborts
  <2>3. process[r].cancelled /\ process[r].promise = "pending"  BY <2>1, <2>2 DEF HostInv
  <2>4. QED  BY <2>1, <2>2, <2>3 DEF HostInv, Sound
<1>2. QED  BY HostInductive, <1>1, PTL

\* With its processes the gateway still keeps the contract.
THEOREM HostImplementsContract == HostSpec => ImplementsContract
BY HostIsADaemon, DaemonImplementsContract
===============================================================================
