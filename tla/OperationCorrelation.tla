-------------------------- MODULE OperationCorrelation --------------------------
(***************************************************************************)
(* The controller's durable record of what it asked gateways to do         *)
(* (createOperationCorrelationStore) and the adapter that uses it          *)
(* (createProcessController), in server/index.mjs: a call is recorded,     *)
(* dispatched, answered and recorded again as terminal, while other calls, *)
(* retries of the same operation among them, do the same.                  *)
(*                                                                         *)
(* The store's transactions are serialized; each ends with one write, so   *)
(* a transaction and the continuation of the call that awaits it are one   *)
(* step, taken when the transaction reaches the head of the queue.         *)
(***************************************************************************)
EXTENDS Naturals, Sequences, FiniteSets, Subsequences

CONSTANTS
    Calls,          \* calls of executeProcess or executeNativeFilesystem
    Ops,            \* operation ids
    Digests,        \* request digest, target and kind of a call
    None,
    TerminalLimit,  \* terminalLimit
    MaxCrashes      \* bound: restarts of the controller

ASSUME CorrelationAssumption ==
    /\ None \notin Ops \cup Digests
    /\ TerminalLimit \in Nat \ {0}
    /\ MaxCrashes \in Nat

VARIABLES
    records,    \* controllerOperations, oldest update first
    queue,      \* the transactions waiting: [call, what]
    call,       \* [state, op, digest] of each call
    aborted,    \* calls whose abort signal fired
    cancelled,  \* calls that dispatched a cancellation
    crashes,
    completed   \* history: operations that were ever recorded as terminal

vars == <<records, queue, call, aborted, cancelled, crashes, completed>>

Call == [state : {"idle"}, op : {None}, digest : {None}]
        \cup [state : {"beginning", "dispatched", "answered", "done", "failed"},
              op : Ops, digest : Digests]

Record == [op : Ops, digest : Digests, state : {"dispatching", "terminal"}]

Init ==
    /\ records = <<>>
    /\ queue = <<>>
    /\ call = [c \in Calls |-> [state |-> "idle", op |-> None, digest |-> None]]
    /\ aborted = {}
    /\ cancelled = {}
    /\ crashes = 0
    /\ completed = {}

-------------------------------------------------------------------------------
OfOp(op) == {i \in 1..Len(records) : records[i].op = op}

\* Mutant: unresolved records are evicted like terminal ones.
RetainedAny(rs, i) == Len(rs) - i < TerminalLimit

\* Mutant: one terminal record too many is retained.
RetainedMore(rs, i) ==
    rs[i].state # "terminal" \/
    Cardinality({k \in i + 1..Len(rs) : rs[k].state = "terminal"}) <= TerminalLimit

\* The terminal records that are followed by fewer than the limit of others.
Retained(rs, i) ==
    rs[i].state # "terminal" \/
    Cardinality({k \in i + 1..Len(rs) : rs[k].state = "terminal"}) < TerminalLimit

Keep(rs) == Picked(rs, {i \in 1..Len(rs) : Retained(rs, i)})

\* writeRecord(): the record goes last, and old terminal records go.
WriteRecord(r) ==
    LET others == {i \in 1..Len(records) : records[i].op # r.op}
    IN  records' = Keep(Append(Picked(records, others), r))

Move(c, to) == call' = [call EXCEPT ![c].state = to]

\* A call begins, and waits for its record.
Execute(c, op, d) ==
    /\ call[c].state = "idle"
    /\ call' = [call EXCEPT ![c] = [state |-> "beginning", op |-> op, digest |-> d]]
    /\ queue' = Append(queue, [call |-> c, what |-> "begin"])
    /\ UNCHANGED <<records, aborted, cancelled, crashes, completed>>

Transaction(what) == queue # <<>> /\ Head(queue).what = what /\ queue' = Tail(queue)

\* Mutant: begin() does not compare the digests.
ConflictsNever(c) == FALSE

Conflicts(c) == \E i \in OfOp(call[c].op) : records[i].digest # call[c].digest

\* begin() found the operation under another digest, target or kind.
BeginConflicts ==
    LET c == Head(queue).call
    IN  /\ Transaction("begin")
        /\ Conflicts(c)
        /\ Move(c, "failed")
        /\ UNCHANGED <<records, aborted, cancelled, crashes, completed>>

\* The record is there, as it was or new; the call is dispatched unless it was
\* aborted meanwhile.
BeginReturns ==
    LET c == Head(queue).call
    IN  /\ Transaction("begin")
        /\ ~Conflicts(c)
        /\ IF OfOp(call[c].op) = {}
           THEN WriteRecord([op |-> call[c].op, digest |-> call[c].digest,
                             state |-> "dispatching"])
           ELSE UNCHANGED records
        /\ Move(c, IF c \in aborted THEN "failed" ELSE "dispatched")
        /\ UNCHANGED <<aborted, cancelled, crashes, completed>>

\* A read or write of the settings throws: the record stays as it was.
TransactionThrows ==
    /\ queue # <<>>
    /\ queue' = Tail(queue)
    /\ Move(Head(queue).call, "failed")
    /\ UNCHANGED <<records, aborted, cancelled, crashes, completed>>

\* The gateway's outcome arrives, of a run or replayed.
Answered(c) ==
    /\ call[c].state = "dispatched"
    /\ Move(c, "answered")
    /\ queue' = Append(queue, [call |-> c, what |-> "terminal"])
    /\ UNCHANGED <<records, aborted, cancelled, crashes, completed>>

\* An error, a disconnect, or evidence of another operation: the record stays.
DispatchFails(c) ==
    /\ call[c].state = "dispatched"
    /\ Move(c, "failed")
    /\ UNCHANGED <<records, queue, aborted, cancelled, crashes, completed>>

TerminalReturns ==
    LET c == Head(queue).call
    IN  /\ Transaction("terminal")
        /\ \E i \in OfOp(call[c].op) :
              WriteRecord([records[i] EXCEPT !.state = "terminal"])
        /\ completed' = completed \cup {call[c].op}
        /\ Move(c, "done")
        /\ UNCHANGED <<aborted, cancelled, crashes>>

\* operation_correlation_missing: the call fails, although it was answered.
TerminalMissing ==
    LET c == Head(queue).call
    IN  /\ Transaction("terminal")
        /\ OfOp(call[c].op) = {}
        /\ Move(c, "failed")
        /\ UNCHANGED <<records, aborted, cancelled, crashes, completed>>

\* The caller's signal fires; a call that is dispatched sends a cancellation.
Abort(c) ==
    /\ call[c].state \in {"beginning", "dispatched", "answered"}
    /\ c \notin aborted
    /\ aborted' = aborted \cup {c}
    /\ cancelled' = IF call[c].state = "beginning" THEN cancelled ELSE cancelled \cup {c}
    /\ UNCHANGED <<records, queue, call, crashes, completed>>

\* The controller process is started again: its calls and transactions are gone.
Restart ==
    /\ crashes < MaxCrashes
    /\ crashes' = crashes + 1
    /\ queue' = <<>>
    /\ call' = [c \in Calls |-> IF call[c].state \in {"beginning", "dispatched", "answered"}
                                THEN [call[c] EXCEPT !.state = "failed"] ELSE call[c]]
    /\ UNCHANGED <<records, aborted, cancelled, completed>>

Next ==
    \/ \E c \in Calls, op \in Ops, d \in Digests : Execute(c, op, d)
    \/ \E c \in Calls : Answered(c) \/ DispatchFails(c) \/ Abort(c)
    \/ BeginConflicts \/ BeginReturns \/ TransactionThrows
    \/ TerminalReturns \/ TerminalMissing
    \/ Restart

Spec == Init /\ [][Next]_vars

-------------------------------------------------------------------------------
\* Calls the gateway was asked to run and whose outcome is not recorded yet.
InFlight == {c \in Calls : call[c].state \in {"dispatched", "answered"}}

\* Every variable holds a value the program can hold in it.
TypeOK ==
    /\ records \in Seq(Record)
    /\ queue \in Seq([call : Calls, what : {"begin", "terminal"}])
    /\ \A i, k \in 1..Len(queue) : i # k => queue[i].call # queue[k].call
    /\ call \in [Calls -> Call]
    /\ aborted \subseteq Calls
    /\ cancelled \subseteq aborted
    /\ completed \subseteq Ops
    /\ crashes \in Nat

\* The collection holds one record per operation and at most TerminalLimit
\* terminal ones, however its writers interleave and fail.
RecordsBounded ==
    /\ TypeOK
    /\ \A i, k \in 1..Len(records) : i # k => records[i].op # records[k].op
    /\ Cardinality({i \in 1..Len(records) : records[i].state = "terminal"}) <= TerminalLimit

\* A record says "dispatching" until its operation is recorded as terminal: no
\* number of other operations, failed writes or restarts makes it go away (test
\* "terminal correlation retention", server/index.test.mjs:441).
UnresolvedStays ==
    [][\A i \in 1..Len(records) : records[i].state = "dispatching" =>
          \E k \in 1..Len(records') :
              /\ records'[k].op = records[i].op
              /\ records'[k].digest = records[i].digest]_vars

\* An operation that has not been completed yet is never in flight with two
\* meanings, and is recorded under the meaning in flight.
OneMeaningInFlight ==
    \A c \in InFlight : call[c].op \notin completed =>
        \E i \in OfOp(call[c].op) : records[i].digest = call[c].digest

\* "Unresolved dispatches are never evicted by that limit" (docs/development.md
\* :92): whatever is in flight has its record.  It does not hold of an operation
\* that is dispatched again after it was completed.
InFlightIsRecorded ==
    \A c \in InFlight : OfOp(call[c].op) # {}
===============================================================================
