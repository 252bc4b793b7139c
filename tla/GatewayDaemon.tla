----------------------------- MODULE GatewayDaemon -----------------------------
(***************************************************************************)
(* GatewayDaemon.handle and its journal: how one gateway process admits,   *)
(* runs, deduplicates, cancels and replays operations, across failed saves,*)
(* crashes and restarts.                                                   *)
(*                                                                         *)
(* A request is one envelope with an id of its own; a client that retries  *)
(* sends another request with the same operation id.  handle() runs        *)
(* without a suspension point from its first line to the await at          *)
(* daemon.mjs:139, and again from there to its end, so each path to the    *)
(* await, and the continuation after it, is one action.                    *)
(***************************************************************************)
EXTENDS OperationJournal

CONSTANTS
    Requests,   \* the execution requests that may arrive
    Ops,        \* operation ids
    Digests,    \* request digests: what the operation is asked to do
    None,       \* "no request" in the controllers Map, "not received"
    MaxClock,   \* bound: the clock stops here
    MaxBoots    \* bound: how often the gateway is started again

\* Protected values: none, bound to this delivery, or bound to another one.
Secrets == {"none", "bound", "misbound"}

Envelope == [op : Ops, digest : Digests, secret : Secrets]

ASSUME DaemonAssumption ==
    /\ None \notin Requests \cup Envelope
    /\ IsFiniteSet(Requests)
    /\ MaxClock \in Nat
    /\ MaxBoots \in Nat

VARIABLES
    up,          \* the gateway process is alive
    stopping,    \* this.stopping
    boot,        \* how many times the process was restarted
    clock,       \* this.now()
    controllers, \* this.controllers: which request runs an operation
    running,     \* requests suspended at "await this.telemetry.execute"
    aborted,     \* running requests whose AbortController was aborted
    journal,     \* journal.entries, in memory
    disk,        \* operations.json
    envelope,    \* what each request asked
    reply,       \* the last envelope handle() sent for each request
    answer,      \* the stamp of the outcome an ok response carried, or 0
    completed,   \* history: every outcome a run has produced
    durable      \* history: every outcome that was ever in operations.json

vars == <<up, stopping, boot, clock, controllers, running, aborted, journal,
          disk, envelope, reply, answer, completed, durable>>

\* "accepted" is the only reply that is followed by another one.
Replies == {"none", "accepted", "done", "failed", "error", "redelivery",
            "conflict", "in_progress", "replayed", "lost"}

Entry == [op : Ops, digest : Digests, stamp : Nat, expiresAt : Nat, boot : Nat]

Init ==
    /\ up = TRUE
    /\ stopping = FALSE
    /\ boot = 0
    /\ clock = 0
    /\ controllers = [op \in Ops |-> None]
    /\ running = {}
    /\ aborted = {}
    /\ journal = {}
    /\ disk = {}
    /\ envelope = [r \in Requests |-> None]
    /\ reply = [r \in Requests |-> "none"]
    /\ answer = [r \in Requests |-> 0]
    /\ completed = {}
    /\ durable = {}

-------------------------------------------------------------------------------
\* save(): a temporary file renamed over operations.json.
Save(j) == disk' = j /\ durable' = durable \cup j

Respond(r, kind) == reply' = [reply EXCEPT ![r] = kind]

\* What a request asked is kept while it runs and, for the properties, when it
\* was answered with an outcome; a refused request leaves only its reply.
Remember(r, e) == envelope' = [envelope EXCEPT ![r] = e]

Arrives(r) == up /\ reply[r] = "none"

\* Lines 77-80: nothing is admitted any more once the gateway is stopping.
RefuseStopping(r, e) ==
    /\ Arrives(r)
    /\ stopping
    /\ Respond(r, "error")
    /\ UNCHANGED <<up, stopping, boot, clock, controllers, running, aborted,
                   journal, disk, envelope, answer, completed, durable>>

\* Lines 83-95: protected values bound to another gateway, connection, request
\* or operation are refused before the journal is looked at.
RefuseMisbound(r, e) ==
    /\ Arrives(r)
    /\ ~stopping
    /\ e.secret = "misbound"
    /\ Respond(r, "error")
    /\ UNCHANGED <<up, stopping, boot, clock, controllers, running, aborted,
                   journal, disk, envelope, answer, completed, durable>>

Admissible(r, e) == Arrives(r) /\ ~stopping /\ e.secret # "misbound"

\* journal.inspect() prunes, and saves when pruning dropped an entry.
Inspect ==
    LET pruned == Prune(journal, clock)
    IN  /\ journal' = pruned
        /\ IF pruned # journal THEN Save(pruned)
                               ELSE UNCHANGED <<disk, durable>>

Found(op) == Lookup(Prune(journal, clock), op)

\* The save inside inspect() throws: the entries are gone from memory already,
\* and handleLine answers the request with an error.
InspectFails(r, e) ==
    /\ Admissible(r, e)
    /\ Prune(journal, clock) # journal
    /\ journal' = Prune(journal, clock)
    /\ Respond(r, "error")
    /\ UNCHANGED <<up, stopping, boot, clock, controllers, running, aborted,
                   disk, envelope, answer, completed, durable>>

\* Lines 111-114: a completed operation never takes protected values again.
RefuseRedelivery(r, e) ==
    /\ Admissible(r, e)
    /\ Inspect
    /\ Found(e.op) # {}
    /\ e.secret = "bound"
    /\ Respond(r, "redelivery")
    /\ UNCHANGED <<up, stopping, boot, clock, controllers, running, aborted,
                   envelope, answer, completed>>

\* Lines 115-118: the id is held by a completed operation of another digest.
RefuseConflict(r, e) ==
    /\ Admissible(r, e)
    /\ Inspect
    /\ e.secret = "none"
    /\ \E f \in Found(e.op) : f.digest # e.digest
    /\ Respond(r, "conflict")
    /\ UNCHANGED <<up, stopping, boot, clock, controllers, running, aborted,
                   envelope, answer, completed>>

\* Mutant: the stored outcome is sent whatever the new request asks.
ReplayAnyDigest(r, e) ==
    /\ Admissible(r, e)
    /\ Inspect
    /\ e.secret = "none"
    /\ \E f \in Found(e.op) : answer' = [answer EXCEPT ![r] = f.stamp]
    /\ Remember(r, e)
    /\ Respond(r, "replayed")
    /\ UNCHANGED <<up, stopping, boot, clock, controllers, running, aborted,
                   completed>>

\* Lines 119-120: the stored outcome is sent again.
Replay(r, e) ==
    /\ Admissible(r, e)
    /\ Inspect
    /\ e.secret = "none"
    /\ \E f \in Found(e.op) :
          /\ f.digest = e.digest
          /\ answer' = [answer EXCEPT ![r] = f.stamp]
    /\ Remember(r, e)
    /\ Respond(r, "replayed")
    /\ UNCHANGED <<up, stopping, boot, clock, controllers, running, aborted,
                   completed>>

\* Lines 123-131: the id is held by an operation that is still running.
RefuseActive(r, e) ==
    /\ Admissible(r, e)
    /\ Inspect
    /\ Found(e.op) = {}
    /\ controllers[e.op] # None
    /\ Respond(r, IF envelope[controllers[e.op]].digest = e.digest
                     THEN "in_progress" ELSE "conflict")
    /\ UNCHANGED <<up, stopping, boot, clock, controllers, running, aborted,
                   envelope, answer, completed>>

\* What accepting a request does, whatever was checked before.
Begin(r, e) ==
    /\ controllers' = [controllers EXCEPT ![e.op] = r]
    /\ running' = running \cup {r}
    /\ Remember(r, e)
    /\ Respond(r, "accepted")
    /\ UNCHANGED <<up, stopping, boot, clock, aborted, answer, completed>>

\* Mutant: the check for an active run of the operation is missing.
AcceptActive(r, e) ==
    /\ Admissible(r, e)
    /\ Inspect
    /\ Found(e.op) = {}
    /\ Begin(r, e)

\* Mutant: the check for a journalled outcome of the operation is missing.
AcceptCompleted(r, e) ==
    /\ Admissible(r, e)
    /\ Inspect
    /\ controllers[e.op] = None
    /\ Begin(r, e)

\* Lines 133-139: the operation is registered, accepted and started.
Accept(r, e) ==
    /\ Admissible(r, e)
    /\ Inspect
    /\ Found(e.op) = {}
    /\ controllers[e.op] = None
    /\ Begin(r, e)

-------------------------------------------------------------------------------
\* The entry journal.put() stores for the run of request r.
Outcome(r) ==
    [op        |-> envelope[r].op,
     digest    |-> envelope[r].digest,
     stamp     |-> Cardinality(completed) + 1,
     expiresAt |-> clock + JournalTtl,
     boot      |-> boot]

\* The finally block: the operation id is free again.
Release(r) ==
    /\ controllers' = [controllers EXCEPT ![envelope[r].op] = None]
    /\ running' = running \ {r}
    /\ aborted' = aborted \ {r}

Journalled(r) ==
    /\ journal' = Put(journal, Outcome(r), clock)
    /\ completed' = completed \cup {Outcome(r)}

\* Mutant: the file is saved before the entry is in the Map.
FinishSavedEarly(r) ==
    /\ up
    /\ r \in running
    /\ Journalled(r)
    /\ Save(Prune(journal, clock))
    /\ Release(r)
    /\ Respond(r, "done")
    /\ answer' = [answer EXCEPT ![r] = Outcome(r).stamp]
    /\ UNCHANGED <<up, stopping, boot, clock, envelope>>

\* Lines 153-156 and 160: the run resolves and its outcome is saved, then sent.
Finish(r) ==
    /\ up
    /\ r \in running
    /\ Journalled(r)
    /\ Save(Put(journal, Outcome(r), clock))
    /\ Release(r)
    /\ Respond(r, "done")
    /\ answer' = [answer EXCEPT ![r] = Outcome(r).stamp]
    /\ UNCHANGED <<up, stopping, boot, clock, envelope>>

\* Lines 154, 157-160: the save in put() throws after the entry is in memory.
FinishUnsaved(r) ==
    /\ up
    /\ r \in running
    /\ Journalled(r)
    /\ Release(r)
    /\ Respond(r, "failed")
    /\ UNCHANGED <<up, stopping, boot, clock, disk, envelope, answer, durable>>

\* Mutant: a run that throws does not free its operation id.
RunFailsHeld(r) ==
    /\ up
    /\ r \in running
    /\ running' = running \ {r}
    /\ aborted' = aborted \ {r}
    /\ Respond(r, "failed")
    /\ UNCHANGED <<up, stopping, boot, clock, controllers, journal, disk,
                   envelope, answer, completed, durable>>

\* Lines 157-160: the run itself throws, and nothing is journalled.
RunFails(r) ==
    /\ up
    /\ r \in running
    /\ Release(r)
    /\ Respond(r, "failed")
    /\ UNCHANGED <<up, stopping, boot, clock, journal, disk, envelope, answer,
                   completed, durable>>

-------------------------------------------------------------------------------
\* Mutant: cancel does not look whether the operation is active.
CancelUnknown(op) ==
    /\ up
    /\ aborted' = aborted \cup {controllers[op]}
    /\ UNCHANGED <<up, stopping, boot, clock, controllers, running, journal,
                   disk, envelope, reply, answer, completed, durable>>

\* Lines 60-66: only the AbortController of the active run is aborted.
Cancel(op) ==
    /\ up
    /\ controllers[op] # None
    /\ aborted' = aborted \cup {controllers[op]}
    /\ UNCHANGED <<up, stopping, boot, clock, controllers, running, journal,
                   disk, envelope, reply, answer, completed, durable>>

\* Mutant: shutdown does not wait until the gateway is idle.
ShutdownBusy ==
    /\ up
    /\ ~stopping
    /\ stopping' = TRUE
    /\ UNCHANGED <<up, boot, clock, controllers, running, aborted, journal,
                   disk, envelope, reply, answer, completed, durable>>

\* Lines 67-76: shutdown is refused unless no operation is active.
Shutdown ==
    /\ up
    /\ ~stopping
    /\ \A op \in Ops : controllers[op] = None
    /\ stopping' = TRUE
    /\ UNCHANGED <<up, boot, clock, controllers, running, aborted, journal,
                   disk, envelope, reply, answer, completed, durable>>

\* cli.mjs 53-65, the stdio gateway: a signal stops admission and aborts every
\* active run, without waiting for them.
Terminate ==
    /\ up
    /\ ~stopping
    /\ stopping' = TRUE
    /\ aborted' = {controllers[op] : op \in Ops} \ {None}
    /\ UNCHANGED <<up, boot, clock, controllers, running, journal, disk,
                   envelope, reply, answer, completed, durable>>

\* The memory of the process is gone, and with it every unanswered request.
Die ==
    /\ up' = FALSE
    /\ controllers' = [op \in Ops |-> None]
    /\ running' = {}
    /\ aborted' = {}
    /\ journal' = {}
    /\ reply' = [r \in Requests |-> IF r \in running THEN "lost" ELSE reply[r]]

\* The process exits, or is killed, at any point.
Crash ==
    /\ up
    /\ Die
    /\ UNCHANGED <<stopping, boot, clock, disk, envelope, answer, completed,
                   durable>>

\* It dies after journal.put() saved the outcome of r and before the response.
CrashBeforeReply(r) ==
    /\ up
    /\ r \in running
    /\ Save(Put(journal, Outcome(r), clock))
    /\ completed' = completed \cup {Outcome(r)}
    /\ Die
    /\ UNCHANGED <<stopping, boot, clock, envelope, answer>>

\* Mutant: a new process starts with an empty journal.
RestartEmpty ==
    /\ ~up
    /\ boot < MaxBoots
    /\ up' = TRUE
    /\ stopping' = FALSE
    /\ boot' = boot + 1
    /\ UNCHANGED <<clock, controllers, running, aborted, journal, disk,
                   envelope, reply, answer, completed, durable>>

\* A new process: the constructor loads the file, prunes it and saves it if
\* that dropped an entry.  (When that save throws there is no process.)
Restart ==
    /\ ~up
    /\ boot < MaxBoots
    /\ up' = TRUE
    /\ stopping' = FALSE
    /\ boot' = boot + 1
    /\ journal' = Prune(disk, clock)
    /\ Save(Prune(disk, clock))
    /\ UNCHANGED <<clock, controllers, running, aborted, envelope, reply,
                   answer, completed>>

Tick ==
    /\ clock < MaxClock
    /\ clock' = clock + 1
    /\ UNCHANGED <<up, stopping, boot, controllers, running, aborted, journal,
                   disk, envelope, reply, answer, completed, durable>>

Handle(r, e) ==
    \/ RefuseStopping(r, e)
    \/ RefuseMisbound(r, e)
    \/ InspectFails(r, e)
    \/ RefuseRedelivery(r, e)
    \/ RefuseConflict(r, e)
    \/ Replay(r, e)
    \/ RefuseActive(r, e)
    \/ Accept(r, e)

Settle(r) == Finish(r) \/ FinishUnsaved(r) \/ RunFails(r)

Next ==
    \/ \E r \in Requests, e \in Envelope : Handle(r, e)
    \/ \E r \in Requests : Settle(r) \/ CrashBeforeReply(r)
    \/ \E op \in Ops : Cancel(op)
    \/ Shutdown
    \/ Terminate
    \/ Crash
    \/ Restart
    \/ Tick

Spec == Init /\ [][Next]_vars

-------------------------------------------------------------------------------
\* Every variable holds a value the program can hold in it.
TypeOK ==
    /\ up \in BOOLEAN
    /\ stopping \in BOOLEAN
    /\ boot \in Nat
    /\ clock \in Nat
    /\ controllers \in [Ops -> Requests \cup {None}]
    /\ running \subseteq Requests
    /\ aborted \subseteq Requests
    /\ journal \subseteq Entry
    /\ disk \subseteq Entry
    /\ envelope \in [Requests -> Envelope \cup {None}]
    /\ reply \in [Requests -> Replies]
    /\ answer \in [Requests -> Nat]
    /\ completed \subseteq Entry
    /\ durable \subseteq Entry

\* No operation id is ever being executed twice at once, and the controllers
\* Map names exactly the runs in flight: what cancel, shutdown and the
\* operation_in_progress check rely on.
OneRunPerOperation ==
    /\ \A r \in running : envelope[r] # None /\ controllers[envelope[r].op] = r
    /\ \A op \in Ops : controllers[op] # None =>
          controllers[op] \in running /\ envelope[controllers[op]].op = op

\* An operation that is running has no entry in the journal: the order of the
\* journal check (line 109) before the active check (line 123) can hide neither,
\* and put() never overwrites an outcome that could still be replayed.
RunningNotRetained ==
    \A r \in running : Lookup(Live(journal, clock), envelope[r].op) = {}

\* The journal is a Map with at most JournalLimit keys, in memory and on disk.
JournalBounded ==
    \A j \in {journal, disk} :
        /\ Cardinality(j) <= JournalLimit
        /\ \A e, f \in j : e.op = f.op => e = f

\* An outcome that was sent as the result of its own run was in operations.json
\* first, whatever saves failed before: "done" is never reported for an outcome
\* that a crash could take back before its time.
DoneIsDurable ==
    \A r \in Requests : reply[r] = "done" =>
        \E e \in durable : e.stamp = answer[r] /\ e.op = envelope[r].op

\* Once the gateway is stopping, whatever still runs has been told to stop:
\* shutdown waits for an idle gateway, a signal aborts, nothing new starts.
StoppingAborts == stopping => running \subseteq aborted

\* A replay carries the outcome of a completed run of the same operation and
\* the same request digest, still inside its retention time, and is never sent
\* to a request that carried protected values.  It is the outcome of the latest
\* such run, unless a restart lost the later ones because no save held them.
ReplayFaithful ==
    [][\A r \in Requests : reply[r] # "replayed" /\ reply'[r] = "replayed" =>
          /\ envelope'[r].secret = "none"
          /\ \E e \in completed :
                /\ e.stamp = answer'[r]
                /\ e.op = envelope'[r].op
                /\ e.digest = envelope'[r].digest
                /\ e.expiresAt > clock
                /\ \A f \in Lookup(Newer(completed, e), e.op) :
                      f.boot < boot /\ f \notin durable]_vars

\* The replay guarantee of docs/protocol.md: an operation id is executed again
\* only when every earlier outcome of it has expired, was displaced by at least
\* JournalLimit later completions, or was lost because a restart came before
\* any save that held it succeeded.
NoRerunInWindow ==
    [][\A r \in running' \ running : \A e \in completed :
          e.op = envelope'[r].op =>
             \/ e.expiresAt <= clock
             \/ Cardinality(Newer(completed, e)) >= JournalLimit
             \/ e.boot < boot /\ e \notin durable]_vars

\* An operation id does not stay in progress: its run settles and frees the id,
\* or the process dies.  A retry is not refused with operation_in_progress for
\* ever.
OperationReleased ==
    \A op \in Ops : controllers[op] # None ~> controllers[op] = None
===============================================================================
