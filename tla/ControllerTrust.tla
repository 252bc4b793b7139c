---------------------------- MODULE ControllerTrust ----------------------------
(***************************************************************************)
(* The trust service of the controller (createControllerService and the    *)
(* gateway-trust routes of server/index.mjs): approvals, rejections,       *)
(* revocations and shared-secret enrolments, each a sequence of durable    *)
(* writes made by one task at a time, any of which can fail, and any two   *)
(* of which a crash can separate.                                          *)
(*                                                                         *)
(* Settings and secrets live behind asynchronous calls: a write is sent,   *)
(* becomes durable (or throws, changing nothing), and only later does the  *)
(* task continue.  What happens meanwhile in the listener and in the       *)
(* routes are the interleavings of this module.  Of the listener it keeps  *)
(* what the tasks read and write; ControllerListener has the rest.         *)
(***************************************************************************)
EXTENDS Naturals, Sequences, FiniteSets

CONSTANTS
    Ids,            \* gateway ids
    Hosts,          \* holders of an Ed25519 key
    None,
    MaxCalls,       \* bound: administrator calls
    MaxChallenges,  \* bound: pairing requests
    MaxFailures,    \* bound: writes that throw
    MaxBoots        \* bound: restarts of the controller

\* A gateway with both credentials is asked for its key (listener line 170).
Credentials == Hosts \cup {"secret"}

Pairing == [host : Hosts, challenge : 1..MaxChallenges]

ASSUME TrustAssumption ==
    /\ None \notin Credentials \cup Ids \cup Pairing
    /\ MaxCalls \in Nat /\ MaxChallenges \in Nat
    /\ MaxFailures \in Nat /\ MaxBoots \in Nat

VARIABLES
    up,          \* the controller process is alive
    boots,
    calls,
    failures,
    challenges,  \* how many challenges were answered by unknown gateways
    store,       \* durable settings and secrets
    queue,       \* trustQueue: the task at work and those waiting
    step,        \* the write of its program the task is at
    flight,      \* "idle": not begun; "sent": write in flight; "back": it returned
    saved,       \* what approvePairing() read to roll back to
    generations, \* generations
    records,     \* listener.gatewayRecords: the credential a gateway is held to
    pending,     \* listener.pending: [host, challenge]
    live,        \* gateways whose pending connection is still open
    checked,     \* PUT requests past their check for an Ed25519 credential
    decided,     \* history: the outcome of the last mutation of each gateway
    exposed      \* history: gateways with a failed write in a failed approval's rollback

memory == <<queue, step, flight, saved, generations, records, pending, live, checked>>
history == <<decided, exposed>>
bounds == <<up, boots, calls, failures, challenges>>
vars == <<bounds, store, memory, history>>

Store == [keys     : [Ids -> Hosts \cup {None}],      \* controller.gateway.publicKey.*
          secrets  : SUBSET Ids,                      \* controller.gateway.*
          gateways : SUBSET Ids,                      \* CONTROLLER_GATEWAYS_NAME
          pairings : [Ids -> Pairing \cup {None}],    \* PENDING_PAIRINGS_NAME
          intents  : SUBSET Ids]                      \* controllerTrustMutations

\* gatewayRecords(): what a start of the controller would hold each gateway to.
Admits(s, id) ==
    IF id \notin s.gateways \/ id \in s.intents THEN None
    ELSE IF s.keys[id] # None THEN s.keys[id]
    ELSE IF id \in s.secrets THEN "secret" ELSE None

Empty == [keys     |-> [id \in Ids |-> None],
          secrets  |-> {},
          gateways |-> {},
          pairings |-> [id \in Ids |-> None],
          intents  |-> {}]

\* A controller whose gateways were all enrolled with a secret, or none.
Init ==
    /\ up = TRUE
    /\ boots = 0 /\ calls = 0 /\ failures = 0 /\ challenges = 0
    /\ store \in {Empty, [Empty EXCEPT !.secrets = Ids, !.gateways = Ids]}
    /\ queue = <<>> /\ step = 0 /\ flight = "idle"
    /\ saved = None
    /\ generations = [id \in Ids |-> 0]
    /\ records = [id \in Ids |-> Admits(store, id)]
    /\ pending = [id \in Ids |-> None]
    /\ live = {}
    /\ checked = {}
    /\ decided = [id \in Ids |-> Admits(store, id)]
    /\ exposed = {}

-------------------------------------------------------------------------------
\* Mutant: an enrolment does not block the gateway while it writes.
ProgramUnblocked(kind) ==
    CASE kind = "ask"     -> <<"ask">>
      [] kind = "approve" -> <<"intend", "key", "list", "unask", "release">>
      [] kind = "recover" -> <<"intend", "oldKey", "oldList", "oldPairings">>
      [] kind = "reject"  -> <<"unask">>
      [] kind = "trust"   -> <<"secret", "list", "release">>
      [] kind = "revoke"  -> <<"intend", "unlist", "unask", "noSecret", "noKey", "release">>

\* The durable writes of each kind of task, in the order of the code.
Program(kind) ==
    CASE kind = "ask"     -> <<"ask">>
      [] kind = "approve" -> <<"intend", "key", "list", "unask", "release">>
      [] kind = "recover" -> <<"intend", "oldKey", "oldList", "oldPairings">>
      [] kind = "reject"  -> <<"unask">>
      [] kind = "trust"   -> <<"intend", "secret", "list", "release">>
      [] kind = "revoke"  -> <<"intend", "unlist", "unask", "noSecret", "noKey", "release">>

Written(write, t) ==
    CASE write = "intend"      -> [store EXCEPT !.intents = @ \cup {t.id}]
      [] write = "release"     -> [store EXCEPT !.intents = @ \ {t.id}]
      [] write = "key"         -> [store EXCEPT !.keys[t.id] = t.pairing.host]
      [] write = "noKey"       -> [store EXCEPT !.keys[t.id] = None]
      [] write = "secret"      -> [store EXCEPT !.secrets = @ \cup {t.id}]
      [] write = "noSecret"    -> [store EXCEPT !.secrets = @ \ {t.id}]
      [] write = "list"        -> [store EXCEPT !.gateways = @ \cup {t.id}]
      [] write = "unlist"      -> [store EXCEPT !.gateways = @ \ {t.id}]
      [] write = "ask"         -> [store EXCEPT !.pairings[t.id] = t.pairing]
      [] write = "unask"       -> [store EXCEPT !.pairings[t.id] = None]
      [] write = "oldKey"      -> [store EXCEPT !.keys[t.id] = saved.store.keys[t.id]]
      [] write = "oldList"     -> [store EXCEPT !.gateways = saved.store.gateways]
      [] write = "oldPairings" -> [store EXCEPT !.pairings = saved.store.pairings]

Task == Head(queue)
Kind == Task.kind
Write == Program(Kind)[step]
Working(f) == up /\ queue # <<>> /\ flight = f

\* transact(): the task is appended; tasks run one at a time.
Enqueue(kind, id, pairing) ==
    queue' = Append(queue, [kind |-> kind, id |-> id, pairing |-> pairing,
                            token |-> generations[id]])

\* The task ends, whether it resolves or throws, and the next one may begin.
Done == queue' = Tail(queue) /\ flight' = "idle" /\ step' = 0 /\ saved' = None

Send(kind, n) ==
    /\ queue' = [queue EXCEPT ![1].kind = kind]
    /\ step' = n
    /\ flight' = "sent"

-------------------------------------------------------------------------------
\* An unknown gateway asks to be paired (registerPending, gatewayPairingPending).
Ask(id, h) ==
    LET p == [host |-> h, challenge |-> challenges + 1]
    IN  /\ up
        /\ challenges < MaxChallenges
        /\ records[id] = None
        /\ id \notin live
        /\ pending[id] # None => pending[id].host = h
        /\ challenges' = challenges + 1
        /\ pending' = [pending EXCEPT ![id] = p]
        /\ live' = live \cup {id}
        /\ Enqueue("ask", id, p)
        /\ UNCHANGED <<up, boots, calls, failures, store, step, flight, saved,
                       generations, records, checked, history>>

\* The pending connection closes; the request stays.
Hangup(id) ==
    /\ up
    /\ id \in live
    /\ live' = live \ {id}
    /\ UNCHANGED <<bounds, store, queue, step, flight, saved, generations, records,
                   pending, checked, history>>

Call == up /\ calls < MaxCalls /\ calls' = calls + 1

Approve(id) ==
    /\ Call
    /\ Enqueue("approve", id, None)
    /\ UNCHANGED <<up, boots, failures, challenges, store, step, flight, saved,
                   generations, records, pending, live, checked, history>>

Invalidate(id) == generations' = [generations EXCEPT ![id] = @ + 1]

Reject(id) ==
    /\ Call
    /\ Enqueue("reject", id, pending[id])
    /\ Invalidate(id)
    /\ UNCHANGED <<up, boots, failures, challenges, store, step, flight, saved,
                   records, pending, live, checked, history>>

Revoke(id) ==
    /\ Call
    /\ Enqueue("revoke", id, None)
    /\ Invalidate(id)
    /\ UNCHANGED <<up, boots, failures, challenges, store, step, flight, saved,
                   records, pending, live, checked, history>>

\* PUT /gateway-trust refuses a gateway with a key, before and outside the queue.
PutGatewayTrust(id) ==
    /\ up
    /\ calls < MaxCalls
    /\ id \notin checked
    /\ store.keys[id] = None
    /\ checked' = checked \cup {id}
    /\ UNCHANGED <<bounds, store, queue, step, flight, saved, generations, records,
                   pending, live, history>>

SetGatewayTrust(id) ==
    /\ Call
    /\ id \in checked
    /\ checked' = checked \ {id}
    /\ Enqueue("trust", id, None)
    /\ Invalidate(id)
    /\ UNCHANGED <<up, boots, failures, challenges, store, step, flight, saved,
                   records, pending, live, history>>

-------------------------------------------------------------------------------
\* preparePendingApproval(): a request whose connection is still there.
Approvable(id) == pending[id] # None /\ id \in live

Current(t) == generations[t.id] = t.token

\* What a task checks when its turn comes.
MayBegin(t) ==
    CASE t.kind = "ask"     -> Current(t)
      [] t.kind = "approve" -> Current(t) /\ Approvable(t.id)
      [] t.kind = "reject"  -> t.pairing # None \/ store.pairings[t.id] # None
      [] OTHER              -> TRUE

\* Mutant: an approval rolls back to empty collections.
BeginForgetful ==
    /\ Working("idle")
    /\ MayBegin(Task)
    /\ IF Kind = "approve"
       THEN /\ queue' = [queue EXCEPT ![1].pairing = pending[Task.id]]
            /\ saved' = [store |-> Empty, decided |-> decided]
       ELSE UNCHANGED <<queue, saved>>
    /\ step' = 1
    /\ flight' = "sent"
    /\ UNCHANGED <<bounds, store, generations, records, pending, live, checked, history>>

Begin ==
    /\ Working("idle")
    /\ MayBegin(Task)
    /\ IF Kind = "approve"
       THEN /\ queue' = [queue EXCEPT ![1].pairing = pending[Task.id]]
            /\ saved' = [store |-> store, decided |-> decided]
       ELSE UNCHANGED <<queue, saved>>
    /\ step' = 1
    /\ flight' = "sent"
    /\ UNCHANGED <<bounds, store, generations, records, pending, live, checked, history>>

Skip ==
    /\ Working("idle")
    /\ ~MayBegin(Task)
    /\ Done
    /\ UNCHANGED <<bounds, store, generations, records, pending, live,
                   checked, history>>

\* Releasing the intent decides a mutation; the last write of a rollback decides
\* that the gateway is what it was before.
Decision(t) ==
    CASE t.kind = "approve" -> t.pairing.host
      [] t.kind = "trust"   -> IF store.keys[t.id] = None THEN "secret" ELSE decided[t.id]
      [] t.kind = "revoke"  -> None
      [] t.kind = "recover" -> saved.decided[t.id]

\* The write in flight becomes durable.
WriteLands ==
    /\ Working("sent")
    /\ store' = Written(Write, Task)
    /\ flight' = "back"
    /\ decided' = IF Write \in {"release", "oldPairings"}
                  THEN [decided EXCEPT ![Task.id] = Decision(Task)] ELSE decided
    /\ exposed' = IF Kind = "revoke" /\ Write = "release"
                  THEN exposed \ {Task.id} ELSE exposed
    /\ UNCHANGED <<bounds, queue, step, saved, generations, records, pending, live, checked>>

\* Mutant: the listener keeps serving the gateway.
RevokeDurableOnly(id) == UNCHANGED <<records, pending, live>>

\* Mutant: the connection that asked is not closed.
RevokeRecordOnly(id) ==
    /\ records' = [records EXCEPT ![id] = None]
    /\ pending' = [pending EXCEPT ![id] = None]
    /\ UNCHANGED live

\* listener.revokeGateway()
RevokeInListener(id) ==
    /\ records' = [records EXCEPT ![id] = None]
    /\ pending' = [pending EXCEPT ![id] = None]
    /\ live' = live \ {id}

WriteThrows ==
    /\ Working("sent")
    /\ failures < MaxFailures
    /\ failures' = failures + 1
    /\ UNCHANGED <<up, boots, calls, challenges, store, generations, checked>>

\* The task is over: nothing is undone, and an intent that was set stays.
GiveUp ==
    /\ WriteThrows
    /\ Kind = "approve" => step = 1
    /\ Kind # "recover"
    /\ Done
    /\ UNCHANGED <<records, pending, live, history>>

\* approvePairing's catch block: the intent is set again, the snapshot restored.
Recover ==
    /\ WriteThrows
    /\ Kind = "approve" /\ step > 1
    /\ Send("recover", 1)
    /\ UNCHANGED <<saved, records, pending, live, history>>

\* Setting the intent again fails: that is ignored.
RecoverUnblocked ==
    /\ WriteThrows
    /\ Kind = "recover" /\ step = 1
    /\ Send("recover", 2)
    /\ exposed' = exposed \cup {Task.id}
    /\ UNCHANGED <<saved, records, pending, live, decided>>

\* Restoring the snapshot fails: the rest of it is skipped.
RecoverPartly ==
    /\ WriteThrows
    /\ Kind = "recover" /\ step > 1
    /\ RevokeInListener(Task.id)
    /\ Done
    /\ exposed' = exposed \cup {Task.id}
    /\ decided' = [decided EXCEPT ![Task.id] = None]

-------------------------------------------------------------------------------
\* Mutant: calls that came after the approval are not noticed.
StillPending(t) == Approvable(t.id) /\ pending[t.id] = t.pairing

\* The approval still stands: the same challenge, and no later mutation.
StillApprovable(t) == Current(t) /\ Approvable(t.id) /\ pending[t.id] = t.pairing

Last == step = Len(Program(Kind))

\* The write returned, and the task sends its next one.
NextWrite ==
    /\ Working("back")
    /\ ~Last
    /\ IF Kind = "approve" /\ step = 4 /\ ~StillApprovable(Task)
       THEN Send("recover", 1)
       ELSE Send(Kind, step + 1)
    /\ IF Kind \in {"trust", "revoke"} /\ step = 1
       THEN RevokeInListener(Task.id)
       ELSE UNCHANGED <<records, pending, live>>
    /\ UNCHANGED <<bounds, store, saved, generations, checked, history>>

\* commitPendingApproval()
Commit ==
    /\ Working("back")
    /\ Kind = "approve" /\ Last
    /\ StillApprovable(Task)
    /\ records' = [records EXCEPT ![Task.id] = Task.pairing.host]
    /\ pending' = [pending EXCEPT ![Task.id] = None]
    /\ live' = live \ {Task.id}
    /\ Done
    /\ UNCHANGED <<bounds, store, generations, checked, history>>

CommitRefused ==
    /\ Working("back")
    /\ Kind = "approve" /\ Last
    /\ ~StillApprovable(Task)
    /\ Send("recover", 1)
    /\ UNCHANGED <<bounds, store, saved, generations, records, pending, live, checked, history>>

\* The other tasks end; a recovery revokes, a rejection rejects in the listener.
Finish ==
    /\ Working("back")
    /\ Kind # "approve" /\ Last
    /\ CASE Kind = "recover" -> RevokeInListener(Task.id)
         [] Kind = "reject" ->
              /\ pending' = [pending EXCEPT ![Task.id] = None]
              /\ live' = IF pending[Task.id] = None THEN live ELSE live \ {Task.id}
              /\ UNCHANGED records
         [] OTHER -> UNCHANGED <<records, pending, live>>
    /\ Done
    /\ UNCHANGED <<bounds, store, generations, checked, history>>

\* The process dies between any two steps.
Crash ==
    /\ up
    /\ boots < MaxBoots
    /\ up' = FALSE
    /\ queue' = <<>> /\ step' = 0 /\ flight' = "idle" /\ saved' = None
    /\ generations' = [id \in Ids |-> 0]
    /\ records' = [id \in Ids |-> None]
    /\ pending' = [id \in Ids |-> None]
    /\ live' = {} /\ checked' = {}
    /\ UNCHANGED <<boots, calls, failures, challenges, store, history>>

\* createControllerService(): what is blocked by an intent is not loaded.
Restart ==
    /\ ~up
    /\ up' = TRUE
    /\ boots' = boots + 1
    /\ records' = [id \in Ids |-> Admits(store, id)]
    /\ pending' = store.pairings
    /\ UNCHANGED <<calls, failures, challenges, store, queue, step, flight, saved,
                   generations, live, checked, history>>

Next ==
    \/ \E id \in Ids, h \in Hosts : Ask(id, h)
    \/ \E id \in Ids :
          \/ Hangup(id)
          \/ Approve(id)
          \/ Reject(id)
          \/ Revoke(id)
          \/ PutGatewayTrust(id)
          \/ SetGatewayTrust(id)
    \/ Begin \/ Skip
    \/ WriteLands
    \/ GiveUp \/ Recover \/ RecoverUnblocked \/ RecoverPartly
    \/ NextWrite \/ Commit \/ CommitRefused \/ Finish
    \/ Crash \/ Restart

Spec == Init /\ [][Next]_vars

-------------------------------------------------------------------------------
\* Every variable holds a value the program can hold in it.
TypeOK ==
    /\ up \in BOOLEAN
    /\ store \in Store
    /\ \A i \in 1..Len(queue) :
          /\ queue[i].kind \in {"ask", "approve", "recover", "reject", "trust", "revoke"}
          /\ queue[i].id \in Ids
          /\ queue[i].pairing \in Pairing \cup {None}
          /\ queue[i].kind = "recover" => i = 1
    /\ flight \in {"idle", "sent", "back"}
    /\ step \in IF queue = <<>> \/ flight = "idle" THEN {0} ELSE 1..Len(Program(Kind))
    /\ queue # <<>> /\ Kind = "recover" => saved.store \in Store
    /\ records \in [Ids -> Credentials \cup {None}]
    /\ pending \in [Ids -> Pairing \cup {None}]
    /\ live \subseteq {id \in Ids : pending[id] # None}
    /\ decided \in [Ids -> Credentials \cup {None}]

\* Whatever write a mutation was at when it failed or the process died, a start
\* of the controller admits exactly what the last decided mutation left, or the
\* gateway is blocked by its intent (the comment at 471-473).  The exception is
\* an approval whose rollback had a write that failed, see FailedRollbackBlocked.
UnblockedIsDecided ==
    \A id \in Ids \ (store.intents \cup exposed) : Admits(store, id) = decided[id]

\* What the running controller trusts a restart will trust too, unless a mutation
\* of that gateway is at work: no credential is honoured in memory that is not
\* durable.
LiveTrustIsDurable ==
    /\ TypeOK
    /\ \A id \in Ids :
          \/ records[id] \in {None, Admits(store, id)}
          \/ queue # <<>> /\ Task.id = id /\ Kind \in {"trust", "revoke"}

\* An approval takes no effect once the administrator asked for a rejection, a
\* revocation or another enrolment of the gateway, although that call has to
\* wait for the approval to end.
StaleApprovalNeverCommits ==
    [][\A id \in Ids : up /\ records'[id] \notin {None, records[id]} =>
          \A i \in 1..Len(queue) : queue[i].id = id =>
              queue[i].kind \notin {"reject", "revoke", "trust"}]_vars

\* "Failed rollback remains blocked by the durable intent on restart"
\* (server/index.mjs:540, docs/pairing.md:47): whatever writes fail, a failed
\* approval leaves nothing that a restart would admit.
FailedRollbackBlocked ==
    \A id \in Ids : Admits(store, id) \in {None, decided[id]}
===============================================================================
