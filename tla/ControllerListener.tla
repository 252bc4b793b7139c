--------------------------- MODULE ControllerListener ---------------------------
(***************************************************************************)
(* GatewayControllerListener and its GatewayConnections                    *)
(* (gateway/lib/controller-listener.mjs): who may speak for a gateway id,  *)
(* how a new identity is approved, and what becomes of the requests and of *)
(* the activity list when connections close, are replaced or are revoked.  *)
(*                                                                         *)
(* Destroying a socket and its close event are two steps: everything the   *)
(* controller does in between is an interleaving of this module.  The      *)
(* hosts at the other end are modelled by what they may send.  One whose   *)
(* pairing is pending may authenticate again, under another id too: the id *)
(* it leaves stays with its connection.                                    *)
(***************************************************************************)
EXTENDS Naturals, FiniteSets, Sequences, SequencesExt, Subsequences

CONSTANTS
    Gateways,       \* gateway ids
    Hosts,          \* holders of a key pair (or of a shared secret)
    Conns,          \* sockets; each is accepted at most once
    Requests,       \* dispatched requests
    Ops,            \* operation ids
    None,
    MaxPending,     \* MAX_PENDING_PAIRINGS
    ActivityLimit   \* activityLimit

ASSUME ListenerAssumption ==
    /\ None \notin Gateways \cup Hosts \cup Conns \cup Requests \cup Ops
    /\ IsFiniteSet(Gateways) /\ IsFiniteSet(Ops)
    /\ MaxPending \in Nat
    /\ ActivityLimit \in Nat \ {0}

VARIABLES
    state,          \* connection.state ("unused" before the socket exists)
    destroyed,      \* sockets destroyed whose close event has not come yet
    gateway,        \* connection.gatewayId
    host,           \* who proved its identity on the connection
    gatewayRecords, \* this.gatewayRecords: the trusted host of a gateway id
    pending,        \* this.pending: who asked to be paired, and on which connection
    connections,    \* this.connections
    gatewayHealth,  \* the keys of this.gatewayHealth
    prepared,       \* what approvePairing() read before its durable writes
    request,        \* every dispatched request and what became of it
    active,         \* connection.activeOperationRequests
    running,        \* requests accepted by a host and still running there
    activity,       \* this.activity, oldest update first
    closing,        \* this.closing
    strayed         \* history: operations of an id whose entry a close event left alone
                    \* because they ran on the id's connection under another id

identityVars == <<state, destroyed, gateway, host, gatewayRecords, pending,
                  connections, gatewayHealth, prepared>>
workVars == <<request, active, running, activity, strayed>>
vars == <<identityVars, workVars, closing>>

\* "execute" stands for process.exec and filesystem.execute, "query" for hello
\* and telemetry.configure, the methods with a deadline and no operation id.
Methods == {"execute", "cancel", "query"}

Unsent == [status |-> "unsent"]
SentRequest == {r \in [status : {"pending", "answered", "failed", "interrupted", "expired"},
                       conn : Conns, method : Methods, op : Ops \cup {None}] :
                   r.op = None <=> r.method = "query"}

ActivityEntry == [gateway : Gateways, op : Ops,
                  state : {"dispatching", "running", "terminal", "interrupted"}]

\* An entry of this.pending.  Its generation is a random UUID: here it only differs
\* from that of the entry an approval has read.
Pairing(conns) == [host : Hosts, conn : conns, generation : {0, 1}]

\* The constructor is given the stored gateways and the stored pairings, whose
\* challenges are those of connections of an earlier process.
Init ==
    /\ state = [c \in Conns |-> "unused"]
    /\ destroyed = {}
    /\ gateway = [c \in Conns |-> None]
    /\ host = [c \in Conns |-> None]
    /\ gatewayRecords \in [Gateways -> Hosts \cup {None}]
    /\ pending \in [Gateways -> {None} \cup [host : Hosts, conn : {None}, generation : {0}]]
    /\ Cardinality({g \in Gateways : pending[g] # None}) <= MaxPending
    /\ connections = [g \in Gateways |-> None]
    /\ gatewayHealth = {g \in Gateways : gatewayRecords[g] # None}
    /\ prepared = [g \in Gateways |-> None]
    /\ request = [q \in Requests |-> Unsent]
    /\ active = [c \in Conns |-> [op \in Ops |-> None]]
    /\ running = {}
    /\ activity = <<>>
    /\ closing = FALSE
    /\ strayed = {}

-------------------------------------------------------------------------------
Open(c) == state[c] \notin {"unused", "closed"} /\ c \notin destroyed

\* fail(): the peer is told why and the socket is destroyed.
Fail(c) ==
    /\ destroyed' = destroyed \cup {c}
    /\ UNCHANGED <<state, gateway, host, gatewayRecords, pending, connections,
                   gatewayHealth, prepared>>

Connect(c) ==
    /\ ~closing
    /\ state[c] = "unused"
    /\ state' = [state EXCEPT ![c] = "authenticating"]
    /\ UNCHANGED <<destroyed, gateway, host, gatewayRecords, pending, connections,
                   gatewayHealth, prepared, workVars, closing>>

\* The authentication timer (until the connection is ready), a frame that is too
\* large, and what is not an auth.response before the connection is ready.
FailConnection(c) ==
    /\ Open(c)
    /\ Fail(c)
    /\ UNCHANGED <<workVars, closing>>

\* Mutant: a second connection is not refused.
HeldByNobody(g, c) == FALSE

\* Another connection holds the gateway id until its close event was handled.  One
\* that is closed and holds it still (see Unbind) does not count.
HeldByAnother(g, c) ==
    connections[g] \notin {None, c} /\ state[connections[g]] # "closed"

\* onAuthMessage with a signature of host h over this connection's challenge: it gets
\* every message until the connection is ready, also once a pairing is pending.
AuthResponse(c, g, h) ==
    /\ Open(c)
    /\ state[c] \in {"authenticating", "pending"}
    /\ UNCHANGED <<workVars, closing>>

PendingPairings == {g \in Gateways : pending[g] # None}

\* Mutant: the number of pending pairings is not checked.
MayRegisterMore(c, g, h) ==
    /\ ~HeldByAnother(g, c)
    /\ pending[g] # None => pending[g].host = h

MayRegister(c, g, h) ==
    /\ pending[g] # None \/ Cardinality(PendingPairings) < MaxPending
    /\ ~HeldByAnother(g, c)
    /\ pending[g] # None => pending[g].host = h

Identify(c, g, h, next) ==
    /\ connections' = [connections EXCEPT ![g] = c]
    /\ gateway' = [gateway EXCEPT ![c] = g]
    /\ host' = [host EXCEPT ![c] = h]
    /\ state' = [state EXCEPT ![c] = next]

NewGeneration(g) ==
    IF prepared[g] # None /\ prepared[g].generation = 0 THEN 1 ELSE 0

\* An id without a trusted record asks for an administrator's approval.
RegisterPending(c, g, h) ==
    /\ AuthResponse(c, g, h)
    /\ gatewayRecords[g] = None
    /\ MayRegister(c, g, h)
    /\ pending' = [pending EXCEPT
                      ![g] = [host |-> h, conn |-> c, generation |-> NewGeneration(g)]]
    /\ Identify(c, g, h, "pending")
    /\ UNCHANGED <<destroyed, gatewayRecords, gatewayHealth, prepared>>

\* A trusted identity is bound to the connection and served.
Authenticate(c, g, h) ==
    /\ AuthResponse(c, g, h)
    /\ gatewayRecords[g] = h
    /\ ~HeldByAnother(g, c)
    /\ Identify(c, g, h, "ready")
    /\ UNCHANGED <<destroyed, gatewayRecords, pending, gatewayHealth, prepared>>

\* pending_pairings_full, gateway_identity_conflict, identity_mismatch or
\* gateway_already_connected.
RefuseIdentity(c, g, h) ==
    /\ AuthResponse(c, g, h)
    /\ \/ gatewayRecords[g] = None /\ ~MayRegister(c, g, h)
       \/ gatewayRecords[g] \notin {None, h}
       \/ gatewayRecords[g] = h /\ HeldByAnother(g, c)
    /\ Fail(c)

-------------------------------------------------------------------------------
\* preparePendingApproval(): the live connection whose challenge is pending.
Approvable(g) ==
    /\ pending[g] # None
    /\ connections[g] # None
    /\ connections[g] = pending[g].conn
    /\ state[connections[g]] = "pending"
    /\ gateway[connections[g]] = g

\* approvePairing reads the pairing, then writes it to durable storage.
PrepareApproval(g) ==
    /\ prepared[g] = None
    /\ Approvable(g)
    /\ prepared' = [prepared EXCEPT ![g] = pending[g]]
    /\ UNCHANGED <<state, destroyed, gateway, host, gatewayRecords, pending,
                   connections, gatewayHealth, workVars, closing>>

\* Mutant: the pairing is not compared with the one that was prepared.
CommitAnyApproval(g) ==
    /\ prepared[g] # None
    /\ Approvable(g)
    /\ gatewayRecords' = [gatewayRecords EXCEPT ![g] = pending[g].host]
    /\ state' = [state EXCEPT ![connections[g]] = "ready"]
    /\ pending' = [pending EXCEPT ![g] = None]
    /\ prepared' = [prepared EXCEPT ![g] = None]
    /\ UNCHANGED <<destroyed, gateway, host, connections, gatewayHealth,
                   workVars, closing>>

\* commitPendingApproval(): only for what was prepared, with the same key, challenge
\* and generation.
CommitApproval(g) ==
    /\ prepared[g] # None
    /\ Approvable(g)
    /\ pending[g] = prepared[g]
    /\ gatewayRecords' = [gatewayRecords EXCEPT ![g] = pending[g].host]
    /\ state' = [state EXCEPT ![connections[g]] = "ready"]
    /\ pending' = [pending EXCEPT ![g] = None]
    /\ prepared' = [prepared EXCEPT ![g] = None]
    /\ UNCHANGED <<destroyed, gateway, host, connections, gatewayHealth,
                   workVars, closing>>

\* What revokeGateway() drops of an id.
DropGateway(g) ==
    /\ connections' = [connections EXCEPT ![g] = None]
    /\ gatewayRecords' = [gatewayRecords EXCEPT ![g] = None]
    /\ pending' = [pending EXCEPT ![g] = None]
    /\ gatewayHealth' = gatewayHealth \ {g}
    /\ activity' = Picked(activity, {i \in 1..Len(activity) : activity[i].gateway # g})
    /\ UNCHANGED <<state, gateway, host, request, active, running, strayed, closing>>

\* Mutant: revocation leaves the socket open.
RevokeOnline(g) == DropGateway(g) /\ UNCHANGED destroyed

\* revokeGateway(): everything the controller holds about the id is dropped,
\* then the socket is destroyed.
RevokeGateway(g) ==
    /\ DropGateway(g)
    /\ destroyed' = destroyed \cup
          {c \in Conns : connections[g] = c /\ state[c] # "closed"}

Revoke(g) ==
    /\ gatewayRecords[g] # None \/ pending[g] # None \/ connections[g] # None
    /\ RevokeGateway(g)
    /\ UNCHANGED prepared

\* A commit that finds another challenge, or none, fails the approval, and so
\* does a failed write before it: approvePairing then revokes the gateway.
FailApproval(g) ==
    /\ prepared[g] # None
    /\ prepared' = [prepared EXCEPT ![g] = None]
    /\ RevokeGateway(g)

\* rejectPending(): whichever connection has that id.
RejectPending(g) ==
    /\ pending[g] # None
    /\ pending' = [pending EXCEPT ![g] = None]
    /\ destroyed' = destroyed \cup
          {c \in Conns : /\ \E k \in Gateways : connections[k] = c
                         /\ gateway[c] = g /\ state[c] = "pending"}
    /\ UNCHANGED <<state, gateway, host, gatewayRecords, connections,
                   gatewayHealth, prepared, workVars, closing>>

\* listGateways(): a snapshot for every connection, live or pending.
ListGateways ==
    /\ gatewayHealth' = gatewayHealth \cup {g \in Gateways : connections[g] # None}
    /\ UNCHANGED <<state, destroyed, gateway, host, gatewayRecords, pending,
                   connections, prepared, workVars, closing>>

-------------------------------------------------------------------------------
\* putActivity(): the entry of an operation moves to the end of the list, and
\* the list loses its first entries when it is longer than the limit.
Others(a, g, ops) ==
    Picked(a, {i \in 1..Len(a) : a[i].gateway # g \/ a[i].op \notin ops})

Bounded(a) ==
    IF Len(a) <= ActivityLimit THEN a
    ELSE SubSeq(a, Len(a) - ActivityLimit + 1, Len(a))

PutActivity(g, op, what) ==
    activity' = Bounded(Append(Others(activity, g, {op}),
                               [gateway |-> g, op |-> op, state |-> what]))

\* recordResponse() and recordDisconnected() leave the list alone when another
\* request of the gateway's live connection runs the operation.
RunByAnother(g, op, q, live) ==
    live # None /\ active[live][op] \notin {None, q}

Recorded(q) == request[q].method = "execute"

Settle(q, how) == request' = [request EXCEPT ![q].status = how]

\* Mutant: only accepted operations are settled when their connection closes.
AcceptedOn(c) == {q \in running : request[q].status = "pending" /\ request[q].conn = c}

PendingOn(c) == {q \in Requests : request[q].status = "pending" /\ request[q].conn = c}

\* dispatch(): a request is sent on the connection of the gateway id, and listed under
\* the id that connection speaks for.  On a connection that is not ready it is refused
\* and leaves no trace.
Dispatch(q, g, m, op) ==
    LET c == connections[g]
        k == gateway[c]
        listed == connections[k] # None /\ active[connections[k]][op] # None
    IN  /\ request[q] = Unsent
        /\ c # None
        /\ state[c] = "ready"
        /\ (op = None <=> m = "query")
        /\ request' = [request EXCEPT ![q] =
                          [status |-> "pending", conn |-> c, method |-> m, op |-> op]]
        /\ IF m = "execute" /\ ~listed
           THEN PutActivity(k, op, "dispatching")
           ELSE UNCHANGED activity
        /\ UNCHANGED <<identityVars, active, running, strayed, closing>>

\* What a host may send about request q arrives on q's open connection.
Heard(q) ==
    /\ request[q].status = "pending"
    /\ Open(request[q].conn)

\* A host accepts an execution when it runs no other one of the same operation.
HostAccepts(q) ==
    LET c == request[q].conn
        op == request[q].op
    IN  /\ Heard(q)
        /\ request[q].method = "execute"
        /\ \A p \in running : request[p].op = op => gateway[request[p].conn] # gateway[c]
        /\ running' = running \cup {q}
        /\ IF active[c][op] = None
           THEN /\ active' = [active EXCEPT ![c][op] = q]
                /\ PutActivity(gateway[c], op, "running")
           ELSE UNCHANGED <<active, activity>>
        /\ UNCHANGED <<identityVars, request, strayed, closing>>

\* Mutant: only the answer of an accepted run is recorded.
RecordRunAnswer(q, freed) ==
    IF q \in running
    THEN PutActivity(gateway[request[q].conn], request[q].op, "terminal")
    ELSE UNCHANGED activity

\* Mutant: every answer is recorded, whatever runs on the live connection.
RecordEveryAnswer(q, freed) ==
    IF Recorded(q)
    THEN PutActivity(gateway[request[q].conn], request[q].op, "terminal")
    ELSE UNCHANGED activity

RecordAnswer(q, freed) ==
    LET g == gateway[request[q].conn]
        op == request[q].op
    IN  IF /\ Recorded(q)
           /\ ~(connections[g] # None /\ freed[connections[g]][op] \notin {None, q})
        THEN PutActivity(g, op, "terminal")
        ELSE UNCHANGED activity

\* A response ends the request, and the run when it was the one accepted.
HostResponds(q) ==
    LET c == request[q].conn
        op == request[q].op
        freed == IF op # None /\ active[c][op] = q
                 THEN [active EXCEPT ![c][op] = None] ELSE active
    IN  /\ Heard(q)
        /\ Settle(q, "answered")
        /\ active' = freed
        /\ RecordAnswer(q, freed)
        /\ running' = running \ {q}
        /\ UNCHANGED <<identityVars, strayed, closing>>

\* A host reports an error only for a request it did not accept.
HostErrors(q) ==
    /\ Heard(q)
    /\ q \notin running
    /\ Settle(q, "failed")
    /\ RecordAnswer(q, active)
    /\ UNCHANGED <<identityVars, active, running, strayed, closing>>

\* A run whose request nobody waits for any more ends on the host.
HostFinishesUnheard(q) ==
    /\ q \in running
    /\ request[q].status # "pending"
    /\ running' = running \ {q}
    /\ UNCHANGED <<identityVars, request, active, activity, strayed, closing>>

\* describeHost() and dispatchTelemetryConfiguration() give up waiting: an answer that
\* comes later finds no request and changes nothing modelled here.
Expire(q) ==
    /\ request[q].status = "pending"
    /\ request[q].method = "query"
    /\ Settle(q, "expired")
    /\ UNCHANGED <<identityVars, active, running, activity, strayed, closing>>

-------------------------------------------------------------------------------
\* Mutant: the health of an id is kept whether or not it is still trusted.
UnbindKeepingHealth(c) ==
    LET g == gateway[c]
    IN  IF g # None /\ connections[g] = c
        THEN /\ connections' = [connections EXCEPT ![g] = None]
             /\ gatewayHealth' = gatewayHealth \cup {g}
        ELSE UNCHANGED <<connections, gatewayHealth>>

\* unbindGatewayIdentity(): only the connection that holds the id gives it up, and
\* only the last one it authenticated under.
Unbind(c) ==
    LET g == gateway[c]
    IN  IF g # None /\ connections[g] = c
        THEN /\ connections' = [connections EXCEPT ![g] = None]
             /\ gatewayHealth' = IF gatewayRecords[g] = None
                                THEN gatewayHealth \ {g} ELSE gatewayHealth \cup {g}
        ELSE UNCHANGED <<connections, gatewayHealth>>

\* onClose(): the id is given up, then every request waiting on the connection is
\* recorded as interrupted (in the order they were dispatched, which is not
\* modelled) and rejected.
OnClose(c) ==
    LET g == gateway[c]
        interrupted == {op \in Ops : \E q \in PendingOn(c) :
                           /\ Recorded(q)
                           /\ request[q].op = op
                           /\ ~RunByAnother(g, op, q, connections'[g])}
        elsewhere == {op \in Ops \ interrupted :
                         /\ \E q \in PendingOn(c) : Recorded(q) /\ request[q].op = op
                         /\ gateway[connections'[g]] # g}
    IN  /\ state[c] \notin {"unused", "closed"}
        /\ Unbind(c)
        /\ state' = [state EXCEPT ![c] = "closed"]
        /\ destroyed' = destroyed \ {c}
        /\ request' = [q \in Requests |->
              IF q \in PendingOn(c) THEN [request[q] EXCEPT !.status = "interrupted"]
                                    ELSE request[q]]
        /\ active' = [active EXCEPT ![c] = [op \in Ops |-> None]]
        /\ IF interrupted = {} THEN UNCHANGED activity
           ELSE \E order \in SetToSeqs(interrupted) :
                   activity' = Bounded(Others(activity, g, interrupted) \o
                      [i \in DOMAIN order |-> [gateway |-> g, op |-> order[i],
                                              state |-> "interrupted"]])
        /\ strayed' = strayed \cup ({g} \X elsewhere)
        /\ UNCHANGED <<gateway, host, gatewayRecords, pending, prepared, running,
                       closing>>

\* close(): no socket is accepted any more and every socket is destroyed.
Close ==
    /\ ~closing
    /\ closing' = TRUE
    /\ destroyed' = {c \in Conns : state[c] \notin {"unused", "closed"}}
    /\ UNCHANGED <<state, gateway, host, gatewayRecords, pending, connections,
                   gatewayHealth, prepared, workVars>>

Next ==
    \/ \E c \in Conns : Connect(c) \/ FailConnection(c) \/ OnClose(c)
    \/ \E c \in Conns, g \in Gateways, h \in Hosts :
          RegisterPending(c, g, h) \/ Authenticate(c, g, h) \/ RefuseIdentity(c, g, h)
    \/ \E g \in Gateways :
          \/ PrepareApproval(g)
          \/ CommitApproval(g)
          \/ FailApproval(g)
          \/ RejectPending(g)
          \/ Revoke(g)
    \/ \E q \in Requests, g \in Gateways, m \in Methods, op \in Ops \cup {None} :
          Dispatch(q, g, m, op)
    \/ \E q \in Requests :
          \/ HostAccepts(q)
          \/ HostResponds(q)
          \/ HostErrors(q)
          \/ HostFinishesUnheard(q)
          \/ Expire(q)
    \/ ListGateways
    \/ Close

Spec == Init /\ [][Next]_vars

\* A socket that was destroyed, or that the peer closed, gets its close event.
Fairness == \A c \in Conns : WF_vars(c \in destroyed /\ OnClose(c))

FairSpec == Spec /\ Fairness

-------------------------------------------------------------------------------
\* Every variable holds a value the program can hold in it.
TypeOK ==
    /\ state \in [Conns -> {"unused", "authenticating", "pending", "ready", "closed"}]
    /\ destroyed \subseteq Conns
    /\ gateway \in [Conns -> Gateways \cup {None}]
    /\ host \in [Conns -> Hosts \cup {None}]
    /\ gatewayRecords \in [Gateways -> Hosts \cup {None}]
    /\ pending \in [Gateways -> {None} \cup Pairing(Conns \cup {None})]
    /\ connections \in [Gateways -> Conns \cup {None}]
    /\ gatewayHealth \subseteq Gateways
    /\ prepared \in [Gateways -> {None} \cup Pairing(Conns)]
    /\ request \in [Requests -> {Unsent} \cup SentRequest]
    /\ active \in [Conns -> [Ops -> Requests \cup {None}]]
    /\ running \subseteq Requests
    /\ activity \in Seq(ActivityEntry)
    /\ closing \in BOOLEAN
    /\ strayed \subseteq Gateways \X Ops

\* At most one connection speaks for a gateway id: one that is pending or ready, and
\* whose socket was not destroyed, is the one the controller takes for its id, also
\* when it authenticated under another id before.  An id never stays with a connection
\* that closed under it: only one that the connection had left by then may.
OneLiveConnection ==
    /\ \A c \in Conns : state[c] \in {"pending", "ready"} /\ c \notin destroyed =>
          gateway[c] # None /\ connections[gateway[c]] = c
    /\ \A g \in Gateways : connections[g] # None =>
          /\ state[connections[g]] \in {"pending", "ready", "closed"}
          /\ state[connections[g]] = "closed" => gateway[connections[g]] # g

\* A connection that is ready, and was not destroyed, belongs to the host that is
\* trusted for its id at this moment: neither approvals, rejections and
\* revocations racing with closes nor a second host with the same id can leave a
\* connection served whose trust is gone.
ReadyIsTrusted ==
    \A c \in Conns : state[c] = "ready" /\ c \notin destroyed =>
        host[c] # None /\ gatewayRecords[gateway[c]] = host[c]

\* No request waits for ever on a connection that is gone, and an operation is
\* shown as active on a connection only while its request waits there.
WaitsOnlyWhileReady ==
    /\ \A q \in Requests : request[q].status = "pending" => state[request[q].conn] = "ready"
    /\ \A c \in Conns, op \in Ops : active[c][op] # None =>
          active[c][op] \in PendingOn(c) /\ request[active[c][op]].op = op

\* Some execution of the operation waits for an answer from the gateway.
Awaited(g, op) ==
    \E q \in Requests :
        /\ request[q].status = "pending"
        /\ Recorded(q)
        /\ request[q].op = op
        /\ gateway[request[q].conn] = g

\* The activity list never shows an operation as dispatching or running that no
\* request waits for: answers, disconnects and revocations all correct it.  (The
\* exception, strayed, takes three ids: a destroyed connection got the request through
\* an id it had left, and closes when its own id is one that a live connection left.)
InFlightIsAwaited ==
    \A i \in 1..Len(activity) : activity[i].state \in {"dispatching", "running"} =>
        \/ Awaited(activity[i].gateway, activity[i].op)
        \/ <<activity[i].gateway, activity[i].op>> \in strayed

\* An operation that runs on the connection that speaks for its id is not shown as
\* anything else (the conditions of lines 435, 445 and 453): late answers and
\* disconnects of other requests for it do not overwrite its entry.
RunningShown ==
    \A g \in Gateways, op \in Ops, i \in 1..Len(activity) :
        /\ connections[g] # None /\ gateway[connections[g]] = g
        /\ active[connections[g]][op] # None
        /\ activity[i].gateway = g /\ activity[i].op = op
        => activity[i].state = "running"

\* Pairing requests and the activity list are bounded, whatever connects while
\* others are approved, rejected, revoked or left behind by closed connections, and
\* health is kept for trusted or connected gateways only: the close event of a
\* revoked connection does not bring its record back (comment at 352-353).
CollectionsBounded ==
    /\ TypeOK
    /\ Cardinality(PendingPairings) <= MaxPending
    /\ Len(activity) <= ActivityLimit
    /\ \A g \in gatewayHealth : gatewayRecords[g] # None \/ connections[g] # None

\* A host becomes trusted only by the approval of its own challenge: the one that
\* was read before the durable writes, on a connection that is still there and has not
\* turned to another id or key since.
ApprovalBindsChallenge ==
    [][\A g \in Gateways : gatewayRecords'[g] \notin {None, gatewayRecords[g]} =>
          /\ prepared[g] # None
          /\ gatewayRecords'[g] = prepared[g].host
          /\ connections[g] = prepared[g].conn
          /\ gateway[prepared[g].conn] = g
          /\ host[prepared[g].conn] = prepared[g].host]_vars

\* docs/api.md:83, docs/operations.md:44 and operation-archive.mjs:142 say that
\* revoking a gateway clears its entries.
RevocationClearsActivity ==
    \A i \in 1..Len(activity) : gatewayRecords[activity[i].gateway] # None

\* A request on a destroyed connection is settled: its caller hears of it.
DestroyedSettles ==
    \A q \in Requests :
        request[q].status = "pending" /\ request[q].conn \in destroyed
           ~> request[q].status # "pending"
===============================================================================
