----------------------------- MODULE NodeTransport -----------------------------
(***************************************************************************)
(* The gateway's side of its connection to the controller                  *)
(* (OutboundGatewayTransport, network-transport.mjs, with the polling of   *)
(* cli.mjs and the operator's commands): connecting again and again,       *)
(* authentication, the operator's confirmation of a first pairing, the pin *)
(* it leaves, and replies of operations that outlive their connection.     *)
(*                                                                         *)
(* A socket is destroyed first and closed by a later event; timers, the    *)
(* confirmation poll and runs of the daemon come in between.  Each socket  *)
(* has one challenge, so a pairing code is named by its socket.  The peer  *)
(* of a socket shows a certificate and claims a controller key.            *)
(***************************************************************************)
EXTENDS Naturals, FiniteSets

CONSTANTS
    MaxSockets,  \* bound: connections made
    Keys,        \* controller keys
    Certs,       \* TLS certificates
    Verified,    \* certificates that standard TLS verification accepts
    Requests,    \* requests that may arrive
    None,
    MaxBoots     \* bound: starts of the gateway

ASSUME TransportAssumption ==
    /\ MaxSockets \in Nat /\ MaxBoots \in Nat
    /\ Verified \subseteq Certs
    /\ None \notin Keys \cup Certs \cup Requests \cup Nat

Sockets == 1..MaxSockets
Peers == [key : Keys, cert : Certs]

\* The parts of node-identity.json about the controller.
Identity == [key : Keys \cup {None}, cert : Certs \cup {None}, binding : BOOLEAN]
Unpaired == [key |-> None, cert |-> None, binding |-> FALSE]

VARIABLES
    boots,         \* starts of the gateway process
    up,            \* the process is alive
    stopped,       \* this.stopped
    socket,        \* this.socket, or None
    made,          \* sockets made so far; they are numbered
    wire,          \* each socket: "open", "destroyed" (its close event is to come), "closed"
    peer,          \* who is at the other end
    secure,        \* sockets that passed secureConnect
    proofSent,     \* this.proofSent
    authenticated, \* this.authenticated
    timer,         \* the reconnect timer is armed
    authTimer,     \* the authentication timer is armed
    localConfirmation,
    deferredAuth,  \* an auth.ok is kept until the operator confirms
    nodeIdentity,  \* the identity in memory
    explicitCa,    \* a CA file was configured
    strict,        \* tlsOptions.rejectUnauthorized
    trust,         \* controller-trust.json holds a shared secret
    saved,         \* node-identity.json
    codeFile,      \* pairing-code.json: the socket of its code, or None
    confirmation,  \* pairing-confirmation.json: likewise
    polling,       \* the confirmation poll has started
    request,       \* each request: [state, home: where it came, sent: where it was answered]
    confirmed,     \* history: codes the operator confirmed
    unsaved        \* history: saving a pin failed under the poll

files == <<trust, saved, codeFile, confirmation, explicitCa>>
auth == <<proofSent, authenticated, localConfirmation, deferredAuth>>
timers == <<timer, authTimer>>
sockets == <<socket, made, wire, peer, secure>>
process == <<boots, up, stopped, strict, polling>>
history == <<confirmed, unsaved>>
vars == <<process, sockets, auth, timers, nodeIdentity, files, request, history>>

\* A gateway that is unpaired, holds a shared secret, or was paired with or
\* before channel binding; it has not been started.
Init ==
    /\ boots = 0 /\ up = FALSE /\ stopped = TRUE
    /\ socket = None /\ made = 0
    /\ wire = [s \in Sockets |-> "unmade"]
    /\ peer = [s \in Sockets |-> None]
    /\ secure = {}
    /\ proofSent = FALSE /\ authenticated = FALSE
    /\ localConfirmation = FALSE /\ deferredAuth = FALSE
    /\ timer = FALSE /\ authTimer = FALSE
    /\ explicitCa \in BOOLEAN
    /\ saved \in {Unpaired} \cup {i \in Identity : i.key # None /\ i.cert # None}
    /\ trust \in BOOLEAN
    /\ strict = FALSE
    /\ nodeIdentity = Unpaired
    /\ codeFile = None /\ confirmation = None /\ polling = FALSE
    /\ request = [q \in Requests |-> [state |-> "unsent", home |-> None, sent |-> None]]
    /\ confirmed = {} /\ unsaved = FALSE

-------------------------------------------------------------------------------
\* Mutant: what the operator confirmed stays for the next connection.
ConnectConfirmed(p) ==
    /\ made < MaxSockets
    /\ made' = made + 1
    /\ socket' = made + 1
    /\ wire' = [wire EXCEPT ![made + 1] = "open"]
    /\ peer' = [peer EXCEPT ![made + 1] = p]
    /\ proofSent' = FALSE /\ authenticated' = FALSE
    /\ deferredAuth' = FALSE
    /\ authTimer' = TRUE
    /\ UNCHANGED <<secure, localConfirmation>>

\* connect(): a new socket, and nothing kept of the last one.
Connect(p) ==
    /\ made < MaxSockets
    /\ made' = made + 1
    /\ socket' = made + 1
    /\ wire' = [wire EXCEPT ![made + 1] = "open"]
    /\ peer' = [peer EXCEPT ![made + 1] = p]
    /\ proofSent' = FALSE /\ authenticated' = FALSE
    /\ localConfirmation' = FALSE /\ deferredAuth' = FALSE
    /\ authTimer' = TRUE
    /\ UNCHANGED secure

\* The constructor and start().  TLS is not verified for a gateway that is
\* unpaired and has no CA, nor where a certificate is pinned instead.
Start(p) ==
    /\ ~up
    /\ boots < MaxBoots
    /\ boots' = boots + 1
    /\ up' = TRUE /\ stopped' = FALSE
    /\ nodeIdentity' = saved
    /\ strict' = (saved.cert = None /\ (explicitCa \/ trust \/ saved.key # None))
    /\ Connect(p)
    /\ UNCHANGED <<timer, polling, files, request, history>>

\* The reconnect timer fires.
Reconnect(p) ==
    /\ timer
    /\ timer' = FALSE
    /\ Connect(p)
    /\ UNCHANGED <<process, nodeIdentity, files, request, history>>

Alive == up /\ socket # None /\ wire[socket] = "open"
Destroy(s) == wire' = [wire EXCEPT ![s] = "destroyed"]

\* socket.destroy() from the handlers that refuse the peer.
RefusePeer ==
    /\ Destroy(socket)
    /\ UNCHANGED <<process, socket, made, peer, secure, auth, timers, nodeIdentity,
                   files, request, history>>

\* Mutant: the certificate is not compared with the pin.
PinMatchesAny(p) == TRUE

PinMatches(p) == nodeIdentity.cert \in {None, p.cert}

SecureConnect ==
    /\ Alive
    /\ socket \notin secure
    /\ strict => peer[socket].cert \in Verified
    /\ IF PinMatches(peer[socket])
       THEN /\ secure' = secure \cup {socket}
            /\ UNCHANGED <<process, socket, made, wire, peer, auth, timers,
                           nodeIdentity, files, request, history>>
       ELSE RefusePeer

\* Data of the current socket, before it is authenticated.
Unauthenticated == Alive /\ socket \in secure /\ ~authenticated

\* What a challenge must have for a gateway without a shared secret.
Acceptable(p, bound) ==
    \/ trust
    \/ /\ bound \/ (nodeIdentity.key # None /\ ~nodeIdentity.binding)
       /\ nodeIdentity.key \in {None, p.key}

Challenge(bound) ==
    /\ Unauthenticated
    /\ IF ~proofSent /\ Acceptable(peer[socket], bound)
       THEN /\ proofSent' = TRUE
            /\ UNCHANGED <<process, sockets, authenticated, localConfirmation, deferredAuth,
                           timers, nodeIdentity, files, request, history>>
       ELSE RefusePeer

\* The event the command line answers with the code file and its poll.
Show ==
    /\ codeFile' = socket
    /\ polling' = TRUE

PairingPending ==
    /\ Unauthenticated
    /\ proofSent
    /\ Show
    /\ UNCHANGED <<boots, up, stopped, strict, sockets, auth, timers, nodeIdentity, trust,
                   saved, explicitCa, confirmation, request, history>>

\* The peer computed another code.
PairingMismatch ==
    /\ Unauthenticated
    /\ proofSent
    /\ RefusePeer

FirstPairing == ~trust /\ nodeIdentity.key = None
NeedsConfirmation == FirstPairing /\ ~explicitCa /\ ~localConfirmation

\* Mutant: the authentication deadline ends when auth.ok is deferred.
DeferForever ==
    /\ Unauthenticated
    /\ proofSent
    /\ NeedsConfirmation
    /\ deferredAuth' = TRUE
    /\ Show
    /\ authTimer' = FALSE
    /\ UNCHANGED <<boots, up, stopped, strict, sockets, proofSent, authenticated, localConfirmation,
                   timer, nodeIdentity, trust, saved, explicitCa, confirmation, request, history>>

\* auth.ok before the operator confirmed: it is kept.
DeferAuth ==
    /\ Unauthenticated
    /\ proofSent
    /\ NeedsConfirmation
    /\ deferredAuth' = TRUE
    /\ Show
    /\ UNCHANGED <<boots, up, stopped, strict, sockets, proofSent, authenticated, localConfirmation,
                   timers, nodeIdentity, trust, saved, explicitCa, confirmation, request, history>>

Pinned == [key |-> peer[socket].key, cert |-> peer[socket].cert, binding |-> TRUE]

\* Mutant: the pin is kept in memory only.
AcceptUnsaved ==
    /\ nodeIdentity' = IF FirstPairing THEN Pinned ELSE nodeIdentity
    /\ UNCHANGED saved
    /\ codeFile' = None
    /\ authTimer' = FALSE
    /\ authenticated' = TRUE

\* auth.ok takes effect: a first pairing is pinned and saved, then requests are served.
Accept ==
    /\ IF FirstPairing
       THEN nodeIdentity' = Pinned /\ saved' = Pinned
       ELSE UNCHANGED <<nodeIdentity, saved>>
    /\ codeFile' = None
    /\ authTimer' = FALSE
    /\ authenticated' = TRUE

AuthOk ==
    /\ Unauthenticated
    /\ proofSent
    /\ ~NeedsConfirmation
    /\ Accept
    /\ UNCHANGED <<process, sockets, proofSent, localConfirmation, deferredAuth, timer,
                   trust, explicitCa, confirmation, request, history>>

-------------------------------------------------------------------------------
\* confirm-pairing CODE: it must be the code in the file; writes the confirmation.
Confirm ==
    /\ codeFile # None
    /\ confirmation' = codeFile
    /\ confirmed' = confirmed \cup {codeFile}
    /\ UNCHANGED <<process, sockets, auth, timers, nodeIdentity, trust, saved, codeFile,
                   explicitCa, request, unsaved>>

\* The poll reads and removes the confirmation; it counts for the code of this
\* connection only.
Poll ==
    /\ up /\ polling
    /\ confirmation # None
    /\ confirmation' = None

Matches == Alive /\ proofSent /\ confirmation = socket

PollStale ==
    /\ Poll
    /\ ~Matches
    /\ UNCHANGED <<process, sockets, auth, timers, nodeIdentity, trust, saved, codeFile,
                   explicitCa, request, history>>

PollConfirms ==
    /\ Poll
    /\ Matches
    /\ localConfirmation' = TRUE
    /\ deferredAuth' = FALSE
    /\ IF deferredAuth
       THEN Accept
       ELSE UNCHANGED <<nodeIdentity, saved, codeFile, authTimer, authenticated>>
    /\ UNCHANGED <<process, sockets, proofSent, timer, trust, explicitCa, request, history>>

\* Saving the pin throws; the poll's catch swallows it, and the pin stays in memory.
PollUnsaved ==
    /\ Poll
    /\ Matches
    /\ deferredAuth
    /\ FirstPairing
    /\ localConfirmation' = TRUE
    /\ deferredAuth' = FALSE
    /\ nodeIdentity' = Pinned
    /\ codeFile' = None
    /\ unsaved' = TRUE
    /\ UNCHANGED <<process, sockets, proofSent, authenticated, timers, trust, saved,
                   explicitCa, request, confirmed>>

-------------------------------------------------------------------------------
\* An operation arrives; its replies belong to the connection it came on.
Receive(q) ==
    /\ Alive
    /\ authenticated
    /\ request[q].state = "unsent"
    /\ request' = [request EXCEPT ![q] = [state |-> "running", home |-> socket, sent |-> None]]
    /\ UNCHANGED <<process, sockets, auth, timers, nodeIdentity, files, history>>

\* Mutant: the reply goes to the output that is current when it is sent.
Reaches(q) == authenticated /\ Alive

\* applicationOutput.write
Writable(q) == authenticated /\ Alive /\ socket = request[q].home

Reply(q) ==
    /\ up
    /\ request[q].state = "running"
    /\ request' = [request EXCEPT ![q].state = "over",
                                  ![q].sent = IF Writable(q) THEN socket ELSE None]
    /\ UNCHANGED <<process, sockets, auth, timers, nodeIdentity, files, history>>

-------------------------------------------------------------------------------
\* The network, the peer or TLS ends the connection.
Disconnect ==
    /\ Alive
    /\ RefusePeer

\* Mutant: only a connection that was authenticated is made again.
OnCloseQuiet(s) ==
    /\ up
    /\ wire[s] = "destroyed"
    /\ wire' = [wire EXCEPT ![s] = "closed"]
    /\ IF s = socket
       THEN /\ authTimer' = FALSE
            /\ authenticated' = FALSE
            /\ timer' = (timer \/ (~stopped /\ authenticated))
       ELSE UNCHANGED <<authTimer, authenticated, timer>>
    /\ UNCHANGED <<process, socket, made, peer, secure, proofSent, localConfirmation,
                   deferredAuth, nodeIdentity, files, request, history>>

\* The close event; of a socket that was replaced it does nothing.
OnClose(s) ==
    /\ up
    /\ wire[s] = "destroyed"
    /\ wire' = [wire EXCEPT ![s] = "closed"]
    /\ IF s = socket
       THEN /\ authTimer' = FALSE
            /\ authenticated' = FALSE
            /\ timer' = (timer \/ ~stopped)
       ELSE UNCHANGED <<authTimer, authenticated, timer>>
    /\ UNCHANGED <<process, socket, made, peer, secure, proofSent, localConfirmation,
                   deferredAuth, nodeIdentity, files, request, history>>

AuthTimeout ==
    /\ up
    /\ authTimer
    /\ authTimer' = FALSE
    /\ IF Alive /\ ~authenticated THEN Destroy(socket) ELSE UNCHANGED wire
    /\ UNCHANGED <<process, socket, made, peer, secure, auth, timer, nodeIdentity, files,
                   request, history>>

\* stop(), of a signal, which also ends the poll, or of a shutdown request.
Stop ==
    /\ up
    /\ ~stopped
    /\ stopped' = TRUE
    /\ timer' = FALSE /\ authTimer' = FALSE
    /\ authenticated' = FALSE
    /\ polling' \in {polling, FALSE}
    /\ IF Alive THEN Destroy(socket) ELSE UNCHANGED wire
    /\ UNCHANGED <<boots, up, strict, socket, made, peer, secure, proofSent,
                   localConfirmation, deferredAuth, nodeIdentity, files, request, history>>

\* The process ends: by itself, or because saving a pin threw in a data handler.
Crash ==
    /\ up
    /\ up' = FALSE /\ stopped' = TRUE /\ polling' = FALSE
    /\ socket' = None
    /\ wire' = [s \in Sockets |-> IF s \in 1..made THEN "closed" ELSE "unmade"]
    /\ proofSent' = FALSE /\ authenticated' = FALSE
    /\ localConfirmation' = FALSE /\ deferredAuth' = FALSE
    /\ timer' = FALSE /\ authTimer' = FALSE
    /\ nodeIdentity' = Unpaired
    /\ request' = [q \in Requests |-> [request[q] EXCEPT
                      !.state = IF @ = "running" THEN "over" ELSE @]]
    /\ UNCHANGED <<boots, strict, made, peer, secure, files, history>>

\* unpair: the service is stopped first; the channel binding marker stays.
Unpair ==
    /\ ~up
    /\ saved' = [saved EXCEPT !.key = None, !.cert = None]
    /\ trust' = FALSE
    /\ codeFile' = None /\ confirmation' = None
    /\ UNCHANGED <<process, sockets, auth, timers, nodeIdentity, explicitCa, request, history>>

Next ==
    \/ \E p \in Peers : Start(p) \/ Reconnect(p)
    \/ SecureConnect
    \/ \E bound \in BOOLEAN : Challenge(bound)
    \/ PairingPending \/ PairingMismatch \/ DeferAuth \/ AuthOk
    \/ Confirm \/ PollStale \/ PollConfirms \/ PollUnsaved
    \/ \E q \in Requests : Receive(q) \/ Reply(q)
    \/ Disconnect \/ (\E s \in Sockets : OnClose(s)) \/ AuthTimeout
    \/ Stop \/ Crash \/ Unpair

Spec == Init /\ [][Next]_vars

\* Timers that are armed fire, and a destroyed socket closes.
Fairness ==
    /\ WF_vars(\E p \in Peers : Reconnect(p))
    /\ WF_vars(AuthTimeout)
    /\ WF_vars(\E s \in Sockets : OnClose(s))

FairSpec == Spec /\ Fairness

-------------------------------------------------------------------------------
\* Every variable holds a value the program can hold in it.
TypeOK ==
    /\ made \in 0..MaxSockets
    /\ socket \in 1..made \cup {None}
    /\ up <=> socket # None
    /\ wire \in [Sockets -> {"unmade", "open", "destroyed", "closed"}]
    /\ peer \in [Sockets -> Peers \cup {None}]
    /\ \A s \in 1..made : peer[s] \in Peers
    /\ secure \subseteq 1..made
    /\ nodeIdentity \in Identity
    /\ saved \in Identity
    /\ {codeFile, confirmation} \subseteq 1..made \cup {None}
    /\ \A s \in Sockets : wire[s] = "open" => s = socket
    /\ timer => up /\ ~Alive
    /\ request \in [Requests -> [state : {"unsent", "running", "over"},
                                home : Sockets \cup {None}, sent : Sockets \cup {None}]]
    /\ confirmed \subseteq 1..made

\* Operations are taken only from the controller this gateway holds to: the one
\* whose key and certificate are pinned, or for a shared secret without a pin one
\* that TLS verified.  A peer is not served that another handshake authenticated.
ServesItsController ==
    /\ TypeOK
    /\ Alive /\ authenticated =>
          /\ socket \in secure
          /\ nodeIdentity.cert \in {None, peer[socket].cert}
          /\ ~trust => nodeIdentity.key = peer[socket].key
          /\ nodeIdentity.cert = None => peer[socket].cert \in Verified

\* A controller is pinned only by the operator's confirmation of the code of that
\* very connection, or where a CA verified it: a confirmation that comes late, or
\* is left in its file by an earlier process, pins no one (docs/pairing.md:35,
\* test "local confirmation is transcript-scoped").
PinIsConfirmed ==
    [][up /\ up' /\ nodeIdentity' # nodeIdentity =>
          /\ nodeIdentity.key = None
          /\ socket \in confirmed \/ (explicitCa /\ peer[socket].cert \in Verified)]_vars

\* The controller this gateway works for is the one it will hold to after a
\* restart.  The exception is a pin whose saving failed under the poll: that
\* gateway works until it is started again, and then has to be paired again.
ServedIsSaved == up /\ ~unsaved => nodeIdentity = saved

\* The reply of an operation goes to the connection it came on, or nowhere, even
\* if it ends after a reconnect (test "in-flight output remains owned ...").
RepliesGoHome == \A q \in Requests : request[q].sent \in {None, request[q].home}

\* No handshake hangs: not for a silent peer, nor waiting for the operator.
HandshakeEnds ==
    \A s \in Sockets :
        wire[s] = "open" /\ ~authenticated ~> authenticated \/ wire[s] # "open"

\* A gateway that loses its connection tries again, however the last one ended.
Reconnects ==
    \A s \in Sockets :
        wire[s] = "destroyed" /\ ~stopped ~> stopped \/ made > s \/ made = MaxSockets
===============================================================================
