-------------------------- MODULE NodeTransportProofs --------------------------
(***************************************************************************)
(* Whom a gateway serves and pins: proved for any number of connections,   *)
(* keys, certificates and requests.                                        *)
(*                                                                         *)
(* A pin is checked when TLS is set up, the key when the challenge comes,  *)
(* and neither when an operation arrives: the invariant carries what these *)
(* checks found along the life of the connection.                          *)
(***************************************************************************)
EXTENDS NodeTransport, TLAPS

\* A controller is pinned by key and certificate together.
PinsAreWhole ==
    \A i \in {nodeIdentity, saved} : i.key = None <=> i.cert = None

\* What was checked on the way to the state this connection is in.
ChecksHold ==
    /\ up /\ nodeIdentity.cert = None => (strict <=> explicitCa \/ trust)
    /\ Alive /\ socket \in secure =>
          /\ nodeIdentity.cert \in {None, peer[socket].cert}
          /\ strict => peer[socket].cert \in Verified
    /\ Alive /\ (proofSent \/ authenticated) =>
          socket \in secure /\ (trust \/ nodeIdentity.key \in {None, peer[socket].key})
    /\ Alive /\ authenticated /\ ~trust => nodeIdentity.key # None

\* What the operator confirmed: the file, and what the poll took from it.
ConfirmationsHold ==
    /\ confirmation \in confirmed \cup {None}
    /\ localConfirmation => socket \in confirmed

IInv ==
    /\ TypeOK
    /\ PinsAreWhole
    /\ ChecksHold
    /\ ConfirmationsHold
    /\ ServedIsSaved
    /\ RepliesGoHome

-------------------------------------------------------------------------------
LEMMA InitIInv == Init => IInv
<1> SUFFICES ASSUME Init PROVE IInv
  OBVIOUS
<1>1. Unpaired \in Identity
  BY DEF Unpaired, Identity
<1>2. TypeOK
  BY <1>1, TransportAssumption DEF Init, TypeOK, Alive, Sockets
<1>3. PinsAreWhole
  BY DEF Init, PinsAreWhole, Unpaired
<1>4. ChecksHold /\ ConfirmationsHold /\ ServedIsSaved /\ RepliesGoHome
  BY DEF Init, ChecksHold, ConfirmationsHold, ServedIsSaved, RepliesGoHome, Alive
<1>5. QED
  BY <1>2, <1>3, <1>4 DEF IInv

\* Sockets are numbers, and None is not one of them.
LEMMA SocketFacts ==
    ASSUME TypeOK
    PROVE  /\ 1..made \subseteq Sockets /\ made \in Nat /\ None \notin Sockets
           /\ made < MaxSockets => made + 1 \in Sockets /\ made + 1 \notin 1..made
                                   /\ 1..made \cup {made + 1} \subseteq 1..(made + 1)
  BY TransportAssumption DEF TypeOK, Sockets

-------------------------------------------------------------------------------
\* A new connection starts with nothing checked, proved or confirmed.
LEMMA ConnectStep ==
    ASSUME IInv, NEW p \in Peers, Start(p) \/ Reconnect(p)
    PROVE  IInv'
<1>1. /\ Connect(p) /\ up' /\ (up => ~Alive)
      /\ UNCHANGED <<files, request, history>>
      /\ nodeIdentity' = IF up THEN nodeIdentity ELSE saved
      /\ ~timer'
      /\ up => (strict' <=> strict)
      /\ ~up => (strict' <=> saved.cert = None /\ (explicitCa \/ trust \/ saved.key # None))
  <2>1. timer => up /\ ~Alive
    BY DEF IInv, TypeOK
  <2>2. CASE Start(p)
    BY <2>1, <2>2 DEF Start
  <2>3. CASE Reconnect(p)
    BY <2>1, <2>3 DEF Reconnect, process
  <2>4. QED
    BY <2>2, <2>3
<1>2. /\ made' = made + 1 /\ socket' = made + 1 /\ made < MaxSockets
      /\ wire' = [wire EXCEPT ![made + 1] = "open"]
      /\ peer' = [peer EXCEPT ![made + 1] = p]
      /\ ~proofSent' /\ ~authenticated' /\ ~localConfirmation' /\ ~deferredAuth'
      /\ secure' = secure
  BY <1>1 DEF Connect
<1>3. /\ made + 1 \in Sockets /\ made + 1 \notin 1..made /\ made + 1 # None /\ made' \in 0..MaxSockets
      /\ 1..made' = 1..made \cup {made + 1} /\ 1..made \subseteq Sockets /\ None \notin Sockets
  BY <1>2, SocketFacts, TransportAssumption DEF IInv, TypeOK
<1>4. \A s \in Sockets : wire[s] = "open" => up /\ s = socket
  BY <1>3 DEF IInv, TypeOK
<1>5. TypeOK'
  <2>1. \A s \in Sockets : wire'[s] = "open" => s = socket'
    BY <1>1, <1>2, <1>3, <1>4 DEF IInv, TypeOK, Alive
  <2>2. \A s \in 1..made' : peer'[s] \in Peers
    BY <1>2, <1>3 DEF IInv, TypeOK
  <2>3. nodeIdentity' \in Identity
    BY <1>1 DEF IInv, TypeOK
  <2>4. peer' \in [Sockets -> Peers \cup {None}] /\ wire' \in [Sockets -> {"unmade", "open", "destroyed", "closed"}]
    BY <1>2 DEF IInv, TypeOK
  <2>5. QED
    BY <1>1, <1>2, <1>3, <2>1, <2>2, <2>3, <2>4 DEF IInv, TypeOK, files, history
<1>6. PinsAreWhole'
  BY <1>1 DEF IInv, PinsAreWhole, files
<1>7. ChecksHold'
  <2>1. socket' \notin secure'
    BY <1>2, <1>3 DEF IInv, TypeOK
  <2>2. nodeIdentity'.cert = None => (strict' <=> explicitCa \/ trust)
    <3>1. CASE up
      BY <1>1, <3>1 DEF IInv, ChecksHold
    <3>2. CASE ~up
      BY <1>1, <3>2 DEF IInv, PinsAreWhole
    <3>3. QED
      BY <3>1, <3>2
  <2>3. QED
    BY <1>1, <1>2, <2>1, <2>2 DEF ChecksHold, files
<1>8. ConfirmationsHold' /\ ServedIsSaved' /\ RepliesGoHome'
  BY <1>1, <1>2 DEF IInv, ConfirmationsHold, ServedIsSaved, RepliesGoHome, files, history
<1>9. QED
  BY <1>5, <1>6, <1>7, <1>8 DEF IInv
-------------------------------------------------------------------------------
\* The gateway destroys the connection: nothing is served on it any more.
LEMMA RefuseStep ==
    ASSUME IInv, Alive, RefusePeer
    PROVE  IInv'
<1>1. /\ wire' = [wire EXCEPT ![socket] = "destroyed"] /\ socket \in Sockets
      /\ UNCHANGED <<process, socket, made, peer, secure, auth, timers, nodeIdentity,
                     files, request, history>>
  BY SocketFacts DEF RefusePeer, Destroy, Alive, IInv, TypeOK
<1>2. ~Alive' /\ TypeOK'
  BY <1>1 DEF IInv, TypeOK, Alive, process, timers, files, history
<1>3. QED
  BY <1>1, <1>2 DEF IInv, PinsAreWhole, ChecksHold, ConfirmationsHold, ServedIsSaved,
       RepliesGoHome, process, timers, auth, files, history

LEMMA SecureConnectStep ==
    ASSUME IInv, SecureConnect
    PROVE  IInv'
<1>1. CASE RefusePeer
  BY <1>1, RefuseStep DEF SecureConnect
<1>2. CASE ~RefusePeer
  <2>1. /\ Alive /\ secure' = secure \cup {socket} /\ PinMatches(peer[socket])
        /\ strict => peer[socket].cert \in Verified
        /\ UNCHANGED <<process, socket, made, wire, peer, auth, timers,
                       nodeIdentity, files, request, history>>
    BY <1>2 DEF SecureConnect
  <2>2. TypeOK'
    BY <2>1 DEF IInv, TypeOK, Alive, process, timers, files, history
  <2>3. ChecksHold'
    BY <2>1 DEF IInv, ChecksHold, PinMatches, Alive, process, auth, files
  <2>4. QED
    BY <2>1, <2>2, <2>3 DEF IInv, PinsAreWhole, ConfirmationsHold, ServedIsSaved,
         RepliesGoHome, process, auth, files, history
<1>3. QED
  BY <1>1, <1>2

LEMMA ChallengeStep ==
    ASSUME IInv, NEW bound \in BOOLEAN, Challenge(bound)
    PROVE  IInv'
<1>1. CASE RefusePeer
  BY <1>1, RefuseStep DEF Challenge, Unauthenticated
<1>2. CASE ~RefusePeer
  <2>1. /\ Alive /\ socket \in secure /\ ~authenticated /\ proofSent'
        /\ Acceptable(peer[socket], bound)
        /\ UNCHANGED <<process, sockets, authenticated, localConfirmation, deferredAuth,
                       timers, nodeIdentity, files, request, history>>
    BY <1>2 DEF Challenge, Unauthenticated
  <2>2. TypeOK'
    BY <2>1 DEF IInv, TypeOK, Alive, process, sockets, timers, files, history
  <2>3. ChecksHold'
    BY <2>1 DEF IInv, ChecksHold, Acceptable, Alive, process, sockets, files
  <2>4. QED
    BY <2>1, <2>2, <2>3 DEF IInv, PinsAreWhole, ConfirmationsHold, ServedIsSaved,
         RepliesGoHome, process, sockets, files, history
<1>3. QED
  BY <1>1, <1>2

\* The operator is shown the code of this connection.
LEMMA ShowStep ==
    ASSUME IInv, PairingPending \/ DeferAuth
    PROVE  IInv'
<1>1. /\ Alive /\ codeFile' = socket
      /\ UNCHANGED <<boots, up, stopped, strict, sockets, proofSent, authenticated, localConfirmation,
                   timers, nodeIdentity, trust, saved, explicitCa, confirmation, request, history>>
  BY DEF PairingPending, DeferAuth, Unauthenticated, Show, auth
<1>2. TypeOK'
  BY <1>1 DEF IInv, TypeOK, Alive, sockets, timers, history
<1>3. ChecksHold'
  BY <1>1 DEF IInv, ChecksHold, Alive, sockets
<1>4. QED
  BY <1>1, <1>2, <1>3 DEF IInv, PinsAreWhole, ConfirmationsHold, ServedIsSaved,
       RepliesGoHome, sockets, history

\* What auth.ok does to the pin: the peer of the connection, or what it was.
LEMMA AcceptPins ==
    ASSUME IInv, Alive, proofSent, Accept, UNCHANGED <<sockets, trust>>
    PROVE  /\ nodeIdentity' \in Identity /\ nodeIdentity'.cert \in {None, peer[socket].cert}
           /\ trust \/ nodeIdentity'.key = peer[socket].key
           /\ peer[socket].key # None
           /\ nodeIdentity'.key = None <=> nodeIdentity'.cert = None
           /\ nodeIdentity'.cert = None => nodeIdentity' = nodeIdentity
<1>1. peer[socket] \in Peers /\ peer[socket].key # None /\ peer[socket].cert # None
  BY TransportAssumption DEF IInv, TypeOK, Alive, Peers
<1>2. /\ nodeIdentity \in Identity /\ nodeIdentity.cert \in {None, peer[socket].cert}
      /\ trust \/ nodeIdentity.key \in {None, peer[socket].key}
      /\ nodeIdentity.key = None <=> nodeIdentity.cert = None
  BY DEF IInv, TypeOK, ChecksHold, PinsAreWhole
<1>3. CASE FirstPairing
  <2>1. nodeIdentity' = [key |-> peer[socket].key, cert |-> peer[socket].cert, binding |-> TRUE]
    BY <1>3 DEF Accept, Pinned
  <2>2. QED
    BY <1>1, <2>1 DEF Identity, Peers
<1>4. CASE ~FirstPairing
  BY <1>1, <1>2, <1>4 DEF Accept, FirstPairing
<1>5. QED
  BY <1>3, <1>4

LEMMA AuthOkStep ==
    ASSUME IInv, AuthOk
    PROVE  IInv'
<1>1. /\ Alive /\ socket \in secure /\ proofSent /\ Accept
      /\ UNCHANGED <<process, sockets, proofSent, localConfirmation, deferredAuth, timer,
                   trust, explicitCa, confirmation, request, history>>
      /\ saved' = nodeIdentity' \/ (UNCHANGED <<saved, nodeIdentity>>)
      /\ codeFile' = None
  BY DEF AuthOk, Unauthenticated, Accept
<1>2. /\ nodeIdentity' \in Identity /\ nodeIdentity'.cert \in {None, peer[socket].cert}
      /\ trust \/ nodeIdentity'.key = peer[socket].key
      /\ peer[socket].key # None
      /\ nodeIdentity'.key = None <=> nodeIdentity'.cert = None
      /\ nodeIdentity'.cert = None => nodeIdentity' = nodeIdentity
  BY <1>1, AcceptPins DEF process
<1>3. TypeOK'
  BY <1>1, <1>2 DEF IInv, TypeOK, Alive, process, sockets, history
<1>4. ChecksHold'
  BY <1>1, <1>2 DEF IInv, ChecksHold, Alive, process, sockets
<1>5. PinsAreWhole' /\ ServedIsSaved'
  BY <1>1, <1>2 DEF IInv, PinsAreWhole, ServedIsSaved, process, history
<1>6. ConfirmationsHold' /\ RepliesGoHome'
  BY <1>1 DEF IInv, ConfirmationsHold, RepliesGoHome, sockets, history
<1>7. QED
  BY <1>3, <1>4, <1>5, <1>6 DEF IInv

LEMMA ConfirmStep ==
    ASSUME IInv, Confirm
    PROVE  IInv'
<1>1. TypeOK'
  BY DEF Confirm, IInv, TypeOK, Alive, process, sockets, timers
<1>2. ChecksHold'
  BY DEF Confirm, IInv, ChecksHold, Alive, process, sockets, auth
<1>3. ConfirmationsHold'
  BY DEF Confirm, IInv, ConfirmationsHold, process, sockets, auth
<1>4. QED
  BY <1>1, <1>2, <1>3 DEF Confirm, IInv, PinsAreWhole, ServedIsSaved, RepliesGoHome, process

LEMMA PollStep ==
    ASSUME IInv, PollStale \/ PollConfirms \/ PollUnsaved
    PROVE  IInv'
<1>1. CASE PollStale
  <2>1. confirmation' = None /\ UNCHANGED <<process, sockets, auth, timers, nodeIdentity,
            trust, saved, codeFile, explicitCa, request, history>>
    BY <1>1 DEF PollStale, Poll
  <2>2. TypeOK' /\ ChecksHold'
    BY <2>1 DEF IInv, TypeOK, ChecksHold, Alive, process, sockets, auth, timers, history
  <2>3. QED
    BY <2>1, <2>2 DEF IInv, PinsAreWhole, ConfirmationsHold, ServedIsSaved, RepliesGoHome,
         process, sockets, auth, history
<1>2. CASE PollConfirms
  <2>1. /\ Alive /\ proofSent /\ confirmation = socket /\ confirmation' = None
        /\ UNCHANGED <<process, sockets, proofSent, timer, trust, explicitCa, request, history>>
    BY <1>2 DEF PollConfirms, Poll, Matches
  <2>2. ConfirmationsHold'
    BY <2>1, TransportAssumption DEF IInv, TypeOK, ConfirmationsHold, Alive, process, sockets, history
  <2>3. socket \in secure
    BY <2>1 DEF IInv, ChecksHold
  <2>4. CASE Accept
    <3>1. /\ nodeIdentity' \in Identity /\ nodeIdentity'.cert \in {None, peer[socket].cert}
          /\ trust \/ nodeIdentity'.key = peer[socket].key
          /\ peer[socket].key # None
          /\ nodeIdentity'.key = None <=> nodeIdentity'.cert = None
          /\ nodeIdentity'.cert = None => nodeIdentity' = nodeIdentity
          /\ saved' = nodeIdentity' \/ (UNCHANGED <<saved, nodeIdentity>>)
          /\ codeFile' = None
      BY <2>1, <2>4, AcceptPins DEF Accept, process
    <3>2. TypeOK'
      BY <2>1, <3>1 DEF IInv, TypeOK, Alive, process, sockets, history
    <3>3. ChecksHold'
      BY <2>1, <2>3, <3>1 DEF IInv, ChecksHold, Alive, process, sockets
    <3>4. PinsAreWhole' /\ ServedIsSaved' /\ RepliesGoHome'
      BY <2>1, <3>1 DEF IInv, PinsAreWhole, ServedIsSaved, RepliesGoHome, process, history
    <3>5. QED
      BY <2>2, <3>2, <3>3, <3>4 DEF IInv
  <2>5. CASE ~Accept
    <3>1. UNCHANGED <<nodeIdentity, saved, codeFile, authTimer, authenticated>>
      BY <1>2, <2>5 DEF PollConfirms
    <3>2. TypeOK'
      BY <2>1, <3>1 DEF IInv, TypeOK, Alive, process, sockets, history
    <3>3. ChecksHold'
      BY <2>1, <3>1 DEF IInv, ChecksHold, Alive, process, sockets
    <3>4. PinsAreWhole' /\ ServedIsSaved' /\ RepliesGoHome'
      BY <2>1, <3>1 DEF IInv, PinsAreWhole, ServedIsSaved, RepliesGoHome, process, history
    <3>5. QED
      BY <2>2, <3>2, <3>3, <3>4 DEF IInv
  <2>6. QED
    BY <2>4, <2>5
<1>3. CASE PollUnsaved
  <2>1. /\ Alive /\ proofSent /\ confirmation = socket /\ confirmation' = None
        /\ nodeIdentity' = Pinned /\ codeFile' = None /\ unsaved'
        /\ UNCHANGED <<process, sockets, proofSent, authenticated, timers, trust, saved,
                       explicitCa, request, confirmed>>
    BY <1>3 DEF PollUnsaved, Poll, Matches
  <2>2. peer[socket] \in Peers /\ peer[socket].key # None /\ peer[socket].cert # None
    BY <2>1, TransportAssumption DEF IInv, TypeOK, Alive, Peers
  <2>3. /\ nodeIdentity' \in Identity /\ nodeIdentity'.key = peer[socket].key
        /\ nodeIdentity'.cert = peer[socket].cert
    BY <2>1, <2>2 DEF Pinned, Identity, Peers
  <2>4. TypeOK'
    BY <2>1, <2>3 DEF IInv, TypeOK, Alive, process, sockets, timers
  <2>5. ChecksHold'
    BY <2>1, <2>2, <2>3 DEF IInv, ChecksHold, Alive, process, sockets
  <2>6. ConfirmationsHold'
    BY <2>1, TransportAssumption DEF IInv, TypeOK, ConfirmationsHold, Alive, process, sockets
  <2>7. PinsAreWhole' /\ ServedIsSaved' /\ RepliesGoHome'
    BY <2>1, <2>2, <2>3 DEF IInv, PinsAreWhole, ServedIsSaved, RepliesGoHome
  <2>8. QED
    BY <2>4, <2>5, <2>6, <2>7 DEF IInv
<1>4. QED
  BY <1>1, <1>2, <1>3
-------------------------------------------------------------------------------
\* An operation arrives, or its reply is written where the operation came from.
LEMMA RequestStep ==
    ASSUME IInv, NEW q \in Requests, Receive(q) \/ Reply(q)
    PROVE  IInv'
<1>1. UNCHANGED <<process, sockets, auth, timers, nodeIdentity, files, history>>
  BY DEF Receive, Reply
<1>2. /\ request' \in [Requests -> [state : {"unsent", "running", "over"},
                                    home : Sockets \cup {None}, sent : Sockets \cup {None}]]
      /\ RepliesGoHome'
  <2>1. /\ request \in [Requests -> [state : {"unsent", "running", "over"},
                                     home : Sockets \cup {None}, sent : Sockets \cup {None}]]
        /\ socket \in Sockets \cup {None} /\ RepliesGoHome
    BY SocketFacts DEF IInv, TypeOK
  <2>2. CASE Receive(q)
    BY <2>1, <2>2 DEF Receive, RepliesGoHome
  <2>3. CASE Reply(q)
    <3>1. PICK to \in {None, request[q].home} : request' = [request EXCEPT ![q].state = "over",
                                                                           ![q].sent = to]
      BY <2>3 DEF Reply, Writable
    <3>2. PICK now : now = [request[q] EXCEPT !.state = "over", !.sent = to]
      OBVIOUS
    <3>3. /\ request[q] \in [state : {"unsent", "running", "over"},
                             home : Sockets \cup {None}, sent : Sockets \cup {None}]
          /\ to \in Sockets \cup {None}
      BY <2>1
    <3>4. /\ now \in [state : {"unsent", "running", "over"},
                      home : Sockets \cup {None}, sent : Sockets \cup {None}]
          /\ now.home = request[q].home /\ now.sent = to
      BY <3>2, <3>3
    <3>5. request' = [request EXCEPT ![q] = now]
      BY <2>1, <3>1, <3>2
    <3>6. request'[q] = now /\ \A p \in Requests \ {q} : request'[p] = request[p]
      BY <2>1, <3>5
    <3>7. request' \in [Requests -> [state : {"unsent", "running", "over"},
                                     home : Sockets \cup {None}, sent : Sockets \cup {None}]]
      BY <2>1, <3>4, <3>5
    <3>8. RepliesGoHome'
      BY <2>1, <3>4, <3>6 DEF RepliesGoHome
    <3>9. QED
      BY <3>7, <3>8
  <2>4. QED
    BY <2>2, <2>3
<1>3. TypeOK'
  BY <1>1, <1>2 DEF IInv, TypeOK, Alive, process, sockets, timers, files, history
<1>4. QED
  BY <1>1, <1>2, <1>3 DEF IInv, PinsAreWhole, ChecksHold, ConfirmationsHold, ServedIsSaved,
       Alive, process, sockets, auth, files, history

\* Sockets close, deadlines pass, the transport is stopped: less is served than before.
LEMMA EndStep ==
    ASSUME IInv, (\E s \in Sockets : OnClose(s)) \/ AuthTimeout \/ Stop
    PROVE  IInv'
<1>1. /\ UNCHANGED <<up, strict, socket, made, peer, secure, proofSent, localConfirmation,
                     nodeIdentity, files, request, history>>
      /\ authenticated' => authenticated
      /\ wire' \in [Sockets -> {"unmade", "open", "destroyed", "closed"}]
      /\ \A s \in Sockets : wire'[s] = "open" => wire[s] = "open"
      /\ timer' => up /\ (timer \/ (socket # None /\ wire'[socket] # "open"))
  <2>1. CASE AuthTimeout
    BY <2>1, SocketFacts DEF AuthTimeout, Destroy, Alive, IInv, TypeOK, process, auth, timers
  <2>2. CASE Stop
    BY <2>2, SocketFacts DEF Stop, Destroy, Alive, IInv, TypeOK
  <2>3. CASE \E s \in Sockets : OnClose(s)
    <3>1. PICK s \in Sockets : OnClose(s)
      BY <2>3
    <3>2. QED
      BY <3>1, SocketFacts DEF OnClose, IInv, TypeOK, process
  <2>4. QED
    BY <2>1, <2>2, <2>3
<1>2. Alive' => Alive
  BY <1>1, SocketFacts DEF Alive, IInv, TypeOK
<1>3. TypeOK'
  BY <1>1, <1>2 DEF IInv, TypeOK, Alive, files, history
<1>4. ChecksHold'
  BY <1>1, <1>2 DEF IInv, ChecksHold, files
<1>5. QED
  BY <1>1, <1>3, <1>4 DEF IInv, PinsAreWhole, ConfirmationsHold, ServedIsSaved, RepliesGoHome,
       files, history

LEMMA CrashStep ==
    ASSUME IInv, Crash
    PROVE  IInv'
<1>1. \A s \in Sockets : wire'[s] # "open"
  BY DEF Crash
<1>2. request' \in [Requests -> [state : {"unsent", "running", "over"},
                                 home : Sockets \cup {None}, sent : Sockets \cup {None}]]
  <2>1. request \in [Requests -> [state : {"unsent", "running", "over"},
                                  home : Sockets \cup {None}, sent : Sockets \cup {None}]]
    BY DEF IInv, TypeOK
  <2>2. request' = [q \in Requests |-> [request[q] EXCEPT
                      !.state = IF @ = "running" THEN "over" ELSE @]]
    BY DEF Crash
  <2>3. QED
    BY <2>1, <2>2
<1>3. Unpaired \in Identity
  BY DEF Unpaired, Identity
<1>4. TypeOK'
  BY <1>1, <1>2, <1>3 DEF Crash, IInv, TypeOK, Alive, files, history
<1>5. RepliesGoHome'
  BY DEF Crash, IInv, TypeOK, RepliesGoHome
<1>6. PinsAreWhole' /\ ChecksHold' /\ ConfirmationsHold' /\ ServedIsSaved'
  BY DEF Crash, IInv, PinsAreWhole, ChecksHold, ConfirmationsHold, ServedIsSaved, Alive,
       Unpaired, files, history
<1>7. QED
  BY <1>4, <1>5, <1>6 DEF IInv

LEMMA UnpairStep ==
    ASSUME IInv, Unpair
    PROVE  IInv'
<1>1. /\ saved' \in Identity /\ (saved'.key = None <=> saved'.cert = None)
  BY DEF Unpair, IInv, TypeOK, Identity
<1>2. TypeOK'
  BY <1>1 DEF Unpair, IInv, TypeOK, Alive, process, sockets, timers, history
<1>3. QED
  BY <1>1, <1>2 DEF Unpair, IInv, PinsAreWhole, ChecksHold, ConfirmationsHold, ServedIsSaved,
       RepliesGoHome, Alive, process, sockets, auth, history

LEMMA NextIInv == IInv /\ [Next]_vars => IInv'
<1> SUFFICES ASSUME IInv, [Next]_vars PROVE IInv'
  OBVIOUS
<1>1. CASE \E p \in Peers : Start(p) \/ Reconnect(p)
  BY <1>1, ConnectStep
<1>2. CASE SecureConnect \/ \E bound \in BOOLEAN : Challenge(bound)
  BY <1>2, SecureConnectStep, ChallengeStep
<1>3. CASE PairingPending \/ DeferAuth
  BY <1>3, ShowStep
<1>4. CASE PairingMismatch \/ Disconnect
  BY <1>4, RefuseStep DEF PairingMismatch, Disconnect, Unauthenticated
<1>5. CASE AuthOk
  BY <1>5, AuthOkStep
<1>6. CASE Confirm \/ PollStale \/ PollConfirms \/ PollUnsaved
  BY <1>6, ConfirmStep, PollStep
<1>7. CASE \E q \in Requests : Receive(q) \/ Reply(q)
  BY <1>7, RequestStep
<1>8. CASE (\E s \in Sockets : OnClose(s)) \/ AuthTimeout \/ Stop
  BY <1>8, EndStep
<1>9. CASE Crash \/ Unpair
  BY <1>9, CrashStep, UnpairStep
<1>10. CASE UNCHANGED vars
  BY <1>10 DEF vars, IInv, TypeOK, PinsAreWhole, ChecksHold, ConfirmationsHold, ServedIsSaved,
       RepliesGoHome, Alive, process, sockets, auth, timers, files, history
<1>11. QED
  BY <1>1, <1>2, <1>3, <1>4, <1>5, <1>6, <1>7, <1>8, <1>9, <1>10 DEF Next

THEOREM Inductive == Spec => []IInv
  BY InitIInv, NextIInv, PTL DEF Spec

-------------------------------------------------------------------------------
\* Operations are taken only from the controller whose key and certificate are
\* pinned, or from one that TLS verified (network-transport.mjs 59-166).
THEOREM ServesOnlyItsController == Spec => []ServesItsController
<1>1. IInv => ServesItsController
  <2> SUFFICES ASSUME IInv PROVE ServesItsController
    OBVIOUS
  <2>1. ASSUME Alive, authenticated
        PROVE  /\ socket \in secure
               /\ nodeIdentity.cert \in {None, peer[socket].cert}
               /\ ~trust => nodeIdentity.key = peer[socket].key
               /\ nodeIdentity.cert = None => peer[socket].cert \in Verified
    BY <2>1 DEF IInv, ChecksHold, PinsAreWhole, Alive
  <2>2. QED
    BY <2>1 DEF ServesItsController, IInv
<1>2. QED
  BY <1>1, Inductive, PTL

\* What the gateway holds its controller to is what a restart would load.
THEOREM ServedPinIsSaved == Spec => []ServedIsSaved
  BY Inductive, PTL DEF IInv

\* The reply of an operation goes to the connection it came on, or nowhere.
THEOREM RepliesStayHome == Spec => []RepliesGoHome
  BY Inductive, PTL DEF IInv

\* A pin is made only after the operator confirmed the code of that connection, or
\* where a CA verified the certificate: late and left-over confirmations pin no one.
THEOREM PinsAreConfirmed == Spec => PinIsConfirmed
<1>1. ASSUME IInv, [Next]_vars, up, up', nodeIdentity' # nodeIdentity
      PROVE  /\ nodeIdentity.key = None
             /\ socket \in confirmed \/ (explicitCa /\ peer[socket].cert \in Verified)
  <2>1. AuthOk \/ PollConfirms \/ PollUnsaved
    BY <1>1 DEF Next, Start, Reconnect, SecureConnect, Challenge, RefusePeer, PairingPending,
         PairingMismatch, DeferAuth, Confirm, PollStale, Receive, Reply, Disconnect, OnClose,
         AuthTimeout, Stop, Crash, Unpair, vars
  <2>2. CASE AuthOk
    <3>1. Alive /\ socket \in secure /\ FirstPairing /\ ~NeedsConfirmation
      BY <1>1, <2>2 DEF AuthOk, Unauthenticated, Accept
    <3>2. nodeIdentity.key = None /\ nodeIdentity.cert = None /\ (explicitCa \/ localConfirmation)
      BY <1>1, <3>1 DEF FirstPairing, NeedsConfirmation, IInv, PinsAreWhole
    <3>3. explicitCa => peer[socket].cert \in Verified
      BY <1>1, <3>1, <3>2 DEF IInv, ChecksHold
    <3>4. QED
      BY <1>1, <3>2, <3>3 DEF IInv, ConfirmationsHold
  <2>3. CASE PollConfirms \/ PollUnsaved
    <3>1. Matches /\ confirmation # None /\ FirstPairing
      BY <1>1, <2>3 DEF PollConfirms, PollUnsaved, Poll, Accept
    <3>2. QED
      BY <1>1, <3>1 DEF Matches, FirstPairing, IInv, ConfirmationsHold
  <2>4. QED
    BY <2>1, <2>2, <2>3
<1>2. QED
  BY <1>1, Inductive, PTL DEF Spec, PinIsConfirmed
===============================================================================
