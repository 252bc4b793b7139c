----------------------- MODULE ControllerListenerProofs -----------------------
(***************************************************************************)
(* Why a connection that is served is the one its id stands for, and why   *)
(* the activity list agrees with what is waited for.  The invariant has    *)
(* two halves.  IdInv is about connections alone: the id that a connection *)
(* speaks for points back at it until the socket is destroyed, and a       *)
(* challenge that is pending on a connection under the id it speaks for is *)
(* one of the host that proved itself there.  WorkInv is about requests    *)
(* and the list, and rests on IdInv: what is shown as active on a          *)
(* connection is an execution that waits there and runs on the host.       *)
(***************************************************************************)
EXTENDS ControllerListener, SubsequenceProofs

IdTypes ==
    /\ state \in [Conns -> {"unused", "authenticating", "pending", "ready", "closed"}]
    /\ destroyed \subseteq Conns
    /\ gateway \in [Conns -> Gateways \cup {None}]
    /\ host \in [Conns -> Hosts \cup {None}]
    /\ gatewayRecords \in [Gateways -> Hosts \cup {None}]
    /\ pending \in [Gateways -> {None} \cup Pairing(Conns \cup {None})]
    /\ connections \in [Gateways -> Conns \cup {None}]
    /\ gatewayHealth \subseteq Gateways
    /\ prepared \in [Gateways -> {None} \cup Pairing(Conns)]

Identified == {"pending", "ready"}

\* Identities are proved before a connection is served, and only sockets that are
\* there can be destroyed.
ProvedFirst ==
    \A c \in Conns :
        /\ state[c] \in Identified => gateway[c] # None /\ host[c] # None
        /\ c \in destroyed => state[c] \notin {"unused", "closed"}

\* A connection is the one its id stands for, and an id that stays with a connection
\* that has closed is not the one it closed under.
HoldsItsId ==
    /\ \A c \in Conns : state[c] \in Identified /\ c \notin destroyed =>
          connections[gateway[c]] = c
    /\ \A g \in Gateways : connections[g] # None =>
          /\ state[connections[g]] \in Identified \cup {"closed"}
          /\ state[connections[g]] = "closed" => gateway[connections[g]] # g

\* A challenge that can be approved is one of the host that proved its identity on
\* that connection last.
ChallengesAreProved ==
    \A g \in Gateways, c \in Conns :
        /\ pending[g] # None /\ pending[g].conn = c
        /\ state[c] = "pending" /\ gateway[c] = g
        => host[c] = pending[g].host

HealthIsOfKnown ==
    \A g \in gatewayHealth : gatewayRecords[g] # None \/ connections[g] # None

PendingIsBounded == Cardinality(PendingPairings) <= MaxPending

IdInv ==
    /\ IdTypes /\ ProvedFirst /\ HoldsItsId /\ ChallengesAreProved
    /\ ReadyIsTrusted /\ HealthIsOfKnown /\ PendingIsBounded

WorkTypes ==
    /\ request \in [Requests -> {Unsent} \cup SentRequest]
    /\ active \in [Conns -> [Ops -> Requests \cup {None}]]
    /\ running \subseteq Requests
    /\ activity \in Seq(ActivityEntry)
    /\ Len(activity) <= ActivityLimit
    /\ strayed \subseteq Gateways \X Ops

\* What is active on a connection is an execution that its host is running.
ActiveRuns ==
    \A c \in Conns, op \in Ops : active[c][op] # None =>
        active[c][op] \in running /\ Recorded(active[c][op])

WorkInv ==
    /\ WorkTypes /\ WaitsOnlyWhileReady /\ ActiveRuns
    /\ InFlightIsAwaited /\ RunningShown

IInv == IdInv /\ WorkInv /\ closing \in BOOLEAN
-------------------------------------------------------------------------------
(* The connections.                                                          *)

\* No pairing more than before: the bound stays.
LEMMA NoMorePending ==
    ASSUME PendingIsBounded,
           PendingPairings' \subseteq PendingPairings
    PROVE  PendingIsBounded'
<1>1. IsFiniteSet(PendingPairings)
  BY ListenerAssumption, FS_Subset DEF PendingPairings
<1>2. /\ Cardinality(PendingPairings) \in Nat /\ Cardinality(PendingPairings') \in Nat
      /\ Cardinality(PendingPairings') <= Cardinality(PendingPairings)
  BY <1>1, FS_Subset, FS_CardinalityType
<1>3. QED
  BY <1>2, ListenerAssumption DEF PendingIsBounded

\* One pairing more, when the code found that there are fewer than the limit.
LEMMA OneMorePending ==
    ASSUME PendingIsBounded, NEW g \in Gateways,
           PendingPairings' \subseteq PendingPairings \cup {g},
           g \in PendingPairings \/ Cardinality(PendingPairings) < MaxPending
    PROVE  PendingIsBounded'
<1>1. IsFiniteSet(PendingPairings)
  BY ListenerAssumption, FS_Subset DEF PendingPairings
<1>2. /\ IsFiniteSet(PendingPairings \cup {g})
      /\ Cardinality(PendingPairings \cup {g})
            = IF g \in PendingPairings THEN Cardinality(PendingPairings)
              ELSE Cardinality(PendingPairings) + 1
  BY <1>1, FS_AddElement
<1>3. /\ Cardinality(PendingPairings) \in Nat /\ Cardinality(PendingPairings') \in Nat
      /\ Cardinality(PendingPairings') <= Cardinality(PendingPairings \cup {g})
  BY <1>1, <1>2, FS_Subset, FS_CardinalityType
<1>4. QED
  BY <1>2, <1>3, ListenerAssumption DEF PendingIsBounded

LEMMA IdInit == Init => IdInv
<1> SUFFICES ASSUME Init PROVE IdInv
  OBVIOUS
<1>1. IdTypes
  BY DEF Init, IdTypes, Pairing
<1>2. ProvedFirst /\ HoldsItsId /\ ReadyIsTrusted
  BY DEF Init, ProvedFirst, HoldsItsId, ReadyIsTrusted, Identified
<1>3. ChallengesAreProved
  BY DEF Init, ChallengesAreProved
<1>4. HealthIsOfKnown /\ PendingIsBounded
  BY DEF Init, HealthIsOfKnown, PendingIsBounded, PendingPairings
<1>5. QED
  BY <1>1, <1>2, <1>3, <1>4 DEF IdInv

LEMMA IdConnect == ASSUME IdInv, NEW c \in Conns, Connect(c) PROVE IdInv'
<1>1. /\ state[c] = "unused" /\ state' = [state EXCEPT ![c] = "authenticating"]
      /\ UNCHANGED <<destroyed, gateway, host, gatewayRecords, pending, connections,
                     gatewayHealth, prepared>>
  BY DEF Connect
<1>2. IdTypes'
  BY <1>1 DEF IdInv, IdTypes
<1>3. ProvedFirst' /\ HoldsItsId' /\ ReadyIsTrusted'
  BY <1>1 DEF IdInv, IdTypes, ProvedFirst, HoldsItsId, ReadyIsTrusted, Identified
<1>4. ChallengesAreProved'
  BY <1>1 DEF IdInv, IdTypes, ChallengesAreProved
<1>5. HealthIsOfKnown' /\ PendingIsBounded'
  BY <1>1 DEF IdInv, HealthIsOfKnown, PendingIsBounded, PendingPairings
<1>6. QED
  BY <1>2, <1>3, <1>4, <1>5 DEF IdInv

\* Destroying sockets that are there, and nothing else.
LEMMA IdDestroy ==
    ASSUME IdInv, destroyed \subseteq destroyed', destroyed' \subseteq Conns,
           \A c \in destroyed' : state[c] \notin {"unused", "closed"},
           UNCHANGED <<state, gateway, host, gatewayRecords, connections, prepared>>,
           \A g \in Gateways : pending'[g] \in {None, pending[g]},
           pending' \in [Gateways -> {None} \cup Pairing(Conns \cup {None})],
           gatewayHealth' \subseteq Gateways,
           \A g \in gatewayHealth' : g \in gatewayHealth \/ connections[g] # None
    PROVE  IdInv'
<1>1. IdTypes'
  BY DEF IdInv, IdTypes
<1>2. ProvedFirst' /\ HoldsItsId' /\ ReadyIsTrusted'
  BY DEF IdInv, ProvedFirst, HoldsItsId, ReadyIsTrusted
<1>3. ChallengesAreProved'
  BY DEF IdInv, IdTypes, ChallengesAreProved
<1>4. HealthIsOfKnown'
  BY DEF IdInv, HealthIsOfKnown
<1>5. PendingPairings' \subseteq PendingPairings
  BY DEF PendingPairings
<1>6. PendingIsBounded'
  BY <1>5, NoMorePending DEF IdInv
<1>7. QED
  BY <1>1, <1>2, <1>3, <1>4, <1>6 DEF IdInv

LEMMA IdFail == ASSUME IdInv, NEW c \in Conns, Open(c), Fail(c) PROVE IdInv'
<1>1. \A d \in destroyed' : d \in Conns /\ state[d] \notin {"unused", "closed"}
  BY DEF Fail, Open, IdInv, IdTypes, ProvedFirst
<1>2. /\ destroyed \subseteq destroyed'
      /\ UNCHANGED <<state, gateway, host, gatewayRecords, connections, prepared,
                     pending, gatewayHealth>>
  BY DEF Fail
<1>3. /\ pending' \in [Gateways -> {None} \cup Pairing(Conns \cup {None})]
      /\ gatewayHealth' \subseteq Gateways
  BY <1>2 DEF IdInv, IdTypes
<1>4. QED
  BY <1>1, <1>2, <1>3, IdDestroy

\* An identity is proved on a connection that is not ready, under an id that no other
\* connection holds.
LEMMA IdIdentify ==
    ASSUME IdInv, NEW c \in Conns, NEW g \in Gateways, NEW h \in Hosts,
           NEW next \in Identified, NEW n \in {0, 1},
           state[c] \in {"authenticating", "pending"}, ~HeldByAnother(g, c),
           Identify(c, g, h, next), next = "ready" => gatewayRecords[g] = h,
           UNCHANGED <<destroyed, gatewayRecords, gatewayHealth, prepared>>,
           pending' = IF next = "ready" THEN pending
                      ELSE [pending EXCEPT ![g] = [host |-> h, conn |-> c, generation |-> n]],
           PendingIsBounded'
    PROVE  IdInv'
<1>1. /\ connections' = [connections EXCEPT ![g] = c]
      /\ gateway' = [gateway EXCEPT ![c] = g]
      /\ host' = [host EXCEPT ![c] = h]
      /\ state' = [state EXCEPT ![c] = next]
      /\ next \in {"pending", "ready"}
  BY DEF Identify, Identified
<1>2. None \notin Gateways /\ None \notin Hosts /\ None \notin Conns
  BY ListenerAssumption
<1>3. IdTypes'
  <2>1. [host |-> h, conn |-> c, generation |-> n] \in Pairing(Conns \cup {None})
    BY DEF Pairing
  <2>2. pending' \in [Gateways -> {None} \cup Pairing(Conns \cup {None})]
    BY <2>1 DEF IdInv, IdTypes
  <2>3. QED
    BY <1>1, <2>2 DEF IdInv, IdTypes
<1>4. ProvedFirst'
  BY <1>1, <1>2 DEF IdInv, IdTypes, ProvedFirst, Identified
<1>5. HoldsItsId'
  <2>1. ASSUME NEW d \in Conns, state'[d] \in Identified, d \notin destroyed'
        PROVE  connections'[gateway'[d]] = d
    <3>1. CASE d = c
      BY <1>1, <3>1 DEF IdInv, IdTypes
    <3>2. CASE d # c
      <4>1. state[d] \in Identified /\ d \notin destroyed /\ gateway'[d] = gateway[d]
        BY <1>1, <2>1, <3>2 DEF IdInv, IdTypes
      <4>2. connections[gateway[d]] = d /\ gateway[d] \in Gateways
        BY <4>1 DEF IdInv, IdTypes, HoldsItsId, ProvedFirst
      <4>3. gateway[d] # g
        BY <1>2, <3>2, <4>1, <4>2 DEF HeldByAnother, Identified
      <4>4. QED
        BY <1>1, <4>1, <4>2, <4>3 DEF IdInv, IdTypes
    <3>3. QED
      BY <3>1, <3>2
  <2>2. ASSUME NEW k \in Gateways, connections'[k] # None
        PROVE  /\ state'[connections'[k]] \in Identified \cup {"closed"}
               /\ state'[connections'[k]] = "closed" => gateway'[connections'[k]] # k
    <3>1. CASE connections'[k] = c
      BY <1>1, <3>1 DEF IdInv, IdTypes, Identified
    <3>2. CASE connections'[k] # c
      <4>1. k # g /\ connections'[k] = connections[k] /\ connections[k] \in Conns
        BY <1>1, <2>2, <3>2 DEF IdInv, IdTypes
      <4>2. /\ state[connections[k]] \in Identified \cup {"closed"}
            /\ state[connections[k]] = "closed" => gateway[connections[k]] # k
        BY <2>2, <4>1 DEF IdInv, HoldsItsId
      <4>3. QED
        BY <1>1, <3>2, <4>1, <4>2 DEF IdInv, IdTypes
    <3>3. QED
      BY <3>1, <3>2
  <2>3. QED
    BY <2>1, <2>2 DEF HoldsItsId
<1>6. ChallengesAreProved'
  <2>1. SUFFICES ASSUME NEW k \in Gateways, NEW d \in Conns, pending'[k] # None,
                        pending'[k].conn = d, state'[d] = "pending", gateway'[d] = k
                 PROVE  host'[d] = pending'[k].host
    BY DEF ChallengesAreProved
  <2>2. CASE d = c
    <3>1. next = "pending" /\ k = g
      BY <1>1, <2>1, <2>2 DEF IdInv, IdTypes
    <3>2. pending'[g] = [host |-> h, conn |-> c, generation |-> n] /\ host'[c] = h
      BY <1>1, <3>1 DEF IdInv, IdTypes
    <3>3. QED
      BY <2>2, <3>1, <3>2
  <2>3. CASE d # c
    <3>1. state[d] = "pending" /\ gateway[d] = k /\ host'[d] = host[d]
      BY <1>1, <2>1, <2>3 DEF IdInv, IdTypes
    <3>2. pending'[k] = pending[k]
      <4>1. next = "pending" /\ k = g => pending'[k].conn = c
        BY DEF IdInv, IdTypes
      <4>2. QED
        BY <1>1, <2>1, <2>3, <4>1 DEF IdInv, IdTypes
    <3>3. QED
      BY <2>1, <3>1, <3>2 DEF IdInv, ChallengesAreProved
  <2>4. QED
    BY <2>2, <2>3
<1>7. ReadyIsTrusted'
  BY <1>1, <1>2 DEF IdInv, IdTypes, ReadyIsTrusted
<1>8. HealthIsOfKnown'
  BY <1>1, <1>2 DEF IdInv, IdTypes, HealthIsOfKnown
<1>9. QED
  BY <1>3, <1>4, <1>5, <1>6, <1>7, <1>8 DEF IdInv

LEMMA IdRegister ==
    ASSUME IdInv, NEW c \in Conns, NEW g \in Gateways, NEW h \in Hosts,
           RegisterPending(c, g, h)
    PROVE  IdInv'
<1>1. /\ state[c] \in {"authenticating", "pending"} /\ MayRegister(c, g, h)
      /\ Identify(c, g, h, "pending")
      /\ UNCHANGED <<destroyed, gatewayRecords, gatewayHealth, prepared>>
  BY DEF RegisterPending, AuthResponse
<1>2. PICK n \in {0, 1} :
         pending' = [pending EXCEPT ![g] = [host |-> h, conn |-> c, generation |-> n]]
  BY DEF RegisterPending, NewGeneration
<1>3. PendingIsBounded'
  <2>1. PendingPairings' \subseteq PendingPairings \cup {g}
    BY <1>2 DEF PendingPairings, IdInv, IdTypes
  <2>2. g \in PendingPairings \/ Cardinality(PendingPairings) < MaxPending
    BY <1>1 DEF MayRegister, PendingPairings
  <2>3. QED
    BY <2>1, <2>2, OneMorePending DEF IdInv
<1>4. /\ ~HeldByAnother(g, c) /\ "pending" \in Identified /\ "pending" # "ready"
      /\ pending' = IF "pending" = "ready" THEN pending
                    ELSE [pending EXCEPT ![g] = [host |-> h, conn |-> c, generation |-> n]]
  BY <1>1, <1>2 DEF MayRegister, Identified
<1>5. QED
  BY <1>1, <1>3, <1>4, IdIdentify

LEMMA IdAuthenticate ==
    ASSUME IdInv, NEW c \in Conns, NEW g \in Gateways, NEW h \in Hosts,
           Authenticate(c, g, h)
    PROVE  IdInv'
<1>1. /\ state[c] \in {"authenticating", "pending"} /\ ~HeldByAnother(g, c)
      /\ gatewayRecords[g] = h
      /\ Identify(c, g, h, "ready")
      /\ UNCHANGED <<destroyed, gatewayRecords, gatewayHealth, prepared, pending>>
  BY DEF Authenticate, AuthResponse
<1>2. PendingIsBounded'
  BY <1>1 DEF IdInv, PendingIsBounded, PendingPairings
<1>3. PICK n \in {0, 1} : n = 0
  OBVIOUS
<1>4. /\ "ready" \in Identified
      /\ pending' = IF "ready" = "ready" THEN pending
                    ELSE [pending EXCEPT ![g] = [host |-> h, conn |-> c, generation |-> n]]
  BY <1>1 DEF Identified
<1>5. QED
  BY <1>1, <1>2, <1>4, IdIdentify

LEMMA IdPrepare == ASSUME IdInv, NEW g \in Gateways, PrepareApproval(g) PROVE IdInv'
<1>1. /\ Approvable(g) /\ prepared' = [prepared EXCEPT ![g] = pending[g]]
      /\ UNCHANGED <<state, destroyed, gateway, host, gatewayRecords, pending,
                     connections, gatewayHealth>>
  BY DEF PrepareApproval
<1>2. pending[g] \in Pairing(Conns)
  BY <1>1 DEF IdInv, IdTypes, Approvable, Pairing
<1>3. IdTypes'
  BY <1>1, <1>2 DEF IdInv, IdTypes
<1>4. ProvedFirst' /\ HoldsItsId' /\ ReadyIsTrusted' /\ HealthIsOfKnown' /\ PendingIsBounded'
  BY <1>1 DEF IdInv, ProvedFirst, HoldsItsId, ReadyIsTrusted, HealthIsOfKnown,
              PendingIsBounded, PendingPairings
<1>5. ChallengesAreProved'
  BY <1>1 DEF IdInv, ChallengesAreProved
<1>6. QED
  BY <1>3, <1>4, <1>5 DEF IdInv

LEMMA IdCommit == ASSUME IdInv, NEW g \in Gateways, CommitApproval(g) PROVE IdInv'
<1>1. PICK c : c = connections[g]
  OBVIOUS
<1>2. /\ pending[g] # None /\ c # None /\ c = pending[g].conn /\ state[c] = "pending"
      /\ gatewayRecords' = [gatewayRecords EXCEPT ![g] = pending[g].host]
      /\ state' = [state EXCEPT ![c] = "ready"]
      /\ pending' = [pending EXCEPT ![g] = None]
      /\ prepared' = [prepared EXCEPT ![g] = None]
      /\ UNCHANGED <<destroyed, gateway, host, connections, gatewayHealth>>
  BY <1>1 DEF CommitApproval, Approvable
<1>3. /\ c \in Conns /\ gateway[c] = g /\ host[c] = pending[g].host
      /\ pending[g].host \in Hosts /\ None \notin Hosts
  <2>1. c \in Conns /\ gateway[c] = g
    BY <1>1, <1>2 DEF IdInv, IdTypes, CommitApproval, Approvable
  <2>2. host[c] = pending[g].host
    BY <1>2, <2>1 DEF IdInv, ChallengesAreProved
  <2>3. QED
    BY <1>2, <2>1, <2>2, ListenerAssumption DEF IdInv, IdTypes, Pairing
<1>4. IdTypes'
  BY <1>2, <1>3 DEF IdInv, IdTypes
<1>5. ProvedFirst' /\ HoldsItsId'
  BY <1>2, <1>3 DEF IdInv, IdTypes, ProvedFirst, HoldsItsId, Identified
<1>6. ChallengesAreProved'
  BY <1>2, <1>3 DEF IdInv, IdTypes, ChallengesAreProved
<1>7. ReadyIsTrusted'
  <2>1. SUFFICES ASSUME NEW d \in Conns, state'[d] = "ready", d \notin destroyed'
                 PROVE  host'[d] # None /\ gatewayRecords'[gateway'[d]] = host'[d]
    BY DEF ReadyIsTrusted
  <2>2. CASE d = c
    BY <1>2, <1>3, <2>2 DEF IdInv, IdTypes
  <2>3. CASE d # c
    <3>1. state[d] = "ready" /\ d \notin destroyed
      BY <1>2, <2>1, <2>3 DEF IdInv, IdTypes
    <3>2. /\ connections[gateway[d]] = d /\ gateway[d] \in Gateways
          /\ host[d] # None /\ gatewayRecords[gateway[d]] = host[d]
      BY <3>1 DEF IdInv, IdTypes, HoldsItsId, ProvedFirst, ReadyIsTrusted, Identified
    <3>3. gateway[d] # g
      BY <1>1, <2>3, <3>2
    <3>4. QED
      BY <1>2, <3>2, <3>3 DEF IdInv, IdTypes
  <2>4. QED
    BY <2>2, <2>3
<1>8. HealthIsOfKnown'
  BY <1>2, <1>3 DEF IdInv, IdTypes, HealthIsOfKnown
<1>9. PendingPairings' \subseteq PendingPairings
  BY <1>2 DEF PendingPairings, IdInv, IdTypes
<1>10. PendingIsBounded'
  BY <1>9, NoMorePending DEF IdInv
<1>11. QED
  BY <1>4, <1>5, <1>6, <1>7, <1>8, <1>10 DEF IdInv

\* Revocation, by an administrator or by an approval that failed.
LEMMA IdRevoke ==
    ASSUME IdInv, NEW g \in Gateways, RevokeGateway(g),
           prepared' \in {prepared, [prepared EXCEPT ![g] = None]}
    PROVE  IdInv'
<1>1. /\ connections' = [connections EXCEPT ![g] = None]
      /\ gatewayRecords' = [gatewayRecords EXCEPT ![g] = None]
      /\ pending' = [pending EXCEPT ![g] = None]
      /\ gatewayHealth' = gatewayHealth \ {g}
      /\ destroyed' = destroyed \cup {c \in Conns : connections[g] = c /\ state[c] # "closed"}
      /\ UNCHANGED <<state, gateway, host>>
  BY DEF RevokeGateway, DropGateway
<1>2. None \notin Gateways /\ None \notin Hosts /\ None \notin Conns
  BY ListenerAssumption
<1>3. IdTypes'
  BY <1>1 DEF IdInv, IdTypes
<1>4. ProvedFirst'
  BY <1>1, <1>2 DEF IdInv, IdTypes, ProvedFirst, HoldsItsId, Identified
<1>5. ASSUME NEW d \in Conns, state'[d] \in Identified, d \notin destroyed'
      PROVE  /\ state[d] = state'[d] /\ d \notin destroyed /\ gateway'[d] = gateway[d]
             /\ connections[gateway[d]] = d /\ gateway[d] \in Gateways /\ gateway[d] # g
  <2>1. state[d] = state'[d] /\ d \notin destroyed /\ gateway'[d] = gateway[d]
    BY <1>1, <1>5
  <2>2. connections[gateway[d]] = d /\ gateway[d] \in Gateways
    BY <1>5, <2>1 DEF IdInv, IdTypes, HoldsItsId, ProvedFirst
  <2>3. gateway[d] # g
    BY <1>1, <1>2, <1>5, <2>1, <2>2 DEF Identified
  <2>4. QED
    BY <2>1, <2>2, <2>3
<1>6. HoldsItsId'
  <2>1. \A d \in Conns : state'[d] \in Identified /\ d \notin destroyed' =>
           connections'[gateway'[d]] = d
    BY <1>1, <1>5 DEF IdInv, IdTypes
  <2>2. \A k \in Gateways : connections'[k] # None =>
           /\ state'[connections'[k]] \in Identified \cup {"closed"}
           /\ state'[connections'[k]] = "closed" => gateway'[connections'[k]] # k
    BY <1>1 DEF IdInv, IdTypes, HoldsItsId
  <2>3. QED
    BY <2>1, <2>2 DEF HoldsItsId
<1>7. ChallengesAreProved'
  BY <1>1 DEF IdInv, IdTypes, ChallengesAreProved
<1>8. ReadyIsTrusted'
  <2>1. SUFFICES ASSUME NEW d \in Conns, state'[d] = "ready", d \notin destroyed'
                 PROVE  host'[d] # None /\ gatewayRecords'[gateway'[d]] = host'[d]
    BY DEF ReadyIsTrusted
  <2>2. /\ state[d] = "ready" /\ d \notin destroyed /\ gateway'[d] = gateway[d]
        /\ gateway[d] \in Gateways /\ gateway[d] # g
    BY <1>5, <2>1 DEF Identified
  <2>3. QED
    BY <1>1, <2>2 DEF IdInv, IdTypes, ReadyIsTrusted
<1>9. HealthIsOfKnown'
  BY <1>1 DEF IdInv, IdTypes, HealthIsOfKnown
<1>10. PendingPairings' \subseteq PendingPairings
  BY <1>1 DEF PendingPairings, IdInv, IdTypes
<1>11. PendingIsBounded'
  BY <1>10, NoMorePending DEF IdInv
<1>12. QED
  BY <1>3, <1>4, <1>6, <1>7, <1>8, <1>9, <1>11 DEF IdInv

LEMMA IdReject == ASSUME IdInv, NEW g \in Gateways, RejectPending(g) PROVE IdInv'
<1>1. /\ pending' = [pending EXCEPT ![g] = None]
      /\ destroyed' = destroyed \cup
            {c \in Conns : /\ \E k \in Gateways : connections[k] = c
                           /\ gateway[c] = g /\ state[c] = "pending"}
      /\ UNCHANGED <<state, gateway, host, gatewayRecords, connections, gatewayHealth, prepared>>
  BY DEF RejectPending
<1>2. \A d \in destroyed' : d \in Conns /\ state[d] \notin {"unused", "closed"}
  BY <1>1 DEF IdInv, IdTypes, ProvedFirst
<1>3. /\ pending' \in [Gateways -> {None} \cup Pairing(Conns \cup {None})]
      /\ \A k \in Gateways : pending'[k] \in {None, pending[k]}
      /\ gatewayHealth' \subseteq Gateways
  BY <1>1 DEF IdInv, IdTypes
<1>4. QED
  BY <1>1, <1>2, <1>3, IdDestroy

LEMMA IdList == ASSUME IdInv, ListGateways PROVE IdInv'
<1>1. /\ gatewayHealth' = gatewayHealth \cup {g \in Gateways : connections[g] # None}
      /\ UNCHANGED <<state, destroyed, gateway, host, gatewayRecords, pending,
                     connections, prepared>>
  BY DEF ListGateways
<1>2. \A d \in destroyed' : d \in Conns /\ state[d] \notin {"unused", "closed"}
  BY <1>1 DEF IdInv, IdTypes, ProvedFirst
<1>3. /\ pending' \in [Gateways -> {None} \cup Pairing(Conns \cup {None})]
      /\ gatewayHealth' \subseteq Gateways
  BY <1>1 DEF IdInv, IdTypes
<1>4. QED
  BY <1>1, <1>2, <1>3, IdDestroy DEF IdInv, IdTypes

LEMMA IdCloseAll == ASSUME IdInv, Close PROVE IdInv'
<1>1. /\ destroyed' = {c \in Conns : state[c] \notin {"unused", "closed"}}
      /\ UNCHANGED <<state, gateway, host, gatewayRecords, pending, connections,
                     gatewayHealth, prepared>>
  BY DEF Close
<1>2. /\ destroyed \subseteq destroyed'
      /\ pending' \in [Gateways -> {None} \cup Pairing(Conns \cup {None})]
      /\ gatewayHealth' \subseteq Gateways
  BY <1>1 DEF IdInv, IdTypes, ProvedFirst
<1>3. QED
  BY <1>1, <1>2, IdDestroy

\* Nobody but the connection that closes loses its id.
LEMMA UnbindFacts ==
    ASSUME IdInv, NEW c \in Conns, Unbind(c)
    PROVE  \A g \in Gateways :
              /\ connections'[g] = IF gateway[c] = g /\ connections[g] = c
                                  THEN None ELSE connections[g]
              /\ g \in gatewayHealth' =>
                    \/ gatewayRecords[g] # None
                    \/ g \in gatewayHealth /\ connections'[g] = connections[g]
<1>1. None \notin Gateways /\ None \notin Conns
  BY ListenerAssumption
<1>2. CASE gateway[c] # None /\ connections[gateway[c]] = c
  <2>1. gateway[c] \in Gateways
    BY <1>2 DEF IdInv, IdTypes
  <2>2. connections' = [connections EXCEPT ![gateway[c]] = None]
    BY <1>2 DEF Unbind
  <2>3. gatewayHealth' = IF gatewayRecords[gateway[c]] = None
                         THEN gatewayHealth \ {gateway[c]} ELSE gatewayHealth \cup {gateway[c]}
    BY <1>2 DEF Unbind
  <2>4. QED
    BY <1>2, <2>1, <2>2, <2>3 DEF IdInv, IdTypes
<1>3. CASE ~(gateway[c] # None /\ connections[gateway[c]] = c)
  <2>1. \A g \in Gateways : ~(gateway[c] = g /\ connections[g] = c)
    BY <1>1, <1>3
  <2>2. UNCHANGED <<connections, gatewayHealth>>
    BY <1>3 DEF Unbind
  <2>3. QED
    BY <2>1, <2>2
<1>4. QED
  BY <1>2, <1>3

\* The close event: the id is given up by the connection that holds it.
LEMMA IdOnClose == ASSUME IdInv, NEW c \in Conns, OnClose(c) PROVE IdInv'
<1>1. /\ state' = [state EXCEPT ![c] = "closed"] /\ destroyed' = destroyed \ {c}
      /\ UNCHANGED <<gateway, host, gatewayRecords, pending, prepared>>
      /\ Unbind(c)
  BY DEF OnClose
<1>2. None \notin Gateways /\ None \notin Hosts /\ None \notin Conns
  BY ListenerAssumption
<1>3. \A g \in Gateways :
         /\ connections'[g] = IF gateway[c] = g /\ connections[g] = c
                              THEN None ELSE connections[g]
         /\ g \in gatewayHealth' =>
               gatewayRecords[g] # None \/ (g \in gatewayHealth /\ connections'[g] = connections[g])
  BY <1>1, UnbindFacts
<1>4. IdTypes'
  <2>1. connections' \in [Gateways -> Conns \cup {None}] /\ gatewayHealth' \subseteq Gateways
    BY <1>1 DEF Unbind, IdInv, IdTypes
  <2>2. QED
    BY <1>1, <2>1 DEF IdInv, IdTypes
<1>5. ProvedFirst'
  BY <1>1 DEF IdInv, IdTypes, ProvedFirst, Identified
<1>6. \A d \in Conns : state'[d] \in Identified => d # c /\ state'[d] = state[d]
  BY <1>1 DEF IdInv, IdTypes, Identified
<1>7. HoldsItsId'
  <2>1. ASSUME NEW d \in Conns, state'[d] \in Identified, d \notin destroyed'
        PROVE  connections'[gateway'[d]] = d
    <3>1. d # c /\ state[d] \in Identified /\ d \notin destroyed /\ gateway'[d] = gateway[d]
      BY <1>1, <1>6, <2>1
    <3>2. connections[gateway[d]] = d /\ gateway[d] \in Gateways
      BY <3>1 DEF IdInv, IdTypes, HoldsItsId, ProvedFirst
    <3>3. QED
      BY <1>3, <3>1, <3>2
  <2>2. ASSUME NEW k \in Gateways, connections'[k] # None
        PROVE  /\ state'[connections'[k]] \in Identified \cup {"closed"}
               /\ state'[connections'[k]] = "closed" => gateway'[connections'[k]] # k
    <3>1. /\ connections'[k] = connections[k] /\ connections[k] # None
          /\ connections[k] \in Conns /\ ~(gateway[c] = k /\ connections[k] = c)
      BY <1>3, <2>2 DEF IdInv, IdTypes
    <3>2. /\ state[connections[k]] \in Identified \cup {"closed"}
          /\ state[connections[k]] = "closed" => gateway[connections[k]] # k
      BY <3>1 DEF IdInv, HoldsItsId
    <3>3. CASE connections[k] = c
      BY <1>1, <3>1, <3>3 DEF IdInv, IdTypes
    <3>4. CASE connections[k] # c
      BY <1>1, <3>1, <3>2, <3>4 DEF IdInv, IdTypes
    <3>5. QED
      BY <3>3, <3>4
  <2>3. QED
    BY <2>1, <2>2 DEF HoldsItsId
<1>8. ChallengesAreProved'
  BY <1>1 DEF IdInv, IdTypes, ChallengesAreProved
<1>9. ReadyIsTrusted'
  BY <1>1, <1>6 DEF IdInv, IdTypes, ReadyIsTrusted
<1>10. HealthIsOfKnown'
  BY <1>1, <1>3, <1>4 DEF IdInv, HealthIsOfKnown, IdTypes
<1>11. PendingIsBounded'
  BY <1>1 DEF IdInv, PendingIsBounded, PendingPairings
<1>12. QED
  BY <1>4, <1>5, <1>7, <1>8, <1>9, <1>10, <1>11 DEF IdInv
-------------------------------------------------------------------------------
(* The activity list.                                                        *)

\* The list is cut from its front, to the limit.
LEMMA BoundedFacts ==
    ASSUME NEW a \in Seq(ActivityEntry)
    PROVE  /\ Bounded(a) \in Seq(ActivityEntry) /\ Len(Bounded(a)) <= ActivityLimit
           /\ \A i \in 1..Len(Bounded(a)) : \E k \in 1..Len(a) : Bounded(a)[i] = a[k]
<1>1. Len(a) \in Nat /\ ActivityLimit \in Nat
  BY ListenerAssumption, LenProperties
<1>2. CASE Len(a) <= ActivityLimit
  BY <1>1, <1>2 DEF Bounded
<1>3. CASE ~(Len(a) <= ActivityLimit)
  <2> DEFINE from == Len(a) - ActivityLimit + 1
  <2>1. Bounded(a) = SubSeq(a, from, Len(a)) /\ from \in 1..Len(a)
    BY <1>1, <1>3, ListenerAssumption DEF Bounded
  <2>2. \A i \in from..Len(a) : i \in 1..Len(a)
    BY <1>1, <2>1
  <2>3. /\ SubSeq(a, from, Len(a)) \in Seq(ActivityEntry)
        /\ Len(SubSeq(a, from, Len(a))) = Len(a) - from + 1
        /\ \A i \in 1..Len(a) - from + 1 : SubSeq(a, from, Len(a))[i] = a[from + i - 1]
    <3> HIDE DEF from
    <3>1. QED
      BY <1>1, <2>1, <2>2, SubSeqProperties
  <2>4. Len(a) - from + 1 = ActivityLimit /\ \A i \in 1..ActivityLimit : from + i - 1 \in 1..Len(a)
    BY <1>1, <1>3
  <2>5. QED
    BY <1>1, <2>1, <2>3, <2>4
<1>4. QED
  BY <1>2, <1>3

\* What is left of the list when the entries of some operations are taken out.
LEMMA OthersFacts ==
    ASSUME activity \in Seq(ActivityEntry), NEW g, NEW ops
    PROVE  /\ Others(activity, g, ops) \in Seq(ActivityEntry)
           /\ \A i \in 1..Len(Others(activity, g, ops)) : \E k \in 1..Len(activity) :
                 /\ Others(activity, g, ops)[i] = activity[k]
                 /\ activity[k].gateway # g \/ activity[k].op \notin ops
<1> DEFINE at == {i \in 1..Len(activity) : activity[i].gateway # g \/ activity[i].op \notin ops}
<1>1. at \in SUBSET (1..Len(activity)) /\ Others(activity, g, ops) = Picked(activity, at)
  BY DEF Others
<1>2. \A p \in at : p \in 1..Len(activity)
                    /\ (activity[p].gateway # g \/ activity[p].op \notin ops)
  OBVIOUS
<1> HIDE DEF at
<1>3. /\ Picked(activity, at) \in Seq(ActivityEntry)
      /\ Len(Picked(activity, at)) = Cardinality(at)
      /\ \A i \in 1..Cardinality(at) :
            Nth(at, i) \in at /\ Picked(activity, at)[i] = activity[Nth(at, i)]
  BY <1>1, PickedFacts
<1>4. Others(activity, g, ops) \in Seq(ActivityEntry)
  BY <1>1, <1>3
<1>5. ASSUME NEW i \in 1..Len(Others(activity, g, ops))
      PROVE  \E k \in 1..Len(activity) :
                 /\ Others(activity, g, ops)[i] = activity[k]
                 /\ activity[k].gateway # g \/ activity[k].op \notin ops
  <2>1. i \in 1..Cardinality(at)
    BY <1>1, <1>3, <1>5
  <2>2. PICK p : p = Nth(at, i)
    OBVIOUS
  <2>3. p \in at /\ Picked(activity, at)[i] = activity[p]
    BY <1>3, <2>1, <2>2
  <2>4. p \in 1..Len(activity) /\ (activity[p].gateway # g \/ activity[p].op \notin ops)
    BY <1>2, <2>3
  <2>5. Others(activity, g, ops)[i] = activity[p]
    BY <1>1, <2>3
  <2>6. QED
    BY <2>4, <2>5
<1>6. QED
  BY <1>4, <1>5

\* What an entry can say of its operation.
Shown == {"dispatching", "running", "terminal", "interrupted"}

\* putActivity() leaves one entry of the operation, the new one, and no entry
\* that was not there before.
LEMMA PutFacts ==
    ASSUME activity \in Seq(ActivityEntry), NEW g \in Gateways, NEW op \in Ops,
           NEW what \in Shown,
           PutActivity(g, op, what)
    PROVE  /\ activity' \in Seq(ActivityEntry) /\ Len(activity') <= ActivityLimit
           /\ \A i \in 1..Len(activity') :
                 \/ activity'[i] = [gateway |-> g, op |-> op, state |-> what]
                 \/ \E k \in 1..Len(activity) :
                       /\ activity'[i] = activity[k]
                       /\ activity[k].gateway # g \/ activity[k].op # op
<1>0. PICK ops : ops = {op}
  OBVIOUS
<1> DEFINE rest == Others(activity, g, ops)
           entry == [gateway |-> g, op |-> op, state |-> what]
<1>1. /\ rest \in Seq(ActivityEntry)
      /\ \A i \in 1..Len(rest) : \E k \in 1..Len(activity) :
            rest[i] = activity[k] /\ (activity[k].gateway # g \/ activity[k].op \notin ops)
  BY OthersFacts
<1>2. entry \in ActivityEntry
  BY DEF ActivityEntry, Shown
<1>3. activity' = Bounded(Append(rest, entry))
  BY <1>0 DEF PutActivity
<1> HIDE DEF rest, entry
<1>4. /\ Append(rest, entry) \in Seq(ActivityEntry)
      /\ \A i \in 1..Len(Append(rest, entry)) :
            Append(rest, entry)[i] = entry
            \/ (i \in 1..Len(rest) /\ Append(rest, entry)[i] = rest[i])
  BY <1>1, <1>2, AppendProperties
<1>5. /\ activity' \in Seq(ActivityEntry) /\ Len(activity') <= ActivityLimit
      /\ \A i \in 1..Len(activity') : \E k \in 1..Len(Append(rest, entry)) :
            activity'[i] = Append(rest, entry)[k]
  BY <1>3, <1>4, BoundedFacts
<1>6. \A i \in 1..Len(activity') :
         \/ activity'[i] = entry
         \/ \E k \in 1..Len(activity) :
               activity'[i] = activity[k] /\ (activity[k].gateway # g \/ activity[k].op # op)
  <2>1. SUFFICES ASSUME NEW i \in 1..Len(activity'), activity'[i] # entry
                 PROVE  \E k \in 1..Len(activity) :
                           /\ activity'[i] = activity[k]
                           /\ activity[k].gateway # g \/ activity[k].op # op
    OBVIOUS
  <2>2. PICK k \in 1..Len(rest) : activity'[i] = rest[k]
    BY <1>4, <1>5, <2>1
  <2>3. PICK p \in 1..Len(activity) :
           rest[k] = activity[p] /\ (activity[p].gateway # g \/ activity[p].op \notin ops)
    BY <1>1
  <2>4. QED
    BY <1>0, <2>2, <2>3
<1>7. QED
  BY <1>5, <1>6 DEF entry

\* The entries that a close event leaves: those of interrupted operations, and
\* no other entry of these.
LEMMA InterruptFacts ==
    ASSUME activity \in Seq(ActivityEntry), NEW g \in Gateways, NEW ops \in SUBSET Ops,
           NEW order \in SetToSeqs(ops),
           activity' = Bounded(Others(activity, g, ops) \o
                          [i \in DOMAIN order |-> [gateway |-> g, op |-> order[i],
                                                  state |-> "interrupted"]])
    PROVE  /\ activity' \in Seq(ActivityEntry) /\ Len(activity') <= ActivityLimit
           /\ \A i \in 1..Len(activity') :
                 \/ /\ activity'[i].gateway = g /\ activity'[i].op \in ops
                    /\ activity'[i].state = "interrupted"
                 \/ \E k \in 1..Len(activity) :
                       /\ activity'[i] = activity[k]
                       /\ activity[k].gateway # g \/ activity[k].op \notin ops
<1> DEFINE rest == Others(activity, g, ops)
           more == [i \in DOMAIN order |-> [gateway |-> g, op |-> order[i],
                                           state |-> "interrupted"]]
<1>1. /\ rest \in Seq(ActivityEntry)
      /\ \A i \in 1..Len(rest) : \E k \in 1..Len(activity) :
            rest[i] = activity[k] /\ (activity[k].gateway # g \/ activity[k].op \notin ops)
  BY OthersFacts
<1>2. Cardinality(ops) \in Nat /\ order \in [1..Cardinality(ops) -> ops]
  <2>1. Cardinality(ops) \in Nat
    BY ListenerAssumption, FS_Subset, FS_CardinalityType
  <2>2. QED
    BY <2>1 DEF SetToSeqs
<1>3. /\ more \in Seq(ActivityEntry) /\ Len(more) = Cardinality(ops)
      /\ \A i \in 1..Len(more) : more[i].gateway = g /\ more[i].op \in ops
                                 /\ more[i].state = "interrupted"
  <2>1. DOMAIN order = 1..Cardinality(ops)
    BY <1>2
  <2>2. more \in [1..Cardinality(ops) -> ActivityEntry]
    BY <1>2, <2>1 DEF ActivityEntry
  <2>3. more \in Seq(ActivityEntry) /\ Len(more) = Cardinality(ops)
    <3> HIDE DEF more
    <3>1. QED
      BY <1>2, <2>2, SeqDef, LenProperties
  <2>4. QED
    BY <1>2, <2>1, <2>3
<1> DEFINE all == rest \o more
<1>4. activity' = Bounded(all)
  OBVIOUS
<1> HIDE DEF rest, more
<1>5. /\ all \in Seq(ActivityEntry)
      /\ \A i \in 1..Len(all) :
            \/ i \in 1..Len(rest) /\ all[i] = rest[i]
            \/ \E k \in 1..Len(more) : all[i] = more[k]
  <2>1. /\ all \in Seq(ActivityEntry) /\ Len(all) = Len(rest) + Len(more)
        /\ Len(rest) \in Nat /\ Len(more) \in Nat
        /\ \A i \in 1..Len(rest) + Len(more) :
              all[i] = IF i <= Len(rest) THEN rest[i] ELSE more[i - Len(rest)]
    <3>1. rest \in Seq(ActivityEntry) /\ more \in Seq(ActivityEntry)
      BY <1>1, <1>3
    <3>2. Len(rest) \in Nat /\ Len(more) \in Nat
      BY <3>1, LenProperties
    <3>3. /\ all \in Seq(ActivityEntry) /\ Len(all) = Len(rest) + Len(more)
          /\ \A i \in 1..Len(rest) + Len(more) :
                all[i] = IF i <= Len(rest) THEN rest[i] ELSE more[i - Len(rest)]
      BY <3>1, ConcatProperties
    <3>4. QED
      BY <3>2, <3>3
  <2>2. SUFFICES ASSUME NEW i \in 1..Len(all)
                 PROVE  \/ i \in 1..Len(rest) /\ all[i] = rest[i]
                        \/ \E k \in 1..Len(more) : all[i] = more[k]
    BY <2>1
  <2>3. CASE i <= Len(rest)
    BY <2>1, <2>2, <2>3
  <2>4. CASE ~(i <= Len(rest))
    <3>1. i - Len(rest) \in 1..Len(more) /\ all[i] = more[i - Len(rest)]
      BY <2>1, <2>2, <2>4
    <3>2. QED
      BY <3>1
  <2>5. QED
    BY <2>3, <2>4
<1> HIDE DEF all
<1>6. /\ activity' \in Seq(ActivityEntry) /\ Len(activity') <= ActivityLimit
      /\ \A i \in 1..Len(activity') : \E k \in 1..Len(all) : activity'[i] = all[k]
  <2>1. all \in Seq(ActivityEntry)
    BY <1>5
  <2>2. /\ Bounded(all) \in Seq(ActivityEntry) /\ Len(Bounded(all)) <= ActivityLimit
        /\ \A i \in 1..Len(Bounded(all)) : \E k \in 1..Len(all) : Bounded(all)[i] = all[k]
    BY <2>1, BoundedFacts
  <2>3. QED
    BY <1>4, <2>2
<1>7. QED
  <2>1. SUFFICES ASSUME NEW i \in 1..Len(activity')
                 PROVE  \/ /\ activity'[i].gateway = g /\ activity'[i].op \in ops
                           /\ activity'[i].state = "interrupted"
                        \/ \E k \in 1..Len(activity) :
                              /\ activity'[i] = activity[k]
                              /\ activity[k].gateway # g \/ activity[k].op \notin ops
    BY <1>6
  <2>2. PICK j \in 1..Len(all) : activity'[i] = all[j]
    BY <1>6
  <2>3. CASE j \in 1..Len(rest) /\ all[j] = rest[j]
    BY <1>1, <2>2, <2>3
  <2>4. CASE \E k \in 1..Len(more) : all[j] = more[k]
    BY <1>3, <2>2, <2>4
  <2>5. QED
    BY <1>5, <2>3, <2>4
-------------------------------------------------------------------------------
(* The requests.                                                             *)

\* What an entry of an operation in flight stands for.
Covered(g, op) == Awaited(g, op) \/ <<g, op>> \in strayed

LEMMA PendingFacts ==
    ASSUME IdInv, WorkInv, NEW q \in Requests, request[q].status = "pending"
    PROVE  /\ request[q] \in SentRequest
           /\ request[q].conn \in Conns /\ state[request[q].conn] = "ready"
           /\ gateway[request[q].conn] \in Gateways
           /\ request[q].op \in Ops \cup {None}
           /\ request[q].op = None <=> request[q].method = "query"
<1>1. request[q] \in SentRequest
  BY DEF WorkInv, WorkTypes, Unsent
<1>2. state[request[q].conn] = "ready"
  BY DEF WorkInv, WaitsOnlyWhileReady
<1>3. request[q].conn \in Conns
  BY <1>1 DEF SentRequest
<1>4. gateway[request[q].conn] \in Gateways
  BY <1>2, <1>3 DEF IdInv, IdTypes, ProvedFirst, Identified
<1>5. QED
  BY <1>1, <1>2, <1>3, <1>4 DEF SentRequest

\* What is active on a connection waits there, under the operation it is active for.
LEMMA ActiveFacts ==
    ASSUME IdInv, WorkInv, NEW c \in Conns, NEW op \in Ops, active[c][op] # None
    PROVE  /\ active[c][op] \in Requests /\ active[c][op] \in running
           /\ request[active[c][op]].status = "pending"
           /\ request[active[c][op]].conn = c
           /\ request[active[c][op]].op = op
           /\ request[active[c][op]].method = "execute"
           /\ state[c] = "ready"
<1>1. active[c][op] \in PendingOn(c) /\ request[active[c][op]].op = op
  BY DEF WorkInv, WaitsOnlyWhileReady
<1>2. active[c][op] \in running /\ request[active[c][op]].method = "execute"
  BY DEF WorkInv, ActiveRuns, Recorded
<1>3. QED
  BY <1>1, <1>2, PendingFacts DEF PendingOn

\* Steps of connections: no request or run changes, the served connections stay
\* served under their ids, an id is given up or taken by a connection on which
\* nothing runs, and entries can only leave the list.
LEMMA WorkQuiet ==
    ASSUME IdInv, WorkInv, UNCHANGED <<request, active, running, strayed>>,
           \A c \in Conns : state[c] = "ready" => state'[c] = "ready" /\ gateway'[c] = gateway[c],
           connections' \in [Gateways -> Conns \cup {None}],
           \A g \in Gateways : connections'[g] # None =>
              connections'[g] = connections[g] \/ state[connections'[g]] # "ready",
           activity' \in Seq(ActivityEntry), Len(activity') <= ActivityLimit,
           \A i \in 1..Len(activity') : \E k \in 1..Len(activity) : activity'[i] = activity[k]
    PROVE  WorkInv'
<1>1. WorkTypes' /\ ActiveRuns'
  BY DEF WorkInv, WorkTypes, ActiveRuns, Recorded
<1>2. WaitsOnlyWhileReady'
  <2>1. \A q \in Requests : request[q].status = "pending" => state'[request[q].conn] = "ready"
    BY PendingFacts
  <2>2. \A c : PendingOn(c)' = PendingOn(c)
    BY DEF PendingOn
  <2>3. QED
    BY <2>1, <2>2 DEF WorkInv, WaitsOnlyWhileReady
<1>3. InFlightIsAwaited'
  <2>1. \A g, op : Covered(g, op) => Covered(g, op)'
    BY PendingFacts DEF Covered, Awaited, Recorded
  <2>2. \A i \in 1..Len(activity) : activity[i].state \in {"dispatching", "running"} =>
           Covered(activity[i].gateway, activity[i].op)
    BY DEF WorkInv, InFlightIsAwaited, Covered, Awaited
  <2>3. SUFFICES ASSUME NEW i \in 1..Len(activity'),
                        activity'[i].state \in {"dispatching", "running"}
                 PROVE  Covered(activity[i].gateway, activity[i].op)'
    BY DEF InFlightIsAwaited, Covered, Awaited
  <2>4. PICK k \in 1..Len(activity) : activity'[i] = activity[k]
    OBVIOUS
  <2>5. PICK g, op : g = activity[k].gateway /\ op = activity[k].op
    OBVIOUS
  <2>6. Covered(g, op)'
    BY <2>1, <2>2, <2>3, <2>4, <2>5
  <2>7. QED
    BY <2>4, <2>5, <2>6 DEF Covered, Awaited
<1>4. RunningShown'
  <2>1. SUFFICES ASSUME NEW g \in Gateways, NEW op \in Ops, NEW i \in 1..Len(activity'),
                        connections'[g] # None, gateway'[connections'[g]] = g,
                        active[connections'[g]][op] # None,
                        activity'[i].gateway = g, activity'[i].op = op
                 PROVE  activity'[i].state = "running"
    BY DEF RunningShown
  <2>2. connections'[g] = connections[g] /\ gateway[connections[g]] = g
    <3>1. PICK c \in Conns : c = connections'[g]
      BY <2>1
    <3>2. active[c][op] # None
      BY <2>1, <3>1
    <3>3. state[c] = "ready"
      BY <3>2, ActiveFacts
    <3>4. QED
      BY <2>1, <3>1, <3>3
  <2>3. PICK k \in 1..Len(activity) : activity'[i] = activity[k]
    OBVIOUS
  <2>4. QED
    BY <2>1, <2>2, <2>3 DEF WorkInv, RunningShown
<1>5. QED
  BY <1>1, <1>2, <1>3, <1>4 DEF WorkInv

\* A step of a request that puts an entry of its operation in the list.
LEMMA PutKeeps ==
    ASSUME IdInv, WorkInv, UNCHANGED <<gateway, connections, strayed>>,
           NEW g \in Gateways, NEW op \in Ops,
           NEW what \in Shown,
           PutActivity(g, op, what),
           what \in {"dispatching", "running"} => Awaited(g, op)',
           what # "running" /\ connections[g] # None => active'[connections[g]][op] = None,
           \A k \in Gateways, o \in Ops : Awaited(k, o) /\ (k # g \/ o # op) => Awaited(k, o)',
           \A c \in Conns, o \in Ops : active'[c][o] # None =>
              active[c][o] # None \/ (gateway[c] = g /\ o = op)
    PROVE  /\ activity' \in Seq(ActivityEntry) /\ Len(activity') <= ActivityLimit
           /\ InFlightIsAwaited' /\ RunningShown'
<1>1. /\ activity' \in Seq(ActivityEntry) /\ Len(activity') <= ActivityLimit
      /\ \A i \in 1..Len(activity') :
            \/ activity'[i] = [gateway |-> g, op |-> op, state |-> what]
            \/ \E k \in 1..Len(activity) :
                  activity'[i] = activity[k] /\ (activity[k].gateway # g \/ activity[k].op # op)
  <2>1. activity \in Seq(ActivityEntry)
    BY DEF WorkInv, WorkTypes
  <2>2. QED
    BY <2>1, PutFacts
<1>2. \A k \in 1..Len(activity) : activity[k].gateway \in Gateways /\ activity[k].op \in Ops
  <2>1. \A k \in 1..Len(activity) : activity[k] \in ActivityEntry
    BY ElementOfSeq DEF WorkInv, WorkTypes
  <2>2. QED
    BY <2>1 DEF ActivityEntry
<1>3. InFlightIsAwaited'
  <2>1. \A i \in 1..Len(activity) : activity[i].state \in {"dispatching", "running"} =>
           Covered(activity[i].gateway, activity[i].op)
    BY DEF WorkInv, InFlightIsAwaited, Covered, Awaited
  <2>2. SUFFICES ASSUME NEW i \in 1..Len(activity'),
                        activity'[i].state \in {"dispatching", "running"}
                 PROVE  Covered(activity[i].gateway, activity[i].op)'
    BY DEF InFlightIsAwaited, Covered, Awaited
  <2>3. PICK k, o : k = activity'[i].gateway /\ o = activity'[i].op
    OBVIOUS
  <2>4. Covered(k, o)'
    <3>1. CASE activity'[i] = [gateway |-> g, op |-> op, state |-> what]
      <4>1. k = g /\ o = op /\ what \in {"dispatching", "running"}
        BY <2>2, <2>3, <3>1
      <4>2. QED
        BY <4>1 DEF Covered
    <3>2. CASE \E j \in 1..Len(activity) :
                  activity'[i] = activity[j] /\ (activity[j].gateway # g \/ activity[j].op # op)
      <4>1. PICK j \in 1..Len(activity) :
                  activity'[i] = activity[j] /\ (activity[j].gateway # g \/ activity[j].op # op)
        BY <3>2
      <4>2. /\ k \in Gateways /\ o \in Ops /\ (k # g \/ o # op)
            /\ k = activity[j].gateway /\ o = activity[j].op
        BY <1>2, <2>3, <4>1
      <4>3. Covered(k, o)
        BY <2>1, <2>2, <4>1, <4>2
      <4>4. QED
        BY <4>2, <4>3 DEF Covered
    <3>3. QED
      BY <1>1, <3>1, <3>2
  <2>5. QED
    BY <2>3, <2>4 DEF Covered, Awaited
<1>4. RunningShown'
  <2>1. SUFFICES ASSUME NEW k \in Gateways, NEW o \in Ops, NEW i \in 1..Len(activity'),
                        connections[k] # None, gateway[connections[k]] = k,
                        active'[connections[k]][o] # None,
                        activity'[i].gateway = k, activity'[i].op = o
                 PROVE  activity'[i].state = "running"
    BY DEF RunningShown
  <2>2. CASE activity'[i] = [gateway |-> g, op |-> op, state |-> what]
    BY <2>1, <2>2
  <2>3. CASE \E j \in 1..Len(activity) :
                activity'[i] = activity[j] /\ (activity[j].gateway # g \/ activity[j].op # op)
    <3>1. PICK j \in 1..Len(activity) :
                activity'[i] = activity[j] /\ (activity[j].gateway # g \/ activity[j].op # op)
      BY <2>3
    <3>2. connections[k] \in Conns
      BY <2>1 DEF IdInv, IdTypes
    <3>3. active[connections[k]][o] # None
      BY <2>1, <3>1, <3>2
    <3>4. activity[j].state = "running"
      BY <2>1, <3>1, <3>3 DEF WorkInv, RunningShown
    <3>5. QED
      BY <3>1, <3>4
  <2>4. QED
    BY <1>1, <2>2, <2>3
<1>5. QED
  BY <1>1, <1>3, <1>4

\* A step of a request that leaves the list alone.
LEMMA LeaveKeeps ==
    ASSUME IdInv, WorkInv, UNCHANGED <<gateway, connections, activity, strayed>>,
           \A k \in Gateways, o \in Ops : Awaited(k, o) => Awaited(k, o)',
           \A c \in Conns, o \in Ops : active'[c][o] # None => active[c][o] # None
    PROVE  /\ activity' \in Seq(ActivityEntry) /\ Len(activity') <= ActivityLimit
           /\ InFlightIsAwaited' /\ RunningShown'
<1>1. activity' \in Seq(ActivityEntry) /\ Len(activity') <= ActivityLimit
  BY DEF WorkInv, WorkTypes
<1>2. \A k \in 1..Len(activity) : activity[k].gateway \in Gateways /\ activity[k].op \in Ops
  <2>1. \A k \in 1..Len(activity) : activity[k] \in ActivityEntry
    BY ElementOfSeq DEF WorkInv, WorkTypes
  <2>2. QED
    BY <2>1 DEF ActivityEntry
<1>3. InFlightIsAwaited'
  <2>1. SUFFICES ASSUME NEW i \in 1..Len(activity), activity[i].state \in {"dispatching", "running"}
                 PROVE  Covered(activity[i].gateway, activity[i].op)'
    BY DEF InFlightIsAwaited, Covered, Awaited
  <2>2. PICK k \in Gateways, o \in Ops : k = activity[i].gateway /\ o = activity[i].op
    BY <1>2
  <2>3. Covered(k, o)
    BY <2>1, <2>2 DEF WorkInv, InFlightIsAwaited, Covered, Awaited
  <2>4. Covered(k, o)'
    BY <2>3 DEF Covered
  <2>5. QED
    BY <2>2, <2>4 DEF Covered, Awaited
<1>4. RunningShown'
  BY DEF WorkInv, RunningShown, IdInv, IdTypes
<1>5. QED
  BY <1>1, <1>3, <1>4
\* Only a request that ends stops being waited for.
LEMMA AwaitedStays ==
    ASSUME IdInv, WorkInv, NEW q \in Requests, UNCHANGED gateway,
           \A p \in Requests : p # q => request'[p] = request[p]
    PROVE  \A k \in Gateways, o \in Ops : Awaited(k, o) =>
              \/ Awaited(k, o)'
              \/ /\ request[q].status = "pending" /\ request[q].method = "execute"
                 /\ request[q].op = o /\ gateway[request[q].conn] = k
BY DEF Awaited, Recorded

LEMMA WorkDispatch ==
    ASSUME IdInv, WorkInv, NEW q \in Requests, NEW g \in Gateways, NEW m \in Methods,
           NEW op \in Ops \cup {None}, Dispatch(q, g, m, op)
    PROVE  WorkInv'
<1>1. PICK c \in Conns, k \in Gateways : c = connections[g] /\ k = gateway[c]
  BY DEF IdInv, IdTypes, ProvedFirst, Identified, Dispatch
<1> DEFINE r == [status |-> "pending", conn |-> c, method |-> m, op |-> op]
<1>2. /\ request[q] = Unsent /\ state[c] = "ready" /\ c # None /\ (op = None <=> m = "query")
      /\ request' = [request EXCEPT ![q] = r]
      /\ UNCHANGED <<identityVars, active, running, strayed>>
      /\ IF m = "execute" /\ ~(connections[k] # None /\ active[connections[k]][op] # None)
         THEN PutActivity(k, op, "dispatching") ELSE UNCHANGED activity
  BY <1>1 DEF Dispatch
<1>3. r \in SentRequest /\ request[q].status # "pending"
  BY <1>2 DEF SentRequest, Unsent
<1>4. request' \in [Requests -> {Unsent} \cup SentRequest]
      /\ request'[q] = r /\ \A p \in Requests : p # q => request'[p] = request[p]
  BY <1>2, <1>3 DEF WorkInv, WorkTypes
<1>5. UNCHANGED <<gateway, connections, state>>
  BY <1>2 DEF identityVars
<1>6. \A j \in Gateways, o \in Ops : Awaited(j, o) => Awaited(j, o)'
  BY <1>3, <1>4, <1>5, AwaitedStays
<1>7. WaitsOnlyWhileReady'
  <2>1. \A p \in Requests : request'[p].status = "pending" => state'[request'[p].conn] = "ready"
    BY <1>2, <1>4, <1>5 DEF WorkInv, WaitsOnlyWhileReady
  <2>2. \A d \in Conns, o \in Ops : active[d][o] # None =>
           active[d][o] \in PendingOn(d)' /\ request'[active[d][o]].op = o
    <3>1. SUFFICES ASSUME NEW d \in Conns, NEW o \in Ops, active[d][o] # None
                   PROVE  active[d][o] \in PendingOn(d)' /\ request'[active[d][o]].op = o
      OBVIOUS
    <3>2. /\ active[d][o] \in Requests /\ request[active[d][o]].status = "pending"
          /\ request[active[d][o]].conn = d /\ request[active[d][o]].op = o
      BY <3>1, ActiveFacts
    <3>3. active[d][o] # q
      BY <1>3, <3>2
    <3>4. QED
      BY <1>4, <3>2, <3>3 DEF PendingOn
  <2>3. QED
    BY <1>2, <2>1, <2>2 DEF WaitsOnlyWhileReady
<1>8. ActiveRuns'
  <2>1. \A d \in Conns, o \in Ops : active[d][o] # None => active[d][o] \in Requests
           /\ active[d][o] # q /\ active[d][o] \in running
           /\ request[active[d][o]].method = "execute"
    BY <1>3, ActiveFacts
  <2>2. QED
    BY <1>2, <1>4, <2>1 DEF ActiveRuns, Recorded
<1>9. /\ activity' \in Seq(ActivityEntry) /\ Len(activity') <= ActivityLimit
      /\ InFlightIsAwaited' /\ RunningShown'
  <2>1. CASE m = "execute" /\ ~(connections[k] # None /\ active[connections[k]][op] # None)
    <3>1. op \in Ops /\ PutActivity(k, op, "dispatching")
      BY <1>2, <2>1
    <3>2. Awaited(k, op)'
      BY <1>1, <1>4, <1>5, <2>1 DEF Awaited, Recorded
    <3>3. connections[k] # None => active'[connections[k]][op] = None
      BY <1>2, <2>1
    <3>4. \A d \in Conns, o \in Ops : active'[d][o] # None => active[d][o] # None
      BY <1>2
    <3>5. QED
      BY <1>2, <1>5, <1>6, <3>1, <3>2, <3>3, <3>4, PutKeeps DEF Shown
  <2>2. CASE ~(m = "execute" /\ ~(connections[k] # None /\ active[connections[k]][op] # None))
    BY <1>2, <1>5, <1>6, <2>2, LeaveKeeps
  <2>3. QED
    BY <2>1, <2>2
<1>10. QED
  BY <1>2, <1>4, <1>7, <1>8, <1>9 DEF WorkInv, WorkTypes

LEMMA WorkAccept == ASSUME IdInv, WorkInv, NEW q \in Requests, HostAccepts(q) PROVE WorkInv'
<1>1. PICK c, op : c = request[q].conn /\ op = request[q].op
  OBVIOUS
<1>2. /\ request[q].status = "pending" /\ request[q].method = "execute"
      /\ running' = running \cup {q}
      /\ IF active[c][op] = None
         THEN active' = [active EXCEPT ![c][op] = q] /\ PutActivity(gateway[c], op, "running")
         ELSE UNCHANGED <<active, activity>>
      /\ UNCHANGED <<identityVars, request, strayed>>
  BY <1>1 DEF HostAccepts, Heard
<1>3. c \in Conns /\ op \in Ops /\ state[c] = "ready" /\ gateway[c] \in Gateways
  BY <1>1, <1>2, PendingFacts
<1>4. UNCHANGED <<gateway, connections, state>>
  BY <1>2 DEF identityVars
<1>active. active \in [Conns -> [Ops -> Requests \cup {None}]]
  BY DEF WorkInv, WorkTypes
<1>5. active' \in [Conns -> [Ops -> Requests \cup {None}]]
  BY <1>2, <1>3, <1>active
<1>6. \A d \in Conns, o \in Ops : active'[d][o] = active[d][o]
         \/ (d = c /\ o = op /\ active'[d][o] = q)
  BY <1>2, <1>3 DEF WorkInv, WorkTypes
<1>7. WaitsOnlyWhileReady'
  <2>1. \A p \in Requests : request'[p].status = "pending" => state'[request'[p].conn] = "ready"
    BY <1>2, <1>4 DEF WorkInv, WaitsOnlyWhileReady
  <2>2. \A d \in Conns, o \in Ops : active'[d][o] # None =>
           active'[d][o] \in PendingOn(d)' /\ request'[active'[d][o]].op = o
    <3>1. SUFFICES ASSUME NEW d \in Conns, NEW o \in Ops, active'[d][o] # None
                   PROVE  active'[d][o] \in PendingOn(d)' /\ request'[active'[d][o]].op = o
      OBVIOUS
    <3>2. CASE active'[d][o] = active[d][o]
      <4>1. /\ active[d][o] \in Requests /\ request[active[d][o]].status = "pending"
            /\ request[active[d][o]].conn = d /\ request[active[d][o]].op = o
        BY <3>1, <3>2, ActiveFacts
      <4>2. QED
        BY <1>2, <3>2, <4>1 DEF PendingOn
    <3>3. CASE d = c /\ o = op /\ active'[d][o] = q
      BY <1>1, <1>2, <3>3 DEF PendingOn
    <3>4. QED
      BY <1>6, <3>2, <3>3
  <2>3. QED
    BY <2>1, <2>2 DEF WaitsOnlyWhileReady
<1>8. ActiveRuns'
  <2>1. \A d \in Conns, o \in Ops : active'[d][o] # None =>
           active'[d][o] \in running' /\ request[active'[d][o]].method = "execute"
    BY <1>2, <1>6, ActiveFacts
  <2>2. QED
    BY <1>2, <2>1 DEF ActiveRuns, Recorded
<1>9. \A k \in Gateways, o \in Ops : Awaited(k, o) => Awaited(k, o)'
  BY <1>2, <1>4 DEF Awaited, Recorded
<1>10. /\ activity' \in Seq(ActivityEntry) /\ Len(activity') <= ActivityLimit
       /\ InFlightIsAwaited' /\ RunningShown'
  <2>1. CASE active[c][op] = None
    <3>1. PutActivity(gateway[c], op, "running")
      BY <1>2, <2>1
    <3>2. Awaited(gateway[c], op)'
      BY <1>1, <1>2, <1>4 DEF Awaited, Recorded
    <3>3. PICK g \in Gateways : g = gateway[c]
      BY <1>3
    <3>4. \A d \in Conns, o \in Ops : active'[d][o] # None =>
             active[d][o] # None \/ (gateway[d] = g /\ o = op)
      BY <1>6, <3>3
    <3>5. PutActivity(g, op, "running") /\ Awaited(g, op)'
      BY <1>4, <3>1, <3>2, <3>3 DEF Awaited
    <3>6. QED
      BY <1>2, <1>3, <1>4, <1>9, <3>4, <3>5, PutKeeps DEF Shown
  <2>2. CASE active[c][op] # None
    BY <1>2, <1>4, <1>9, <2>2, LeaveKeeps
  <2>3. QED
    BY <2>1, <2>2
<1>11. QED
  BY <1>2, <1>5, <1>7, <1>8, <1>10 DEF WorkInv, WorkTypes
\* A request ends with what the host sent: nothing is active for it afterwards.
LEMMA AnswerKeeps ==
    ASSUME IdInv, WorkInv, NEW q \in Requests, NEW how \in {"answered", "failed"},
           NEW freed \in [Conns -> [Ops -> Requests \cup {None}]],
           Heard(q), Settle(q, how), active' = freed, RecordAnswer(q, freed),
           \A d \in Conns, o \in Ops : freed[d][o] # None =>
              freed[d][o] = active[d][o] /\ freed[d][o] # q,
           running' = running \ {q}, UNCHANGED <<identityVars, strayed>>
    PROVE  WorkInv'
<1>1. PICK c, op, g : c = request[q].conn /\ op = request[q].op /\ g = gateway[c]
  OBVIOUS
<1>2. request[q].status = "pending" /\ request' = [request EXCEPT ![q].status = how]
      /\ UNCHANGED <<gateway, connections, state, strayed>>
  BY DEF Heard, Settle, identityVars
<1>3. /\ c \in Conns /\ state[c] = "ready" /\ g \in Gateways /\ request[q] \in SentRequest
      /\ request[q].method = "execute" => op \in Ops
  BY <1>1, <1>2, PendingFacts
<1>4. /\ request' \in [Requests -> {Unsent} \cup SentRequest]
      /\ request'[q].status # "pending"
      /\ \A p \in Requests : p # q => request'[p] = request[p]
  <2>1. [request[q] EXCEPT !.status = how] \in SentRequest
    BY <1>3 DEF SentRequest
  <2>2. request' = [request EXCEPT ![q] = [request[q] EXCEPT !.status = how]]
    BY <1>2
  <2>3. [request[q] EXCEPT !.status = how].status = how
    BY <1>3 DEF SentRequest
  <2>4. QED
    BY <2>1, <2>2, <2>3 DEF WorkInv, WorkTypes
<1>5. \A d \in Conns, o \in Ops : active'[d][o] # None =>
         /\ active'[d][o] = active[d][o] /\ active[d][o] \in Requests
         /\ request'[active'[d][o]] = request[active[d][o]]
         /\ active[d][o] \in running' /\ request[active[d][o]].status = "pending"
         /\ request[active[d][o]].conn = d /\ request[active[d][o]].op = o
         /\ request[active[d][o]].method = "execute"
  BY <1>4, ActiveFacts
<1>6. WaitsOnlyWhileReady'
  <2>1. \A p \in Requests : request'[p].status = "pending" => state'[request'[p].conn] = "ready"
    BY <1>2, <1>4 DEF WorkInv, WaitsOnlyWhileReady
  <2>2. \A d \in Conns, o \in Ops : active'[d][o] # None =>
           active'[d][o] \in PendingOn(d)' /\ request'[active'[d][o]].op = o
    BY <1>5 DEF PendingOn
  <2>3. QED
    BY <2>1, <2>2 DEF WaitsOnlyWhileReady
<1>7. ActiveRuns'
  BY <1>5 DEF ActiveRuns, Recorded
<1>8. \A k \in Gateways, o \in Ops : Awaited(k, o) =>
         Awaited(k, o)' \/ (request[q].method = "execute" /\ o = op /\ k = g)
  BY <1>1, <1>2, <1>4, AwaitedStays
<1>9. /\ activity' \in Seq(ActivityEntry) /\ Len(activity') <= ActivityLimit
      /\ InFlightIsAwaited' /\ RunningShown'
  <2>1. CASE /\ request[q].method = "execute"
             /\ ~(connections[g] # None /\ freed[connections[g]][op] \notin {None, q})
    <3>1. op \in Ops /\ PutActivity(g, op, "terminal")
      BY <1>1, <1>3, <2>1 DEF RecordAnswer, Recorded
    <3>2. connections[g] # None => active'[connections[g]][op] = None
      BY <1>3, <2>1, <3>1 DEF IdInv, IdTypes
    <3>3. \A k \in Gateways, o \in Ops : Awaited(k, o) /\ (k # g \/ o # op) => Awaited(k, o)'
      BY <1>8
    <3>4. QED
      BY <1>2, <1>3, <1>5, <3>1, <3>2, <3>3, PutKeeps DEF Shown
  <2>2. CASE ~(/\ request[q].method = "execute"
               /\ ~(connections[g] # None /\ freed[connections[g]][op] \notin {None, q}))
    <3>1. UNCHANGED activity
      BY <1>1, <2>2 DEF RecordAnswer, Recorded
    <3>2. request[q].method = "execute" => Awaited(g, op)'
      <4>1. SUFFICES ASSUME request[q].method = "execute" PROVE Awaited(g, op)'
        OBVIOUS
      <4>2. connections[g] = c
        BY <1>1, <1>3 DEF Heard, Open, IdInv, HoldsItsId, Identified
      <4>3. connections[g] \in Conns /\ gateway[connections[g]] = g
            /\ active'[connections[g]][op] # None /\ op \in Ops
        BY <1>1, <1>3, <2>2, <4>1, <4>2
      <4>4. PICK p \in Requests : p = active'[connections[g]][op]
        BY <1>5, <4>3
      <4>5. /\ request'[p].status = "pending" /\ request'[p].method = "execute"
            /\ request'[p].op = op /\ gateway'[request'[p].conn] = g
        BY <1>2, <1>5, <4>3, <4>4
      <4>6. QED
        BY <4>5 DEF Awaited, Recorded
    <3>3. \A k \in Gateways, o \in Ops : Awaited(k, o) => Awaited(k, o)'
      BY <1>8, <3>2
    <3>4. QED
      BY <1>2, <1>5, <3>1, <3>3, LeaveKeeps
  <2>3. QED
    BY <2>1, <2>2
<1>10. QED
  BY <1>2, <1>4, <1>6, <1>7, <1>9 DEF WorkInv, WorkTypes

LEMMA WorkResponds == ASSUME IdInv, WorkInv, NEW q \in Requests, HostResponds(q) PROVE WorkInv'
<1>1. PICK c, op : c = request[q].conn /\ op = request[q].op
  OBVIOUS
<1>2. PICK freed :
         /\ freed = IF op # None /\ active[c][op] = q
                    THEN [active EXCEPT ![c][op] = None] ELSE active
         /\ active' = freed /\ RecordAnswer(q, freed)
  BY <1>1 DEF HostResponds
<1>3. /\ Heard(q) /\ request[q].status = "pending" /\ Settle(q, "answered")
      /\ running' = running \ {q} /\ UNCHANGED <<identityVars, strayed>>
  BY DEF HostResponds, Heard
<1>4. c \in Conns /\ op \in Ops \cup {None} /\ None \notin Ops
  BY <1>1, <1>3, PendingFacts, ListenerAssumption
<1>5. active \in [Conns -> [Ops -> Requests \cup {None}]]
  BY DEF WorkInv, WorkTypes
<1>6. freed \in [Conns -> [Ops -> Requests \cup {None}]]
  BY <1>2, <1>4, <1>5
<1>7. ASSUME NEW d \in Conns, NEW o \in Ops, freed[d][o] # None
      PROVE  freed[d][o] = active[d][o] /\ freed[d][o] # q
  <2>1. freed[d][o] = active[d][o] /\ ~(d = c /\ o = op /\ active[d][o] = q)
    BY <1>2, <1>4, <1>5, <1>7
  <2>2. request[active[d][o]].conn = d /\ request[active[d][o]].op = o
    BY <1>7, <2>1, ActiveFacts
  <2>3. QED
    BY <1>1, <2>1, <2>2
<1>8. QED
  BY <1>2, <1>3, <1>6, <1>7, AnswerKeeps

LEMMA WorkErrors == ASSUME IdInv, WorkInv, NEW q \in Requests, HostErrors(q) PROVE WorkInv'
<1>1. /\ Heard(q) /\ Settle(q, "failed") /\ RecordAnswer(q, active)
      /\ running' = running \ {q} /\ active' = active /\ UNCHANGED <<identityVars, strayed>>
  BY DEF HostErrors
<1>2. active \in [Conns -> [Ops -> Requests \cup {None}]]
  BY DEF WorkInv, WorkTypes
<1>3. \A d \in Conns, o \in Ops : active[d][o] # None => active[d][o] # q
  BY ActiveFacts DEF HostErrors
<1>4. QED
  BY <1>1, <1>2, <1>3, AnswerKeeps

LEMMA WorkUnheard ==
    ASSUME IdInv, WorkInv, NEW q \in Requests, HostFinishesUnheard(q) PROVE WorkInv'
<1>1. /\ request[q].status # "pending" /\ running' = running \ {q}
      /\ UNCHANGED <<identityVars, request, active, activity, strayed>>
      /\ UNCHANGED <<gateway, connections, state>>
  BY DEF HostFinishesUnheard, identityVars
<1>2. ActiveRuns'
  <2>1. \A d \in Conns, o \in Ops : active[d][o] # None => active[d][o] # q
    BY <1>1, ActiveFacts
  <2>2. QED
    BY <1>1, <2>1 DEF WorkInv, ActiveRuns, Recorded
<1>3. WorkTypes' /\ WaitsOnlyWhileReady' /\ InFlightIsAwaited' /\ RunningShown'
  BY <1>1 DEF WorkInv, WorkTypes, WaitsOnlyWhileReady, PendingOn, InFlightIsAwaited,
              Awaited, Recorded, RunningShown
<1>4. QED
  BY <1>2, <1>3 DEF WorkInv

LEMMA WorkExpire == ASSUME IdInv, WorkInv, NEW q \in Requests, Expire(q) PROVE WorkInv'
<1>1. /\ request[q].status = "pending" /\ request[q].method = "query"
      /\ request' = [request EXCEPT ![q].status = "expired"]
      /\ UNCHANGED <<active, running, activity, strayed, gateway, connections, state>>
  BY DEF Expire, Settle, identityVars
<1>2. request[q] \in SentRequest
  BY <1>1, PendingFacts
<1>3. /\ request' \in [Requests -> {Unsent} \cup SentRequest]
      /\ request'[q].status # "pending"
      /\ \A p \in Requests : p # q => request'[p] = request[p]
  <2>1. [request[q] EXCEPT !.status = "expired"] \in SentRequest
        /\ [request[q] EXCEPT !.status = "expired"].status = "expired"
    BY <1>2 DEF SentRequest
  <2>2. request' = [request EXCEPT ![q] = [request[q] EXCEPT !.status = "expired"]]
    BY <1>1
  <2>3. QED
    BY <2>1, <2>2 DEF WorkInv, WorkTypes
<1>4. \A d \in Conns, o \in Ops : active[d][o] # None =>
         /\ active[d][o] \in Requests /\ active[d][o] # q /\ active[d][o] \in running
         /\ request[active[d][o]].status = "pending" /\ request[active[d][o]].conn = d
         /\ request[active[d][o]].op = o /\ request[active[d][o]].method = "execute"
  BY <1>1, ActiveFacts
<1>5. WaitsOnlyWhileReady'
  <2>1. \A p \in Requests : request'[p].status = "pending" => state'[request'[p].conn] = "ready"
    BY <1>1, <1>3 DEF WorkInv, WaitsOnlyWhileReady
  <2>2. \A d \in Conns, o \in Ops : active'[d][o] # None =>
           active'[d][o] \in PendingOn(d)' /\ request'[active'[d][o]].op = o
    BY <1>1, <1>3, <1>4 DEF PendingOn
  <2>3. QED
    BY <2>1, <2>2 DEF WaitsOnlyWhileReady
<1>6. ActiveRuns'
  BY <1>1, <1>3, <1>4 DEF ActiveRuns, Recorded
<1>7. \A k \in Gateways, o \in Ops : Awaited(k, o) => Awaited(k, o)'
  BY <1>1, <1>3, AwaitedStays
<1>8. /\ activity' \in Seq(ActivityEntry) /\ Len(activity') <= ActivityLimit
      /\ InFlightIsAwaited' /\ RunningShown'
  BY <1>1, <1>7, LeaveKeeps
<1>9. QED
  BY <1>1, <1>3, <1>5, <1>6, <1>8 DEF WorkInv, WorkTypes
LEMMA WorkOnClose == ASSUME IdInv, WorkInv, NEW c \in Conns, OnClose(c) PROVE WorkInv'
<1>1. PICK g, interrupted, elsewhere :
         /\ g = gateway[c]
         /\ interrupted = {op \in Ops : \E q \in PendingOn(c) :
                              /\ Recorded(q)
                              /\ request[q].op = op
                              /\ ~RunByAnother(g, op, q, connections'[g])}
         /\ elsewhere = {op \in Ops \ interrupted :
                            /\ \E q \in PendingOn(c) : Recorded(q) /\ request[q].op = op
                            /\ gateway[connections'[g]] # g}
  OBVIOUS
<1>2. /\ Unbind(c) /\ state' = [state EXCEPT ![c] = "closed"]
      /\ request' = [q \in Requests |->
            IF q \in PendingOn(c) THEN [request[q] EXCEPT !.status = "interrupted"]
                                  ELSE request[q]]
      /\ active' = [active EXCEPT ![c] = [op \in Ops |-> None]]
      /\ UNCHANGED <<gateway, running>>
      /\ IF interrupted = {} THEN UNCHANGED activity
         ELSE \E order \in SetToSeqs(interrupted) :
                 activity' = Bounded(Others(activity, g, interrupted) \o
                    [i \in DOMAIN order |-> [gateway |-> g, op |-> order[i],
                                            state |-> "interrupted"]])
      /\ strayed' = strayed \cup ({g} \X elsewhere)
  BY <1>1 DEF OnClose
<1>frame. gateway' = gateway /\ running' = running
  BY <1>2
<1>3. \A k \in Gateways : connections'[k] = IF gateway[c] = k /\ connections[k] = c
                                             THEN None ELSE connections[k]
  BY <1>2, UnbindFacts
<1>strayed. strayed' \subseteq Gateways \X Ops /\ strayed \subseteq strayed'
  <2>1. CASE elsewhere = {}
    BY <1>2, <2>1 DEF WorkInv, WorkTypes
  <2>2. CASE elsewhere # {}
    <3>1. PICK q \in PendingOn(c) : Recorded(q)
      BY <1>1, <2>2
    <3>2. g \in Gateways /\ elsewhere \subseteq Ops
      BY <1>1, <3>1, PendingFacts DEF PendingOn
    <3>3. QED
      BY <1>2, <3>2 DEF WorkInv, WorkTypes
  <2>3. QED
    BY <2>1, <2>2
<1>4. /\ request' \in [Requests -> {Unsent} \cup SentRequest]
      /\ \A q \in PendingOn(c) : request'[q].status # "pending"
      /\ \A q \in Requests : q \notin PendingOn(c) => request'[q] = request[q]
  <2>1. \A q \in PendingOn(c) : q \in Requests /\ request[q] \in SentRequest
    BY PendingFacts DEF PendingOn
  <2>2. \A q \in PendingOn(c) :
           /\ [request[q] EXCEPT !.status = "interrupted"] \in SentRequest
           /\ [request[q] EXCEPT !.status = "interrupted"].status = "interrupted"
    BY <2>1 DEF SentRequest
  <2>3. QED
    BY <1>2, <2>1, <2>2 DEF WorkInv, WorkTypes
<1>5. /\ active' \in [Conns -> [Ops -> Requests \cup {None}]]
      /\ \A op \in Ops : active'[c][op] = None
      /\ \A d \in Conns : d # c => active'[d] = active[d]
  BY <1>2 DEF WorkInv, WorkTypes
<1>6. ASSUME NEW d \in Conns, NEW o \in Ops, active'[d][o] # None
      PROVE  /\ d # c /\ active'[d][o] = active[d][o] /\ active[d][o] \in Requests
             /\ active[d][o] \notin PendingOn(c)
             /\ request'[active[d][o]] = request[active[d][o]]
             /\ active[d][o] \in running /\ request[active[d][o]].status = "pending"
             /\ request[active[d][o]].conn = d /\ request[active[d][o]].op = o
             /\ request[active[d][o]].method = "execute"
  <2>1. d # c /\ active'[d][o] = active[d][o]
    BY <1>5, <1>6
  <2>2. /\ active[d][o] \in Requests /\ active[d][o] \in running
        /\ request[active[d][o]].status = "pending"
        /\ request[active[d][o]].conn = d /\ request[active[d][o]].op = o
        /\ request[active[d][o]].method = "execute"
    BY <1>6, <2>1, ActiveFacts
  <2>3. active[d][o] \notin PendingOn(c)
    BY <2>1, <2>2 DEF PendingOn
  <2>4. QED
    BY <1>4, <2>1, <2>2, <2>3
<1>7. WaitsOnlyWhileReady'
  <2>1. ASSUME NEW p \in Requests, request'[p].status = "pending"
        PROVE  state'[request'[p].conn] = "ready"
    <3>1. p \notin PendingOn(c) /\ request'[p] = request[p]
      BY <1>4, <2>1
    <3>2. request[p].conn # c /\ state[request[p].conn] = "ready" /\ request[p].conn \in Conns
      BY <2>1, <3>1, PendingFacts DEF PendingOn
    <3>3. QED
      BY <1>2, <3>1, <3>2 DEF IdInv, IdTypes
  <2>2. \A d \in Conns, o \in Ops : active'[d][o] # None =>
           active'[d][o] \in PendingOn(d)' /\ request'[active'[d][o]].op = o
    BY <1>6 DEF PendingOn
  <2>3. QED
    BY <2>1, <2>2 DEF WaitsOnlyWhileReady
<1>8. ActiveRuns'
  BY <1>frame, <1>6 DEF ActiveRuns, Recorded
<1>9. ASSUME NEW k \in Gateways, NEW o \in Ops, Awaited(k, o), ~(k = g /\ o \in interrupted)
      PROVE  Covered(k, o)'
  <2>1. PICK q \in Requests :
           /\ request[q].status = "pending" /\ request[q].method = "execute"
           /\ request[q].op = o /\ gateway[request[q].conn] = k
    BY <1>9 DEF Awaited, Recorded
  <2>2. CASE q \notin PendingOn(c)
    BY <1>2, <1>4, <2>1, <2>2 DEF Covered, Awaited, Recorded
  <2>3. CASE q \in PendingOn(c)
    <3>1. request[q].conn = c /\ k = g /\ Recorded(q)
      BY <1>1, <2>1, <2>3 DEF PendingOn, Recorded
    <3>2. RunByAnother(g, o, q, connections'[g])
      BY <1>1, <1>9, <2>1, <2>3, <3>1
    <3>3. connections'[g] # None /\ active[connections'[g]][o] \notin {None, q}
      BY <3>2 DEF RunByAnother
    <3>4. /\ connections'[g] = connections[g] /\ connections[g] # c
          /\ connections[g] \in Conns
      BY <1>1, <1>3, <3>1, <3>3 DEF IdInv, IdTypes
    <3>5. active'[connections[g]][o] # None
      BY <1>5, <3>3, <3>4
    <3>6. PICK p \in Requests : p = active[connections[g]][o]
      BY <1>6, <3>4, <3>5
    <3>7. CASE gateway[connections[g]] = g
      <4>1. /\ request'[p].status = "pending" /\ request'[p].method = "execute"
            /\ request'[p].op = o /\ gateway'[request'[p].conn] = k
        BY <1>frame, <1>6, <3>1, <3>4, <3>5, <3>6, <3>7
      <4>2. QED
        BY <4>1 DEF Covered, Awaited, Recorded
    <3>8. CASE gateway[connections[g]] # g
      <4>1. o \in elsewhere
        BY <1>1, <1>9, <2>1, <2>3, <3>1, <3>4, <3>8
      <4>2. <<k, o>> \in strayed'
        BY <1>2, <3>1, <4>1
      <4>3. QED
        BY <4>2 DEF Covered
    <3>9. QED
      BY <3>7, <3>8
  <2>4. QED
    BY <2>2, <2>3
<1>10. /\ activity' \in Seq(ActivityEntry) /\ Len(activity') <= ActivityLimit
       /\ \A i \in 1..Len(activity') :
             \/ /\ activity'[i].gateway = g /\ activity'[i].op \in interrupted
                /\ activity'[i].state = "interrupted"
             \/ \E k \in 1..Len(activity) :
                   /\ activity'[i] = activity[k]
                   /\ activity[k].gateway # g \/ activity[k].op \notin interrupted
  <2>1. activity \in Seq(ActivityEntry) /\ Len(activity) <= ActivityLimit
    BY DEF WorkInv, WorkTypes
  <2>2. CASE interrupted = {}
    BY <1>2, <2>1, <2>2
  <2>3. CASE interrupted # {}
    <3>1. g \in Gateways
      <4>1. PICK q \in PendingOn(c) : Recorded(q)
        BY <1>1, <2>3
      <4>2. QED
        BY <1>1, <4>1, PendingFacts DEF PendingOn
    <3>2. interrupted \in SUBSET Ops
      BY <1>1
    <3>3. PICK order \in SetToSeqs(interrupted) :
             activity' = Bounded(Others(activity, g, interrupted) \o
                [i \in DOMAIN order |-> [gateway |-> g, op |-> order[i],
                                        state |-> "interrupted"]])
      BY <1>2, <2>3
    <3>4. QED
      BY <2>1, <3>1, <3>2, <3>3, InterruptFacts
  <2>4. QED
    BY <2>2, <2>3
<1>11. \A k \in 1..Len(activity) : activity[k].gateway \in Gateways /\ activity[k].op \in Ops
  <2>1. \A k \in 1..Len(activity) : activity[k] \in ActivityEntry
    BY ElementOfSeq DEF WorkInv, WorkTypes
  <2>2. QED
    BY <2>1 DEF ActivityEntry
<1>12. InFlightIsAwaited'
  <2>1. SUFFICES ASSUME NEW i \in 1..Len(activity'),
                        activity'[i].state \in {"dispatching", "running"}
                 PROVE  Covered(activity[i].gateway, activity[i].op)'
    BY DEF InFlightIsAwaited, Covered, Awaited
  <2>2. PICK j \in 1..Len(activity) :
           /\ activity'[i] = activity[j]
           /\ activity[j].gateway # g \/ activity[j].op \notin interrupted
    BY <1>10, <2>1
  <2>3. PICK k \in Gateways, o \in Ops : k = activity[j].gateway /\ o = activity[j].op
    BY <1>11
  <2>4. Covered(k, o)
    BY <2>1, <2>2, <2>3 DEF WorkInv, InFlightIsAwaited, Covered, Awaited
  <2>5. Covered(k, o)'
    <3>1. CASE Awaited(k, o)
      BY <1>9, <2>2, <2>3, <3>1
    <3>2. CASE <<k, o>> \in strayed
      BY <1>strayed, <3>2 DEF Covered
    <3>3. QED
      BY <2>4, <3>1, <3>2 DEF Covered
  <2>6. QED
    BY <2>2, <2>3, <2>5 DEF Covered, Awaited
<1>13. RunningShown'
  <2>1. SUFFICES ASSUME NEW k \in Gateways, NEW o \in Ops, NEW i \in 1..Len(activity'),
                        connections'[k] # None, gateway'[connections'[k]] = k,
                        active'[connections'[k]][o] # None,
                        activity'[i].gateway = k, activity'[i].op = o
                 PROVE  activity'[i].state = "running"
    BY DEF RunningShown
  <2>2. connections'[k] = connections[k] /\ connections[k] # c /\ connections[k] \in Conns
    BY <1>frame, <1>3, <2>1 DEF IdInv, IdTypes
  <2>3. /\ active[connections[k]][o] # None
        /\ active[connections[k]][o] \notin PendingOn(c)
    BY <1>6, <2>1, <2>2
  <2>4. ~(k = g /\ o \in interrupted)
    <3>1. SUFFICES ASSUME k = g, o \in interrupted PROVE FALSE
      OBVIOUS
    <3>2. PICK q \in PendingOn(c) : ~RunByAnother(g, o, q, connections'[g])
      BY <1>1, <3>1
    <3>3. active[connections[k]][o] \in {None, q}
      BY <2>1, <2>2, <3>1, <3>2 DEF RunByAnother
    <3>4. QED
      BY <2>3, <3>2, <3>3
  <2>5. PICK j \in 1..Len(activity) : activity'[i] = activity[j]
    BY <1>10, <2>1, <2>4
  <2>6. activity[j].state = "running"
    BY <1>frame, <2>1, <2>2, <2>3, <2>5 DEF WorkInv, RunningShown
  <2>7. QED
    BY <2>5, <2>6
<1>14. QED
  BY <1>2, <1>strayed, <1>4, <1>5, <1>7, <1>8, <1>10, <1>12, <1>13 DEF WorkInv, WorkTypes
\* Revocation takes the entries of the id out of the list.
LEMMA WorkRevoke ==
    ASSUME IdInv, WorkInv, IdInv', NEW g \in Gateways, RevokeGateway(g) PROVE WorkInv'
<1>1. /\ connections' = [connections EXCEPT ![g] = None]
      /\ activity' = Picked(activity, {i \in 1..Len(activity) : activity[i].gateway # g})
      /\ UNCHANGED <<state, gateway, request, active, running, strayed>>
  BY DEF RevokeGateway, DropGateway
<1>2. activity \in Seq(ActivityEntry) /\ Len(activity) \in Nat /\ Len(activity) <= ActivityLimit
  BY LenProperties DEF WorkInv, WorkTypes
<1>3. /\ activity' \in Seq(ActivityEntry) /\ Len(activity') <= ActivityLimit
      /\ \A i \in 1..Len(activity') : \E k \in 1..Len(activity) : activity'[i] = activity[k]
  <2> DEFINE at == {i \in 1..Len(activity) : activity[i].gateway # g}
  <2>1. at \in SUBSET (1..Len(activity)) /\ activity' = Picked(activity, at)
    BY <1>1
  <2> HIDE DEF at
  <2>2. /\ Picked(activity, at) \in Seq(ActivityEntry)
        /\ Len(Picked(activity, at)) = Cardinality(at)
        /\ Cardinality(at) \in 0..Len(activity)
        /\ \A i \in 1..Cardinality(at) :
              Nth(at, i) \in at /\ Picked(activity, at)[i] = activity[Nth(at, i)]
    <3>1. activity \in Seq(ActivityEntry) /\ at \in SUBSET (1..Len(activity))
      BY <1>2, <2>1
    <3>2. QED
      BY <3>1, PickedFacts
  <2>3. Len(activity') <= ActivityLimit
    BY <1>2, <2>1, <2>2, ListenerAssumption
  <2>4. QED
    BY <2>1, <2>2, <2>3
<1>4. connections' \in [Gateways -> Conns \cup {None}]
  BY DEF IdInv, IdTypes
<1>5. \A k \in Gateways : connections'[k] # None => connections'[k] = connections[k]
  BY <1>1 DEF IdInv, IdTypes
<1>6. QED
  BY <1>1, <1>3, <1>4, <1>5, WorkQuiet

\* The other steps of connections do not touch requests or the list.
LEMMA WorkSame ==
    ASSUME IdInv, WorkInv, IdInv', UNCHANGED workVars,
           \A c \in Conns : state[c] = "ready" => state'[c] = "ready" /\ gateway'[c] = gateway[c],
           \A g \in Gateways : connections'[g] # None =>
              connections'[g] = connections[g] \/ state[connections'[g]] # "ready"
    PROVE  WorkInv'
<1>1. UNCHANGED <<request, active, running, activity, strayed>>
  BY DEF workVars
<1>2. activity' \in Seq(ActivityEntry) /\ Len(activity') <= ActivityLimit
  BY <1>1 DEF WorkInv, WorkTypes
<1>3. connections' \in [Gateways -> Conns \cup {None}]
  BY DEF IdInv, IdTypes
<1>4. \A i \in 1..Len(activity') : \E k \in 1..Len(activity) : activity'[i] = activity[k]
  BY <1>1
<1>5. QED
  BY <1>1, <1>2, <1>3, <1>4, WorkQuiet

LEMMA WorkIdentify ==
    ASSUME IdInv, WorkInv, IdInv', UNCHANGED workVars, NEW c \in Conns, NEW g \in Gateways,
           NEW h, NEW next, state[c] \in {"authenticating", "pending"}, Identify(c, g, h, next)
    PROVE  WorkInv'
<1>1. /\ connections' = [connections EXCEPT ![g] = c]
      /\ gateway' = [gateway EXCEPT ![c] = g]
      /\ state' = [state EXCEPT ![c] = next]
  BY DEF Identify
<1>2. \A d \in Conns : state[d] = "ready" => state'[d] = "ready" /\ gateway'[d] = gateway[d]
  BY <1>1
<1>3. \A k \in Gateways : connections'[k] # None =>
         connections'[k] = connections[k] \/ state[connections'[k]] # "ready"
  BY <1>1 DEF IdInv, IdTypes
<1>4. QED
  BY <1>2, <1>3, WorkSame

-------------------------------------------------------------------------------
(* The invariant and the properties.                                         *)

LEMMA InitIInv == Init => IInv
<1> SUFFICES ASSUME Init PROVE IInv
  OBVIOUS
<1>1. activity = <<>> /\ Len(activity) = 0 /\ closing \in BOOLEAN
  BY DEF Init
<1>2. WorkTypes
  BY <1>1, ListenerAssumption DEF Init, WorkTypes, ActivityEntry
<1>3. WaitsOnlyWhileReady /\ ActiveRuns
  BY DEF Init, WaitsOnlyWhileReady, ActiveRuns, Unsent
<1>4. InFlightIsAwaited /\ RunningShown
  BY <1>1 DEF InFlightIsAwaited, RunningShown
<1>5. QED
  BY <1>1, <1>2, <1>3, <1>4, IdInit DEF IInv, WorkInv

LEMMA StepIInv == IInv /\ [Next]_vars => IInv'
<1> SUFFICES ASSUME IInv, [Next]_vars PROVE IInv'
  OBVIOUS
<1>1. IdInv /\ WorkInv /\ closing \in BOOLEAN
  BY DEF IInv
<1>2. closing' \in BOOLEAN
  <2>1. ASSUME NEW c \in Conns, Connect(c) \/ FailConnection(c) \/ OnClose(c)
        PROVE  UNCHANGED closing
    BY <2>1 DEF Connect, FailConnection, OnClose
  <2>2. ASSUME NEW c \in Conns, NEW g \in Gateways, NEW h \in Hosts,
               RegisterPending(c, g, h) \/ Authenticate(c, g, h) \/ RefuseIdentity(c, g, h)
        PROVE  UNCHANGED closing
    BY <2>2 DEF RegisterPending, Authenticate, RefuseIdentity, AuthResponse
  <2>3. ASSUME NEW g \in Gateways,
               \/ PrepareApproval(g) \/ CommitApproval(g) \/ FailApproval(g)
               \/ RejectPending(g) \/ Revoke(g)
        PROVE  UNCHANGED closing
    BY <2>3 DEF PrepareApproval, CommitApproval, FailApproval, RejectPending, Revoke,
                RevokeGateway, DropGateway
  <2>4. ASSUME NEW q \in Requests, NEW g \in Gateways, NEW m \in Methods,
               NEW op \in Ops \cup {None}, Dispatch(q, g, m, op)
        PROVE  UNCHANGED closing
    BY <2>4 DEF Dispatch
  <2>5. ASSUME NEW q \in Requests,
               \/ HostAccepts(q) \/ HostResponds(q) \/ HostErrors(q)
               \/ HostFinishesUnheard(q) \/ Expire(q)
        PROVE  UNCHANGED closing
    BY <2>5 DEF HostAccepts, HostResponds, HostErrors, HostFinishesUnheard, Expire
  <2>6. ListGateways \/ Close => closing' \in {closing, TRUE}
    BY DEF ListGateways, Close
  <2>7. UNCHANGED vars => UNCHANGED closing
    BY DEF vars
  <2>8. QED
    BY <1>1, <2>1, <2>2, <2>3, <2>4, <2>5, <2>6, <2>7 DEF Next
<1>3. ASSUME NEW c \in Conns, Connect(c) PROVE IInv'
  <2>1. IdInv'
    BY <1>1, <1>3, IdConnect
  <2>2. UNCHANGED workVars /\ UNCHANGED connections
        /\ \A d \in Conns : state[d] = "ready" => state'[d] = "ready" /\ gateway'[d] = gateway[d]
    BY <1>1, <1>3 DEF Connect, IdInv, IdTypes
  <2>3. QED
    BY <1>1, <1>2, <2>1, <2>2, WorkSame DEF IInv
<1>4. ASSUME NEW c \in Conns, Open(c), Fail(c), UNCHANGED workVars PROVE IInv'
  <2>1. IdInv'
    BY <1>1, <1>4, IdFail
  <2>2. UNCHANGED <<connections, state, gateway>>
    BY <1>4 DEF Fail
  <2>3. QED
    BY <1>1, <1>2, <1>4, <2>1, <2>2, WorkSame DEF IInv
<1>5. ASSUME NEW c \in Conns, FailConnection(c) PROVE IInv'
  BY <1>4, <1>5 DEF FailConnection
<1>6. ASSUME NEW c \in Conns, OnClose(c) PROVE IInv'
  BY <1>1, <1>2, <1>6, IdOnClose, WorkOnClose DEF IInv
<1>7. ASSUME NEW c \in Conns, NEW g \in Gateways, NEW h \in Hosts,
             RegisterPending(c, g, h) \/ Authenticate(c, g, h) \/ RefuseIdentity(c, g, h)
      PROVE  IInv'
  <2>1. UNCHANGED workVars /\ state[c] \in {"authenticating", "pending"} /\ Open(c)
    BY <1>7 DEF RegisterPending, Authenticate, RefuseIdentity, AuthResponse
  <2>2. CASE RegisterPending(c, g, h)
    <3>1. Identify(c, g, h, "pending") /\ IdInv'
      BY <1>1, <2>2, IdRegister DEF RegisterPending
    <3>2. QED
      BY <1>1, <1>2, <2>1, <3>1, WorkIdentify DEF IInv
  <2>3. CASE Authenticate(c, g, h)
    <3>1. Identify(c, g, h, "ready") /\ IdInv'
      BY <1>1, <2>3, IdAuthenticate DEF Authenticate
    <3>2. QED
      BY <1>1, <1>2, <2>1, <3>1, WorkIdentify DEF IInv
  <2>4. CASE RefuseIdentity(c, g, h)
    BY <1>4, <2>1, <2>4 DEF RefuseIdentity
  <2>5. QED
    BY <1>7, <2>2, <2>3, <2>4
<1>8. ASSUME NEW g \in Gateways, PrepareApproval(g) PROVE IInv'
  <2>1. IdInv' /\ UNCHANGED workVars /\ UNCHANGED <<connections, state, gateway>>
    BY <1>1, <1>8, IdPrepare DEF PrepareApproval
  <2>2. QED
    BY <1>1, <1>2, <2>1, WorkSame DEF IInv
<1>9. ASSUME NEW g \in Gateways, CommitApproval(g) PROVE IInv'
  <2>1. IdInv' /\ UNCHANGED workVars /\ UNCHANGED <<connections, gateway>>
        /\ state' = [state EXCEPT ![connections[g]] = "ready"]
    BY <1>1, <1>9, IdCommit DEF CommitApproval
  <2>2. \A d \in Conns : state[d] = "ready" => state'[d] = "ready" /\ gateway'[d] = gateway[d]
    BY <1>1, <2>1 DEF IdInv, IdTypes
  <2>3. QED
    BY <1>1, <1>2, <2>1, <2>2, WorkSame DEF IInv
<1>10. ASSUME NEW g \in Gateways, FailApproval(g) \/ Revoke(g) PROVE IInv'
  <2>1. RevokeGateway(g) /\ prepared' \in {prepared, [prepared EXCEPT ![g] = None]}
    BY <1>10 DEF FailApproval, Revoke
  <2>2. QED
    BY <1>1, <1>2, <2>1, IdRevoke, WorkRevoke DEF IInv
<1>11. ASSUME NEW g \in Gateways, RejectPending(g) PROVE IInv'
  <2>1. IdInv' /\ UNCHANGED workVars /\ UNCHANGED <<connections, state, gateway>>
    BY <1>1, <1>11, IdReject DEF RejectPending
  <2>2. QED
    BY <1>1, <1>2, <2>1, WorkSame DEF IInv
<1>12. CASE ListGateways
  <2>1. IdInv' /\ UNCHANGED workVars /\ UNCHANGED <<connections, state, gateway>>
    BY <1>1, <1>12, IdList DEF ListGateways
  <2>2. QED
    BY <1>1, <1>2, <2>1, WorkSame DEF IInv
<1>13. CASE Close
  <2>1. IdInv' /\ UNCHANGED workVars /\ UNCHANGED <<connections, state, gateway>>
    BY <1>1, <1>13, IdCloseAll DEF Close
  <2>2. QED
    BY <1>1, <1>2, <2>1, WorkSame DEF IInv
<1>14. UNCHANGED identityVars => IdInv'
  <2> SUFFICES ASSUME UNCHANGED identityVars PROVE IdInv'
    OBVIOUS
  <2>1. UNCHANGED <<state, destroyed, gateway, host, gatewayRecords, pending, connections,
                    gatewayHealth, prepared>>
    BY DEF identityVars
  <2>2. IdTypes' /\ ProvedFirst' /\ HoldsItsId'
    BY <1>1, <2>1 DEF IdInv, IdTypes, ProvedFirst, HoldsItsId
  <2>3. ChallengesAreProved' /\ ReadyIsTrusted'
    BY <1>1, <2>1 DEF IdInv, ChallengesAreProved, ReadyIsTrusted
  <2>4. HealthIsOfKnown' /\ PendingIsBounded'
    BY <1>1, <2>1 DEF IdInv, HealthIsOfKnown, PendingIsBounded, PendingPairings
  <2>5. QED
    BY <2>2, <2>3, <2>4 DEF IdInv
<1>15. ASSUME NEW q \in Requests, NEW g \in Gateways, NEW m \in Methods, NEW op \in Ops \cup {None},
              Dispatch(q, g, m, op)
       PROVE  IInv'
  <2>1. UNCHANGED identityVars
    BY <1>15 DEF Dispatch
  <2>2. QED
    BY <1>1, <1>2, <1>14, <1>15, <2>1, WorkDispatch DEF IInv
<1>16. ASSUME NEW q \in Requests,
              \/ HostAccepts(q) \/ HostResponds(q) \/ HostErrors(q)
              \/ HostFinishesUnheard(q) \/ Expire(q)
       PROVE  IInv'
  <2>1. UNCHANGED identityVars
    BY <1>16 DEF HostAccepts, HostResponds, HostErrors, HostFinishesUnheard, Expire
  <2>2. WorkInv'
    BY <1>1, <1>16, WorkAccept, WorkResponds, WorkErrors, WorkUnheard, WorkExpire
  <2>3. QED
    BY <1>2, <1>14, <2>1, <2>2 DEF IInv
<1>17. CASE UNCHANGED vars
  <2>1. UNCHANGED identityVars /\ UNCHANGED workVars /\ UNCHANGED <<connections, state, gateway>>
    BY <1>17 DEF vars, identityVars
  <2>2. QED
    BY <1>1, <1>2, <1>14, <2>1, WorkSame DEF IInv
<1>18. QED
  BY <1>3, <1>5, <1>6, <1>7, <1>8, <1>9, <1>10, <1>11, <1>12, <1>13, <1>15, <1>16, <1>17
  DEF Next

THEOREM Inductive == Spec => []IInv
BY InitIInv, StepIInv, PTL DEF Spec

\* At most one connection that is open and proved an identity speaks for an id, and it
\* is the one requests are sent to, also when it has left another id behind
\* (onAuthMessage, onClose, revokeGateway).
THEOREM OneConnectionPerId == Spec => []OneLiveConnection
<1>1. IInv => OneLiveConnection
  BY DEF IInv, IdInv, IdTypes, ProvedFirst, HoldsItsId, Identified, OneLiveConnection
<1>2. QED
  BY <1>1, Inductive, PTL

\* A connection that is served belongs to the host trusted for its id now.
THEOREM ServedIsTrusted == Spec => []ReadyIsTrusted
<1>1. IInv => ReadyIsTrusted
  BY DEF IInv, IdInv
<1>2. QED
  BY <1>1, Inductive, PTL

\* Requests wait on served connections only (onClose settles the others).
THEOREM NothingWaitsOnTheGone == Spec => []WaitsOnlyWhileReady
<1>1. IInv => WaitsOnlyWhileReady
  BY DEF IInv, WorkInv
<1>2. QED
  BY <1>1, Inductive, PTL

\* What the list shows as in flight is waited for, or was left so by a close event that
\* found it running under another id; what runs on the connection that speaks for its
\* id is shown as running (recordResponse, recordDisconnected, onClose).
THEOREM ListTellsTheTruth == Spec => [](InFlightIsAwaited /\ RunningShown)
<1>1. IInv => InFlightIsAwaited /\ RunningShown
  BY DEF IInv, WorkInv
<1>2. QED
  BY <1>1, Inductive, PTL

\* Pairings, activity and health stay within their bounds (MAX_PENDING_PAIRINGS,
\* activityLimit, unbindGatewayIdentity).
THEOREM ListenerIsBounded == Spec => []CollectionsBounded
<1>1. IInv => CollectionsBounded
  BY DEF IInv, IdInv, WorkInv, IdTypes, WorkTypes, TypeOK, CollectionsBounded,
         PendingIsBounded, HealthIsOfKnown
<1>2. QED
  BY <1>1, Inductive, PTL

\* What an approval that makes a host trusted has read and finds.
Bound ==
    \A g \in Gateways : gatewayRecords'[g] \notin {None, gatewayRecords[g]} =>
        /\ prepared[g] # None
        /\ gatewayRecords'[g] = prepared[g].host
        /\ connections[g] = prepared[g].conn
        /\ gateway[prepared[g].conn] = g
        /\ host[prepared[g].conn] = prepared[g].host

\* A host becomes trusted only through the challenge that was read before the
\* durable writes, on the connection that proved it and speaks for that id still
\* (commitPendingApproval).
THEOREM ApprovalsBindChallenges == Spec => ApprovalBindsChallenge
<1>1. IInv /\ [Next]_vars => [Bound]_vars
  <2> SUFFICES ASSUME IInv, [Next]_vars PROVE Bound
    OBVIOUS
  <2>1. IdInv
    BY DEF IInv
  <2>2. CASE UNCHANGED gatewayRecords
    BY <2>2 DEF Bound
  <2>3. ASSUME NEW g \in Gateways, gatewayRecords' = [gatewayRecords EXCEPT ![g] = None]
        PROVE  Bound
    BY <2>1, <2>3 DEF Bound, IdInv, IdTypes
  <2>4. ASSUME NEW g \in Gateways, CommitApproval(g) PROVE Bound
    <3>1. /\ prepared[g] # None /\ pending[g] = prepared[g] /\ connections[g] = pending[g].conn
          /\ connections[g] # None /\ state[connections[g]] = "pending"
          /\ gateway[connections[g]] = g
          /\ gatewayRecords' = [gatewayRecords EXCEPT ![g] = pending[g].host]
      BY <2>4 DEF CommitApproval, Approvable
    <3>2. PICK c \in Conns : c = connections[g]
      BY <2>1, <3>1 DEF IdInv, IdTypes
    <3>3. host[c] = prepared[g].host
      BY <2>1, <3>1, <3>2 DEF IdInv, ChallengesAreProved
    <3>4. QED
      BY <2>1, <3>1, <3>2, <3>3 DEF Bound, IdInv, IdTypes
  <2>5. ASSUME NEW c \in Conns, Connect(c) \/ FailConnection(c) \/ OnClose(c) PROVE Bound
    BY <2>2, <2>5 DEF Connect, FailConnection, Fail, OnClose
  <2>6. ASSUME NEW c \in Conns, NEW g \in Gateways, NEW h \in Hosts,
               RegisterPending(c, g, h) \/ Authenticate(c, g, h) \/ RefuseIdentity(c, g, h)
        PROVE  Bound
    BY <2>2, <2>6 DEF RegisterPending, Authenticate, RefuseIdentity, Fail
  <2>7. ASSUME NEW g \in Gateways, PrepareApproval(g) \/ RejectPending(g) PROVE Bound
    BY <2>2, <2>7 DEF PrepareApproval, RejectPending
  <2>8. ASSUME NEW g \in Gateways, FailApproval(g) \/ Revoke(g) PROVE Bound
    BY <2>3, <2>8 DEF FailApproval, Revoke, RevokeGateway, DropGateway
  <2>9. ASSUME NEW q \in Requests, NEW g \in Gateways, NEW m \in Methods,
               NEW op \in Ops \cup {None}, Dispatch(q, g, m, op)
        PROVE  Bound
    BY <2>2, <2>9 DEF Dispatch, identityVars
  <2>10. ASSUME NEW q \in Requests,
                \/ HostAccepts(q) \/ HostResponds(q) \/ HostErrors(q)
                \/ HostFinishesUnheard(q) \/ Expire(q)
         PROVE  Bound
    BY <2>2, <2>10 DEF HostAccepts, HostResponds, HostErrors, HostFinishesUnheard, Expire,
                       identityVars
  <2>11. CASE ListGateways \/ Close \/ UNCHANGED vars
    BY <2>2, <2>11 DEF ListGateways, Close, vars, identityVars
  <2>12. QED
    BY <2>4, <2>5, <2>6, <2>7, <2>8, <2>9, <2>10, <2>11 DEF Next
<1>2. Spec => [][Bound]_vars
  BY <1>1, Inductive, PTL DEF Spec
<1>3. QED
  BY <1>2 DEF ApprovalBindsChallenge, Bound
===============================================================================
