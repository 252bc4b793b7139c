------------------------- MODULE ControllerTrustProofs -------------------------
(***************************************************************************)
(* Why a restart admits exactly what the last decided mutation left.  The  *)
(* invariant follows the one task at work write by write: how much of its  *)
(* program has landed says what the durable state holds of its gateway     *)
(* (Progress), what an approval read before its first write is still what  *)
(* a rollback has to restore (SavedIsCurrent), and a PUT that was let      *)
(* through before the queue will find no key but a decided one             *)
(* (EnrolmentsMeetDecidedKeys).                                            *)
(***************************************************************************)
EXTENDS ControllerTrust, Integers, SequenceTheorems, TLAPS

Kinds == {"ask", "approve", "recover", "reject", "trust", "revoke"}

Tasks == [kind : Kinds, id : Ids, pairing : Pairing \cup {None}, token : Nat]

Trusts == [Ids -> Credentials \cup {None}]

Types ==
    /\ up \in BOOLEAN /\ challenges \in Nat
    /\ store \in Store
    /\ queue \in Seq(Tasks)
    /\ flight \in {"idle", "sent", "back"}
    /\ generations \in [Ids -> Nat]
    /\ records \in Trusts
    /\ pending \in [Ids -> Pairing \cup {None}]
    /\ live \subseteq Ids /\ checked \subseteq Ids
    /\ \A id \in live : pending[id] # None /\ records[id] = None
    /\ decided \in Trusts

\* The task at work is the first of the queue, at one of its writes.
Position ==
    /\ flight = "idle" => step = 0
    /\ flight # "idle" => up /\ queue # <<>> /\ step \in 1..Len(Program(Kind))
    /\ ~up => queue = <<>> /\ live = {}
    /\ \A i \in 1..Len(queue) : queue[i].kind = "recover" => i = 1 /\ flight # "idle"

AtWork(kinds) == flight # "idle" /\ Kind \in kinds

\* How many of its writes are durable.
Landed == IF flight = "back" THEN step ELSE step - 1

\* What an approval saved is what the store holds of the other gateways, and of
\* its own one until its key was written.
SavedIsCurrent ==
    AtWork({"approve", "recover"}) =>
        /\ saved \in [store : Store, decided : Trusts]
        /\ Task.pairing \in Pairing
        /\ records[Task.id] = None
        /\ \A id \in Ids \ {Task.id} : id \in store.gateways <=> id \in saved.store.gateways
        /\ store.keys[Task.id] \in {saved.store.keys[Task.id], Task.pairing.host}

ApproveProgress ==
    AtWork({"approve"}) =>
        /\ Landed \in 1..4 => Task.id \in store.intents
        /\ Landed < 2 => store.keys[Task.id] = saved.store.keys[Task.id]
        /\ Landed >= 2 => store.keys[Task.id] = Task.pairing.host
        /\ Landed >= 3 => Task.id \in store.gateways
        /\ Landed < 5 => decided[Task.id] = saved.decided[Task.id]
        /\ Landed = 5 => Task.id \notin store.intents /\ decided[Task.id] = Task.pairing.host

RecoverProgress ==
    AtWork({"recover"}) =>
        /\ step >= 2 \/ Landed >= 1 => Task.id \in store.intents \cup exposed
        /\ Landed >= 2 => store.keys[Task.id] = saved.store.keys[Task.id]
        /\ Landed = 4 => decided[Task.id] = saved.decided[Task.id]

TrustProgress ==
    AtWork({"trust"}) =>
        /\ Landed \in 1..3 => Task.id \in store.intents
        /\ Landed >= 2 => Task.id \in store.secrets
        /\ Landed >= 3 => Task.id \in store.gateways
        /\ step >= 2 => records[Task.id] = None

RevokeProgress ==
    AtWork({"revoke"}) =>
        /\ Landed \in 1..5 => Task.id \in store.intents
        /\ Landed >= 2 => Task.id \notin store.gateways
        /\ Landed >= 5 => store.keys[Task.id] = None
        /\ step >= 2 => records[Task.id] = None

Progress == ApproveProgress /\ RecoverProgress /\ TrustProgress /\ RevokeProgress

\* Gateways whose enrolment with a secret was let through.
Enrolling == checked \cup {queue[i].id : i \in {k \in 1..Len(queue) : queue[k].kind = "trust"}}

EnrolmentsMeetDecidedKeys ==
    \A id \in Enrolling \ exposed :
        IF AtWork({"approve", "recover"}) /\ Task.id = id
        THEN saved.store.keys[id] \in {None, saved.decided[id]}
        ELSE store.keys[id] \in {None, decided[id]}

\* What is honoured is durable, but for the moment between the durable block of a
\* gateway and the call that drops it in the listener.
RecordsAreDurable ==
    \A id \in Ids :
        \/ records[id] \in {None, Admits(store, id)}
        \/ AtWork({"trust", "revoke"}) /\ flight = "back" /\ step = 1 /\ Task.id = id

\* A task is older than the calls that came after it.
TokensAge ==
    /\ \A i \in 1..Len(queue) : queue[i].token <= generations[queue[i].id]
    /\ \A i, k \in 1..Len(queue) :
          /\ i < k /\ queue[i].id = queue[k].id
          /\ queue[k].kind \in {"reject", "revoke", "trust"}
          => queue[i].token < generations[queue[i].id]

IInv ==
    /\ Types /\ Position /\ SavedIsCurrent /\ Progress /\ EnrolmentsMeetDecidedKeys
    /\ RecordsAreDurable /\ TokensAge /\ UnblockedIsDecided

-------------------------------------------------------------------------------
(* Programs, tasks and the queue. *)

Writes == {"intend", "release", "key", "noKey", "secret", "noSecret", "list",
           "unlist", "ask", "unask", "oldKey", "oldList", "oldPairings"}

\* The programs written out, for the steps that follow one of them.
LEMMA Programs ==
    /\ Len(Program("ask")) = 1 /\ Program("ask")[1] = "ask"
    /\ Len(Program("reject")) = 1 /\ Program("reject")[1] = "unask"
    /\ Len(Program("approve")) = 5
    /\ Program("approve")[1] = "intend" /\ Program("approve")[2] = "key"
    /\ Program("approve")[3] = "list" /\ Program("approve")[4] = "unask"
    /\ Program("approve")[5] = "release"
    /\ Len(Program("recover")) = 4
    /\ Program("recover")[1] = "intend" /\ Program("recover")[2] = "oldKey"
    /\ Program("recover")[3] = "oldList" /\ Program("recover")[4] = "oldPairings"
    /\ Len(Program("trust")) = 4
    /\ Program("trust")[1] = "intend" /\ Program("trust")[2] = "secret"
    /\ Program("trust")[3] = "list" /\ Program("trust")[4] = "release"
    /\ Len(Program("revoke")) = 6
    /\ Program("revoke")[1] = "intend" /\ Program("revoke")[2] = "unlist"
    /\ Program("revoke")[3] = "unask" /\ Program("revoke")[4] = "noSecret"
    /\ Program("revoke")[5] = "noKey" /\ Program("revoke")[6] = "release"
<1>1. Len(Program("ask")) = 1 /\ Program("ask")[1] = "ask"  BY DEF Program
<1>2. Len(Program("reject")) = 1 /\ Program("reject")[1] = "unask"  BY DEF Program
<1>3. /\ Len(Program("approve")) = 5
      /\ Program("approve")[1] = "intend" /\ Program("approve")[2] = "key"
      /\ Program("approve")[3] = "list" /\ Program("approve")[4] = "unask"
      /\ Program("approve")[5] = "release"
  BY DEF Program
<1>4. /\ Len(Program("recover")) = 4
      /\ Program("recover")[1] = "intend" /\ Program("recover")[2] = "oldKey"
      /\ Program("recover")[3] = "oldList" /\ Program("recover")[4] = "oldPairings"
  BY DEF Program
<1>5. /\ Len(Program("trust")) = 4
      /\ Program("trust")[1] = "intend" /\ Program("trust")[2] = "secret"
      /\ Program("trust")[3] = "list" /\ Program("trust")[4] = "release"
  BY DEF Program
<1>6. /\ Len(Program("revoke")) = 6
      /\ Program("revoke")[1] = "intend" /\ Program("revoke")[2] = "unlist"
      /\ Program("revoke")[3] = "unask" /\ Program("revoke")[4] = "noSecret"
      /\ Program("revoke")[5] = "noKey" /\ Program("revoke")[6] = "release"
  BY DEF Program
<1>7. QED  BY <1>1, <1>2, <1>3, <1>4, <1>5, <1>6

\* The first task of a queue that is not empty.
LEMMA FirstTask ==
    ASSUME queue \in Seq(Tasks), queue # <<>>
    PROVE  /\ Task \in Tasks /\ Task = queue[1] /\ Kind = Task.kind
           /\ 1 \in 1..Len(queue) /\ Len(queue) \in Nat
<1>1. Task = queue[1] /\ Kind = Task.kind  BY DEF Task, Kind
<1>2. Len(queue) \in Nat /\ 1 \in 1..Len(queue)  BY EmptySeq, LenProperties
<1>3. queue[1] \in Tasks  BY <1>2, ElementOfSeq
<1>4. QED  BY <1>1, <1>2, <1>3

\* A call joins the queue behind the others.
LEMMA Joined ==
    ASSUME queue \in Seq(Tasks), NEW t \in Tasks, queue' = Append(queue, t)
    PROVE  /\ queue' \in Seq(Tasks) /\ Len(queue) \in Nat
           /\ Len(queue') = Len(queue) + 1 /\ queue' # <<>>
           /\ \A i \in 1..Len(queue) : queue'[i] = queue[i] /\ queue[i] \in Tasks
           /\ queue'[Len(queue) + 1] = t
           /\ queue # <<>> => Task' = Task /\ Kind' = Kind
<1>1. /\ queue' \in Seq(Tasks) /\ Len(queue') = Len(queue) + 1
      /\ \A i \in 1..Len(queue) : queue'[i] = queue[i]
      /\ queue'[Len(queue) + 1] = t
  BY AppendProperties
<1>2. Len(queue) \in Nat /\ \A i \in 1..Len(queue) : queue[i] \in Tasks
  BY LenProperties, ElementOfSeq
<1>3. queue' # <<>>
  <2>1. Len(<<>>) = 0  OBVIOUS
  <2>2. QED  BY <1>1, <1>2, <2>1
<1>4. ASSUME queue # <<>>  PROVE Task' = Task /\ Kind' = Kind
  <2>1. Task = queue[1] /\ 1 \in 1..Len(queue)  BY <1>4, FirstTask
  <2>2. Task' = queue'[1]  BY <1>3 DEF Task
  <2>3. QED  BY <1>1, <2>1, <2>2 DEF Kind
<1>5. QED  BY <1>1, <1>2, <1>3, <1>4

\* The first task ends and the others move up.
LEMMA Left ==
    ASSUME queue \in Seq(Tasks), queue # <<>>, queue' = Tail(queue)
    PROVE  /\ queue' \in Seq(Tasks) /\ Len(queue) \in Nat
           /\ Len(queue') = Len(queue) - 1
           /\ \A i \in 1..Len(queue') : i + 1 \in 1..Len(queue) /\ queue'[i] = queue[i + 1]
<1>1. /\ queue' \in Seq(Tasks) /\ Len(queue') = Len(queue) - 1
      /\ \A i \in 1..Len(queue') : queue'[i] = queue[i + 1]
  BY HeadTailProperties
<1>2. Len(queue) \in Nat  BY LenProperties
<1>3. QED  BY <1>1, <1>2

\* The first task turns into another one, with what else it holds.
LEMMA Turned ==
    ASSUME queue \in Seq(Tasks), queue # <<>>, NEW t \in Tasks, queue' = [queue EXCEPT ![1] = t]
    PROVE  /\ queue' \in Seq(Tasks) /\ Len(queue) \in Nat /\ 1 \in 1..Len(queue)
           /\ Len(queue') = Len(queue) /\ queue' # <<>>
           /\ queue'[1] = t /\ Task' = t /\ Kind' = t.kind
           /\ \A i \in 1..Len(queue) : i # 1 => queue'[i] = queue[i]
           /\ \A i \in 1..Len(queue) : queue[i] \in Tasks
<1>1. Len(queue) \in Nat /\ 1 \in 1..Len(queue)  BY FirstTask
<1>2. /\ queue' \in Seq(Tasks) /\ Len(queue') = Len(queue)
      /\ \A i \in 1..Len(queue) : queue'[i] = IF i = 1 THEN t ELSE queue[i]
  BY <1>1, ExceptSeq
<1>3. \A i \in 1..Len(queue) : queue[i] \in Tasks  BY ElementOfSeq
<1>4. queue' # <<>>
  <2>1. Len(<<>>) = 0  OBVIOUS
  <2>2. QED  BY <1>1, <1>2, <2>1
<1>5. Task' = t /\ Kind' = t.kind  BY <1>1, <1>2, <1>4 DEF Task, Kind
<1>6. QED  BY <1>1, <1>2, <1>3, <1>4, <1>5

-------------------------------------------------------------------------------
(* The durable state. *)

\* The parts of the store, one by one.
LEMMA StoreParts ==
    ASSUME NEW s \in Store
    PROVE  /\ s.keys \in [Ids -> Hosts \cup {None}]
           /\ s.secrets \subseteq Ids /\ s.gateways \subseteq Ids /\ s.intents \subseteq Ids
           /\ s.pairings \in [Ids -> Pairing \cup {None}]
BY DEF Store

LEMMA NoneIsNoHost == None \notin Hosts /\ None # "secret"
BY TrustAssumption DEF Credentials

LEMMA AdmitsTrust ==
    ASSUME NEW s \in Store, NEW id \in Ids
    PROVE  Admits(s, id) \in Credentials \cup {None}
<1>1. s.keys[id] \in Hosts \cup {None}  BY StoreParts
<1>2. QED  BY <1>1 DEF Admits, Credentials

\* A start admits the same of two stores that agree on the gateway.
LEMMA AdmitsSame ==
    ASSUME NEW s, NEW u, NEW id, s.keys[id] = u.keys[id],
           id \in s.gateways <=> id \in u.gateways,
           id \in s.secrets <=> id \in u.secrets,
           id \in s.intents <=> id \in u.intents
    PROVE  Admits(s, id) = Admits(u, id)
BY DEF Admits

\* What each write changes, part by part.
WrittenAre(w, t) ==
    /\ Written(w, t) \in Store
    /\ Written(w, t).intents = IF w = "intend" THEN store.intents \cup {t.id}
                               ELSE IF w = "release" THEN store.intents \ {t.id}
                               ELSE store.intents
    /\ Written(w, t).secrets = IF w = "secret" THEN store.secrets \cup {t.id}
                               ELSE IF w = "noSecret" THEN store.secrets \ {t.id}
                               ELSE store.secrets
    /\ Written(w, t).gateways = IF w = "list" THEN store.gateways \cup {t.id}
                                ELSE IF w = "unlist" THEN store.gateways \ {t.id}
                                ELSE IF w = "oldList" THEN saved.store.gateways
                                ELSE store.gateways
    /\ \A id \in Ids \ {t.id} : Written(w, t).keys[id] = store.keys[id]
    /\ Written(w, t).keys[t.id] = IF w = "key" THEN t.pairing.host
                                  ELSE IF w = "noKey" THEN None
                                  ELSE IF w = "oldKey" THEN saved.store.keys[t.id]
                                  ELSE store.keys[t.id]

\* It is so for every write of every task.
LEMMA WrittenParts ==
    ASSUME store \in Store, NEW w \in Writes, NEW t \in Tasks,
           w = "key" => t.pairing \in Pairing,
           w \in {"oldKey", "oldList", "oldPairings"} => saved.store \in Store
    PROVE  WrittenAre(w, t)
<1>1. t.id \in Ids /\ t.pairing \in Pairing \cup {None}  BY DEF Tasks
<1>2. store = [keys |-> store.keys, secrets |-> store.secrets, gateways |-> store.gateways,
               pairings |-> store.pairings, intents |-> store.intents]
  BY DEF Store
<1>3. [store.keys EXCEPT ![t.id] = store.keys[t.id]] = store.keys  BY <1>1, StoreParts
<1>4. w = "key" => t.pairing.host \in Hosts  BY DEF Pairing
<1>5. w = "oldKey" => saved.store.keys[t.id] \in Hosts \cup {None}  BY <1>1, StoreParts
<1>6. CASE w \in {"intend", "release"}
  BY <1>1, <1>3, <1>6 DEF WrittenAre, Written, Store
<1>7. CASE w \in {"key", "noKey", "oldKey"}
  <2>1. CASE w = "key"  BY <1>1, <1>4, <2>1 DEF WrittenAre, Written, Store
  <2>2. CASE w = "noKey"  BY <1>1, <2>2 DEF WrittenAre, Written, Store
  <2>3. CASE w = "oldKey"  BY <1>1, <1>5, <2>3 DEF WrittenAre, Written, Store
  <2>4. QED  BY <1>7, <2>1, <2>2, <2>3
<1>8. CASE w \in {"secret", "noSecret"}
  BY <1>1, <1>3, <1>8 DEF WrittenAre, Written, Store
<1>9. CASE w \in {"list", "unlist", "oldList"}
  <2>1. CASE w = "list"  BY <1>1, <1>3, <2>1 DEF WrittenAre, Written, Store
  <2>2. CASE w = "unlist"  BY <1>1, <1>3, <2>2 DEF WrittenAre, Written, Store
  <2>3. CASE w = "oldList"  BY <1>1, <1>3, <2>3, StoreParts DEF WrittenAre, Written, Store
  <2>4. QED  BY <1>9, <2>1, <2>2, <2>3
<1>10. CASE w \in {"ask", "unask"}
  BY <1>1, <1>3, <1>10 DEF WrittenAre, Written, Store
<1>11. CASE w = "oldPairings"
  BY <1>1, <1>3, <1>11, StoreParts DEF WrittenAre, Written, Store
<1>12. QED  BY <1>6, <1>7, <1>8, <1>9, <1>10, <1>11 DEF Writes

-------------------------------------------------------------------------------
(* Steps that leave the task at work alone. *)

\* Nothing that the invariant says of the task at work is touched.
LEMMA SameWork ==
    ASSUME SavedIsCurrent, Progress, RecordsAreDurable, UnblockedIsDecided,
           UNCHANGED <<store, step, flight, saved, records, decided, exposed>>,
           flight # "idle" => Task' = Task /\ Kind' = Kind
    PROVE  SavedIsCurrent' /\ Progress' /\ RecordsAreDurable' /\ UnblockedIsDecided'
<1>1. SavedIsCurrent'  BY DEF SavedIsCurrent, AtWork
<1>2. ApproveProgress' /\ RecoverProgress'
  BY DEF Progress, ApproveProgress, RecoverProgress, AtWork, Landed
<1>3. TrustProgress' /\ RevokeProgress'
  BY DEF Progress, TrustProgress, RevokeProgress, AtWork, Landed
<1>4. RecordsAreDurable'  BY DEF RecordsAreDurable, AtWork
<1>5. UnblockedIsDecided'  BY DEF UnblockedIsDecided
<1>6. QED  BY <1>1, <1>2, <1>3, <1>4, <1>5 DEF Progress

\* No enrolment is let through that was not: the keys they meet stay decided.
LEMMA SameEnrolments ==
    ASSUME EnrolmentsMeetDecidedKeys, Enrolling' \subseteq Enrolling,
           UNCHANGED <<store, flight, saved, decided, exposed>>,
           flight # "idle" => Task' = Task /\ Kind' = Kind
    PROVE  EnrolmentsMeetDecidedKeys'
<1>1. AtWork({"approve", "recover"})' <=> AtWork({"approve", "recover"})  BY DEF AtWork
<1>2. AtWork({"approve", "recover"}) => Task' = Task  BY DEF AtWork
<1>3. QED  BY <1>1, <1>2 DEF EnrolmentsMeetDecidedKeys

\* A call joins the queue.
LEMMA EnqueueKeeps ==
    ASSUME IInv, up, up', NEW t \in Tasks, queue' = Append(queue, t),
           t.kind # "recover", t.token = generations[t.id],
           t.kind = "trust" => t.id \in checked, checked' \subseteq checked,
           generations' \in [Ids -> Nat],
           \A id \in Ids : generations'[id] >= generations[id],
           t.kind \in {"reject", "revoke", "trust"} => generations'[t.id] > generations[t.id],
           UNCHANGED <<store, step, flight, saved, records, decided, exposed>>
    PROVE  /\ queue' \in Seq(Tasks) /\ Position' /\ SavedIsCurrent' /\ Progress'
           /\ EnrolmentsMeetDecidedKeys' /\ RecordsAreDurable' /\ TokensAge'
           /\ UnblockedIsDecided'
<1>1. queue \in Seq(Tasks)  BY DEF IInv, Types
<1>2. /\ queue' \in Seq(Tasks) /\ Len(queue) \in Nat /\ Len(queue') = Len(queue) + 1
      /\ queue' # <<>> /\ queue'[Len(queue) + 1] = t
      /\ \A i \in 1..Len(queue) : queue'[i] = queue[i] /\ queue[i] \in Tasks
      /\ queue # <<>> => Task' = Task /\ Kind' = Kind
  BY <1>1, Joined
<1>3. \A i \in 1..Len(queue') : i \in 1..Len(queue) \/ i = Len(queue) + 1  BY <1>2
<1>4. flight # "idle" => queue # <<>>  BY DEF IInv, Position
<1>5. flight # "idle" => Task' = Task /\ Kind' = Kind  BY <1>2, <1>4
<1>6. SavedIsCurrent' /\ Progress' /\ RecordsAreDurable' /\ UnblockedIsDecided'
  BY <1>5, SameWork DEF IInv
<1>7. Position'
  <2>1. flight' = "idle" => step' = 0  BY DEF IInv, Position
  <2>2. flight' # "idle" => up' /\ queue' # <<>> /\ step' \in 1..Len(Program(Kind'))
    BY <1>2, <1>5 DEF IInv, Position
  <2>3. \A i \in 1..Len(queue') : queue'[i].kind = "recover" => i = 1 /\ flight' # "idle"
    BY <1>2, <1>3 DEF IInv, Position
  <2>4. QED  BY <2>1, <2>2, <2>3 DEF Position
<1>8. Enrolling' \subseteq Enrolling
  <2>1. SUFFICES ASSUME NEW k \in 1..Len(queue'), queue'[k].kind = "trust"
                 PROVE  queue'[k].id \in Enrolling
    BY DEF Enrolling
  <2>2. CASE k \in 1..Len(queue)  BY <1>2, <2>1, <2>2 DEF Enrolling
  <2>3. CASE k = Len(queue) + 1  BY <1>2, <2>1, <2>3 DEF Enrolling
  <2>4. QED  BY <1>3, <2>2, <2>3
<1>9. EnrolmentsMeetDecidedKeys'  BY <1>5, <1>8, SameEnrolments DEF IInv
<1>10. TokensAge'
  <2>1. t.id \in Ids /\ t.token \in Nat /\ generations \in [Ids -> Nat]
    BY DEF Tasks, IInv, Types
  <2>2. \A i \in 1..Len(queue) : queue[i].id \in Ids /\ queue[i].token \in Nat
    BY <1>2 DEF Tasks
  <2>3. \A i \in 1..Len(queue') : queue'[i].token <= generations'[queue'[i].id]
    <3>1. TAKE i \in 1..Len(queue')
    <3>2. CASE i \in 1..Len(queue)
      <4>1. queue[i].token <= generations[queue[i].id]  BY <3>2 DEF IInv, TokensAge
      <4>2. generations'[queue[i].id] >= generations[queue[i].id]  BY <2>2, <3>2
      <4>3. QED  BY <1>2, <2>1, <2>2, <3>2, <4>1, <4>2
    <3>3. CASE i = Len(queue) + 1  BY <1>2, <2>1, <3>3
    <3>4. QED  BY <1>3, <3>2, <3>3
  <2>4. ASSUME NEW i \in 1..Len(queue'), NEW k \in 1..Len(queue'), i < k,
               queue'[i].id = queue'[k].id, queue'[k].kind \in {"reject", "revoke", "trust"}
        PROVE  queue'[i].token < generations'[queue'[i].id]
    <3>1. i \in 1..Len(queue)  BY <1>2, <2>4
    <3>2. queue'[i] = queue[i] /\ queue[i].id \in Ids  BY <1>2, <2>2, <3>1
    <3>3. queue[i].token <= generations[queue[i].id]  BY <3>1 DEF IInv, TokensAge
    <3>4. generations'[queue[i].id] >= generations[queue[i].id]  BY <3>2
    <3>5. CASE k \in 1..Len(queue)
      <4>1. queue'[k] = queue[k]  BY <1>2, <3>5
      <4>2. queue[i].token < generations[queue[i].id]
        BY <2>4, <3>1, <3>2, <3>5, <4>1 DEF IInv, TokensAge
      <4>3. QED  BY <2>1, <2>2, <3>1, <3>2, <3>4, <4>2
    <3>6. CASE k = Len(queue) + 1
      <4>1. queue[i].id = t.id /\ t.kind \in {"reject", "revoke", "trust"}
        BY <1>2, <2>4, <3>2, <3>6
      <4>2. QED  BY <2>1, <2>2, <3>1, <3>2, <3>3, <4>1
    <3>7. QED  BY <1>3, <3>5, <3>6
  <2>5. QED  BY <2>3, <2>4 DEF TokensAge
<1>11. QED  BY <1>2, <1>6, <1>7, <1>9, <1>10

-------------------------------------------------------------------------------
(* Calls and requests. *)

LEMMA AskKeeps ==
    ASSUME IInv, NEW id \in Ids, NEW h \in Hosts, Ask(id, h)
    PROVE  IInv'
<1> DEFINE p == [host |-> h, challenge |-> challenges + 1]
           t == [kind |-> "ask", id |-> id, pairing |-> p, token |-> generations[id]]
<1>1. /\ up /\ up' = up /\ challenges < MaxChallenges /\ challenges' = challenges + 1
      /\ records[id] = None
      /\ pending' = [pending EXCEPT ![id] = p] /\ live' = live \cup {id}
      /\ queue' = Append(queue, t)
      /\ UNCHANGED <<store, step, flight, saved, generations, records, checked,
                     decided, exposed>>
  BY DEF Ask, Enqueue, history
<1>2. p \in Pairing /\ p # None
  <2>1. challenges + 1 \in 1..MaxChallenges  BY <1>1, TrustAssumption DEF IInv, Types
  <2>2. p \in Pairing  BY <2>1 DEF Pairing
  <2>3. QED  BY <2>2, TrustAssumption
<1>3. generations \in [Ids -> Nat] /\ t \in Tasks  BY <1>2 DEF IInv, Types, Tasks, Kinds
<1>4. t.kind = "ask" /\ t.token = generations[t.id] /\ t.id = id  OBVIOUS
<1> HIDE DEF t
<1>5. /\ queue' \in Seq(Tasks) /\ Position' /\ SavedIsCurrent' /\ Progress'
      /\ EnrolmentsMeetDecidedKeys' /\ RecordsAreDurable' /\ TokensAge'
      /\ UnblockedIsDecided'
  BY <1>1, <1>3, <1>4, EnqueueKeeps
<1>6. Types'
  <2>1. pending' \in [Ids -> Pairing \cup {None}]  BY <1>1, <1>2 DEF IInv, Types
  <2>2. \A x \in live' : pending'[x] # None /\ records'[x] = None
    BY <1>1, <1>2 DEF IInv, Types
  <2>3. QED  BY <1>1, <1>5, <2>1, <2>2 DEF IInv, Types
<1>7. QED  BY <1>5, <1>6 DEF IInv

LEMMA CallKeeps ==
    ASSUME IInv, NEW id \in Ids, Approve(id) \/ Reject(id) \/ Revoke(id) \/ SetGatewayTrust(id)
    PROVE  IInv'
<1>1. PICK kind \in {"approve", "reject", "revoke", "trust"}, pairing \in Pairing \cup {None} :
         /\ queue' = Append(queue, [kind |-> kind, id |-> id, pairing |-> pairing,
                                    token |-> generations[id]])
         /\ kind = "trust" => id \in checked
         /\ generations' = IF kind = "approve" THEN generations
                           ELSE [generations EXCEPT ![id] = @ + 1]
  BY DEF Approve, Reject, Revoke, SetGatewayTrust, Enqueue, Invalidate, Call, IInv, Types
<1>2. /\ up /\ up' = up /\ challenges' = challenges /\ checked' \subseteq checked
      /\ UNCHANGED <<store, step, flight, saved, records, pending, live, decided, exposed>>
  BY DEF Approve, Reject, Revoke, SetGatewayTrust, Call, history
<1> DEFINE t == [kind |-> kind, id |-> id, pairing |-> pairing, token |-> generations[id]]
<1>3. generations \in [Ids -> Nat] /\ t \in Tasks  BY DEF IInv, Types, Tasks, Kinds
<1>4. t.kind = kind /\ t.token = generations[t.id] /\ t.id = id  OBVIOUS
<1>5. queue' = Append(queue, t)  BY <1>1
<1> HIDE DEF t
<1>6. /\ generations' \in [Ids -> Nat]
      /\ \A x \in Ids : generations'[x] >= generations[x]
      /\ kind \in {"reject", "revoke", "trust"} => generations'[id] > generations[id]
  BY <1>1, <1>3
<1>7. t.kind # "recover"  BY <1>4
<1>8. t.kind \in {"reject", "revoke", "trust"} => generations'[t.id] > generations[t.id]
  BY <1>4, <1>6
<1>9. t.kind = "trust" => t.id \in checked  BY <1>1, <1>4
<1>10. t.token = generations[t.id]  BY <1>4
<1>11. /\ queue' \in Seq(Tasks) /\ Position' /\ SavedIsCurrent' /\ Progress'
      /\ EnrolmentsMeetDecidedKeys' /\ RecordsAreDurable' /\ TokensAge'
      /\ UnblockedIsDecided'
  BY <1>2, <1>3, <1>5, <1>6, <1>7, <1>8, <1>9, <1>10, EnqueueKeeps
<1>12. Types'  BY <1>2, <1>6, <1>11 DEF IInv, Types
<1>13. QED  BY <1>11, <1>12 DEF IInv

LEMMA HangupKeeps ==
    ASSUME IInv, NEW id \in Ids, Hangup(id)
    PROVE  IInv'
<1>1. /\ up /\ live' = live \ {id}
      /\ UNCHANGED <<up, challenges, store, queue, step, flight, saved, generations, records,
                     pending, checked, decided, exposed>>
  BY DEF Hangup, bounds, history
<1>2. Task' = Task /\ Kind' = Kind  BY <1>1 DEF Task, Kind
<1>3. Types'  BY <1>1 DEF IInv, Types
<1>4. Position' /\ TokensAge'  BY <1>1, <1>2 DEF IInv, Position, TokensAge
<1>5. SavedIsCurrent' /\ Progress' /\ RecordsAreDurable' /\ UnblockedIsDecided'
  BY <1>1, <1>2, SameWork DEF IInv
<1>6. Enrolling' \subseteq Enrolling  BY <1>1 DEF Enrolling
<1>7. EnrolmentsMeetDecidedKeys'  BY <1>1, <1>2, <1>6, SameEnrolments DEF IInv
<1>8. QED  BY <1>3, <1>4, <1>5, <1>7 DEF IInv

\* The gateway has no key: nor had it one before the approval that may be at work.
LEMMA PutKeeps ==
    ASSUME IInv, NEW id \in Ids, PutGatewayTrust(id)
    PROVE  IInv'
<1>1. /\ up /\ checked' = checked \cup {id} /\ store.keys[id] = None
      /\ UNCHANGED <<up, challenges, store, queue, step, flight, saved, generations, records,
                     pending, live, decided, exposed>>
  BY DEF PutGatewayTrust, bounds, history
<1>2. Task' = Task /\ Kind' = Kind  BY <1>1 DEF Task, Kind
<1>3. Types'  BY <1>1 DEF IInv, Types
<1>4. Position' /\ TokensAge'  BY <1>1, <1>2 DEF IInv, Position, TokensAge
<1>5. SavedIsCurrent' /\ Progress' /\ RecordsAreDurable' /\ UnblockedIsDecided'
  BY <1>1, <1>2, SameWork DEF IInv
<1>6. EnrolmentsMeetDecidedKeys'
  <2>1. Enrolling' \subseteq Enrolling \cup {id}  BY <1>1 DEF Enrolling
  <2>2. AtWork({"approve", "recover"})' <=> AtWork({"approve", "recover"})
    BY <1>1, <1>2 DEF AtWork
  <2>3. ASSUME AtWork({"approve", "recover"}), Task.id = id
        PROVE  saved.store.keys[id] = None
    <3>1. Task.pairing \in Pairing /\ store.keys[id] \in {saved.store.keys[id], Task.pairing.host}
      BY <2>3 DEF IInv, SavedIsCurrent
    <3>2. Task.pairing.host \in Hosts  BY <3>1 DEF Pairing
    <3>3. QED  BY <1>1, <3>1, <3>2, NoneIsNoHost
  <2>4. ASSUME NEW x \in Enrolling' \ exposed'
        PROVE  IF AtWork({"approve", "recover"})' /\ Task'.id = x
               THEN saved'.store.keys[x] \in {None, saved'.decided[x]}
               ELSE store'.keys[x] \in {None, decided'[x]}
    <3>1. CASE x = id  BY <1>1, <1>2, <2>2, <2>3, <3>1
    <3>2. CASE x \in Enrolling
      BY <1>1, <1>2, <2>2, <2>4, <3>2 DEF IInv, EnrolmentsMeetDecidedKeys
    <3>3. QED  BY <2>1, <2>4, <3>1, <3>2
  <2>5. QED  BY <2>4 DEF EnrolmentsMeetDecidedKeys
<1>7. QED  BY <1>3, <1>4, <1>5, <1>6 DEF IInv

-------------------------------------------------------------------------------
(* A task begins, or ends. *)

\* What holds of the queue and of the task at work once the first task ended.
LEMMA EndKeeps ==
    ASSUME IInv, up, queue # <<>>, Done, UNCHANGED <<up, generations, checked>>
    PROVE  /\ queue' \in Seq(Tasks) /\ Position' /\ SavedIsCurrent' /\ Progress'
           /\ TokensAge' /\ Enrolling' \subseteq Enrolling
<1>1. queue \in Seq(Tasks)  BY DEF IInv, Types
<1>2. queue' = Tail(queue) /\ flight' = "idle" /\ step' = 0  BY DEF Done
<1>3. /\ queue' \in Seq(Tasks) /\ Len(queue) \in Nat /\ Len(queue') = Len(queue) - 1
      /\ \A i \in 1..Len(queue') : i + 1 \in 1..Len(queue) /\ queue'[i] = queue[i + 1]
  BY <1>1, <1>2, Left
<1>4. SavedIsCurrent' /\ Progress'
  BY <1>2 DEF SavedIsCurrent, Progress, ApproveProgress, RecoverProgress, TrustProgress,
              RevokeProgress, AtWork
<1>5. Position'
  <2>1. ASSUME NEW i \in 1..Len(queue')  PROVE queue'[i].kind # "recover"
    <3>1. i + 1 \in 1..Len(queue) /\ i + 1 # 1  BY <1>3
    <3>2. queue[i + 1].kind # "recover"  BY <3>1 DEF IInv, Position
    <3>3. QED  BY <1>3, <3>2
  <2>2. QED  BY <1>2, <2>1 DEF Position
<1>6. TokensAge'
  <2>1. \A i \in 1..Len(queue') : queue'[i].token <= generations'[queue'[i].id]
    BY <1>3 DEF IInv, TokensAge
  <2>2. ASSUME NEW i \in 1..Len(queue'), NEW k \in 1..Len(queue'), i < k,
               queue'[i].id = queue'[k].id, queue'[k].kind \in {"reject", "revoke", "trust"}
        PROVE  queue'[i].token < generations'[queue'[i].id]
    <3>1. i + 1 \in 1..Len(queue) /\ k + 1 \in 1..Len(queue) /\ i + 1 < k + 1  BY <1>3, <2>2
    <3>2. queue'[i] = queue[i + 1] /\ queue'[k] = queue[k + 1]  BY <1>3
    <3>3. queue[i + 1].token < generations[queue[i + 1].id]
      BY <2>2, <3>1, <3>2 DEF IInv, TokensAge
    <3>4. QED  BY <3>2, <3>3
  <2>3. QED  BY <2>1, <2>2 DEF TokensAge
<1>7. Enrolling' \subseteq Enrolling  BY <1>3 DEF Enrolling
<1>8. QED  BY <1>3, <1>4, <1>5, <1>6, <1>7

\* The listener drops a gateway.
LEMMA Dropped ==
    ASSUME Types, NEW id \in Ids, RevokeInListener(id)
    PROVE  /\ records' \in Trusts /\ pending' \in [Ids -> Pairing \cup {None}]
           /\ live' \subseteq live
           /\ \A x \in live' : pending'[x] # None /\ records'[x] = None
           /\ records'[id] = None /\ \A x \in Ids \ {id} : records'[x] = records[x]
BY DEF Types, Trusts, RevokeInListener

\* The first task is at work.
LEMMA FirstAtWork ==
    ASSUME IInv, NEW f, Working(f)
    PROVE  /\ up /\ queue # <<>> /\ flight = f /\ queue \in Seq(Tasks)
           /\ Task \in Tasks /\ Task.id \in Ids /\ Kind = Task.kind /\ Kind \in Kinds
           /\ Task = queue[1] /\ 1 \in 1..Len(queue)
           /\ f # "idle" => step \in 1..Len(Program(Kind))
           /\ f = "idle" => Kind # "recover"
<1>1. up /\ queue # <<>> /\ flight = f  BY DEF Working
<1>2. queue \in Seq(Tasks)  BY DEF IInv, Types
<1>3. Task \in Tasks /\ Task = queue[1] /\ Kind = Task.kind /\ 1 \in 1..Len(queue)
  BY <1>1, <1>2, FirstTask
<1>4. f # "idle" => step \in 1..Len(Program(Kind))  BY <1>1 DEF IInv, Position
<1>5. f = "idle" => Kind # "recover"  BY <1>1, <1>3 DEF IInv, Position
<1>6. Task.id \in Ids /\ Kind \in Kinds  BY <1>3 DEF Tasks
<1>7. QED  BY <1>1, <1>2, <1>3, <1>4, <1>5, <1>6

LEMMA SkipKeeps ==
    ASSUME IInv, Skip
    PROVE  IInv'
<1>1. /\ Working("idle") /\ Done
      /\ UNCHANGED <<up, challenges, store, generations, records, pending, live,
                     checked, decided, exposed>>
  BY DEF Skip, bounds, history
<1>2. up /\ queue # <<>> /\ flight = "idle"  BY <1>1, FirstAtWork
<1>3. /\ queue' \in Seq(Tasks) /\ Position' /\ SavedIsCurrent' /\ Progress'
      /\ TokensAge' /\ Enrolling' \subseteq Enrolling
  BY <1>1, <1>2, EndKeeps
<1>4. flight' = "idle"  BY <1>1 DEF Done
<1>5. Types'  BY <1>1, <1>3, <1>4 DEF IInv, Types
<1>6. EnrolmentsMeetDecidedKeys'
  BY <1>1, <1>2, <1>3, <1>4 DEF IInv, EnrolmentsMeetDecidedKeys, AtWork
<1>7. RecordsAreDurable' /\ UnblockedIsDecided'
  BY <1>1, <1>2 DEF IInv, RecordsAreDurable, UnblockedIsDecided, AtWork
<1>8. QED  BY <1>3, <1>5, <1>6, <1>7 DEF IInv

\* An approval begins with the request it found, and remembers the store; another
\* task begins as it was.
LEMMA BeginKeeps ==
    ASSUME IInv, Begin
    PROVE  IInv'
<1>1. /\ Working("idle") /\ MayBegin(Task) /\ step' = 1 /\ flight' = "sent"
      /\ UNCHANGED <<up, challenges, store, generations, records, pending, live, checked,
                     decided, exposed>>
  BY DEF Begin, bounds, history
<1>2. /\ up /\ queue # <<>> /\ flight = "idle" /\ queue \in Seq(Tasks) /\ 1 \in 1..Len(queue)
      /\ Task \in Tasks /\ Task.id \in Ids /\ Kind = Task.kind /\ Kind \in Kinds \ {"recover"}
      /\ Task = queue[1]
  BY <1>1, FirstAtWork
<1>3. Kind = "approve" => /\ pending[Task.id] \in Pairing /\ records[Task.id] = None
                          /\ saved' = [store |-> store, decided |-> decided]
  <2>1. ASSUME Kind = "approve"
        PROVE  pending[Task.id] # None /\ Task.id \in live /\ saved' = [store |-> store, decided |-> decided]
    BY <1>1, <1>2, <2>1 DEF Begin, MayBegin, Approvable
  <2>2. QED  BY <1>2, <2>1 DEF IInv, Types
<1>4. PICK t \in Tasks :
         /\ queue' = [queue EXCEPT ![1] = t]
         /\ t.kind = Kind /\ t.id = Task.id /\ t.token = Task.token
         /\ Kind = "approve" => t.pairing = pending[Task.id]
  <2>1. CASE Kind = "approve"
    <3>1. queue' = [queue EXCEPT ![1].pairing = pending[Task.id]]  BY <1>1, <2>1 DEF Begin
    <3>2. [Task EXCEPT !.pairing = pending[Task.id]] \in Tasks  BY <1>2, <1>3, <2>1 DEF Tasks
    <3>3. queue' = [queue EXCEPT ![1] = [Task EXCEPT !.pairing = pending[Task.id]]]
      BY <1>2, <3>1
    <3>4. QED  BY <1>2, <3>2, <3>3 DEF Tasks
  <2>2. CASE Kind # "approve"
    <3>1. queue' = queue  BY <1>1, <2>2 DEF Begin
    <3>2. queue' = [queue EXCEPT ![1] = Task]  BY <1>2, <3>1
    <3>3. QED  BY <1>2, <2>2, <3>2
  <2>3. QED  BY <2>1, <2>2
<1>5. /\ queue' \in Seq(Tasks) /\ Len(queue) \in Nat /\ Len(queue') = Len(queue)
      /\ queue' # <<>> /\ queue'[1] = t /\ Task' = t /\ Kind' = t.kind
      /\ \A i \in 1..Len(queue) : i # 1 => queue'[i] = queue[i]
      /\ \A i \in 1..Len(queue) : queue[i] \in Tasks
  BY <1>2, <1>4, Turned
<1>6. \A i \in 1..Len(queue) : /\ queue'[i].kind = queue[i].kind /\ queue'[i].id = queue[i].id
                               /\ queue'[i].token = queue[i].token
  BY <1>2, <1>4, <1>5
<1>7. Types'  BY <1>1, <1>5 DEF IInv, Types
<1>8. Position'
  <2>1. step' \in 1..Len(Program(Kind'))  BY <1>1, <1>2, <1>4, <1>5, Programs DEF Kinds
  <2>2. \A i \in 1..Len(queue') : queue'[i].kind # "recover"
    BY <1>2, <1>5, <1>6 DEF IInv, Position
  <2>3. QED  BY <1>1, <1>2, <1>5, <2>1, <2>2 DEF Position
<1>9. TokensAge'  BY <1>1, <1>5, <1>6 DEF IInv, TokensAge
<1>10. SavedIsCurrent' /\ Progress'
  <2>1. Landed' = 0  BY <1>1 DEF Landed
  <2>2. SavedIsCurrent'
    <3>1. SUFFICES ASSUME Kind = "approve"  PROVE SavedIsCurrent'
      BY <1>2, <1>4, <1>5 DEF SavedIsCurrent, AtWork
    <3>2. saved' \in [store : Store, decided : Trusts]  BY <1>3, <3>1 DEF IInv, Types
    <3>3. saved'.store = store /\ saved'.decided = decided  BY <1>3, <3>1
    <3>4. Task'.pairing \in Pairing /\ records'[Task'.id] = None
      BY <1>1, <1>3, <1>4, <1>5, <3>1
    <3>5. QED  BY <1>1, <3>2, <3>3, <3>4 DEF SavedIsCurrent
  <2>3. ApproveProgress'
    BY <1>1, <1>3, <1>4, <1>5, <2>1 DEF ApproveProgress, AtWork
  <2>4. RecoverProgress' /\ TrustProgress' /\ RevokeProgress'
    BY <1>1, <1>2, <1>4, <1>5, <2>1 DEF RecoverProgress, TrustProgress, RevokeProgress, AtWork
  <2>5. QED  BY <2>2, <2>3, <2>4 DEF Progress
<1>11. EnrolmentsMeetDecidedKeys'
  <2>1. Enrolling' \subseteq Enrolling  BY <1>1, <1>5, <1>6 DEF Enrolling
  <2>2. \A id \in Enrolling \ exposed : store.keys[id] \in {None, decided[id]}
    BY <1>2 DEF IInv, EnrolmentsMeetDecidedKeys, AtWork
  <2>3. AtWork({"approve", "recover"})' => saved'.store = store /\ saved'.decided = decided
    BY <1>2, <1>3, <1>4, <1>5 DEF AtWork
  <2>4. QED  BY <1>1, <2>1, <2>2, <2>3 DEF EnrolmentsMeetDecidedKeys
<1>12. RecordsAreDurable' /\ UnblockedIsDecided'
  BY <1>1, <1>2 DEF IInv, RecordsAreDurable, UnblockedIsDecided, AtWork
<1>13. QED  BY <1>7, <1>8, <1>9, <1>10, <1>11, <1>12 DEF IInv

\* A write before the first one landed fails: the task ends and changed nothing.
LEMMA GiveUpKeeps ==
    ASSUME IInv, GiveUp
    PROVE  IInv'
<1>1. /\ Working("sent") /\ Done /\ (Kind = "approve" => step = 1) /\ Kind # "recover"
      /\ UNCHANGED <<up, challenges, store, generations, records, pending, live,
                     checked, decided, exposed>>
  BY DEF GiveUp, WriteThrows, history
<1>2. up /\ queue # <<>> /\ flight = "sent" /\ Task.id \in Ids  BY <1>1, FirstAtWork
<1>3. /\ queue' \in Seq(Tasks) /\ Position' /\ SavedIsCurrent' /\ Progress'
      /\ TokensAge' /\ Enrolling' \subseteq Enrolling
  BY <1>1, <1>2, EndKeeps
<1>4. flight' = "idle"  BY <1>1 DEF Done
<1>5. Types'  BY <1>1, <1>3, <1>4 DEF IInv, Types
<1>6. ASSUME NEW id \in Enrolling \ exposed  PROVE store.keys[id] \in {None, decided[id]}
  <2>1. CASE AtWork({"approve", "recover"}) /\ Task.id = id
    <3>1. saved.store.keys[id] \in {None, saved.decided[id]}
      BY <1>6, <2>1 DEF IInv, EnrolmentsMeetDecidedKeys
    <3>2. AtWork({"approve"}) /\ step = 1  BY <1>1, <2>1 DEF AtWork
    <3>3. Landed = 0  BY <1>2, <3>2 DEF Landed
    <3>4. ApproveProgress  BY DEF IInv, Progress
    <3>5. store.keys[id] = saved.store.keys[id] /\ decided[id] = saved.decided[id]
      BY <2>1, <3>2, <3>3, <3>4 DEF ApproveProgress
    <3>6. QED  BY <3>1, <3>5
  <2>2. CASE ~(AtWork({"approve", "recover"}) /\ Task.id = id)
    BY <1>6, <2>2 DEF IInv, EnrolmentsMeetDecidedKeys
  <2>3. QED  BY <2>1, <2>2
<1>7. EnrolmentsMeetDecidedKeys'
  BY <1>1, <1>3, <1>4, <1>6 DEF EnrolmentsMeetDecidedKeys, AtWork
<1>8. RecordsAreDurable' /\ UnblockedIsDecided'
  BY <1>1, <1>2 DEF IInv, RecordsAreDurable, UnblockedIsDecided, AtWork
<1>9. QED  BY <1>3, <1>5, <1>7, <1>8 DEF IInv

\* The rollback is cut short: the gateway is dropped, and may be admitted again.
LEMMA RecoverPartlyKeeps ==
    ASSUME IInv, RecoverPartly
    PROVE  IInv'
<1>1. /\ Working("sent") /\ Done /\ Kind = "recover" /\ RevokeInListener(Task.id)
      /\ exposed' = exposed \cup {Task.id}
      /\ decided' = [decided EXCEPT ![Task.id] = None]
      /\ UNCHANGED <<up, challenges, store, generations, checked>>
  BY DEF RecoverPartly, WriteThrows
<1>2. up /\ queue # <<>> /\ flight = "sent" /\ Task.id \in Ids  BY <1>1, FirstAtWork
<1>3. /\ queue' \in Seq(Tasks) /\ Position' /\ SavedIsCurrent' /\ Progress'
      /\ TokensAge' /\ Enrolling' \subseteq Enrolling
  BY <1>1, <1>2, EndKeeps
<1>4. flight' = "idle"  BY <1>1 DEF Done
<1>5. /\ records' \in Trusts /\ pending' \in [Ids -> Pairing \cup {None}] /\ live' \subseteq live
      /\ \A x \in live' : pending'[x] # None /\ records'[x] = None
      /\ records'[Task.id] = None /\ \A x \in Ids \ {Task.id} : records'[x] = records[x]
  BY <1>1, <1>2, Dropped DEF IInv
<1>6. decided' \in Trusts  BY <1>1 DEF IInv, Types, Trusts
<1>7. Types'  BY <1>1, <1>3, <1>4, <1>5, <1>6 DEF IInv, Types
<1>8. \A id \in Ids \ {Task.id} : decided'[id] = decided[id]  BY <1>1 DEF IInv, Types, Trusts
<1>9. Enrolling \subseteq Ids
  <2>1. \A i \in 1..Len(queue) : queue[i] \in Tasks  BY ElementOfSeq DEF IInv, Types
  <2>2. QED  BY <2>1 DEF IInv, Types, Enrolling, Tasks
<1>10. EnrolmentsMeetDecidedKeys'
  BY <1>1, <1>3, <1>4, <1>8, <1>9 DEF IInv, EnrolmentsMeetDecidedKeys, AtWork
<1>11. RecordsAreDurable'
  BY <1>1, <1>4, <1>5 DEF IInv, RecordsAreDurable, AtWork
<1>12. UnblockedIsDecided'
  BY <1>1, <1>8 DEF IInv, UnblockedIsDecided
<1>13. QED  BY <1>3, <1>7, <1>10, <1>11, <1>12 DEF IInv

\* Every write of the approval is durable when the listener honours its key.
LEMMA CommitKeeps ==
    ASSUME IInv, Commit
    PROVE  IInv'
<1>1. /\ Working("back") /\ Done /\ Kind = "approve" /\ step = Len(Program("approve"))
      /\ records' = [records EXCEPT ![Task.id] = Task.pairing.host]
      /\ pending' = [pending EXCEPT ![Task.id] = None]
      /\ live' = live \ {Task.id}
      /\ UNCHANGED <<up, challenges, store, generations, checked, decided, exposed>>
  BY DEF Commit, Last, bounds, history
<1>2. up /\ queue # <<>> /\ flight = "back" /\ Task.id \in Ids  BY <1>1, FirstAtWork
<1>3. /\ queue' \in Seq(Tasks) /\ Position' /\ SavedIsCurrent' /\ Progress'
      /\ TokensAge' /\ Enrolling' \subseteq Enrolling
  BY <1>1, <1>2, EndKeeps
<1>4. flight' = "idle"  BY <1>1 DEF Done
<1>5. AtWork({"approve"}) /\ AtWork({"approve", "recover"}) /\ Landed = 5
  BY <1>1, <1>2, Programs DEF AtWork, Landed
<1>6. /\ store.keys[Task.id] = Task.pairing.host /\ Task.id \in store.gateways
      /\ Task.id \notin store.intents /\ decided[Task.id] = Task.pairing.host
  BY <1>5 DEF IInv, Progress, ApproveProgress
<1>7. Task.pairing.host \in Hosts /\ Task.pairing.host # None
  <2>1. Task.pairing \in Pairing  BY <1>5 DEF IInv, SavedIsCurrent
  <2>2. QED  BY <2>1, NoneIsNoHost DEF Pairing
<1>8. Admits(store, Task.id) = Task.pairing.host  BY <1>6, <1>7 DEF Admits
<1>9. Types'
  <2>1. records' \in Trusts  BY <1>1, <1>7 DEF IInv, Types, Trusts, Credentials
  <2>2. pending' \in [Ids -> Pairing \cup {None}]  BY <1>1 DEF IInv, Types
  <2>3. live' \subseteq Ids /\ \A id \in live' : pending'[id] # None /\ records'[id] = None
    BY <1>1 DEF IInv, Types, Trusts
  <2>4. QED  BY <1>1, <1>3, <1>4, <2>1, <2>2, <2>3 DEF IInv, Types
<1>10. EnrolmentsMeetDecidedKeys'
  <2>1. ASSUME NEW id \in Enrolling \ exposed  PROVE store.keys[id] \in {None, decided[id]}
    BY <1>6, <2>1 DEF IInv, EnrolmentsMeetDecidedKeys
  <2>2. QED  BY <1>1, <1>3, <1>4, <2>1 DEF EnrolmentsMeetDecidedKeys, AtWork
<1>11. RecordsAreDurable'
  <2>1. \A id \in Ids \ {Task.id} : records'[id] = records[id]
    BY <1>1 DEF IInv, Types, Trusts
  <2>2. records'[Task.id] = Task.pairing.host  BY <1>1, <1>2 DEF IInv, Types, Trusts
  <2>3. \A id \in Ids : records[id] \in {None, Admits(store, id)}
    BY <1>1 DEF IInv, RecordsAreDurable, AtWork
  <2>4. QED  BY <1>1, <1>8, <2>1, <2>2, <2>3 DEF RecordsAreDurable
<1>12. UnblockedIsDecided'  BY <1>1 DEF IInv, UnblockedIsDecided
<1>13. QED  BY <1>3, <1>9, <1>10, <1>11, <1>12 DEF IInv

\* A recovery has restored the key and the decision; a revocation and an
\* enrolment have nothing left to do.
LEMMA FinishKeeps ==
    ASSUME IInv, Finish
    PROVE  IInv'
<1>1. /\ Working("back") /\ Done /\ Kind # "approve" /\ step = Len(Program(Kind))
      /\ UNCHANGED <<up, challenges, store, generations, checked, decided, exposed>>
  BY DEF Finish, Last, bounds, history
<1>2. up /\ queue # <<>> /\ flight = "back" /\ Task.id \in Ids /\ Kind \in Kinds
  BY <1>1, FirstAtWork
<1>3. /\ queue' \in Seq(Tasks) /\ Position' /\ SavedIsCurrent' /\ Progress'
      /\ TokensAge' /\ Enrolling' \subseteq Enrolling
  BY <1>1, <1>2, EndKeeps
<1>4. flight' = "idle"  BY <1>1 DEF Done
<1>5. /\ records' \in Trusts /\ pending' \in [Ids -> Pairing \cup {None}] /\ live' \subseteq live
      /\ \A x \in live' : pending'[x] # None /\ records'[x] = None
      /\ \A x \in Ids : records'[x] \in {None, records[x]}
  <2>1. CASE Kind = "recover"
    <3>1. RevokeInListener(Task.id)  BY <2>1 DEF Finish
    <3>2. QED  BY <1>2, <3>1, Dropped DEF IInv
  <2>2. CASE Kind = "reject"
    <3>1. /\ pending' = [pending EXCEPT ![Task.id] = None] /\ records' = records
          /\ live' = IF pending[Task.id] = None THEN live ELSE live \ {Task.id}
      BY <2>2 DEF Finish
    <3>2. QED  BY <3>1 DEF IInv, Types
  <2>3. CASE Kind \notin {"recover", "reject"}
    <3>1. UNCHANGED <<records, pending, live>>  BY <2>3 DEF Finish
    <3>2. QED  BY <3>1 DEF IInv, Types
  <2>4. QED  BY <2>1, <2>2, <2>3
<1>6. Types'  BY <1>1, <1>3, <1>4, <1>5 DEF IInv, Types
<1>7. ASSUME NEW id \in Enrolling \ exposed  PROVE store.keys[id] \in {None, decided[id]}
  <2>1. CASE AtWork({"approve", "recover"}) /\ Task.id = id
    <3>1. saved.store.keys[id] \in {None, saved.decided[id]}
      BY <1>7, <2>1 DEF IInv, EnrolmentsMeetDecidedKeys
    <3>2. AtWork({"recover"})  BY <1>1, <2>1 DEF AtWork
    <3>3. Landed = 4  BY <1>1, <1>2, <3>2, Programs DEF Landed, AtWork
    <3>4. RecoverProgress  BY DEF IInv, Progress
    <3>5. store.keys[id] = saved.store.keys[id] /\ decided[id] = saved.decided[id]
      BY <2>1, <3>2, <3>3, <3>4 DEF RecoverProgress
    <3>6. QED  BY <3>1, <3>5
  <2>2. CASE ~(AtWork({"approve", "recover"}) /\ Task.id = id)
    BY <1>7, <2>2 DEF IInv, EnrolmentsMeetDecidedKeys
  <2>3. QED  BY <2>1, <2>2
<1>8. EnrolmentsMeetDecidedKeys'
  BY <1>1, <1>3, <1>4, <1>7 DEF EnrolmentsMeetDecidedKeys, AtWork
<1>9. RecordsAreDurable'
  <2>1. ~(AtWork({"trust", "revoke"}) /\ step = 1)
    <3>1. CASE Kind = "trust"
      <4>1. step = 4  BY <1>1, <3>1, Programs
      <4>2. QED  BY <4>1
    <3>2. CASE Kind = "revoke"
      <4>1. step = 6  BY <1>1, <3>2, Programs
      <4>2. QED  BY <4>1
    <3>3. QED  BY <3>1, <3>2 DEF AtWork
  <2>2. \A id \in Ids : records[id] \in {None, Admits(store, id)}
    BY <2>1 DEF IInv, RecordsAreDurable
  <2>3. QED  BY <1>1, <1>5, <2>2 DEF RecordsAreDurable
<1>10. UnblockedIsDecided'  BY <1>1 DEF IInv, UnblockedIsDecided
<1>11. QED  BY <1>3, <1>6, <1>8, <1>9, <1>10 DEF IInv

-------------------------------------------------------------------------------
(* A task sends its next write. *)

\* The task at work stays the same one, or an approval turns into its rollback.
LEMMA SendKeeps ==
    ASSUME IInv, NEW f, f # "idle", Working(f), NEW kind \in Kinds, NEW n, n \in 1..Len(Program(kind)),
           Send(kind, n), kind = Kind \/ (Kind = "approve" /\ kind = "recover"),
           UNCHANGED <<up, store, saved, generations, checked, decided>>,
           exposed \subseteq exposed',
           \A id \in Ids : records'[id] \in {None, records[id]}
    PROVE  /\ queue' \in Seq(Tasks) /\ Position' /\ TokensAge'
           /\ Kind' = kind /\ Task'.id = Task.id /\ Task'.pairing = Task.pairing
           /\ flight' = "sent" /\ step' = n /\ Landed' = n - 1
           /\ SavedIsCurrent' /\ EnrolmentsMeetDecidedKeys' /\ UnblockedIsDecided'
<1>1. /\ up /\ queue # <<>> /\ flight = f /\ queue \in Seq(Tasks) /\ 1 \in 1..Len(queue)
      /\ Task \in Tasks /\ Task.id \in Ids /\ Kind = Task.kind /\ Task = queue[1]
  BY FirstAtWork
<1>2. /\ queue' = [queue EXCEPT ![1].kind = kind] /\ step' = n /\ flight' = "sent"
  BY DEF Send
<1>3. PICK t \in Tasks : /\ queue' = [queue EXCEPT ![1] = t] /\ t.kind = kind
                         /\ t.id = Task.id /\ t.token = Task.token /\ t.pairing = Task.pairing
  <2>1. queue' = [queue EXCEPT ![1] = [Task EXCEPT !.kind = kind]]  BY <1>1, <1>2
  <2>2. [Task EXCEPT !.kind = kind] \in Tasks  BY <1>1 DEF Tasks
  <2>3. QED  BY <1>1, <2>1, <2>2 DEF Tasks
<1>4. /\ queue' \in Seq(Tasks) /\ Len(queue) \in Nat /\ Len(queue') = Len(queue)
      /\ queue' # <<>> /\ queue'[1] = t /\ Task' = t /\ Kind' = t.kind
      /\ \A i \in 1..Len(queue) : i # 1 => queue'[i] = queue[i]
  BY <1>1, <1>3, Turned
<1>5. \A i \in 1..Len(queue) : /\ i # 1 => queue'[i].kind = queue[i].kind
                               /\ queue'[i].id = queue[i].id
                               /\ queue'[i].token = queue[i].token
  BY <1>1, <1>3, <1>4
<1>6. Kind' = kind /\ Task'.id = Task.id /\ Task'.pairing = Task.pairing  BY <1>3, <1>4
<1>7. Position'
  <2>1. \A i \in 1..Len(queue') : queue'[i].kind = "recover" => i = 1
    BY <1>4, <1>5 DEF IInv, Position
  <2>2. QED  BY <1>1, <1>2, <1>4, <1>6, <2>1 DEF Position
<1>8. TokensAge'
  <2>1. \A i \in 1..Len(queue') : queue'[i].token <= generations'[queue'[i].id]
    BY <1>4, <1>5 DEF IInv, TokensAge
  <2>2. ASSUME NEW i \in 1..Len(queue'), NEW k \in 1..Len(queue'), i < k,
               queue'[i].id = queue'[k].id, queue'[k].kind \in {"reject", "revoke", "trust"}
        PROVE  queue'[i].token < generations'[queue'[i].id]
    <3>1. i \in 1..Len(queue) /\ k \in 1..Len(queue) /\ k # 1  BY <1>4, <2>2
    <3>2. queue[i].token < generations[queue[i].id]
      BY <1>5, <2>2, <3>1 DEF IInv, TokensAge
    <3>3. QED  BY <1>5, <3>1, <3>2
  <2>3. QED  BY <2>1, <2>2 DEF TokensAge
<1>9. Landed' = n - 1  BY <1>2 DEF Landed
<1>10. AtWork({"approve", "recover"})' <=> AtWork({"approve", "recover"})
  BY <1>1, <1>2, <1>6 DEF AtWork
<1>11. SavedIsCurrent'
  BY <1>1, <1>6, <1>10 DEF IInv, SavedIsCurrent
<1>12. Enrolling' \subseteq Enrolling
  <2>1. \A i \in 1..Len(queue') : queue'[i].kind = "trust" =>
           queue[i].kind = "trust" /\ queue'[i].id = queue[i].id
    <3>1. Len(queue') = Len(queue)  BY <1>4
    <3>2. ASSUME NEW i \in 1..Len(queue'), queue'[i].kind = "trust"
          PROVE  queue[i].kind = "trust" /\ queue'[i].id = queue[i].id
      <4>1. i \in 1..Len(queue) /\ queue'[i].id = queue[i].id  BY <1>5, <3>1
      <4>2. CASE i = 1
        <5>1. kind = "trust"  BY <1>3, <1>4, <3>2, <4>2
        <5>2. Kind = "trust"  BY <5>1
        <5>3. QED  BY <1>1, <4>1, <4>2, <5>2
      <4>3. CASE i # 1  BY <1>5, <3>2, <4>1, <4>3
      <4>4. QED  BY <4>2, <4>3
    <3>3. QED  BY <3>2
  <2>2. QED  BY <1>4, <2>1 DEF Enrolling
<1>13. EnrolmentsMeetDecidedKeys'
  BY <1>6, <1>10, <1>12 DEF IInv, EnrolmentsMeetDecidedKeys
<1>14. UnblockedIsDecided'  BY DEF IInv, UnblockedIsDecided
<1>15. QED  BY <1>2, <1>4, <1>6, <1>7, <1>8, <1>9, <1>11, <1>13, <1>14

\* An approval is rolled back: a write failed, or it no longer stands.
LEMMA RollbackKeeps ==
    ASSUME IInv, NEW f, f # "idle", Working(f), Kind = "approve", Send("recover", 1),
           UNCHANGED <<up, challenges, store, saved, generations, records, pending, live,
                       checked, decided, exposed>>
    PROVE  IInv'
<1>1. 1 \in 1..Len(Program("recover"))  BY Programs
<1>2. \A id \in Ids : records'[id] \in {None, records[id]}  OBVIOUS
<1>3. /\ queue' \in Seq(Tasks) /\ Position' /\ TokensAge'
      /\ Kind' = "recover" /\ Task'.id = Task.id /\ Task'.pairing = Task.pairing
      /\ flight' = "sent" /\ step' = 1 /\ Landed' = 1 - 1
      /\ SavedIsCurrent' /\ EnrolmentsMeetDecidedKeys' /\ UnblockedIsDecided'
  BY <1>1, <1>2, SendKeeps DEF Kinds
<1>4. Types'  BY <1>3 DEF IInv, Types
<1>5. Progress'
  BY <1>3 DEF Progress, ApproveProgress, RecoverProgress, TrustProgress, RevokeProgress, AtWork
<1>6. RecordsAreDurable'  BY DEF IInv, RecordsAreDurable, AtWork
<1>7. QED  BY <1>3, <1>4, <1>5, <1>6 DEF IInv

LEMMA RecoverKeeps ==
    ASSUME IInv, Recover
    PROVE  IInv'
<1>1. /\ Working("sent") /\ Kind = "approve" /\ Send("recover", 1)
      /\ UNCHANGED <<up, challenges, store, saved, generations, records, pending, live,
                     checked, decided, exposed>>
  BY DEF Recover, WriteThrows, history
<1>2. QED  BY <1>1, RollbackKeeps

LEMMA CommitRefusedKeeps ==
    ASSUME IInv, CommitRefused
    PROVE  IInv'
<1>1. /\ Working("back") /\ Kind = "approve" /\ Send("recover", 1)
      /\ UNCHANGED <<up, challenges, store, saved, generations, records, pending, live,
                     checked, decided, exposed>>
  BY DEF CommitRefused, bounds, history
<1>2. QED  BY <1>1, RollbackKeeps

\* A rollback that could not set its intent again leaves its gateway exposed.
LEMMA RecoverUnblockedKeeps ==
    ASSUME IInv, RecoverUnblocked
    PROVE  IInv'
<1>1. /\ Working("sent") /\ Kind = "recover" /\ step = 1 /\ Send("recover", 2)
      /\ exposed' = exposed \cup {Task.id}
      /\ UNCHANGED <<up, challenges, store, saved, generations, records, pending, live,
                     checked, decided>>
  BY DEF RecoverUnblocked, WriteThrows
<1>2. 2 \in 1..Len(Program("recover"))  BY Programs
<1>3. \A id \in Ids : records'[id] \in {None, records[id]}  BY <1>1
<1>4. /\ queue' \in Seq(Tasks) /\ Position' /\ TokensAge'
      /\ Kind' = "recover" /\ Task'.id = Task.id /\ Task'.pairing = Task.pairing
      /\ flight' = "sent" /\ step' = 2 /\ Landed' = 2 - 1
      /\ SavedIsCurrent' /\ EnrolmentsMeetDecidedKeys' /\ UnblockedIsDecided'
  BY <1>1, <1>2, <1>3, SendKeeps DEF Kinds
<1>5. Types'  BY <1>1, <1>4 DEF IInv, Types
<1>6. Progress'
  <2>1. RecoverProgress'  BY <1>1, <1>4 DEF RecoverProgress
  <2>2. QED  BY <1>4, <2>1 DEF Progress, ApproveProgress, TrustProgress, RevokeProgress, AtWork
<1>7. RecordsAreDurable'  BY <1>1 DEF IInv, RecordsAreDurable, AtWork
<1>8. QED  BY <1>4, <1>5, <1>6, <1>7 DEF IInv

\* The next write of the same task, the last one having returned.
LEMMA NextWriteKeeps ==
    ASSUME IInv, NextWrite
    PROVE  IInv'
<1>1. /\ Working("back") /\ step # Len(Program(Kind))
      /\ UNCHANGED <<up, challenges, store, saved, generations, checked, decided, exposed>>
  BY DEF NextWrite, Last, bounds, history
<1>2. /\ up /\ queue # <<>> /\ flight = "back" /\ Task.id \in Ids /\ Kind \in Kinds
      /\ step \in 1..Len(Program(Kind))
  BY <1>1, FirstAtWork
<1>3. CASE Kind = "approve" /\ Send("recover", 1)
  <2>1. UNCHANGED <<records, pending, live>>  BY <1>3 DEF NextWrite
  <2>2. QED  BY <1>1, <1>3, <2>1, RollbackKeeps
<1>4. CASE Send(Kind, step + 1)
  <2>1. Len(Program(Kind)) \in Nat  BY <1>2, Programs DEF Kinds
  <2>2. step \in Nat /\ step + 1 \in 1..Len(Program(Kind))  BY <1>1, <1>2, <2>1
  <2>3. /\ records' \in Trusts /\ pending' \in [Ids -> Pairing \cup {None}] /\ live' \subseteq live
        /\ \A x \in live' : pending'[x] # None /\ records'[x] = None
        /\ \A x \in Ids : records'[x] \in {None, records[x]}
        /\ Kind \in {"trust", "revoke"} /\ step = 1 => records'[Task.id] = None
    <3>1. CASE Kind \in {"trust", "revoke"} /\ step = 1
      <4>1. RevokeInListener(Task.id)  BY <3>1 DEF NextWrite
      <4>2. QED  BY <1>2, <4>1, Dropped DEF IInv
    <3>2. CASE ~(Kind \in {"trust", "revoke"} /\ step = 1)
      <4>1. UNCHANGED <<records, pending, live>>  BY <3>2 DEF NextWrite
      <4>2. QED  BY <3>2, <4>1 DEF IInv, Types
    <3>3. QED  BY <3>1, <3>2
  <2>4. /\ queue' \in Seq(Tasks) /\ Position' /\ TokensAge'
        /\ Kind' = Kind /\ Task'.id = Task.id /\ Task'.pairing = Task.pairing
        /\ flight' = "sent" /\ step' = step + 1 /\ Landed' = step
        /\ SavedIsCurrent' /\ EnrolmentsMeetDecidedKeys' /\ UnblockedIsDecided'
    <3>1. \A id \in Ids : records'[id] \in {None, records[id]}  BY <2>3
    <3>2. exposed \subseteq exposed'  BY <1>1
    <3>3. PICK kind, n : kind \in Kinds /\ kind = Kind /\ n = step + 1  BY <1>2
    <3>4. n \in 1..Len(Program(kind)) /\ Send(kind, n)  BY <1>4, <2>2, <3>3
    <3>5. /\ queue' \in Seq(Tasks) /\ Position' /\ TokensAge'
          /\ Kind' = kind /\ Task'.id = Task.id /\ Task'.pairing = Task.pairing
          /\ flight' = "sent" /\ step' = n /\ Landed' = n - 1
          /\ SavedIsCurrent' /\ EnrolmentsMeetDecidedKeys' /\ UnblockedIsDecided'
      BY <1>1, <3>1, <3>2, <3>3, <3>4, SendKeeps
    <3>6. step' = step + 1 /\ Landed' = step
      <4>1. step' = n /\ Landed' = n - 1  BY <3>5
      <4>2. QED  BY <2>2, <3>3, <4>1
    <3>7. Kind' = Kind  BY <3>3, <3>5
    <3>8. QED  BY <3>5, <3>6, <3>7
  <2>5. Types'  BY <1>1, <2>3, <2>4 DEF IInv, Types
  <2>6. Landed = step /\ Landed' = step  BY <1>2, <2>4 DEF Landed
  <2>7. Progress'
    <3>1. \A ks : AtWork(ks)' <=> AtWork(ks)  BY <1>2, <2>4 DEF AtWork
    <3>2. ApproveProgress'
      BY <1>1, <2>4, <2>6, <3>1 DEF IInv, Progress, ApproveProgress
    <3>3. RecoverProgress'
      BY <1>1, <1>2, <2>2, <2>4, <2>6, <3>1 DEF IInv, Progress, RecoverProgress
    <3>4. TrustProgress'
      <4>1. SUFFICES ASSUME AtWork({"trust"})  PROVE TrustProgress'
        BY <3>1 DEF TrustProgress
      <4>2. records'[Task.id] = None
        <5>1. CASE step = 1  BY <2>3, <4>1, <5>1 DEF AtWork
        <5>2. CASE step >= 2
          <6>1. records[Task.id] = None  BY <4>1, <5>2 DEF IInv, Progress, TrustProgress
          <6>2. QED  BY <1>2, <2>3, <6>1
        <5>3. QED  BY <1>2, <2>2, <5>1, <5>2
      <4>3. QED  BY <1>1, <2>4, <2>6, <4>1, <4>2 DEF IInv, Progress, TrustProgress
    <3>5. RevokeProgress'
      <4>1. SUFFICES ASSUME AtWork({"revoke"})  PROVE RevokeProgress'
        BY <3>1 DEF RevokeProgress
      <4>2. records'[Task.id] = None
        <5>1. CASE step = 1  BY <2>3, <4>1, <5>1 DEF AtWork
        <5>2. CASE step >= 2
          <6>1. records[Task.id] = None  BY <4>1, <5>2 DEF IInv, Progress, RevokeProgress
          <6>2. QED  BY <1>2, <2>3, <6>1
        <5>3. QED  BY <1>2, <2>2, <5>1, <5>2
      <4>3. QED  BY <1>1, <2>4, <2>6, <4>1, <4>2 DEF IInv, Progress, RevokeProgress
    <3>6. QED  BY <3>2, <3>3, <3>4, <3>5 DEF Progress
  <2>8. RecordsAreDurable'
    <3>1. SUFFICES ASSUME NEW id \in Ids
                   PROVE  records'[id] \in {None, Admits(store', id)}
      BY DEF RecordsAreDurable
    <3>2. CASE records[id] \in {None, Admits(store, id)}  BY <1>1, <2>3, <3>2
    <3>3. CASE AtWork({"trust", "revoke"}) /\ step = 1 /\ Task.id = id
      BY <2>3, <3>3 DEF AtWork
    <3>4. QED  BY <3>2, <3>3 DEF IInv, RecordsAreDurable
  <2>9. QED  BY <2>4, <2>5, <2>7, <2>8 DEF IInv
<1>5. QED  BY <1>3, <1>4 DEF NextWrite

-------------------------------------------------------------------------------
(* A write becomes durable. *)

\* Which write of which task it can be.
LEMMA WriteOf ==
    ASSUME Kind \in Kinds, step \in 1..Len(Program(Kind))
    PROVE  /\ Kind = "ask" => Write = "ask"
           /\ Kind = "reject" => Write = "unask"
           /\ Kind = "approve" => \/ step = 1 /\ Write = "intend"
                                  \/ step = 2 /\ Write = "key"
                                  \/ step = 3 /\ Write = "list"
                                  \/ step = 4 /\ Write = "unask"
                                  \/ step = 5 /\ Write = "release"
           /\ Kind = "recover" => \/ step = 1 /\ Write = "intend"
                                  \/ step = 2 /\ Write = "oldKey"
                                  \/ step = 3 /\ Write = "oldList"
                                  \/ step = 4 /\ Write = "oldPairings"
           /\ Kind = "trust" => \/ step = 1 /\ Write = "intend"
                                \/ step = 2 /\ Write = "secret"
                                \/ step = 3 /\ Write = "list"
                                \/ step = 4 /\ Write = "release"
           /\ Kind = "revoke" => \/ step = 1 /\ Write = "intend"
                                 \/ step = 2 /\ Write = "unlist"
                                 \/ step = 3 /\ Write = "unask"
                                 \/ step = 4 /\ Write = "noSecret"
                                 \/ step = 5 /\ Write = "noKey"
                                 \/ step = 6 /\ Write = "release"
<1>1. CASE Kind \in {"ask", "reject"}  BY <1>1, Programs DEF Write
<1>2. CASE Kind = "approve"
  <2>1. step \in 1..5  BY <1>2, Programs
  <2>2. step = 1 \/ step = 2 \/ step = 3 \/ step = 4 \/ step = 5  BY <2>1
  <2>3. QED  BY <1>2, <2>2, Programs DEF Write
<1>3. CASE Kind = "recover"
  <2>1. step \in 1..4  BY <1>3, Programs
  <2>2. step = 1 \/ step = 2 \/ step = 3 \/ step = 4  BY <2>1
  <2>3. QED  BY <1>3, <2>2, Programs DEF Write
<1>4. CASE Kind = "trust"
  <2>1. step \in 1..4  BY <1>4, Programs
  <2>2. step = 1 \/ step = 2 \/ step = 3 \/ step = 4  BY <2>1
  <2>3. QED  BY <1>4, <2>2, Programs DEF Write
<1>5. CASE Kind = "revoke"
  <2>1. step \in 1..6  BY <1>5, Programs
  <2>2. step = 1 \/ step = 2 \/ step = 3 \/ step = 4 \/ step = 5 \/ step = 6  BY <2>1
  <2>3. QED  BY <1>5, <2>2, Programs DEF Write
<1>6. QED  BY <1>1, <1>2, <1>3, <1>4, <1>5 DEF Kinds

\* What a write changes, and where.
LEMMA Lands ==
    ASSUME IInv, WriteLands
    PROVE  /\ up /\ queue # <<>> /\ flight = "sent" /\ flight' = "back"
           /\ Task.id \in Ids /\ Kind \in Kinds /\ step \in 1..Len(Program(Kind))
           /\ Task' = Task /\ Kind' = Kind
           /\ UNCHANGED <<up, challenges, queue, step, saved, generations, records, pending,
                          live, checked>>
           /\ store' \in Store /\ decided' \in Trusts
           /\ store'.intents = IF Write = "intend" THEN store.intents \cup {Task.id}
                               ELSE IF Write = "release" THEN store.intents \ {Task.id}
                               ELSE store.intents
           /\ store'.secrets = IF Write = "secret" THEN store.secrets \cup {Task.id}
                               ELSE IF Write = "noSecret" THEN store.secrets \ {Task.id}
                               ELSE store.secrets
           /\ store'.gateways = IF Write = "list" THEN store.gateways \cup {Task.id}
                                ELSE IF Write = "unlist" THEN store.gateways \ {Task.id}
                                ELSE IF Write = "oldList" THEN saved.store.gateways
                                ELSE store.gateways
           /\ \A id \in Ids \ {Task.id} : store'.keys[id] = store.keys[id]
           /\ store'.keys[Task.id] = IF Write = "key" THEN Task.pairing.host
                                     ELSE IF Write = "noKey" THEN None
                                     ELSE IF Write = "oldKey" THEN saved.store.keys[Task.id]
                                     ELSE store.keys[Task.id]
           /\ \A id \in Ids \ {Task.id} : decided'[id] = decided[id]
           /\ decided'[Task.id] = IF Write \in {"release", "oldPairings"} THEN Decision(Task)
                                  ELSE decided[Task.id]
           /\ exposed' = IF Kind = "revoke" /\ Write = "release" THEN exposed \ {Task.id}
                         ELSE exposed
<1>1. /\ Working("sent") /\ store' = Written(Write, Task) /\ flight' = "back"
      /\ decided' = IF Write \in {"release", "oldPairings"}
                    THEN [decided EXCEPT ![Task.id] = Decision(Task)] ELSE decided
      /\ exposed' = IF Kind = "revoke" /\ Write = "release" THEN exposed \ {Task.id}
                    ELSE exposed
      /\ UNCHANGED <<up, challenges, queue, step, saved, generations, records, pending, live,
                     checked>>
  BY DEF WriteLands, bounds
<1>2. /\ up /\ queue # <<>> /\ flight = "sent"
      /\ Task \in Tasks /\ Task.id \in Ids /\ Kind = Task.kind /\ Kind \in Kinds
      /\ step \in 1..Len(Program(Kind))
  BY <1>1, FirstAtWork
<1>3. Task' = Task /\ Kind' = Kind  BY <1>1 DEF Task, Kind
<1>4. Kind \in {"approve", "recover"} =>
         saved \in [store : Store, decided : Trusts] /\ Task.pairing \in Pairing
  BY <1>2 DEF IInv, SavedIsCurrent, AtWork
<1>5. /\ Write \in Writes
      /\ Write = "key" => Kind = "approve"
      /\ Write \in {"oldKey", "oldList", "oldPairings"} => Kind = "recover"
      /\ Write = "release" => Kind \in {"approve", "trust", "revoke"}
  BY <1>2, WriteOf DEF Writes, Kinds
<1>6. /\ Write = "key" => Task.pairing \in Pairing
      /\ Write \in {"oldKey", "oldList", "oldPairings"} => saved.store \in Store
  BY <1>4, <1>5
<1>7. store \in Store  BY DEF IInv, Types
<1>8. PICK w \in Writes, t \in Tasks : w = Write /\ t = Task  BY <1>2, <1>5
<1>9. /\ Written(w, t) \in Store
      /\ Written(w, t).intents = IF w = "intend" THEN store.intents \cup {t.id}
                                 ELSE IF w = "release" THEN store.intents \ {t.id}
                                 ELSE store.intents
      /\ Written(w, t).secrets = IF w = "secret" THEN store.secrets \cup {t.id}
                                 ELSE IF w = "noSecret" THEN store.secrets \ {t.id}
                                 ELSE store.secrets
      /\ Written(w, t).gateways = IF w = "list" THEN store.gateways \cup {t.id}
                                  ELSE IF w = "unlist" THEN store.gateways \ {t.id}
                                  ELSE IF w = "oldList" THEN saved.store.gateways
                                  ELSE store.gateways
      /\ \A id \in Ids \ {t.id} : Written(w, t).keys[id] = store.keys[id]
      /\ Written(w, t).keys[t.id] = IF w = "key" THEN t.pairing.host
                                    ELSE IF w = "noKey" THEN None
                                    ELSE IF w = "oldKey" THEN saved.store.keys[t.id]
                                    ELSE store.keys[t.id]
  <2>1. w = "key" => t.pairing \in Pairing  BY <1>6, <1>8
  <2>2. w \in {"oldKey", "oldList", "oldPairings"} => saved.store \in Store  BY <1>6, <1>8
  <2>3. WrittenAre(w, t)  BY <1>7, <2>1, <2>2, WrittenParts
  <2>4. QED  BY <2>3 DEF WrittenAre
<1>10. store' = Written(w, t)  BY <1>1, <1>8
<1>11. /\ \A id \in Ids \ {t.id} : store'.keys[id] = store.keys[id]
       /\ store'.keys[t.id] = IF w = "key" THEN t.pairing.host
                              ELSE IF w = "noKey" THEN None
                              ELSE IF w = "oldKey" THEN saved.store.keys[t.id]
                              ELSE store.keys[t.id]
  BY <1>9, <1>10
<1>12. Write \in {"release", "oldPairings"} => Decision(Task) \in Credentials \cup {None}
  <2>1. decided \in Trusts  BY DEF IInv, Types
  <2>2. CASE Kind = "approve"
    BY <1>2, <1>4, <2>2 DEF Decision, Pairing, Credentials
  <2>3. CASE Kind = "recover"
    <3>1. saved.decided \in Trusts  BY <1>4, <2>3
    <3>2. Decision(Task) = saved.decided[Task.id]  BY <1>2, <2>3 DEF Decision
    <3>3. QED  BY <1>2, <3>1, <3>2 DEF Trusts
  <2>4. CASE Kind \in {"trust", "revoke"}
    BY <1>2, <2>1, <2>4 DEF Decision, Trusts, Credentials
  <2>5. QED  BY <1>5, <2>2, <2>3, <2>4
<1>13. /\ decided' \in Trusts
       /\ \A id \in Ids \ {Task.id} : decided'[id] = decided[id]
       /\ decided'[Task.id] = IF Write \in {"release", "oldPairings"} THEN Decision(Task)
                              ELSE decided[Task.id]
  <2>1. decided \in Trusts  BY DEF IInv, Types
  <2>2. CASE Write \in {"release", "oldPairings"}
    <3>1. decided' = [decided EXCEPT ![Task.id] = Decision(Task)]  BY <1>1, <2>2
    <3>2. QED  BY <1>2, <1>12, <2>1, <2>2, <3>1 DEF Trusts
  <2>3. CASE Write \notin {"release", "oldPairings"}
    <3>1. decided' = decided  BY <1>1, <2>3
    <3>2. QED  BY <2>1, <2>3, <3>1
  <2>4. QED  BY <2>2, <2>3
<1>14. store' \in Store  BY <1>9, <1>10
<1>15. /\ store'.intents = IF Write = "intend" THEN store.intents \cup {Task.id}
                           ELSE IF Write = "release" THEN store.intents \ {Task.id}
                           ELSE store.intents
       /\ store'.secrets = IF Write = "secret" THEN store.secrets \cup {Task.id}
                           ELSE IF Write = "noSecret" THEN store.secrets \ {Task.id}
                           ELSE store.secrets
  BY <1>8, <1>9, <1>10
<1>16. store'.gateways = IF Write = "list" THEN store.gateways \cup {Task.id}
                         ELSE IF Write = "unlist" THEN store.gateways \ {Task.id}
                         ELSE IF Write = "oldList" THEN saved.store.gateways
                         ELSE store.gateways
  BY <1>8, <1>9, <1>10
<1>17. /\ \A id \in Ids \ {Task.id} : store'.keys[id] = store.keys[id]
       /\ store'.keys[Task.id] = IF Write = "key" THEN Task.pairing.host
                                 ELSE IF Write = "noKey" THEN None
                                 ELSE IF Write = "oldKey" THEN saved.store.keys[Task.id]
                                 ELSE store.keys[Task.id]
  BY <1>8, <1>11
<1>18. QED  BY <1>1, <1>2, <1>3, <1>13, <1>14, <1>15, <1>16, <1>17

\* A write touches no gateway but its own: a rollback's list differs at that one only.
LEMMA LandsElsewhere ==
    ASSUME IInv, WriteLands, NEW id \in Ids \ {Task.id}
    PROVE  /\ Admits(store', id) = Admits(store, id)
           /\ store'.keys[id] = store.keys[id] /\ decided'[id] = decided[id]
           /\ id \in store'.gateways <=> id \in store.gateways
           /\ id \in store'.intents <=> id \in store.intents
           /\ id \in exposed' <=> id \in exposed
<1>1. /\ flight = "sent" /\ Kind \in Kinds /\ step \in 1..Len(Program(Kind))
      /\ store'.keys[id] = store.keys[id] /\ decided'[id] = decided[id]
  BY Lands
<1>2. /\ id \in store'.intents <=> id \in store.intents
      /\ id \in store'.secrets <=> id \in store.secrets
  BY Lands
<1>3. id \in exposed' <=> id \in exposed
  <2>1. exposed' = exposed \ {Task.id} \/ exposed' = exposed  BY Lands
  <2>2. QED  BY <2>1
<1>4. id \in store'.gateways <=> id \in store.gateways
  <2>1. CASE Write = "oldList"
    <3>1. Kind = "recover"  BY <1>1, <2>1, WriteOf DEF Kinds
    <3>2. id \in store.gateways <=> id \in saved.store.gateways
      BY <1>1, <3>1 DEF IInv, SavedIsCurrent, AtWork
    <3>3. store'.gateways = saved.store.gateways  BY <2>1, Lands
    <3>4. QED  BY <3>2, <3>3
  <2>2. CASE Write # "oldList"
    <3>1. store'.gateways \in {store.gateways \cup {Task.id}, store.gateways \ {Task.id}, store.gateways}
      BY <2>2, Lands
    <3>2. QED  BY <3>1
  <2>3. QED  BY <2>1, <2>2
<1>5. Admits(store', id) = Admits(store, id)  BY <1>1, <1>2, <1>4, AdmitsSame
<1>6. QED  BY <1>1, <1>2, <1>3, <1>4, <1>5

\* What the invariant says of the gateway of the task, once a write of it landed.
Kept ==
    /\ Progress' /\ SavedIsCurrent'
    /\ Task.id \notin store'.intents \cup exposed' => Admits(store', Task.id) = decided'[Task.id]
    /\ \/ records[Task.id] \in {None, Admits(store', Task.id)}
       \/ Kind \in {"trust", "revoke"} /\ step = 1
    /\ Kind \in {"approve", "recover"} \/ Task.id \notin Enrolling \/ Task.id \in exposed'
          \/ store'.keys[Task.id] \in {None, decided'[Task.id]}

LEMMA AskOrRejectLands ==
    ASSUME IInv, WriteLands, Kind \in {"ask", "reject"}
    PROVE  Kept
<1>1. /\ flight = "sent" /\ flight' = "back" /\ Task.id \in Ids /\ Kind' = Kind
      /\ Kind \in Kinds /\ step \in 1..Len(Program(Kind))
  BY Lands
<1>2. Write \in {"ask", "unask"}  BY <1>1, WriteOf
<1>3. /\ store'.intents = store.intents /\ store'.secrets = store.secrets
      /\ store'.gateways = store.gateways /\ store'.keys[Task.id] = store.keys[Task.id]
      /\ decided'[Task.id] = decided[Task.id] /\ exposed' = exposed
  BY <1>2, Lands
<1>4. Admits(store', Task.id) = Admits(store, Task.id)  BY <1>3, AdmitsSame
<1>5. Progress' /\ SavedIsCurrent'
  BY <1>1 DEF Progress, ApproveProgress, RecoverProgress, TrustProgress, RevokeProgress,
              SavedIsCurrent, AtWork
<1>6. Task.id \notin store.intents \cup exposed => Admits(store, Task.id) = decided[Task.id]
  BY <1>1 DEF IInv, UnblockedIsDecided
<1>7. records[Task.id] \in {None, Admits(store, Task.id)}
  BY <1>1 DEF IInv, RecordsAreDurable, AtWork
<1>8. Task.id \in Enrolling \ exposed => store.keys[Task.id] \in {None, decided[Task.id]}
  BY DEF IInv, EnrolmentsMeetDecidedKeys, AtWork
<1>9. QED  BY <1>3, <1>4, <1>5, <1>6, <1>7, <1>8 DEF Kept

LEMMA ApproveLands ==
    ASSUME IInv, WriteLands, Kind = "approve"
    PROVE  Kept
<1>1. /\ flight = "sent" /\ flight' = "back" /\ Task.id \in Ids /\ Kind' = Kind /\ Task' = Task
      /\ UNCHANGED <<step, saved, records>>
      /\ exposed' = exposed
  BY Lands
<1>2. /\ saved \in [store : Store, decided : Trusts]
      /\ Task.pairing \in Pairing /\ records[Task.id] = None
      /\ \A id \in Ids \ {Task.id} : id \in store.gateways <=> id \in saved.store.gateways
      /\ store.keys[Task.id] \in {saved.store.keys[Task.id], Task.pairing.host}
  BY <1>1 DEF IInv, SavedIsCurrent, AtWork
<1>3. \/ step = 1 /\ Write = "intend"
      \/ step = 2 /\ Write = "key"
      \/ step = 3 /\ Write = "list"
      \/ step = 4 /\ Write = "unask"
      \/ step = 5 /\ Write = "release"
  BY Lands, WriteOf
<1>4. Landed = step - 1 /\ Landed' = step  BY <1>1 DEF Landed
<1>5. /\ Landed \in 1..4 => Task.id \in store.intents
      /\ Landed < 2 => store.keys[Task.id] = saved.store.keys[Task.id]
      /\ Landed >= 2 => store.keys[Task.id] = Task.pairing.host
      /\ Landed >= 3 => Task.id \in store.gateways
      /\ Landed < 5 => decided[Task.id] = saved.decided[Task.id]
  BY <1>1 DEF IInv, Progress, ApproveProgress, AtWork
<1>6. Task.pairing.host \in Hosts /\ Task.pairing.host # None
  BY <1>2, NoneIsNoHost DEF Pairing
<1>7. Write = "release" => Decision(Task) = Task.pairing.host  BY DEF Decision, Kind
<1>8. store'.intents = IF Write = "intend" THEN store.intents \cup {Task.id}
                       ELSE IF Write = "release" THEN store.intents \ {Task.id}
                       ELSE store.intents
  BY Lands
<1>9. store'.keys[Task.id] = IF Write = "key" THEN Task.pairing.host ELSE store.keys[Task.id]
  BY <1>3, Lands
<1>10. store'.gateways = IF Write = "list" THEN store.gateways \cup {Task.id}
                         ELSE store.gateways
  BY <1>3, Lands
<1>11. decided'[Task.id] = IF Write = "release" THEN Task.pairing.host ELSE decided[Task.id]
  BY <1>3, <1>7, Lands
<1>12. /\ Landed' \in 1..4 => Task.id \in store'.intents
       /\ Landed' < 2 => store'.keys[Task.id] = saved.store.keys[Task.id]
       /\ Landed' >= 2 => store'.keys[Task.id] = Task.pairing.host
       /\ Landed' >= 3 => Task.id \in store'.gateways
       /\ Landed' < 5 => decided'[Task.id] = saved.decided[Task.id]
       /\ Landed' = 5 => Task.id \notin store'.intents /\ decided'[Task.id] = Task.pairing.host
  <2>1. CASE step = 1 /\ Write = "intend"  BY <1>4, <1>5, <1>8, <1>9, <1>10, <1>11, <2>1
  <2>2. CASE step = 2 /\ Write = "key"  BY <1>4, <1>5, <1>8, <1>9, <1>10, <1>11, <2>2
  <2>3. CASE step = 3 /\ Write = "list"  BY <1>4, <1>5, <1>8, <1>9, <1>10, <1>11, <2>3
  <2>4. CASE step = 4 /\ Write = "unask"  BY <1>4, <1>5, <1>8, <1>9, <1>10, <1>11, <2>4
  <2>5. CASE step = 5 /\ Write = "release"  BY <1>4, <1>5, <1>8, <1>9, <1>10, <1>11, <2>5
  <2>6. QED  BY <1>3, <2>1, <2>2, <2>3, <2>4, <2>5
<1>13. Progress'
  <2>1. ApproveProgress'  BY <1>1, <1>12 DEF ApproveProgress
  <2>2. QED  BY <1>1, <2>1 DEF Progress, RecoverProgress, TrustProgress, RevokeProgress, AtWork
<1>14. SavedIsCurrent'
  <2>1. \A id \in Ids \ {Task.id} : id \in store'.gateways <=> id \in saved.store.gateways
    BY <1>2, <1>10
  <2>2. store'.keys[Task.id] \in {saved.store.keys[Task.id], Task.pairing.host}
    BY <1>2, <1>9
  <2>3. QED  BY <1>1, <1>2, <2>1, <2>2 DEF SavedIsCurrent
<1>15. Task.id \notin store'.intents => Admits(store', Task.id) = decided'[Task.id]
  <2>1. SUFFICES ASSUME Task.id \notin store'.intents
                 PROVE  Admits(store', Task.id) = decided'[Task.id]
    OBVIOUS
  <2>2. step = 5  BY <1>3, <1>4, <1>12, <2>1
  <2>3. /\ store'.keys[Task.id] = Task.pairing.host /\ Task.id \in store'.gateways
        /\ decided'[Task.id] = Task.pairing.host
    BY <1>4, <1>12, <2>2
  <2>4. QED  BY <1>6, <2>1, <2>3 DEF Admits
<1>16. QED  BY <1>2, <1>13, <1>14, <1>15 DEF Kept

LEMMA RecoverLands ==
    ASSUME IInv, WriteLands, Kind = "recover"
    PROVE  Kept
<1>1. /\ flight = "sent" /\ flight' = "back" /\ Task.id \in Ids /\ Kind' = Kind /\ Task' = Task
      /\ UNCHANGED <<step, saved, records>>
      /\ exposed' = exposed
  BY Lands
<1>2. /\ saved \in [store : Store, decided : Trusts]
      /\ Task.pairing \in Pairing /\ records[Task.id] = None
      /\ \A id \in Ids \ {Task.id} : id \in store.gateways <=> id \in saved.store.gateways
      /\ store.keys[Task.id] \in {saved.store.keys[Task.id], Task.pairing.host}
  BY <1>1 DEF IInv, SavedIsCurrent, AtWork
<1>3. \/ step = 1 /\ Write = "intend"
      \/ step = 2 /\ Write = "oldKey"
      \/ step = 3 /\ Write = "oldList"
      \/ step = 4 /\ Write = "oldPairings"
  BY Lands, WriteOf
<1>4. Landed = step - 1 /\ Landed' = step  BY <1>1 DEF Landed
<1>5. /\ step >= 2 => Task.id \in store.intents \cup exposed
      /\ Landed >= 2 => store.keys[Task.id] = saved.store.keys[Task.id]
  BY <1>1 DEF IInv, Progress, RecoverProgress, AtWork
<1>6. Write = "oldPairings" => Decision(Task) = saved.decided[Task.id]  BY DEF Decision, Kind
<1>7. store'.intents = IF Write = "intend" THEN store.intents \cup {Task.id} ELSE store.intents
  BY <1>3, Lands
<1>8. store'.keys[Task.id] = IF Write = "oldKey" THEN saved.store.keys[Task.id]
                             ELSE store.keys[Task.id]
  BY <1>3, Lands
<1>9. store'.gateways = IF Write = "oldList" THEN saved.store.gateways ELSE store.gateways
  BY <1>3, Lands
<1>10. decided'[Task.id] = IF Write = "oldPairings" THEN saved.decided[Task.id]
                           ELSE decided[Task.id]
  BY <1>3, <1>6, Lands
<1>11. /\ Task.id \in store'.intents \cup exposed'
       /\ Landed' >= 2 => store'.keys[Task.id] = saved.store.keys[Task.id]
       /\ Landed' = 4 => decided'[Task.id] = saved.decided[Task.id]
  <2>1. CASE step = 1 /\ Write = "intend"  BY <1>1, <1>4, <1>5, <1>7, <1>8, <1>10, <2>1
  <2>2. CASE step = 2 /\ Write = "oldKey"  BY <1>1, <1>4, <1>5, <1>7, <1>8, <1>10, <2>2
  <2>3. CASE step = 3 /\ Write = "oldList"  BY <1>1, <1>4, <1>5, <1>7, <1>8, <1>10, <2>3
  <2>4. CASE step = 4 /\ Write = "oldPairings"  BY <1>1, <1>4, <1>5, <1>7, <1>8, <1>10, <2>4
  <2>5. QED  BY <1>3, <2>1, <2>2, <2>3, <2>4
<1>12. Progress'
  <2>1. RecoverProgress'  BY <1>1, <1>11 DEF RecoverProgress
  <2>2. QED  BY <1>1, <2>1 DEF Progress, ApproveProgress, TrustProgress, RevokeProgress, AtWork
<1>13. SavedIsCurrent'
  <2>1. \A id \in Ids \ {Task.id} : id \in store'.gateways <=> id \in saved.store.gateways
    BY <1>2, <1>9
  <2>2. store'.keys[Task.id] \in {saved.store.keys[Task.id], Task.pairing.host}
    BY <1>2, <1>8
  <2>3. QED  BY <1>1, <1>2, <2>1, <2>2 DEF SavedIsCurrent
<1>14. QED  BY <1>2, <1>11, <1>12, <1>13 DEF Kept

\* The PUT that was let through makes the secret, or leaves a key that was decided.
LEMMA TrustLands ==
    ASSUME IInv, WriteLands, Kind = "trust"
    PROVE  Kept
<1>1. /\ flight = "sent" /\ flight' = "back" /\ Task.id \in Ids /\ Kind' = Kind /\ Task' = Task
      /\ UNCHANGED <<step, records>>
      /\ exposed' = exposed /\ queue # <<>>
  BY Lands
<1>2. \/ step = 1 /\ Write = "intend"
      \/ step = 2 /\ Write = "secret"
      \/ step = 3 /\ Write = "list"
      \/ step = 4 /\ Write = "release"
  BY Lands, WriteOf
<1>3. Landed = step - 1 /\ Landed' = step  BY <1>1 DEF Landed
<1>4. /\ Landed \in 1..3 => Task.id \in store.intents
      /\ Landed >= 2 => Task.id \in store.secrets
      /\ Landed >= 3 => Task.id \in store.gateways
      /\ step >= 2 => records[Task.id] = None
  BY <1>1 DEF IInv, Progress, TrustProgress, AtWork
<1>5. Write = "release" =>
         Decision(Task) = IF store.keys[Task.id] = None THEN "secret" ELSE decided[Task.id]
  BY DEF Decision, Kind
<1>6. store'.intents = IF Write = "intend" THEN store.intents \cup {Task.id}
                       ELSE IF Write = "release" THEN store.intents \ {Task.id}
                       ELSE store.intents
  BY Lands
<1>7. store'.secrets = IF Write = "secret" THEN store.secrets \cup {Task.id} ELSE store.secrets
  BY <1>2, Lands
<1>8. store'.gateways = IF Write = "list" THEN store.gateways \cup {Task.id} ELSE store.gateways
  BY <1>2, Lands
<1>9. store'.keys[Task.id] = store.keys[Task.id]  BY <1>2, Lands
<1>10. decided'[Task.id] = IF Write = "release"
                           THEN IF store.keys[Task.id] = None THEN "secret" ELSE decided[Task.id]
                           ELSE decided[Task.id]
  BY <1>2, <1>5, Lands
<1>11. /\ Landed' \in 1..3 => Task.id \in store'.intents
       /\ Landed' >= 2 => Task.id \in store'.secrets
       /\ Landed' >= 3 => Task.id \in store'.gateways
  <2>1. CASE step = 1 /\ Write = "intend"  BY <1>3, <1>4, <1>6, <1>7, <1>8, <2>1
  <2>2. CASE step = 2 /\ Write = "secret"  BY <1>3, <1>4, <1>6, <1>7, <1>8, <2>2
  <2>3. CASE step = 3 /\ Write = "list"  BY <1>3, <1>4, <1>6, <1>7, <1>8, <2>3
  <2>4. CASE step = 4 /\ Write = "release"  BY <1>3, <1>4, <1>6, <1>7, <1>8, <2>4
  <2>5. QED  BY <1>2, <2>1, <2>2, <2>3, <2>4
<1>12. Progress'
  <2>1. TrustProgress'  BY <1>1, <1>4, <1>11 DEF TrustProgress
  <2>2. QED  BY <1>1, <2>1 DEF Progress, ApproveProgress, RecoverProgress, RevokeProgress, AtWork
<1>13. SavedIsCurrent'  BY <1>1 DEF SavedIsCurrent, AtWork
<1>14. Task.id \in Enrolling
  <2>1. queue \in Seq(Tasks)  BY DEF IInv, Types
  <2>2. Task = queue[1] /\ Kind = Task.kind /\ 1 \in 1..Len(queue)  BY <1>1, <2>1, FirstTask
  <2>3. QED  BY <2>2 DEF Enrolling
<1>15. Task.id \notin exposed => store.keys[Task.id] \in {None, decided[Task.id]}
  BY <1>14 DEF IInv, EnrolmentsMeetDecidedKeys, AtWork
<1>16. Task.id \notin exposed => store'.keys[Task.id] \in {None, decided'[Task.id]}
  BY <1>9, <1>10, <1>15
<1>17. ASSUME Task.id \notin store'.intents \cup exposed'
       PROVE  Admits(store', Task.id) = decided'[Task.id]
  <2>1. step = 4 /\ Write = "release"  BY <1>2, <1>3, <1>11, <1>17
  <2>2. Task.id \in store'.secrets /\ Task.id \in store'.gateways  BY <1>3, <1>11, <2>1
  <2>3. CASE store.keys[Task.id] = None
    BY <1>9, <1>10, <1>17, <2>1, <2>2, <2>3 DEF Admits
  <2>4. CASE store.keys[Task.id] # None
    BY <1>1, <1>9, <1>10, <1>15, <1>17, <2>1, <2>2, <2>4 DEF Admits
  <2>5. QED  BY <2>3, <2>4
<1>18. records[Task.id] = None \/ step = 1  BY <1>2, <1>4
<1>19. QED  BY <1>1, <1>12, <1>13, <1>16, <1>17, <1>18 DEF Kept

LEMMA RevokeLands ==
    ASSUME IInv, WriteLands, Kind = "revoke"
    PROVE  Kept
<1>1. /\ flight = "sent" /\ flight' = "back" /\ Task.id \in Ids /\ Kind' = Kind /\ Task' = Task
      /\ UNCHANGED <<step, records>>
      /\ exposed' = IF Write = "release" THEN exposed \ {Task.id} ELSE exposed
  BY Lands
<1>2. \/ step = 1 /\ Write = "intend"
      \/ step = 2 /\ Write = "unlist"
      \/ step = 3 /\ Write = "unask"
      \/ step = 4 /\ Write = "noSecret"
      \/ step = 5 /\ Write = "noKey"
      \/ step = 6 /\ Write = "release"
  BY Lands, WriteOf
<1>3. Landed = step - 1 /\ Landed' = step  BY <1>1 DEF Landed
<1>4. /\ Landed \in 1..5 => Task.id \in store.intents
      /\ Landed >= 2 => Task.id \notin store.gateways
      /\ Landed >= 5 => store.keys[Task.id] = None
      /\ step >= 2 => records[Task.id] = None
  BY <1>1 DEF IInv, Progress, RevokeProgress, AtWork
<1>5. Write = "release" => Decision(Task) = None  BY DEF Decision, Kind
<1>6. store'.intents = IF Write = "intend" THEN store.intents \cup {Task.id}
                       ELSE IF Write = "release" THEN store.intents \ {Task.id}
                       ELSE store.intents
  BY Lands
<1>7. store'.gateways = IF Write = "unlist" THEN store.gateways \ {Task.id} ELSE store.gateways
  BY <1>2, Lands
<1>8. store'.keys[Task.id] = IF Write = "noKey" THEN None ELSE store.keys[Task.id]
  BY <1>2, Lands
<1>9. decided'[Task.id] = IF Write = "release" THEN None ELSE decided[Task.id]
  BY <1>2, <1>5, Lands
<1>10. /\ Landed' \in 1..5 => Task.id \in store'.intents
       /\ Landed' >= 2 => Task.id \notin store'.gateways
       /\ Landed' >= 5 => store'.keys[Task.id] = None
  <2>1. CASE step = 1 /\ Write = "intend"  BY <1>3, <1>4, <1>6, <1>7, <1>8, <2>1
  <2>2. CASE step = 2 /\ Write = "unlist"  BY <1>3, <1>4, <1>6, <1>7, <1>8, <2>2
  <2>3. CASE step = 3 /\ Write = "unask"  BY <1>3, <1>4, <1>6, <1>7, <1>8, <2>3
  <2>4. CASE step = 4 /\ Write = "noSecret"  BY <1>3, <1>4, <1>6, <1>7, <1>8, <2>4
  <2>5. CASE step = 5 /\ Write = "noKey"  BY <1>3, <1>4, <1>6, <1>7, <1>8, <2>5
  <2>6. CASE step = 6 /\ Write = "release"  BY <1>3, <1>4, <1>6, <1>7, <1>8, <2>6
  <2>7. QED  BY <1>2, <2>1, <2>2, <2>3, <2>4, <2>5, <2>6
<1>11. Progress'
  <2>1. RevokeProgress'  BY <1>1, <1>4, <1>10 DEF RevokeProgress
  <2>2. QED  BY <1>1, <2>1 DEF Progress, ApproveProgress, RecoverProgress, TrustProgress, AtWork
<1>12. SavedIsCurrent'  BY <1>1 DEF SavedIsCurrent, AtWork
<1>13. step = 6 \/ Task.id \in store'.intents  BY <1>2, <1>3, <1>10
<1>14. Task.id \notin store'.intents => Admits(store', Task.id) = decided'[Task.id]
  <2>1. SUFFICES ASSUME Task.id \notin store'.intents
                 PROVE  Admits(store', Task.id) = decided'[Task.id]
    OBVIOUS
  <2>2. Task.id \notin store'.gateways /\ decided'[Task.id] = None
    BY <1>2, <1>3, <1>9, <1>10, <1>13, <2>1
  <2>3. QED  BY <2>2 DEF Admits
<1>15. \/ Task.id \notin Enrolling \/ Task.id \in exposed'
       \/ store'.keys[Task.id] \in {None, decided'[Task.id]}
  <2>1. CASE Write = "release"
    <3>1. store'.keys[Task.id] = None  BY <1>2, <1>3, <1>10, <2>1
    <3>2. QED  BY <3>1
  <2>2. CASE Write # "release"
    <3>1. Task.id \in Enrolling \ exposed => store.keys[Task.id] \in {None, decided[Task.id]}
      BY DEF IInv, EnrolmentsMeetDecidedKeys, AtWork
    <3>2. QED  BY <1>1, <1>8, <1>9, <2>2, <3>1
  <2>3. QED  BY <2>1, <2>2
<1>16. records[Task.id] = None \/ step = 1  BY <1>2, <1>4
<1>17. QED  BY <1>11, <1>12, <1>14, <1>15, <1>16 DEF Kept

LEMMA WriteLandsKeeps ==
    ASSUME IInv, WriteLands
    PROVE  IInv'
<1>1. /\ up /\ queue # <<>> /\ flight = "sent" /\ flight' = "back" /\ Task.id \in Ids
      /\ Kind \in Kinds /\ step \in 1..Len(Program(Kind)) /\ Task' = Task /\ Kind' = Kind
      /\ UNCHANGED <<up, challenges, queue, step, saved, generations, records, pending, live,
                     checked>>
      /\ store' \in Store /\ decided' \in Trusts
  BY Lands
<1>2. Kept
  BY <1>1, AskOrRejectLands, ApproveLands, RecoverLands, TrustLands, RevokeLands DEF Kinds
<1>3. Types'  BY <1>1 DEF IInv, Types
<1>4. Position'  BY <1>1 DEF IInv, Position
<1>5. TokensAge'  BY <1>1 DEF IInv, TokensAge
<1>6. Enrolling' = Enrolling /\ Enrolling \subseteq Ids
  <2>1. \A i \in 1..Len(queue) : queue[i] \in Tasks  BY ElementOfSeq DEF IInv, Types
  <2>2. QED  BY <1>1, <2>1 DEF IInv, Types, Enrolling, Tasks
<1>7. AtWork({"approve", "recover"})' <=> AtWork({"approve", "recover"})
  BY <1>1 DEF AtWork
<1>8. EnrolmentsMeetDecidedKeys'
  <2>1. SUFFICES ASSUME NEW id \in Ids, id \in Enrolling, id \notin exposed'
                 PROVE  IF AtWork({"approve", "recover"})' /\ Task'.id = id
                        THEN saved'.store.keys[id] \in {None, saved'.decided[id]}
                        ELSE store'.keys[id] \in {None, decided'[id]}
    BY <1>6 DEF EnrolmentsMeetDecidedKeys
  <2>2. CASE id = Task.id
    <3>1. CASE Kind \in {"approve", "recover"}
      <4>1. AtWork({"approve", "recover"})  BY <1>1, <3>1 DEF AtWork
      <4>2. exposed' = exposed  BY <3>1, Lands
      <4>3. saved.store.keys[id] \in {None, saved.decided[id]}
        BY <2>1, <2>2, <4>1, <4>2 DEF IInv, EnrolmentsMeetDecidedKeys
      <4>4. QED  BY <1>1, <1>7, <2>2, <4>1, <4>3
    <3>2. CASE Kind \notin {"approve", "recover"}
      <4>1. ~AtWork({"approve", "recover"})  BY <3>2 DEF AtWork
      <4>2. store'.keys[id] \in {None, decided'[id]}  BY <1>2, <2>1, <2>2, <3>2 DEF Kept
      <4>3. QED  BY <1>7, <4>1, <4>2
    <3>3. QED  BY <3>1, <3>2
  <2>3. CASE id # Task.id
    <3>1. store'.keys[id] = store.keys[id] /\ decided'[id] = decided[id] /\ id \notin exposed
      BY <2>1, <2>3, LandsElsewhere
    <3>2. store.keys[id] \in {None, decided[id]}
      BY <2>1, <2>3, <3>1 DEF IInv, EnrolmentsMeetDecidedKeys
    <3>3. QED  BY <1>1, <2>3, <3>1, <3>2
  <2>4. QED  BY <2>2, <2>3
<1>9. RecordsAreDurable'
  <2>1. SUFFICES ASSUME NEW id \in Ids
                 PROVE  \/ records'[id] \in {None, Admits(store', id)}
                        \/ AtWork({"trust", "revoke"})' /\ step' = 1 /\ Task'.id = id
    BY <1>1 DEF RecordsAreDurable
  <2>2. CASE id = Task.id  BY <1>1, <1>2, <2>2 DEF Kept, AtWork
  <2>3. CASE id # Task.id
    <3>1. Admits(store', id) = Admits(store, id)  BY <2>3, LandsElsewhere
    <3>2. records[id] \in {None, Admits(store, id)}  BY <1>1 DEF IInv, RecordsAreDurable
    <3>3. QED  BY <1>1, <3>1, <3>2
  <2>4. QED  BY <2>2, <2>3
<1>10. UnblockedIsDecided'
  <2>1. SUFFICES ASSUME NEW id \in Ids, id \notin store'.intents \cup exposed'
                 PROVE  Admits(store', id) = decided'[id]
    BY DEF UnblockedIsDecided
  <2>2. CASE id = Task.id  BY <1>2, <2>1, <2>2 DEF Kept
  <2>3. CASE id # Task.id
    <3>1. /\ Admits(store', id) = Admits(store, id) /\ decided'[id] = decided[id]
          /\ id \notin store.intents \cup exposed
      BY <2>1, <2>3, LandsElsewhere
    <3>2. QED  BY <3>1 DEF IInv, UnblockedIsDecided
  <2>4. QED  BY <2>2, <2>3
<1>11. QED  BY <1>2, <1>3, <1>4, <1>5, <1>8, <1>9, <1>10 DEF IInv, Kept

-------------------------------------------------------------------------------
(* Crashes, restarts, and the induction. *)

LEMMA CrashKeeps ==
    ASSUME IInv, Crash
    PROVE  IInv'
<1>1. /\ up' = FALSE /\ queue' = <<>> /\ step' = 0 /\ flight' = "idle"
      /\ generations' = [id \in Ids |-> 0]
      /\ records' = [id \in Ids |-> None] /\ pending' = [id \in Ids |-> None]
      /\ live' = {} /\ checked' = {}
      /\ UNCHANGED <<challenges, store, decided, exposed>>
  BY DEF Crash, history
<1>2. queue' \in Seq(Tasks) /\ \A i \in 1..Len(queue') : FALSE
  BY <1>1, EmptySeq
<1>3. Types'  BY <1>1, <1>2 DEF IInv, Types, Trusts
<1>4. Position' /\ TokensAge'  BY <1>1, <1>2 DEF Position, TokensAge
<1>5. SavedIsCurrent' /\ Progress'
  BY <1>1 DEF SavedIsCurrent, Progress, ApproveProgress, RecoverProgress, TrustProgress,
              RevokeProgress, AtWork
<1>6. EnrolmentsMeetDecidedKeys'
  <2>1. Enrolling' = {}  BY <1>1, <1>2 DEF Enrolling
  <2>2. QED  BY <2>1 DEF EnrolmentsMeetDecidedKeys
<1>7. RecordsAreDurable' /\ UnblockedIsDecided'
  BY <1>1 DEF IInv, RecordsAreDurable, UnblockedIsDecided
<1>8. QED  BY <1>3, <1>4, <1>5, <1>6, <1>7 DEF IInv

LEMMA RestartKeeps ==
    ASSUME IInv, Restart
    PROVE  IInv'
<1>1. /\ ~up /\ up' = TRUE
      /\ records' = [id \in Ids |-> Admits(store, id)] /\ pending' = store.pairings
      /\ UNCHANGED <<challenges, store, queue, step, flight, saved, generations, live, checked,
                     decided, exposed>>
  BY DEF Restart, history
<1>2. flight = "idle" /\ live = {} /\ Task' = Task /\ Kind' = Kind
  BY <1>1 DEF IInv, Types, Position, Task, Kind
<1>3. store \in Store  BY DEF IInv, Types
<1>4. Types'
  <2>1. records' \in Trusts  BY <1>1, <1>3, AdmitsTrust DEF Trusts
  <2>2. pending' \in [Ids -> Pairing \cup {None}]  BY <1>1, <1>3, StoreParts
  <2>3. QED  BY <1>1, <1>2, <2>1, <2>2 DEF IInv, Types
<1>5. Position' /\ TokensAge'  BY <1>1, <1>2 DEF IInv, Position, TokensAge
<1>6. SavedIsCurrent' /\ Progress'
  BY <1>1, <1>2 DEF SavedIsCurrent, Progress, ApproveProgress, RecoverProgress, TrustProgress,
                    RevokeProgress, AtWork
<1>7. Enrolling' \subseteq Enrolling  BY <1>1 DEF Enrolling
<1>8. EnrolmentsMeetDecidedKeys'  BY <1>1, <1>2, <1>7, SameEnrolments DEF IInv
<1>9. RecordsAreDurable' /\ UnblockedIsDecided'
  BY <1>1 DEF IInv, RecordsAreDurable, UnblockedIsDecided
<1>10. QED  BY <1>4, <1>5, <1>6, <1>8, <1>9 DEF IInv

LEMMA InitHolds == Init => IInv
<1> SUFFICES ASSUME Init  PROVE IInv
  OBVIOUS
<1>1. /\ up = TRUE /\ challenges = 0 /\ queue = <<>> /\ step = 0 /\ flight = "idle"
      /\ generations = [id \in Ids |-> 0]
      /\ records = [id \in Ids |-> Admits(store, id)]
      /\ pending = [id \in Ids |-> None]
      /\ live = {} /\ checked = {}
      /\ decided = [id \in Ids |-> Admits(store, id)]
  BY DEF Init
<1>2. queue \in Seq(Tasks) /\ \A i \in 1..Len(queue) : FALSE  BY <1>1, EmptySeq
<1>3. store \in Store
  <2>1. Empty \in Store  BY DEF Empty, Store
  <2>2. [Empty EXCEPT !.secrets = Ids, !.gateways = Ids] \in Store  BY DEF Empty, Store
  <2>3. QED  BY <2>1, <2>2 DEF Init
<1>4. Types
  <2>1. records \in Trusts /\ decided \in Trusts  BY <1>1, <1>3, AdmitsTrust DEF Trusts
  <2>2. generations \in [Ids -> Nat] /\ pending \in [Ids -> Pairing \cup {None}]  BY <1>1
  <2>3. QED  BY <1>1, <1>2, <1>3, <2>1, <2>2 DEF Types
<1>5. Position /\ TokensAge  BY <1>1, <1>2 DEF Position, TokensAge
<1>6. SavedIsCurrent /\ Progress
  BY <1>1 DEF SavedIsCurrent, Progress, ApproveProgress, RecoverProgress, TrustProgress,
              RevokeProgress, AtWork
<1>7. EnrolmentsMeetDecidedKeys
  <2>1. Enrolling = {}  BY <1>1, <1>2 DEF Enrolling
  <2>2. QED  BY <2>1 DEF EnrolmentsMeetDecidedKeys
<1>8. RecordsAreDurable /\ UnblockedIsDecided  BY <1>1 DEF RecordsAreDurable, UnblockedIsDecided
<1>9. QED  BY <1>4, <1>5, <1>6, <1>7, <1>8 DEF IInv

LEMMA StutterKeeps == IInv /\ UNCHANGED vars => IInv'
<1> SUFFICES ASSUME IInv, UNCHANGED vars  PROVE IInv'
  OBVIOUS
<1>1. UNCHANGED <<up, challenges, store, queue, step, flight, saved, generations, records,
                  pending, live, checked, decided, exposed>>
  BY DEF vars, bounds, memory, history
<1>2. Task' = Task /\ Kind' = Kind  BY <1>1 DEF Task, Kind
<1>3. Types'  BY <1>1 DEF IInv, Types
<1>4. Position' /\ TokensAge'  BY <1>1, <1>2 DEF IInv, Position, TokensAge
<1>5. SavedIsCurrent' /\ Progress' /\ RecordsAreDurable' /\ UnblockedIsDecided'
  BY <1>1, <1>2, SameWork DEF IInv
<1>6. Enrolling' \subseteq Enrolling  BY <1>1 DEF Enrolling
<1>7. EnrolmentsMeetDecidedKeys'  BY <1>1, <1>2, <1>6, SameEnrolments DEF IInv
<1>8. QED  BY <1>3, <1>4, <1>5, <1>7 DEF IInv

LEMMA StepKeeps == IInv /\ [Next]_vars => IInv'
<1> SUFFICES ASSUME IInv, [Next]_vars  PROVE IInv'
  OBVIOUS
<1>1. CASE UNCHANGED vars  BY <1>1, StutterKeeps
<1>2. ASSUME NEW id \in Ids, NEW h \in Hosts, Ask(id, h)  PROVE IInv'  BY <1>2, AskKeeps
<1>3. ASSUME NEW id \in Ids, Approve(id) \/ Reject(id) \/ Revoke(id) \/ SetGatewayTrust(id)
      PROVE IInv'
  BY <1>3, CallKeeps
<1>4. ASSUME NEW id \in Ids, Hangup(id)  PROVE IInv'  BY <1>4, HangupKeeps
<1>5. ASSUME NEW id \in Ids, PutGatewayTrust(id)  PROVE IInv'  BY <1>5, PutKeeps
<1>6. CASE Begin  BY <1>6, BeginKeeps
<1>7. CASE Skip  BY <1>7, SkipKeeps
<1>8. CASE WriteLands  BY <1>8, WriteLandsKeeps
<1>9. CASE GiveUp  BY <1>9, GiveUpKeeps
<1>10. CASE Recover  BY <1>10, RecoverKeeps
<1>11. CASE RecoverUnblocked  BY <1>11, RecoverUnblockedKeeps
<1>12. CASE RecoverPartly  BY <1>12, RecoverPartlyKeeps
<1>13. CASE NextWrite  BY <1>13, NextWriteKeeps
<1>14. CASE Commit  BY <1>14, CommitKeeps
<1>15. CASE CommitRefused  BY <1>15, CommitRefusedKeeps
<1>16. CASE Finish  BY <1>16, FinishKeeps
<1>17. CASE Crash  BY <1>17, CrashKeeps
<1>18. CASE Restart  BY <1>18, RestartKeeps
<1>19. QED
  BY <1>1, <1>2, <1>3, <1>4, <1>5, <1>6, <1>7, <1>8, <1>9, <1>10, <1>11, <1>12, <1>13, <1>14,
     <1>15, <1>16, <1>17, <1>18 DEF Next

\* The invariant holds in every reachable state.
THEOREM Inductive == Spec => []IInv
<1>1. QED  BY InitHolds, StepKeeps, PTL DEF Spec

-------------------------------------------------------------------------------
\* Whatever write a mutation was at when it failed or the process died, a start of
\* the controller admits what the last decided mutation left, or the gateway is
\* blocked, or a failed rollback exposed it (UnblockedIsDecided).
THEOREM RestartAdmitsTheDecided == Spec => []UnblockedIsDecided
<1>1. IInv => UnblockedIsDecided  BY DEF IInv
<1>2. QED  BY Inductive, <1>1, PTL

LEMMA TypesHold == IInv => TypeOK
<1> SUFFICES ASSUME IInv  PROVE TypeOK
  OBVIOUS
<1>1. queue \in Seq(Tasks) /\ \A i \in 1..Len(queue) : queue[i] \in Tasks
  BY ElementOfSeq DEF IInv, Types
<1>2. \A i \in 1..Len(queue) :
         /\ queue[i].kind \in {"ask", "approve", "recover", "reject", "trust", "revoke"}
         /\ queue[i].id \in Ids
         /\ queue[i].pairing \in Pairing \cup {None}
         /\ queue[i].kind = "recover" => i = 1
  BY <1>1 DEF Tasks, Kinds, IInv, Position
<1>3. step \in IF queue = <<>> \/ flight = "idle" THEN {0} ELSE 1..Len(Program(Kind))
  BY DEF IInv, Position
<1>4. queue # <<>> /\ Kind = "recover" => saved.store \in Store
  <2>1. ASSUME queue # <<>>, Kind = "recover"  PROVE saved.store \in Store
    <3>1. Kind = queue[1].kind /\ 1 \in 1..Len(queue)  BY <1>1, <2>1, FirstTask
    <3>2. flight # "idle"  BY <2>1, <3>1 DEF IInv, Position
    <3>3. QED  BY <2>1, <3>2 DEF IInv, SavedIsCurrent, AtWork
  <2>2. QED  BY <2>1
<1>5. live \subseteq {id \in Ids : pending[id] # None}  BY DEF IInv, Types
<1>6. QED  BY <1>2, <1>3, <1>4, <1>5 DEF IInv, Types, Trusts, TypeOK

\* Every credential that the running controller honours, a restart would honour,
\* but for a gateway that is being revoked or enrolled (LiveTrustIsDurable).
THEOREM HonouredIsDurable == Spec => []LiveTrustIsDurable
<1>1. IInv => LiveTrustIsDurable
  <2>1. SUFFICES ASSUME IInv, NEW id \in Ids
                 PROVE  \/ records[id] \in {None, Admits(store, id)}
                        \/ queue # <<>> /\ Task.id = id /\ Kind \in {"trust", "revoke"}
    BY TypesHold DEF LiveTrustIsDurable
  <2>2. AtWork({"trust", "revoke"}) => queue # <<>> /\ Kind \in {"trust", "revoke"}
    BY <2>1 DEF IInv, Position, AtWork
  <2>3. QED  BY <2>1, <2>2 DEF IInv, RecordsAreDurable
<1>2. QED  BY Inductive, <1>1, PTL

\* The only step that makes the listener honour a credential is the commit of an
\* approval that no later call of its gateway is waiting behind: such a call would
\* have made the approval's token an old one (StaleApprovalNeverCommits).
THEOREM StaleApprovalsDoNotCommit == Spec => StaleApprovalNeverCommits
<1> DEFINE Fresh == \A id \in Ids : up /\ records'[id] \notin {None, records[id]} =>
                       \A i \in 1..Len(queue) : queue[i].id = id =>
                           queue[i].kind \notin {"reject", "revoke", "trust"}
<1>1. ASSUME IInv, [Next]_vars  PROVE [Fresh]_vars
  <2>1. ASSUME Commit  PROVE Fresh
    <3>1. SUFFICES ASSUME NEW id \in Ids, records'[id] \notin {None, records[id]},
                          NEW i \in 1..Len(queue), queue[i].id = id
                   PROVE  queue[i].kind \notin {"reject", "revoke", "trust"}
      OBVIOUS
    <3>2. /\ Working("back") /\ Kind = "approve" /\ Current(Task)
          /\ records' = [records EXCEPT ![Task.id] = Task.pairing.host]
      BY <2>1 DEF Commit, StillApprovable
    <3>3. id = Task.id  BY <3>1, <3>2 DEF IInv, Types, Trusts
    <3>4. Task = queue[1] /\ Kind = Task.kind /\ 1 \in 1..Len(queue) /\ Len(queue) \in Nat
      <4>1. queue # <<>> /\ queue \in Seq(Tasks)  BY <1>1, <3>2, FirstAtWork
      <4>2. QED  BY <4>1, FirstTask
    <3>5. Task \in Tasks /\ generations[Task.id] = Task.token
      BY <1>1, <3>2, FirstAtWork DEF Current
    <3>6. Task.token \in Nat  BY <3>5 DEF Tasks
    <3>7. CASE i = 1  BY <3>2, <3>4, <3>7
    <3>8. CASE i # 1
      <4>1. SUFFICES ASSUME queue[i].kind \in {"reject", "revoke", "trust"}  PROVE FALSE
        OBVIOUS
      <4>2. 1 < i /\ queue[1].id = queue[i].id  BY <3>1, <3>3, <3>4, <3>8
      <4>3. queue[1].token < generations[queue[1].id]
        BY <1>1, <3>4, <4>1, <4>2 DEF IInv, TokensAge
      <4>4. QED  BY <3>4, <3>5, <3>6, <4>3
    <3>9. QED  BY <3>7, <3>8
  <2>2. ASSUME ~Commit  PROVE [Fresh]_vars
    <3>1. CASE UNCHANGED vars  BY <3>1
    <3>2. ASSUME Next  PROVE \A id \in Ids : ~up \/ records'[id] \in {None, records[id]}
      <4>1. CASE \E id \in Ids, h \in Hosts : Ask(id, h)  BY <4>1 DEF Ask
      <4>2. CASE \E id \in Ids : \/ Hangup(id) \/ Approve(id) \/ Reject(id) \/ Revoke(id)
                                 \/ PutGatewayTrust(id) \/ SetGatewayTrust(id)
        BY <4>2 DEF Hangup, Approve, Reject, Revoke, PutGatewayTrust, SetGatewayTrust
      <4>3. CASE Begin \/ Skip \/ WriteLands  BY <4>3 DEF Begin, Skip, WriteLands
      <4>4. CASE GiveUp \/ Recover \/ RecoverUnblocked
        BY <4>4 DEF GiveUp, Recover, RecoverUnblocked
      <4>5. CASE RecoverPartly
        BY <1>1, <4>5 DEF RecoverPartly, RevokeInListener, IInv, Types, Trusts
      <4>6. CASE NextWrite
        BY <1>1, <4>6 DEF NextWrite, RevokeInListener, IInv, Types, Trusts
      <4>7. CASE CommitRefused  BY <4>7 DEF CommitRefused
      <4>8. CASE Finish
        <5>1. CASE Kind = "recover"
          <6>1. RevokeInListener(Task.id)  BY <4>8, <5>1 DEF Finish
          <6>2. QED  BY <1>1, <6>1 DEF RevokeInListener, IInv, Types, Trusts
        <5>2. CASE Kind # "recover"
          <6>1. records' = records  BY <4>8, <5>2 DEF Finish
          <6>2. QED  BY <6>1
        <5>3. QED  BY <5>1, <5>2
      <4>9. CASE Crash  BY <4>9 DEF Crash
      <4>10. CASE Restart  BY <4>10 DEF Restart
      <4>11. QED
        BY <2>2, <3>2, <4>1, <4>2, <4>3, <4>4, <4>5, <4>6, <4>7, <4>8, <4>9, <4>10 DEF Next
    <3>3. QED  BY <1>1, <3>1, <3>2
  <2>3. QED  BY <2>1, <2>2
<1>2. Spec => [][Fresh]_vars  BY Inductive, <1>1, PTL DEF Spec
<1>3. QED  BY <1>2 DEF StaleApprovalNeverCommits
===============================================================================
