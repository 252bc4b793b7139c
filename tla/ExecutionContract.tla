--------------------------- MODULE ExecutionContract ---------------------------
(***************************************************************************)
(* What a gateway promises about operation ids, without saying how: an id  *)
(* has at most one run at a time, an id whose outcome is kept is answered  *)
(* with that outcome and not run again, and every answer is an outcome a   *)
(* run of that id produced.  The gateway may forget outcomes, but never in *)
(* the step that starts a run.  A crash abandons every run and puts each   *)
(* id back to an outcome it had before, or to none.                        *)
(*                                                                         *)
(* GatewayDaemon implements this module (GatewayDaemonContract).           *)
(***************************************************************************)
EXTENDS Naturals

CONSTANTS Requests, Ops, None

VARIABLES
    owner,   \* which request runs the operation, or None
    kept,    \* the outcome the operation would be answered with, or 0
    past,    \* every outcome the operation has had
    issued,  \* outcomes are numbered as they are produced
    reply,   \* what each request was told
    answer   \* the outcome it was told, or 0

cvars == <<owner, kept, past, issued, reply, answer>>

CInit ==
    /\ owner = [op \in Ops |-> None]
    /\ kept = [op \in Ops |-> 0]
    /\ past = [op \in Ops |-> {}]
    /\ issued = 0
    /\ reply = [r \in Requests |-> "none"]
    /\ answer = [r \in Requests |-> 0]

Tell(r, what) == reply' = [reply EXCEPT ![r] = what]

\* The operation has produced outcome issued'.
Produce(op) ==
    /\ issued' = issued + 1
    /\ past' = [past EXCEPT ![op] = @ \cup {issued + 1}]

Refuse(r) ==
    /\ reply[r] = "none"
    /\ Tell(r, "refused")
    /\ UNCHANGED <<owner, kept, past, issued, answer>>

Start(r, op) ==
    /\ reply[r] = "none"
    /\ owner[op] = None
    /\ kept[op] = 0
    /\ owner' = [owner EXCEPT ![op] = r]
    /\ Tell(r, "accepted")
    /\ UNCHANGED <<kept, past, issued, answer>>

Repeat(r, op) ==
    /\ reply[r] = "none"
    /\ kept[op] # 0
    /\ Tell(r, "answered")
    /\ answer' = [answer EXCEPT ![r] = kept[op]]
    /\ UNCHANGED <<owner, kept, past, issued>>

\* The run ends with an outcome that is kept; room for it may cost others.
Complete(r, op, lost, told) ==
    /\ owner[op] = r
    /\ Produce(op)
    /\ kept' = [o \in Ops |-> IF o = op THEN issued + 1
                              ELSE IF o \in lost THEN 0 ELSE kept[o]]
    /\ owner' = [owner EXCEPT ![op] = None]
    /\ Tell(r, IF told THEN "answered" ELSE "refused")
    /\ answer' = [answer EXCEPT ![r] = IF told THEN issued + 1 ELSE @]

Abandon(r, op) ==
    /\ owner[op] = r
    /\ owner' = [owner EXCEPT ![op] = None]
    /\ Tell(r, "refused")
    /\ UNCHANGED <<kept, past, issued, answer>>

Forget(lost) ==
    /\ kept' = [op \in Ops |-> IF op \in lost THEN 0 ELSE kept[op]]
    /\ UNCHANGED <<owner, past, issued, reply, answer>>

\* Every run is abandoned, one of them perhaps when its outcome was already
\* stored.  What an operation is left with is an outcome of its own, or none.
Lose(k) ==
    /\ \/ UNCHANGED <<past, issued>>
       \/ \E op \in Ops : owner[op] # None /\ Produce(op)
    /\ kept' = k
    /\ \A op \in Ops : k[op] \in {0} \cup past'[op]
    /\ owner' = [op \in Ops |-> None]
    /\ reply' = [r \in Requests |->
                    IF reply[r] = "accepted" THEN "lost" ELSE reply[r]]
    /\ UNCHANGED answer

CNext ==
    \/ \E r \in Requests : Refuse(r)
    \/ \E r \in Requests, op \in Ops :
          \/ Start(r, op)
          \/ Repeat(r, op)
          \/ Abandon(r, op)
          \/ \E lost \in SUBSET Ops, told \in BOOLEAN : Complete(r, op, lost, told)
    \/ \E lost \in SUBSET Ops : Forget(lost)
    \/ \E k \in [Ops -> 0..issued + 1] : Lose(k)

CSpec == CInit /\ [][CNext]_cvars

===============================================================================
