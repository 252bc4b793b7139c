------------------------- MODULE GatewayDaemonContract -------------------------
(***************************************************************************)
(* GatewayDaemon implements ExecutionContract.  An operation is kept while *)
(* the journal (the file, when no process runs) holds a live outcome of    *)
(* it, so an outcome is forgotten by the tick of the clock that ends its   *)
(* retention and not by the later prune() that deletes it: a forgotten     *)
(* outcome and the start of a run are never the same step.                 *)
(***************************************************************************)
EXTENDS GatewayDaemon

Stored == IF up THEN journal ELSE disk

KeptOutcome(op) ==
    LET e == Lookup(Live(Stored, clock), op)
    IN  IF e = {} THEN 0 ELSE (CHOOSE f \in e : TRUE).stamp

\* Every refusal, whatever its code, is one to the contract.
Told(r) ==
    CASE reply[r] \in {"none", "accepted", "lost"} -> reply[r]
      [] reply[r] \in {"done", "replayed"} -> "answered"
      [] OTHER -> "refused"

Contract == INSTANCE ExecutionContract WITH
    owner  <- controllers,
    kept   <- [op \in Ops |-> KeptOutcome(op)],
    past   <- [op \in Ops |-> {e.stamp : e \in Lookup(completed, op)}],
    issued <- Cardinality(completed),
    reply  <- [r \in Requests |-> Told(r)],
    answer <- answer

\* Every behaviour of the daemon is one the contract allows: one run at a time
\* per operation id, answers from kept outcomes only, no run while one is kept.
ImplementsContract == Contract!CSpec
===============================================================================
