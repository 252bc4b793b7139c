---------------------------- MODULE ProcessRunner ----------------------------
(***************************************************************************)
(* runProcess() of gateway/lib/process-runner.mjs: one child process for a *)
(* run, its time limits, how it is stopped, and when its run is settled.   *)
(* What it prints matters only where it exceeds the limit.  HostExecution  *)
(* runs these actions beside the daemon that waits for them.               *)
(***************************************************************************)
CONSTANT Runs

VARIABLE process   \* the locals of runProcess() and the child of each run

Limits == {"timeoutMs", "deadlineMs"}

\* child: "unborn" when it cannot be spawned, "alive", "exited" while something
\* holds its pipes open, "closed", "orphan" when the gateway died before it.
Process ==
    [child     : {"none", "unborn", "alive", "exited", "closed", "orphan"},
     promise   : {"none", "pending", "resolved", "rejected", "lost"},
     limits    : SUBSET Limits,    \* timers that call stop()
     killTimer : BOOLEAN,          \* a SIGKILL is due a second after stop()
     fallback  : BOOLEAN,          \* forceSettle is due 100 ms after that
     sigterm   : BOOLEAN, sigkill : BOOLEAN,   \* signals sent to the group
     truncated : BOOLEAN,          \* more output than the run may keep
     timedOut  : BOOLEAN,          \* timeoutTriggered
     cancelled : BOOLEAN]          \* signal.aborted

NoProcess ==
    [child |-> "none", promise |-> "none", limits |-> {},
     killTimer |-> FALSE, fallback |-> FALSE, sigterm |-> FALSE, sigkill |-> FALSE,
     truncated |-> FALSE, timedOut |-> FALSE, cancelled |-> FALSE]

-------------------------------------------------------------------------------
\* Mutant: a process that was told to stop, by an overflow, is left to itself.
StopOnce(p, reason) ==
    IF p.promise = "resolved" \/ p.sigterm THEN p ELSE
    [p EXCEPT !.sigterm = TRUE, !.killTimer = TRUE, !.fallback = TRUE,
              !.timedOut = @ \/ reason \in Limits,
              !.cancelled = @ \/ reason = "abort"]

\* Mutant: nothing settles a run whose process does not close.
StopNoFallback(p, reason) ==
    IF p.promise = "resolved" THEN p ELSE
    [p EXCEPT !.sigterm = TRUE, !.killTimer = TRUE,
              !.timedOut = @ \/ reason \in Limits,
              !.cancelled = @ \/ reason = "abort"]

\* Mutant: a deadline is not reported as a timeout.
StopUnreported(p, reason) ==
    IF p.promise = "resolved" THEN p ELSE
    [p EXCEPT !.sigterm = TRUE, !.killTimer = TRUE, !.fallback = TRUE,
              !.timedOut = @ \/ reason = "timeoutMs",
              !.cancelled = @ \/ reason = "abort"]

\* stop(reason): SIGTERM now, SIGKILL and the forced end later.
Stop(p, reason) ==
    IF p.promise = "resolved" THEN p ELSE
    [p EXCEPT !.sigterm = TRUE, !.killTimer = TRUE, !.fallback = TRUE,
              !.timedOut = @ \/ reason \in Limits,
              !.cancelled = @ \/ reason = "abort"]

\* The start of a run: spawned or not, its deadline to come or already passed.  (A
\* run without a deadline is one whose deadline is later than its end.)
Starts ==
    LET new(child, limits) == [NoProcess EXCEPT !.child = child, !.promise = "pending",
                                                !.limits = limits]
    IN  {new("unborn", Limits), new("alive", Limits),
         Stop(new("alive", {"timeoutMs"}), "deadlineMs")}

Change(r, p) == process' = [process EXCEPT ![r] = p]

\* A child is closed, or out of reach: nothing of the run's locals is used again.
Gone(child, promise) == [NoProcess EXCEPT !.child = child, !.promise = promise]

-------------------------------------------------------------------------------
\* The process ends, of itself or by a signal; a descendant may keep its pipes.
Exit(r) ==
    /\ process[r].child \in {"alive", "orphan"}
    /\ Change(r, IF process[r].child = "alive" THEN [process[r] EXCEPT !.child = "exited"]
                 ELSE Gone("closed", process[r].promise))

\* noteChunk(), drainRedacted(): the first output past the limit sends SIGTERM,
\* also when the run was settled by force; nothing follows it up.
Overflow(r) ==
    /\ process[r].child \in {"alive", "exited"}
    /\ ~process[r].truncated
    /\ Change(r, [process[r] EXCEPT !.truncated = TRUE, !.sigterm = TRUE])

\* The timer of a limit.
LimitFires(r, limit) ==
    /\ limit \in process[r].limits
    /\ Change(r, Stop([process[r] EXCEPT !.limits = @ \ {limit}], limit))

KillFires(r) ==
    /\ process[r].killTimer
    /\ Change(r, [process[r] EXCEPT !.killTimer = FALSE, !.sigkill = TRUE])

\* The close event of a child whose run was settled or rejected before.
CloseLate(r) ==
    /\ process[r].child = "exited"
    /\ process[r].promise # "pending"
    /\ Change(r, Gone("closed", process[r].promise))

ProcessStep(r) ==
    \/ Exit(r)
    \/ Overflow(r)
    \/ \E limit \in Limits : LimitFires(r, limit)
    \/ KillFires(r)
    \/ CloseLate(r)

\* child.once('close', finish)
CloseSettles(r) ==
    /\ process[r].child = "exited"
    /\ process[r].promise = "pending"
    /\ Change(r, Gone("closed", "resolved"))

\* Mutant: the run is ended and not marked as settled.
ForcedUnsettled(p) == [p EXCEPT !.limits = {}, !.killTimer = FALSE, !.fallback = FALSE]

\* finish(null, 'SIGTERM') of the fallback: the promise is settled, once, and every
\* timer is cleared.
Forced(p) == [p EXCEPT !.promise = "resolved", !.limits = {},
                       !.killTimer = FALSE, !.fallback = FALSE]

\* The fallback timer.  The SIGKILL of the same stop() was due 100 ms before.
ForceSettles(r) ==
    /\ process[r].fallback
    /\ process[r].sigkill
    /\ process[r].promise = "pending"
    /\ Change(r, Forced(process[r]))

\* child.once('error', reject): the spawn failed, and its close event follows.
Rejects(r) ==
    /\ process[r].child = "unborn"
    /\ Change(r, [process[r] EXCEPT !.child = "exited", !.promise = "rejected"])

\* The run can be settled as it stands.
MaySettle(r) ==
    /\ process[r].promise = "pending"
    /\ process[r].child = "exited" \/ (process[r].fallback /\ process[r].sigkill)

\* The gateway dies: its timers and listeners are gone, its children are not.
Orphan(p) ==
    IF p.child = "none" THEN p
    ELSE Gone(IF p.child \in {"alive", "orphan"} THEN "orphan" ELSE "closed",
              IF p.promise = "pending" THEN "lost" ELSE p.promise)
===============================================================================
