---------------------------- MODULE HostExecution ----------------------------
(***************************************************************************)
(* A gateway and the processes it runs: GatewayDaemon, whose runs end when *)
(* ProcessRunner settles them.  The settlement and the continuation of     *)
(* handle() that awaits it happen with nothing in between, so they are one *)
(* step here, as are the abort of a run and the stop() it calls.           *)
(***************************************************************************)
EXTENDS GatewayDaemon

VARIABLE process

P == INSTANCE ProcessRunner WITH Runs <- Requests

hostVars == <<vars, process>>

HostInit == Init /\ process = [r \in Requests |-> P!NoProcess]

\* handle() up to its await: an accepted run starts its process.
HostHandle(r, e) ==
    /\ Handle(r, e)
    /\ IF r \in running' \ running
       THEN \E p \in P!Starts : P!Change(r, p)
       ELSE UNCHANGED process

HostFinish(r) ==
    /\ P!CloseSettles(r) \/ P!ForceSettles(r)
    /\ Finish(r) \/ FinishUnsaved(r)

HostFails(r) == P!Rejects(r) /\ RunFails(r)

\* Every AbortController that is aborted now calls the stop() of its run.
StopAborted ==
    process' = [r \in Requests |-> IF r \in aborted' \ aborted
                                   THEN P!Stop(process[r], "abort") ELSE process[r]]

HostCancel(op) == Cancel(op) /\ StopAborted
HostTerminate  == Terminate /\ StopAborted

HostCrash ==
    /\ Crash \/ \E r \in Requests : P!MaySettle(r) /\ CrashBeforeReply(r)
    /\ process' = [r \in Requests |-> P!Orphan(process[r])]

ProcessGoesOn(r) == P!ProcessStep(r) /\ UNCHANGED vars

HostNext ==
    \/ \E r \in Requests, e \in Envelope : HostHandle(r, e)
    \/ \E r \in Requests : HostFinish(r) \/ HostFails(r) \/ ProcessGoesOn(r)
    \/ \E op \in Ops : HostCancel(op)
    \/ HostTerminate
    \/ HostCrash
    \/ (Shutdown \/ Restart \/ Tick) /\ UNCHANGED process

HostSpec == HostInit /\ [][HostNext]_hostVars

\* Timers fire, and the event loop delivers what has happened.  Nothing is assumed
\* of the process: it may ignore signals and never close its pipes.
Scheduled(r) ==
    \/ HostFinish(r)
    \/ HostFails(r)
    \/ (P!KillFires(r) \/ \E limit \in P!Limits : P!LimitFires(r, limit)) /\ UNCHANGED vars

HostFairness == WF_hostVars(\E r \in Requests : Scheduled(r))

HostFairSpec == HostSpec /\ HostFairness

-------------------------------------------------------------------------------
HostTypeOK ==
    /\ TypeOK
    /\ process \in [Requests -> P!Process]
    /\ \A r \in Requests : r \in running <=> up /\ process[r].promise = "pending"

\* The daemon waits for the runs whose promise is pending and for no other.  A
\* process that lives, or holds its pipes, after its run was settled was sent
\* SIGKILL first, and the outcome says that it timed out or was cancelled: it is
\* never taken for a plain end of the process.  With OneRunPerOperation, two
\* processes of one operation live at the same time only if the older one was
\* given up in this way or outlived its gateway.
EndedInVain ==
    /\ HostTypeOK
    /\ \A r \in Requests \ running :
          \/ process[r].child = "alive"
          \/ process[r].child = "exited" /\ process[r].promise = "resolved"
          => process[r].sigkill /\ (process[r].timedOut \/ process[r].cancelled)

\* Once the gateway is stopping, each of its processes that lives and was not
\* given up has been sent SIGTERM, and a SIGKILL is due or was sent.
StoppingSignals ==
    stopping /\ up =>
        \A r \in running : process[r].child = "alive" =>
            process[r].sigterm /\ (process[r].killTimer \/ process[r].sigkill)
===============================================================================
