--------------------------- MODULE TelemetryRuntime ---------------------------
(***************************************************************************)
(* The telemetry of a gateway (gateway/lib/otel-runtime.mjs): every        *)
(* operation yields a span, which each exporter ("item") of the operation's *)
(* generation queues and exports in batches.  A generation is retired by a *)
(* new configuration, or from its birth when it serves one operation only  *)
(* (private).  Shutdown waits for what is queued, up to a timeout.         *)
(*                                                                         *)
(* Between two awaits the code runs alone, so what one callback does to    *)
(* all exporters is one step.  Spans are counted: nothing depends on which *)
(* of them is dropped.                                                     *)
(***************************************************************************)
EXTENDS Naturals, Sequences, FiniteSets, Totals

CONSTANTS
    Calls,            \* calls of execute()
    Transports,       \* exporter configurations with a URL
    Configurations,   \* sets of them that one configuration may name
    QueueLimit,       \* OTEL_BSP_MAX_QUEUE_SIZE
    BatchSize,        \* BATCH_SIZE
    MaxCount,         \* Number.MAX_SAFE_INTEGER
    MaxGenerations,   \* bound: how many generations are made
    Reports           \* bound: the numbers of refused spans collectors report

ASSUME TelemetryAssumption ==
    /\ Configurations \subseteq SUBSET Transports
    /\ \A dests \in Configurations : IsFiniteSet(dests)
    /\ QueueLimit \in Nat \ {0}
    /\ BatchSize \in Nat \ {0}
    /\ MaxCount \in Nat \ {0}
    /\ MaxGenerations \in Nat \ {0}
    /\ Reports \subseteq 1..MaxCount

VARIABLES
    generations,      \* every generation made, the collected ones included
    active,           \* the generation of calls without one of their own
    privatePending,   \* spans that private exporters of a transport hold
    completed,        \* failures.dropped of the collected generations
    closed,           \* shutdown() was called
    finished,         \* its promise resolved, and URLs and headers are erased
    generationOf,     \* what each call was given; 0 before execute()
    offered,          \* history: spans handed to exporters
    answered,         \* history: those in batches that a collector answered with 2xx
    reported          \* history: the sum of the numbers it then said it refused

vars == <<generations, active, privatePending, completed, closed, finished,
          generationOf, offered, answered, reported>>

NewItem == [queue |-> 0, flight |-> 0, cancelled |-> FALSE, timer |-> FALSE,
            abandoned |-> FALSE, dropped |-> 0]

\* createGeneration(): one exporter for each transport of dests.
NewGeneration(dests, private) ==
    [items |-> [t \in dests |-> NewItem], temporary |-> private,
     retired |-> private, collected |-> FALSE, owners |-> {}]

\* The environment of the process names no endpoint.
Init ==
    /\ generations = <<NewGeneration({}, FALSE)>>
    /\ active = 1
    /\ privatePending = [t \in Transports |-> 0]
    /\ completed = 0
    /\ closed = FALSE
    /\ finished = FALSE
    /\ generationOf = [c \in Calls |-> 0]
    /\ offered = 0
    /\ answered = 0
    /\ reported = 0

-------------------------------------------------------------------------------
Exporters == UNION {{n} \X DOMAIN generations[n].items : n \in DOMAIN generations}
Item(x) == generations[x[1]].items[x[2]]

\* The private exporters of a transport, which share its budget.
Private(t) == {x \in Exporters : x[2] = t /\ generations[x[1]].temporary}

Least(m, n) == IF m < n THEN m ELSE n

\* Mutant: a flush ends after its first batch.
NextBatchOnce(i) ==
    LET n == IF i.flight = 0 THEN Least(i.queue, BatchSize) ELSE 0
    IN  [i EXCEPT !.queue = @ - n, !.flight = n]

\* queue.splice(0, BATCH_SIZE), and the export of what it took.
NextBatch(i) ==
    LET n == Least(i.queue, BatchSize)
    IN  [i EXCEPT !.queue = @ - n, !.flight = n]

\* flushItem(); item.flushing is set exactly while a batch is in flight.
FlushItem(i) ==
    IF i.abandoned \/ i.flight > 0
    THEN i
    ELSE [NextBatch(i) EXCEPT !.timer = FALSE]

FlushItems(g) == [g EXCEPT !.items = [t \in DOMAIN @ |-> FlushItem(@[t])]]

\* Mutant: a generation is collected while operations own it.
IdleUnowned(g) ==
    \A t \in DOMAIN g.items :
        g.items[t].queue = 0 /\ g.items[t].flight = 0 /\ ~g.items[t].timer

Idle(g) ==
    /\ g.owners = {}
    /\ \A t \in DOMAIN g.items :
          g.items[t].queue = 0 /\ g.items[t].flight = 0 /\ ~g.items[t].timer

\* collect(), for one generation.
Collect(g) == [g EXCEPT !.collected = @ \/ (g.retired /\ Idle(g))]

Flushed(g) == Collect(FlushItems(g))

\* The generations are now gs; the exporters of those just collected leave their
\* counts behind (accumulateItem), up to MaxCount.
Become(gs) ==
    /\ generations' = gs
    /\ completed' = Least(MaxCount, completed
         + Total([x \in {y \in Exporters : gs[y[1]].collected /\ ~generations[y[1]].collected} |->
                    gs[x[1]].items[x[2]].dropped]))

-------------------------------------------------------------------------------
\* configure(): another configuration makes a generation and retires the old one.
Configure(dests) ==
    /\ ~closed
    /\ Len(generations) < MaxGenerations
    /\ DOMAIN generations[active].items # dests
    /\ LET old == Flushed([generations[active] EXCEPT !.retired = TRUE])
       IN  Become(Append([generations EXCEPT ![active] = old],
                         NewGeneration(dests, FALSE)))
    /\ active' = Len(generations) + 1
    /\ UNCHANGED <<privatePending, closed, finished, generationOf, offered, answered, reported>>

\* execute() up to the operation.  A call that gets no span (closed, no URL, an
\* invalid configuration, a trace that is not sampled) changes nothing here.
Execute(c) ==
    /\ ~closed
    /\ generationOf[c] = 0
    /\ DOMAIN generations[active].items # {}
    /\ generationOf' = [generationOf EXCEPT ![c] = active]
    /\ generations' = [generations EXCEPT ![active].owners = @ \cup {c}]
    /\ UNCHANGED <<active, privatePending, completed, closed, finished, offered,
                   answered, reported>>

\* The same with a configuration of the operation's own.
ExecutePrivate(c, dests) ==
    /\ ~closed
    /\ generationOf[c] = 0
    /\ Len(generations) < MaxGenerations
    /\ generationOf' = [generationOf EXCEPT ![c] = Len(generations) + 1]
    /\ generations' = Append(generations,
                             [NewGeneration(dests, TRUE) EXCEPT !.owners = {c}])
    /\ UNCHANGED <<active, privatePending, completed, closed, finished, offered,
                   answered, reported>>

\* failures.dropped of status(): the counts of the collected generations and of the
\* others, added up to MaxCount.
ShownDropped ==
    Least(MaxCount, completed
      + Total([x \in {y \in Exporters : ~generations[y[1]].collected} |-> Item(x).dropped]))

\* A private exporter's transport has as many spans as it may.
OverBudget(g, t) == g.temporary /\ privatePending[t] >= QueueLimit

\* enqueue() for one exporter.  A full queue loses its oldest span; schedule()
\* arms the timer unless a batch is in flight.
Enqueued(g, t) ==
    LET i     == g.items[t]
        armed == i.timer \/ i.flight = 0
    IN  IF i.abandoned THEN i
        ELSE IF OverBudget(g, t) THEN [i EXCEPT !.dropped = @ + 1]
        ELSE IF i.queue >= QueueLimit THEN [i EXCEPT !.dropped = @ + 1, !.timer = armed]
        ELSE [i EXCEPT !.queue = @ + 1, !.timer = armed]

\* The finally block of execute(): enqueue, give the generation up, and flush and
\* collect it when it is retired.
Complete(c) ==
    /\ generationOf[c] \in DOMAIN generations
    /\ c \in generations[generationOf[c]].owners
    /\ LET n     == generationOf[c]
           g     == generations[n]
           items == IF closed THEN g.items
                    ELSE [t \in DOMAIN g.items |-> Enqueued(g, t)]
           left  == [g EXCEPT !.items = items, !.owners = @ \ {c}]
       IN  /\ Become([generations EXCEPT ![n] = IF g.retired THEN Flushed(left) ELSE left])
           /\ offered' = IF closed THEN offered
                         ELSE offered + Cardinality({x \in Exporters : x[1] = n /\ ~Item(x).abandoned})
           /\ privatePending' =
                [t \in Transports |->
                   IF /\ g.temporary /\ ~closed /\ t \in DOMAIN g.items
                      /\ ~OverBudget(g, t)
                   THEN privatePending[t] + 1 ELSE privatePending[t]]
    /\ UNCHANGED <<active, closed, finished, generationOf, answered, reported>>

\* schedule(): the timer of an exporter flushes it.
TimerFires(x) ==
    /\ Item(x).timer
    /\ generations' = [generations EXCEPT ![x[1]].items[x[2]] = FlushItem(@)]
    /\ UNCHANGED <<active, privatePending, completed, closed, finished,
                   generationOf, offered, answered, reported>>

-------------------------------------------------------------------------------
\* Mutant: an exporter that is given up keeps its share of the budget.
KeptWhenAbandoned(x) ==
    IF generations[x[1]].temporary /\ ~Item(x).abandoned
    THEN [privatePending EXCEPT ![x[2]] = @ - Item(x).flight]
    ELSE privatePending

\* releasePrivate(item, batch.length)
Released(x) ==
    IF generations[x[1]].temporary
    THEN [privatePending EXCEPT
            ![x[2]] = IF @ > Item(x).flight THEN @ - Item(x).flight ELSE 0]
    ELSE privatePending

\* The exporter of x is now i, and its generation may be collected.
After(x, i) ==
    Become([generations EXCEPT ![x[1]] =
              Collect([generations[x[1]] EXCEPT !.items[x[2]] = i])])

\* A batch ends and n goes into the count of dropped spans, up to MaxCount.  The loop
\* of flushItem() takes the next batch, or ends.
BatchEnds(x, n) ==
    /\ Item(x).flight > 0 /\ ~Item(x).cancelled
    /\ After(x, NextBatch([Item(x) EXCEPT !.dropped = Least(MaxCount, @ + n)]))
    /\ privatePending' = Released(x)
    /\ UNCHANGED <<active, closed, finished, generationOf, offered>>

\* A transport error, a bad status and the export timeout drop the batch.  A collector
\* that takes it may say that it refused n spans (partialSuccess): the code believes
\* any number, also one larger than the batch.
ExportSettles(x) ==
    \/ BatchEnds(x, Item(x).flight) /\ UNCHANGED <<answered, reported>>
    \/ \E n \in Reports \cup {0} :
          /\ BatchEnds(x, n)
          /\ answered' = answered + Item(x).flight
          /\ reported' = reported + n

\* Mutant: a batch that shutdown has counted is counted again when it ends.
EndedCounted(i) == [i EXCEPT !.flight = 0, !.cancelled = FALSE, !.dropped = @ + i.flight]

\* A cancelled batch is not counted again, and the loop ends.
Ended(i) == [i EXCEPT !.flight = 0, !.cancelled = FALSE]

\* The batch that a forced shutdown cancelled ends, whatever became of it.
CancelledEnds(x) ==
    /\ Item(x).cancelled
    /\ After(x, Ended(Item(x)))
    /\ privatePending' = Released(x)
    /\ UNCHANGED <<active, closed, finished, generationOf, offered, answered, reported>>

-------------------------------------------------------------------------------
\* flushItem() for every exporter there is; one without work collects.
FlushAll(gs) ==
    [n \in DOMAIN gs |->
        IF gs[n].collected \/ DOMAIN gs[n].items = {} THEN gs[n] ELSE Flushed(gs[n])]

\* flush()
Flush ==
    /\ Become(FlushAll(generations))
    /\ UNCHANGED <<active, privatePending, closed, finished, generationOf, offered,
                   answered, reported>>

\* shutdown() up to its await: retire every generation, flush.
Shutdown ==
    /\ ~closed
    /\ closed' = TRUE
    /\ Become(FlushAll([n \in DOMAIN generations |->
                           [generations[n] EXCEPT !.retired = TRUE]]))
    /\ UNCHANGED <<active, privatePending, finished, generationOf, offered, answered, reported>>

Busy(i) == i.flight > 0 \/ i.queue > 0

\* flush() ended before the timeout.
ShutdownDrained ==
    /\ closed /\ ~finished
    /\ \A x \in Exporters : ~Busy(Item(x))
    /\ finished' = TRUE
    /\ UNCHANGED <<generations, active, privatePending, completed, closed,
                   generationOf, offered, answered, reported>>

\* Mutant: what is queued is forgotten, not counted.
AbandonUncounted(i) ==
    IF Busy(i)
    THEN [i EXCEPT !.dropped = @ + i.flight, !.queue = 0, !.timer = FALSE,
                   !.abandoned = TRUE, !.cancelled = i.flight > 0]
    ELSE i

\* The exporter gives up: what it holds is counted and the batch is cancelled.
Abandon(i) ==
    IF Busy(i)
    THEN [i EXCEPT !.dropped = @ + i.queue + i.flight, !.queue = 0, !.timer = FALSE,
                   !.abandoned = TRUE, !.cancelled = i.flight > 0]
    ELSE i

\* The timeout came first.  (Private exporters have nothing queued, see Complete:
\* their batch is released when its cancelled export ends.)
ShutdownForced ==
    /\ closed /\ ~finished
    /\ \E x \in Exporters : Busy(Item(x))
    /\ finished' = TRUE
    /\ generations' =
         [n \in DOMAIN generations |->
            [generations[n] EXCEPT !.items = [t \in DOMAIN @ |-> Abandon(@[t])]]]
    /\ privatePending' =
         [t \in Transports |->
            privatePending[t] - Total([x \in Private(t) |-> Item(x).queue])]
    /\ UNCHANGED <<active, completed, closed, generationOf, offered, answered, reported>>

\* Timers fire, and an export ends at its timeout if not before.  It is enough
\* that some exporter goes on: it cannot do so for ever without new spans.
ExporterStep ==
    \E x \in Exporters :
        \/ TimerFires(x)
        \/ ExportSettles(x)
        \/ CancelledEnds(x)

Next ==
    \/ \E dests \in Configurations : Configure(dests)
    \/ \E c \in Calls :
          \/ Execute(c)
          \/ \E dests \in Configurations \ {{}} : ExecutePrivate(c, dests)
          \/ Complete(c)
    \/ ExporterStep
    \/ Flush
    \/ Shutdown
    \/ ShutdownDrained
    \/ ShutdownForced

Spec == Init /\ [][Next]_vars

Fairness ==
    WF_vars(ExporterStep \/ ShutdownDrained \/ ShutdownForced)

FairSpec == Spec /\ Fairness

-------------------------------------------------------------------------------
\* Every variable holds a value the program can hold in it.
TypeOK ==
    /\ \A n \in DOMAIN generations :
          /\ DOMAIN generations[n].items \subseteq Transports
          /\ generations[n].owners \subseteq Calls
    /\ \A x \in Exporters :
          /\ Item(x).queue \in 0..QueueLimit
          /\ Item(x).flight \in 0..BatchSize
          /\ Item(x).cancelled => Item(x).abandoned /\ Item(x).flight > 0
          /\ Item(x).timer => Item(x).flight = 0 /\ Item(x).queue > 0
    /\ active \in DOMAIN generations
    /\ closed \in BOOLEAN /\ finished \in BOOLEAN
    /\ generationOf \in [Calls -> Nat]

\* What an exporter has not got rid of: a cancelled batch is counted as dropped.
Held(i) == i.queue + IF i.cancelled THEN 0 ELSE i.flight

\* Each span an exporter took is queued, in flight, in a batch that was answered, or
\* lost, and the dropped count of status() is that of the lost ones and of those that
\* collectors said they refused, up to MaxCount: none is missing or counted twice, also
\* when shutdown gave an export up that ends later, and after its generation was
\* collected.  Once shutdown resolved none is queued or in flight.
SpansAccounted ==
    /\ \E lost \in 0..offered :
          /\ offered = answered + lost + Total([x \in Exporters |-> Held(Item(x))])
          /\ ShownDropped = Least(MaxCount, lost + reported)
    /\ finished => \A x \in Exporters : Held(Item(x)) = 0

\* The budget of a transport is what its private exporters hold, in flight
\* included, and never more than the limit: no share is lost, so that a hung
\* collector cannot starve later operations once it is given up.
BudgetIsHeld ==
    \A t \in Transports :
        /\ privatePending[t] \in 0..QueueLimit
        /\ privatePending[t] =
             Total([x \in Private(t) |-> Item(x).queue + Item(x).flight])

\* A generation leaves the runtime exactly when it is retired and has neither an
\* owner nor work: none is lost with spans, none with exporters stays behind.
CollectedWhenDone ==
    /\ TypeOK
    /\ \A n \in DOMAIN generations :
          LET g == generations[n]
          IN  /\ g.collected => g.retired /\ Idle(g)
              /\ g.retired /\ Idle(g) /\ DOMAIN g.items # {} => g.collected

\* Whatever collectors do, timers and flushes reach every queue, a generation that
\* was replaced or retired by shutdown goes away once its last operation has ended,
\* and a shutdown resolves.
WorkEnds ==
    LET queued   == \E x \in Exporters : Item(x).queue > 0
        lingers  == \E n \in DOMAIN generations :
                       /\ generations[n].retired /\ ~generations[n].collected
                       /\ generations[n].owners = {} /\ DOMAIN generations[n].items # {}
        stopping == closed /\ ~finished
    IN  queued \/ lingers \/ stopping ~> ~(queued \/ lingers \/ stopping)
===============================================================================
