------------------------ MODULE TelemetryRuntimeProofs ------------------------
(***************************************************************************)
(* What the telemetry runtime promises for every number of calls,          *)
(* transports and generations and every size of queue and batch: a         *)
(* generation leaves it exactly when it is retired and has neither an      *)
(* owner nor work; every span is accounted for once; and a private budget  *)
(* is what its exporters hold.  The last two are sums over the exporters   *)
(* (Totals), whose laws come first.                                        *)
(***************************************************************************)
EXTENDS TelemetryRuntime, Integers, SequenceTheorems, FiniteSetTheorems, TLAPS

-------------------------------------------------------------------------------
(* Totals. *)

LEMMA UnitsAre ==
    ASSUME NEW S, NEW f \in [S -> Nat]
    PROVE  /\ \A x, i : <<x, i>> \in Units(f) <=> x \in S /\ i \in 1..f[x]
           /\ \A u \in Units(f) : \E x \in S, i \in Nat : i \in 1..f[x] /\ u = <<x, i>>
<1>1. DOMAIN f = S  OBVIOUS
<1>2. \A u : u \in Units(f) <=> \E x \in S : u \in {x} \X (1..f[x])  BY <1>1 DEF Units
<1>3. QED  BY <1>2

\* The units of one element.
LEMMA OneColumn ==
    ASSUME NEW x, NEW n \in Nat
    PROVE  IsFiniteSet({x} \X (1..n)) /\ Cardinality({x} \X (1..n)) = n
<1>1. IsFiniteSet({x}) /\ Cardinality({x}) = 1  BY FS_Singleton
<1>2. IsFiniteSet(1..n) /\ Cardinality(1..n) = n  BY FS_Interval
<1>3. PICK S, T : S = {x} /\ T = 1..n  OBVIOUS
<1>4. IsFiniteSet(S \X T) /\ Cardinality(S \X T) = Cardinality(S) * Cardinality(T)
  BY <1>1, <1>2, <1>3, FS_Product
<1>5. Cardinality(S) * Cardinality(T) = n  BY <1>1, <1>2, <1>3
<1>6. QED  BY <1>3, <1>4, <1>5

LEMMA TotalIsNat ==
    ASSUME NEW S, IsFiniteSet(S), NEW f \in [S -> Nat]
    PROVE  IsFiniteSet(Units(f)) /\ Total(f) \in Nat
<1>1. PICK columns : columns = {{x} \X (1..f[x]) : x \in S}  OBVIOUS
<1>2. PICK column : column = [x \in S |-> {x} \X (1..f[x])]  OBVIOUS
<1>3. column \in Surjection(S, columns)  BY <1>1, <1>2 DEF Surjection
<1>4. IsFiniteSet(columns)  BY <1>3, FS_Surjection
<1>5. \A T \in columns : IsFiniteSet(T)
  <2>1. ASSUME NEW x \in S
        PROVE  IsFiniteSet({x} \X (1..f[x]))
    <3>1. f[x] \in Nat  OBVIOUS
    <3>2. QED  BY <3>1, OneColumn
  <2>2. QED  BY <1>1, <2>1
<1>6. IsFiniteSet(UNION columns)  BY <1>4, <1>5, FS_UNION
<1>7. Units(f) = UNION columns  BY <1>1 DEF Units
<1>8. QED  BY <1>6, <1>7, FS_CardinalityType DEF Total

\* The sum of two functions has the sum of their totals.
LEMMA TotalAdds ==
    ASSUME NEW S, IsFiniteSet(S), NEW f \in [S -> Nat], NEW g \in [S -> Nat],
           NEW h \in [S -> Nat], \A x \in S : h[x] = f[x] + g[x]
    PROVE  Total(h) = Total(f) + Total(g)
<1> DEFINE above == {u \in Units(h) : u[2] > f[u[1]]}
           lift == [u \in Units(g) |-> <<u[1], f[u[1]] + u[2]>>]
<1>0. \A x \in S : f[x] \in Nat /\ g[x] \in Nat /\ h[x] \in Nat  OBVIOUS
<1>1. /\ \A x, i : <<x, i>> \in Units(f) <=> x \in S /\ i \in 1..f[x]
      /\ \A u \in Units(f) : \E x \in S, i \in Nat : i \in 1..f[x] /\ u = <<x, i>>
  BY UnitsAre
<1>2. /\ \A x, i : <<x, i>> \in Units(g) <=> x \in S /\ i \in 1..g[x]
      /\ \A u \in Units(g) : \E x \in S, i \in Nat : i \in 1..g[x] /\ u = <<x, i>>
  BY UnitsAre
<1>3. /\ \A x, i : <<x, i>> \in Units(h) <=> x \in S /\ i \in 1..h[x]
      /\ \A u \in Units(h) : \E x \in S, i \in Nat : i \in 1..h[x] /\ u = <<x, i>>
  BY UnitsAre
<1>4. Units(f) \subseteq Units(h)
  <2>1. ASSUME NEW x \in S, NEW i \in 1..f[x]
        PROVE  <<x, i>> \in Units(h)
    BY <1>0, <1>3
  <2>2. QED  BY <1>1, <2>1
<1>5. \A x, i : <<x, i>> \in above <=> x \in S /\ i \in f[x] + 1..h[x]
  <2>1. ASSUME NEW x, NEW i
        PROVE  <<x, i>> \in above <=> x \in S /\ i \in f[x] + 1..h[x]
    <3>1. <<x, i>> \in above <=> x \in S /\ i \in 1..h[x] /\ i > f[x]  BY <1>3
    <3>2. QED  BY <1>0, <3>1
  <2>2. QED  BY <2>1
<1>6. Units(h) = Units(f) \cup above
  <2>1. ASSUME NEW u \in Units(h)
        PROVE  u \in Units(f) \cup above
    <3>1. PICK x \in S, i \in Nat : i \in 1..h[x] /\ u = <<x, i>>  BY <1>3
    <3>2. f[x] \in Nat /\ h[x] \in Nat  BY <1>0
    <3>3. i \in 1..f[x] \/ i > f[x]  BY <3>1, <3>2
    <3>4. QED  BY <1>1, <3>1, <3>3
  <2>2. QED  BY <1>4, <2>1
<1>7. Units(f) \cap above = {}
  <2>1. ASSUME NEW u \in Units(f), u \in above
        PROVE  FALSE
    <3>1. PICK x \in S, i \in Nat : i \in 1..f[x] /\ u = <<x, i>>  BY <1>1
    <3>2. i > f[x]  BY <2>1, <3>1
    <3>3. QED  BY <1>0, <3>1, <3>2
  <2>2. QED  BY <2>1
<1>8. lift \in Bijection(Units(g), above)
  <2>1. ASSUME NEW u \in Units(g)
        PROVE  \E x \in S, i \in Nat : i \in 1..g[x] /\ u = <<x, i>>
                 /\ lift[u] = <<x, f[x] + i>> /\ lift[u] \in above
    <3>1. PICK x \in S, i \in Nat : i \in 1..g[x] /\ u = <<x, i>>  BY <1>2
    <3>2. lift[u] = <<x, f[x] + i>>  BY <3>1
    <3>3. f[x] + i \in f[x] + 1..h[x]  BY <1>0, <3>1
    <3>4. QED  BY <1>5, <3>1, <3>2, <3>3
  <2>2. lift \in [Units(g) -> above]  BY <2>1
  <2>3. ASSUME NEW u \in Units(g), NEW v \in Units(g), lift[u] = lift[v]
        PROVE  u = v
    <3>1. PICK x \in S, i \in Nat : i \in 1..g[x] /\ u = <<x, i>> /\ lift[u] = <<x, f[x] + i>>  BY <2>1
    <3>2. PICK y \in S, k \in Nat : k \in 1..g[y] /\ v = <<y, k>> /\ lift[v] = <<y, f[y] + k>>  BY <2>1
    <3>3. x = y /\ f[x] + i = f[y] + k  BY <2>3, <3>1, <3>2
    <3>4. i = k  BY <1>0, <3>3
    <3>5. QED  BY <3>1, <3>2, <3>3, <3>4
  <2>4. ASSUME NEW u \in above
        PROVE  \E v \in Units(g) : lift[v] = u
    <3>1. PICK x \in S, i \in Nat : i \in 1..h[x] /\ u = <<x, i>>  BY <1>3
    <3>2. i \in f[x] + 1..h[x]  BY <1>5, <3>1
    <3>3. i - f[x] \in 1..g[x] /\ f[x] + (i - f[x]) = i  BY <1>0, <3>2
    <3>4. <<x, i - f[x]>> \in Units(g)  BY <1>2, <3>3
    <3>5. lift[<<x, i - f[x]>>] = <<x, f[x] + (i - f[x])>>  BY <3>4
    <3>6. QED  BY <3>1, <3>3, <3>4, <3>5
  <2>5. QED  BY <2>2, <2>3, <2>4 DEF Bijection, Injection, Surjection, IsInjective
<1>9. /\ IsFiniteSet(Units(f)) /\ Total(f) \in Nat
      /\ IsFiniteSet(Units(g)) /\ Total(g) \in Nat
  BY TotalIsNat
<1>10. IsFiniteSet(above) /\ Cardinality(above) = Total(g)
  BY <1>8, <1>9, FS_Bijection DEF ExistsBijection, Total
<1>11. Cardinality(Units(h)) = Cardinality(Units(f)) + Cardinality(above) - Cardinality({})
  BY <1>6, <1>7, <1>9, <1>10, FS_Union
<1>12. QED  BY <1>9, <1>10, <1>11, FS_EmptySet DEF Total

\* A value is at most the total, and the total if the others are zero.
LEMMA TotalHolds ==
    ASSUME NEW S, IsFiniteSet(S), NEW f \in [S -> Nat], NEW x \in S
    PROVE  /\ f[x] <= Total(f)
           /\ (\A y \in S : y # x => f[y] = 0) => Total(f) = f[x]
<1>1. PICK n \in Nat : n = f[x]  OBVIOUS
<1>2. IsFiniteSet({x} \X (1..n)) /\ Cardinality({x} \X (1..n)) = n  BY OneColumn
<1>3. {x} \X (1..n) \subseteq Units(f)  BY <1>1, UnitsAre
<1>4. IsFiniteSet(Units(f))  BY TotalIsNat
<1>5. n <= Total(f)  BY <1>2, <1>3, <1>4, FS_Subset DEF Total
<1>6. ASSUME \A y \in S : y # x => f[y] = 0
      PROVE  Total(f) = n
  <2>1. ASSUME NEW u \in Units(f)
        PROVE  u \in {x} \X (1..n)
    <3>1. PICK y \in S, i \in Nat : i \in 1..f[y] /\ u = <<y, i>>  BY UnitsAre
    <3>2. y = x  BY <1>6, <3>1
    <3>3. QED  BY <1>1, <3>1, <3>2
  <2>2. Units(f) = {x} \X (1..n)  BY <1>3, <2>1
  <2>3. QED  BY <1>2, <2>2 DEF Total
<1>7. QED  BY <1>1, <1>5, <1>6

LEMMA TotalZero ==
    ASSUME NEW S, NEW f \in [S -> Nat], \A x \in S : f[x] = 0
    PROVE  Total(f) = 0
<1>1. Units(f) = {}
  <2>1. ASSUME NEW u \in Units(f)
        PROVE  FALSE
    <3>1. PICK x \in S, i \in Nat : i \in 1..f[x] /\ u = <<x, i>>  BY UnitsAre
    <3>2. QED  BY <3>1
  <2>2. QED  BY <2>1
<1>2. QED  BY <1>1, FS_EmptySet DEF Total

\* Zeros do not count.
LEMMA TotalExtends ==
    ASSUME NEW S, NEW T, S \subseteq T, NEW f \in [S -> Nat], NEW g \in [T -> Nat],
           \A x \in S : g[x] = f[x], \A x \in T \ S : g[x] = 0
    PROVE  Total(g) = Total(f)
<1>1. ASSUME NEW u \in Units(f)
      PROVE  u \in Units(g)
  <2>1. PICK x \in S, i \in Nat : i \in 1..f[x] /\ u = <<x, i>>  BY UnitsAre
  <2>2. x \in T /\ i \in 1..g[x]  BY <2>1
  <2>3. QED  BY <2>1, <2>2, UnitsAre
<1>2. ASSUME NEW u \in Units(g)
      PROVE  u \in Units(f)
  <2>1. PICK x \in T, i \in Nat : i \in 1..g[x] /\ u = <<x, i>>  BY UnitsAre
  <2>2. x \in S  BY <2>1
  <2>3. i \in 1..f[x]  BY <2>1, <2>2
  <2>4. QED  BY <2>1, <2>2, <2>3, UnitsAre
<1>3. Units(f) = Units(g)  BY <1>1, <1>2
<1>4. QED  BY <1>3 DEF Total

\* The total of ones is how many there are.
LEMMA TotalCounts ==
    ASSUME NEW S, IsFiniteSet(S), NEW A \in SUBSET S, NEW f \in [S -> Nat],
           \A x \in S : f[x] = IF x \in A THEN 1 ELSE 0
    PROVE  Total(f) = Cardinality(A)
<1> DEFINE unit == [x \in A |-> <<x, 1>>]
<1>1. IsFiniteSet(A)  BY FS_Subset
<1>2. unit \in Bijection(A, Units(f))
  <2>1. ASSUME NEW x \in A
        PROVE  unit[x] \in Units(f)
    <3>1. x \in S /\ 1 \in 1..f[x]  OBVIOUS
    <3>2. QED  BY <3>1, UnitsAre
  <2>2. ASSUME NEW u \in Units(f)
        PROVE  \E x \in A : unit[x] = u
    <3>1. PICK x \in S, i \in Nat : i \in 1..f[x] /\ u = <<x, i>>  BY UnitsAre
    <3>2. x \in A /\ i = 1  BY <3>1
    <3>3. QED  BY <3>1, <3>2
  <2>3. \A x, y \in A : unit[x] = unit[y] => x = y  OBVIOUS
  <2>4. unit \in [A -> Units(f)]  BY <2>1
  <2>5. QED  BY <2>2, <2>3, <2>4 DEF Bijection, Injection, Surjection, IsInjective
<1>3. QED  BY <1>1, <1>2, FS_Bijection DEF ExistsBijection, Total

\* Totals balance where their terms do.
LEMMA TotalsBalance ==
    ASSUME NEW S, IsFiniteSet(S), NEW f \in [S -> Nat], NEW g \in [S -> Nat],
           NEW h \in [S -> Nat], NEW k \in [S -> Nat],
           \A x \in S : f[x] + h[x] = g[x] + k[x]
    PROVE  Total(f) + Total(h) = Total(g) + Total(k)
<1>1. PICK m : m = [x \in S |-> f[x] + h[x]]  OBVIOUS
<1>2. m \in [S -> Nat] /\ \A x \in S : m[x] = f[x] + h[x] /\ m[x] = g[x] + k[x]  BY <1>1
<1>3. Total(m) = Total(f) + Total(h)  BY <1>2, TotalAdds
<1>4. Total(m) = Total(g) + Total(k)  BY <1>2, TotalAdds
<1>5. QED  BY <1>3, <1>4

-------------------------------------------------------------------------------
ItemSet == [queue : 0..QueueLimit, flight : 0..BatchSize, cancelled : BOOLEAN,
            timer : BOOLEAN, abandoned : BOOLEAN, dropped : Nat]

\* An exporter that gave up has nothing queued, and its timer is not armed.
ItemOK(i) ==
    /\ i \in ItemSet
    /\ i.cancelled => i.abandoned /\ i.flight > 0
    /\ i.timer => i.flight = 0 /\ i.queue > 0
    /\ i.abandoned => i.queue = 0

FewTransports == {D \in SUBSET Transports : IsFiniteSet(D)}

Generation == [items     : UNION {[D -> ItemSet] : D \in FewTransports},
               temporary : BOOLEAN, retired : BOOLEAN, collected : BOOLEAN,
               owners    : SUBSET Calls]

ItemsOK(g) == g \in Generation /\ \A t \in DOMAIN g.items : ItemOK(g.items[t])

GenerationOK(g) ==
    /\ ItemsOK(g)
    /\ g.collected => g.retired /\ Idle(g)
    /\ g.retired /\ Idle(g) /\ DOMAIN g.items # {} => g.collected

\* Whatever is queued waits behind a batch in flight.
Flushing(g) == \A t \in DOMAIN g.items : g.items[t].flight = 0 => g.items[t].queue = 0

\* A shutdown that gives up exporters makes none idle that was not collected
\* before: from the moment it began, what is queued waits behind a batch.
IInv ==
    /\ generations \in Seq(Generation)
    /\ \A n \in 1..Len(generations) : GenerationOK(generations[n])
    /\ active \in 1..Len(generations)
    /\ closed \in BOOLEAN /\ finished \in BOOLEAN
    /\ generationOf \in [Calls -> Nat]
    /\ ~closed => ~generations[active].retired
    /\ closed => \A n \in 1..Len(generations) : Flushing(generations[n])

-------------------------------------------------------------------------------
(* Exporters and generations. *)

LEMMA Batches ==
    ASSUME NEW m \in 0..QueueLimit
    PROVE  /\ Least(m, BatchSize) \in 0..BatchSize /\ m - Least(m, BatchSize) \in 0..QueueLimit
           /\ Least(m, BatchSize) = 0 => m - Least(m, BatchSize) = 0
           /\ m > 0 => Least(m, BatchSize) > 0
           /\ m = 0 => Least(m, BatchSize) = 0
BY TelemetryAssumption DEF Least

\* The next batch goes out when the last one ended.
LEMMA NextBatchOK ==
    ASSUME NEW i \in ItemSet, ~i.cancelled, ~i.timer, i.abandoned => i.queue = 0
    PROVE  /\ ItemOK(NextBatch(i))
           /\ NextBatch(i).flight = 0 => NextBatch(i).queue = 0
<1>1. PICK n : n = Least(i.queue, BatchSize)  OBVIOUS
<1>2. i.queue \in 0..QueueLimit  BY DEF ItemSet
<1>3. /\ n \in 0..BatchSize /\ i.queue - n \in 0..QueueLimit
      /\ n = 0 => i.queue - n = 0
      /\ i.queue = 0 => n = 0
  BY <1>1, <1>2, Batches
<1>4. PICK j : j = [i EXCEPT !.queue = i.queue - n, !.flight = n]  OBVIOUS
<1>5. /\ j \in ItemSet /\ j.queue = i.queue - n /\ j.flight = n
      /\ ~j.cancelled /\ ~j.timer /\ j.abandoned = i.abandoned
  BY <1>3, <1>4 DEF ItemSet
<1>6. NextBatch(i) = j  BY <1>1, <1>4 DEF NextBatch
<1>7. i.queue = 0 => i.queue - n = 0  BY <1>3
<1>8. QED  BY <1>3, <1>5, <1>6, <1>7 DEF ItemOK

LEMMA FlushItemOK ==
    ASSUME NEW i, ItemOK(i)
    PROVE  /\ ItemOK(FlushItem(i))
           /\ FlushItem(i).flight = 0 => FlushItem(i).queue = 0
           /\ i.queue = 0 /\ i.flight = 0 <=> FlushItem(i).queue = 0 /\ FlushItem(i).flight = 0
<1>1. CASE i.abandoned \/ i.flight > 0
  <2>1. FlushItem(i) = i  BY <1>1 DEF FlushItem
  <2>2. i.flight \in Nat  BY TelemetryAssumption DEF ItemOK, ItemSet
  <2>3. QED  BY <1>1, <2>1, <2>2 DEF ItemOK
<1>2. CASE ~(i.abandoned \/ i.flight > 0)
  <2>1. PICK n : n = Least(i.queue, BatchSize)  OBVIOUS
  <2>2. i.queue \in 0..QueueLimit /\ i.flight = 0 /\ ~i.cancelled
    BY <1>2, TelemetryAssumption DEF ItemOK, ItemSet
  <2>3. /\ n \in 0..BatchSize /\ i.queue - n \in 0..QueueLimit
        /\ n = 0 => i.queue - n = 0
        /\ i.queue > 0 => n > 0
        /\ i.queue = 0 => n = 0
    BY <2>1, <2>2, Batches
  <2>4. PICK j : j = [i EXCEPT !.queue = i.queue - n, !.flight = n, !.timer = FALSE]  OBVIOUS
  <2>5. /\ j \in ItemSet /\ j.queue = i.queue - n /\ j.flight = n
        /\ ~j.cancelled /\ ~j.timer /\ ~j.abandoned
    BY <1>2, <2>2, <2>3, <2>4 DEF ItemOK, ItemSet
  <2>6. FlushItem(i) = j
    <3>1. i \in ItemSet  BY DEF ItemOK
    <3>2. FlushItem(i) = [[i EXCEPT !.queue = i.queue - n, !.flight = n] EXCEPT !.timer = FALSE]
      BY <1>2, <2>1 DEF FlushItem, NextBatch
    <3>3. QED  BY <2>4, <3>1, <3>2 DEF ItemSet
  <2>7. ItemOK(j)  BY <2>5 DEF ItemOK
  <2>8. QED  BY <2>2, <2>3, <2>5, <2>6, <2>7
<1>3. QED  BY <1>1, <1>2

\* A generation with other exporters of the same transports.
LEMMA WithItems ==
    ASSUME NEW g \in Generation, NEW items, DOMAIN items = DOMAIN g.items,
           items = [t \in DOMAIN items |-> items[t]],
           \A t \in DOMAIN items : ItemOK(items[t])
    PROVE  /\ ItemsOK([g EXCEPT !.items = items])
           /\ [g EXCEPT !.items = items].items = items
           /\ [g EXCEPT !.items = items].retired = g.retired
           /\ [g EXCEPT !.items = items].collected = g.collected
           /\ [g EXCEPT !.items = items].owners = g.owners
<1>1. DOMAIN g.items \in FewTransports  BY DEF Generation
<1>2. \A t \in DOMAIN items : items[t] \in ItemSet  BY DEF ItemOK
<1>3. items \in [DOMAIN items -> ItemSet]  BY <1>2
<1>4. items \in UNION {[D -> ItemSet] : D \in FewTransports}  BY <1>1, <1>3
<1>5. QED  BY <1>4 DEF ItemsOK, Generation

LEMMA CollectOK ==
    ASSUME NEW g, ItemsOK(g), g.collected => g.retired /\ Idle(g)
    PROVE  /\ GenerationOK(Collect(g)) /\ Collect(g).items = g.items
           /\ Collect(g).retired = g.retired
<1>1. PICK c \in BOOLEAN : c = (g.collected \/ (g.retired /\ Idle(g)))
  BY DEF ItemsOK, Generation, Idle
<1>2. Collect(g) = [g EXCEPT !.collected = c]  BY <1>1 DEF Collect
<1>3. PICK h : h = [g EXCEPT !.collected = c]  OBVIOUS
<1>4. /\ h \in Generation /\ h.items = g.items /\ h.owners = g.owners
      /\ h.retired = g.retired /\ h.collected = c
  BY <1>3 DEF ItemsOK, Generation
<1>5. Idle(h) <=> Idle(g)  BY <1>4 DEF Idle
<1>6. ItemsOK(h)  BY <1>4 DEF ItemsOK
<1>7. GenerationOK(h)  BY <1>1, <1>4, <1>5, <1>6 DEF GenerationOK
<1>8. QED  BY <1>2, <1>3, <1>4, <1>7

LEMMA FlushedOK ==
    ASSUME NEW g, ItemsOK(g), ~g.collected
    PROVE  /\ GenerationOK(Flushed(g)) /\ Flushing(Flushed(g))
           /\ Flushed(g).retired = g.retired /\ Flushed(g) \in Generation
<1>1. PICK items : items = [t \in DOMAIN g.items |-> FlushItem(g.items[t])]  OBVIOUS
<1>2. /\ DOMAIN items = DOMAIN g.items /\ items = [t \in DOMAIN items |-> items[t]]
      /\ \A t \in DOMAIN items : items[t] = FlushItem(g.items[t])
  BY <1>1
<1>3. \A t \in DOMAIN items : ItemOK(items[t]) /\ (items[t].flight = 0 => items[t].queue = 0)
  BY <1>2, FlushItemOK DEF ItemsOK
<1>4. PICK h : h = [g EXCEPT !.items = items]  OBVIOUS
<1>5. FlushItems(g) = h  BY <1>1, <1>4 DEF FlushItems, ItemsOK, Generation
<1>6. g \in Generation  BY DEF ItemsOK
<1>7. ItemsOK(h) /\ h.items = items /\ h.retired = g.retired /\ h.collected = g.collected
  BY <1>2, <1>3, <1>4, <1>6, WithItems
<1>8. GenerationOK(Collect(h)) /\ Collect(h).items = h.items /\ Collect(h).retired = h.retired
  BY <1>7, CollectOK
<1>9. Flushing(Collect(h))  BY <1>3, <1>7, <1>8 DEF Flushing
<1>10. Collect(h) \in Generation  BY <1>8 DEF GenerationOK, ItemsOK
<1>11. QED  BY <1>5, <1>7, <1>8, <1>9, <1>10 DEF Flushed

LEMMA NewGenerationOK ==
    ASSUME NEW dests \in FewTransports, NEW private \in BOOLEAN, NEW owners \in SUBSET Calls,
           private => owners # {}, NEW items, items = [t \in dests |-> NewItem], NEW g,
           g = [items |-> items, temporary |-> private, retired |-> private,
                collected |-> FALSE, owners |-> owners]
    PROVE  GenerationOK(g) /\ g \in Generation /\ g.retired = private
<1>1. ItemOK(NewItem)  BY TelemetryAssumption DEF NewItem, ItemOK, ItemSet
<1>2. items \in [dests -> ItemSet]  BY <1>1 DEF ItemOK
<1>3. items \in UNION {[D -> ItemSet] : D \in FewTransports}  BY <1>2
<1>4. g.items = items /\ g.retired = private /\ g.collected = FALSE /\ g.owners = owners
  OBVIOUS
<1>5. g \in Generation  BY <1>3 DEF Generation
<1>6. ItemsOK(g)  BY <1>1, <1>4, <1>5 DEF ItemsOK
<1>7. GenerationOK(g)  BY <1>4, <1>6 DEF GenerationOK, Idle
<1>8. QED  BY <1>4, <1>5, <1>7

-------------------------------------------------------------------------------
(* The steps. *)

LEMMA BecomeIs ==
    ASSUME NEW gs, Become(gs)
    PROVE  generations' = gs
BY DEF Become

LEMMA EachGeneration ==
    ASSUME IInv, NEW n \in 1..Len(generations)
    PROVE  /\ GenerationOK(generations[n]) /\ ItemsOK(generations[n])
           /\ generations[n] \in Generation
           /\ generations[n].owners # {} => ~generations[n].collected
BY DEF IInv, GenerationOK, ItemsOK, Idle

\* One generation changes.
LEMMA OneChanges ==
    ASSUME IInv, NEW n \in 1..Len(generations), NEW h, GenerationOK(h), closed => Flushing(h),
           h.retired = generations[n].retired,
           generations' = [generations EXCEPT ![n] = h],
           UNCHANGED <<active, closed>>, finished' \in BOOLEAN,
           generationOf' \in [Calls -> Nat]
    PROVE  IInv'
<1>1. generations \in Seq(Generation) /\ h \in Generation
  BY DEF IInv, GenerationOK, ItemsOK
<1>2. /\ generations' \in Seq(Generation) /\ Len(generations') = Len(generations)
      /\ \A m \in 1..Len(generations) : generations'[m] = IF m = n THEN h ELSE generations[m]
  BY <1>1, ExceptSeq
<1>3. \A m \in 1..Len(generations') : GenerationOK(generations'[m])  BY <1>2 DEF IInv
<1>4. ~closed' => ~generations'[active'].retired  BY <1>2 DEF IInv
<1>5. closed' => \A m \in 1..Len(generations') : Flushing(generations'[m])  BY <1>2 DEF IInv
<1>6. QED  BY <1>2, <1>3, <1>4, <1>5 DEF IInv

\* A generation joins the others, and may become the active one.
LEMMA OneJoins ==
    ASSUME IInv, ~closed, NEW gs \in Seq(Generation), Len(gs) = Len(generations),
           \A m \in 1..Len(gs) : GenerationOK(gs[m]),
           NEW h, GenerationOK(h),
           generations' = Append(gs, h),
           \/ active' = active /\ gs[active].retired = generations[active].retired
           \/ active' = Len(generations) + 1 /\ ~h.retired,
           UNCHANGED <<closed, finished>>, generationOf' \in [Calls -> Nat]
    PROVE  IInv'
<1>1. h \in Generation  BY DEF GenerationOK, ItemsOK
<1>2. /\ generations' \in Seq(Generation) /\ Len(generations') = Len(gs) + 1
      /\ \A m \in 1..Len(gs) : generations'[m] = gs[m]
      /\ generations'[Len(gs) + 1] = h
  BY <1>1, AppendProperties
<1>3. Len(gs) \in Nat  BY LenProperties
<1>4. \A m \in 1..Len(generations') : m \in 1..Len(gs) \/ m = Len(gs) + 1  BY <1>2, <1>3
<1>5. \A m \in 1..Len(generations') : GenerationOK(generations'[m])  BY <1>2, <1>4
<1>6. active' \in 1..Len(generations') /\ ~generations'[active'].retired
  BY <1>2, <1>3 DEF IInv
<1>7. QED  BY <1>2, <1>5, <1>6 DEF IInv

LEMMA ConfigureKeeps ==
    ASSUME IInv, NEW dests \in Configurations, Configure(dests)
    PROVE  IInv'
<1>1. PICK old, gs, h :
         /\ old = Flushed([generations[active] EXCEPT !.retired = TRUE])
         /\ gs = [generations EXCEPT ![active] = old]
         /\ h = NewGeneration(dests, FALSE)
  OBVIOUS
<1>2. /\ ~closed /\ active' = Len(generations) + 1 /\ Become(Append(gs, h))
      /\ UNCHANGED <<closed, finished, generationOf>>
  BY <1>1 DEF Configure
<1>3. generations' = Append(gs, h)  BY <1>2, BecomeIs
<1>4. PICK g : g = [generations[active] EXCEPT !.retired = TRUE]  OBVIOUS
<1>5. /\ GenerationOK(generations[active]) /\ generations[active] \in Generation
      /\ ~generations[active].retired
  BY <1>2, EachGeneration DEF IInv
<1>6. g.collected = generations[active].collected /\ g.items = generations[active].items
      /\ g \in Generation
  BY <1>4, <1>5 DEF Generation
<1>7. ~g.collected /\ ItemsOK(g)  BY <1>5, <1>6 DEF GenerationOK, ItemsOK
<1>8. GenerationOK(old) /\ old \in Generation  BY <1>1, <1>4, <1>7, FlushedOK
<1>9. /\ gs \in Seq(Generation) /\ Len(gs) = Len(generations)
      /\ \A m \in 1..Len(generations) : gs[m] = IF m = active THEN old ELSE generations[m]
  BY <1>1, <1>8, ExceptSeq DEF IInv
<1>10. \A m \in 1..Len(gs) : GenerationOK(gs[m])  BY <1>8, <1>9 DEF IInv
<1>11. GenerationOK(h) /\ ~h.retired
  <2>1. dests \in FewTransports  BY TelemetryAssumption DEF FewTransports
  <2>2. PICK items : items = [t \in dests |-> NewItem]  OBVIOUS
  <2>3. h = [items |-> items, temporary |-> FALSE, retired |-> FALSE, collected |-> FALSE,
             owners |-> {}]
    BY <1>1, <2>2 DEF NewGeneration
  <2>4. PICK private \in BOOLEAN, owners \in SUBSET Calls :
           private = FALSE /\ owners = {}
    OBVIOUS
  <2>5. private => owners # {}  BY <2>4
  <2>6. h = [items |-> items, temporary |-> private, retired |-> private,
             collected |-> FALSE, owners |-> owners]
    BY <2>3, <2>4
  <2>7. GenerationOK(h) /\ h.retired = private
    BY <2>1, <2>2, <2>5, <2>6, NewGenerationOK
  <2>8. QED  BY <2>4, <2>7
<1>12. generationOf' \in [Calls -> Nat]  BY <1>2 DEF IInv
<1>13. QED  BY <1>2, <1>3, <1>9, <1>10, <1>11, <1>12, OneJoins

LEMMA ExecuteKeeps ==
    ASSUME IInv, NEW c \in Calls, Execute(c)
    PROVE  IInv'
<1>1. PICK h : h = [generations[active] EXCEPT !.owners = generations[active].owners \cup {c}]
  OBVIOUS
<1>2. /\ ~closed /\ generationOf' = [generationOf EXCEPT ![c] = active]
      /\ generations' = [generations EXCEPT ![active] = h]
      /\ UNCHANGED <<active, closed, finished>>
  BY <1>1 DEF Execute
<1>3. /\ active \in 1..Len(generations) /\ GenerationOK(generations[active])
      /\ generations[active] \in Generation /\ ~generations[active].retired
  BY <1>2, EachGeneration DEF IInv
<1>4. /\ h \in Generation /\ h.items = generations[active].items
      /\ h.retired = generations[active].retired /\ h.collected = generations[active].collected
      /\ c \in h.owners
  BY <1>1, <1>3 DEF Generation
<1>5. GenerationOK(h)  BY <1>3, <1>4 DEF GenerationOK, ItemsOK, Idle
<1>6. generationOf' \in [Calls -> Nat]
  <2>1. active \in Nat  BY <1>3, LenProperties DEF IInv
  <2>2. QED  BY <1>2, <2>1 DEF IInv
<1>7. finished' \in BOOLEAN  BY <1>2 DEF IInv
<1>8. QED  BY <1>2, <1>3, <1>4, <1>5, <1>6, <1>7, OneChanges

LEMMA ExecutePrivateKeeps ==
    ASSUME IInv, NEW c \in Calls, NEW dests \in Configurations, ExecutePrivate(c, dests)
    PROVE  IInv'
<1>1. PICK h : h = [NewGeneration(dests, TRUE) EXCEPT !.owners = {c}]  OBVIOUS
<1>2. /\ ~closed /\ generationOf' = [generationOf EXCEPT ![c] = Len(generations) + 1]
      /\ generations' = Append(generations, h)
      /\ UNCHANGED <<active, closed, finished>>
  BY <1>1 DEF ExecutePrivate
<1>3. GenerationOK(h)
  <2>1. dests \in FewTransports  BY TelemetryAssumption DEF FewTransports
  <2>2. PICK items : items = [t \in dests |-> NewItem]  OBVIOUS
  <2>3. h = [items |-> items, temporary |-> TRUE, retired |-> TRUE, collected |-> FALSE,
             owners |-> {c}]
    BY <1>1, <2>2 DEF NewGeneration
  <2>4. PICK private \in BOOLEAN, owners \in SUBSET Calls :
           private = TRUE /\ owners = {c}
    OBVIOUS
  <2>5. private => owners # {}  BY <2>4
  <2>6. h = [items |-> items, temporary |-> private, retired |-> private,
             collected |-> FALSE, owners |-> owners]
    BY <2>3, <2>4
  <2>7. GenerationOK(h) /\ h.retired = private
    BY <2>1, <2>2, <2>5, <2>6, NewGenerationOK
  <2>8. QED  BY <2>4, <2>7
<1>4. generationOf' \in [Calls -> Nat]
  <2>1. Len(generations) \in Nat  BY LenProperties DEF IInv
  <2>2. QED  BY <1>2, <2>1 DEF IInv
<1>5. generations \in Seq(Generation) /\ \A m \in 1..Len(generations) : GenerationOK(generations[m])
  BY DEF IInv
<1>6. QED  BY <1>2, <1>3, <1>4, <1>5, OneJoins

\* enqueue() gives an exporter one span at most, and arms its timer for it.
LEMMA EnqueuedOK ==
    ASSUME NEW g, ItemsOK(g), NEW t \in DOMAIN g.items
    PROVE  ItemOK(Enqueued(g, t))
<1>1. PICK i : i = g.items[t]  OBVIOUS
<1>2. ItemOK(i) /\ i \in ItemSet  BY <1>1 DEF ItemsOK, ItemOK
<1>3. CASE i.abandoned  BY <1>1, <1>2, <1>3 DEF Enqueued
<1>4. CASE ~i.abandoned /\ OverBudget(g, t)
  <2>1. PICK j : j = [i EXCEPT !.dropped = i.dropped + 1]  OBVIOUS
  <2>2. Enqueued(g, t) = j  BY <1>1, <1>4, <2>1 DEF Enqueued
  <2>3. /\ j \in ItemSet /\ j.queue = i.queue /\ j.flight = i.flight /\ j.timer = i.timer
        /\ j.cancelled = i.cancelled /\ j.abandoned = i.abandoned
    BY <1>2, <2>1 DEF ItemSet
  <2>4. QED  BY <1>2, <2>2, <2>3 DEF ItemOK
<1>5. CASE ~i.abandoned /\ ~OverBudget(g, t)
  <2>1. PICK timer \in BOOLEAN : timer = (i.timer \/ i.flight = 0)  BY <1>2 DEF ItemSet
  <2>2. i.queue \in 0..QueueLimit /\ i.dropped \in Nat /\ i.flight \in 0..BatchSize
    BY <1>2 DEF ItemSet
  <2>3. CASE i.queue >= QueueLimit
    <3> PICK d \in Nat : d = i.dropped + 1  BY <2>2
    <3>1. PICK j : j = [i EXCEPT !.dropped = d, !.timer = timer]  OBVIOUS
    <3>2. Enqueued(g, t) = j  BY <1>1, <1>5, <2>1, <2>3, <3>1 DEF Enqueued
    <3>3. /\ j \in ItemSet /\ j.queue = i.queue /\ j.flight = i.flight /\ j.timer = timer
          /\ j.cancelled = i.cancelled /\ j.abandoned = i.abandoned
      BY <1>2, <2>1, <2>2, <3>1 DEF ItemSet
    <3>4. i.queue > 0  BY <2>2, <2>3, TelemetryAssumption
    <3>5. QED  BY <1>2, <1>5, <2>1, <3>2, <3>3, <3>4 DEF ItemOK
  <2>4. CASE ~(i.queue >= QueueLimit)
    <3>1. PICK j : j = [i EXCEPT !.queue = i.queue + 1, !.timer = timer]  OBVIOUS
    <3>2. Enqueued(g, t) = j  BY <1>1, <1>5, <2>1, <2>4, <3>1 DEF Enqueued
    <3>3. i.queue + 1 \in 0..QueueLimit /\ i.queue + 1 > 0
      BY <2>2, <2>4, TelemetryAssumption
    <3>4. /\ j \in ItemSet /\ j.queue = i.queue + 1 /\ j.flight = i.flight /\ j.timer = timer
          /\ j.cancelled = i.cancelled /\ j.abandoned = i.abandoned
      BY <1>2, <2>1, <3>1, <3>3 DEF ItemSet
    <3>5. QED  BY <1>2, <1>5, <2>1, <3>2, <3>3, <3>4 DEF ItemOK
  <2>5. QED  BY <2>3, <2>4
<1>6. QED  BY <1>3, <1>4, <1>5

LEMMA CompleteKeeps ==
    ASSUME IInv, NEW c \in Calls, Complete(c)
    PROVE  IInv'
<1>1. PICK n, g, items, left, h :
         /\ n = generationOf[c] /\ g = generations[n]
         /\ items = IF closed THEN g.items ELSE [t \in DOMAIN g.items |-> Enqueued(g, t)]
         /\ left = [g EXCEPT !.items = items, !.owners = g.owners \ {c}]
         /\ h = IF g.retired THEN Flushed(left) ELSE left
  OBVIOUS
<1>2. /\ n \in DOMAIN generations /\ c \in g.owners
      /\ Become([generations EXCEPT ![n] = h])
      /\ UNCHANGED <<active, closed, finished, generationOf>>
  BY <1>1 DEF Complete
<1>3. generations' = [generations EXCEPT ![n] = h]  BY <1>2, BecomeIs
<1>4. n \in 1..Len(generations)  BY <1>2, LenProperties DEF IInv
<1>5. GenerationOK(g) /\ ItemsOK(g) /\ g \in Generation /\ ~g.collected
  BY <1>1, <1>2, <1>4, EachGeneration
<1>6. /\ DOMAIN items = DOMAIN g.items /\ items = [t \in DOMAIN items |-> items[t]]
      /\ \A t \in DOMAIN items : ItemOK(items[t])
  <2>1. CASE closed  BY <1>1, <1>5, <2>1 DEF ItemsOK, Generation
  <2>2. CASE ~closed  BY <1>1, <1>5, <2>2, EnqueuedOK
  <2>3. QED  BY <2>1, <2>2
<1>7. PICK k : k = [g EXCEPT !.items = items]  OBVIOUS
<1>8. /\ ItemsOK(k) /\ k.items = items /\ k.retired = g.retired
      /\ k.collected = g.collected /\ k.owners = g.owners
  BY <1>5, <1>6, <1>7, WithItems
<1>9. left = [k EXCEPT !.owners = g.owners \ {c}]  BY <1>1, <1>5, <1>7 DEF Generation
<1>10. /\ left \in Generation /\ left.items = items /\ left.retired = g.retired
       /\ ~left.collected
  BY <1>5, <1>8, <1>9 DEF ItemsOK, Generation
<1>11. ItemsOK(left)  BY <1>6, <1>10 DEF ItemsOK
<1>12. GenerationOK(h) /\ h.retired = g.retired /\ (closed => Flushing(h))
  <2>1. CASE g.retired  BY <1>1, <1>10, <1>11, <2>1, FlushedOK
  <2>2. CASE ~g.retired
    <3>1. h = left  BY <1>1, <2>2
    <3>2. closed => Flushing(g)  BY <1>1, <1>4 DEF IInv
    <3>3. closed => h.items = g.items  BY <1>1, <1>10, <3>1
    <3>4. closed => Flushing(h)  BY <3>2, <3>3 DEF Flushing
    <3>5. QED  BY <1>10, <1>11, <2>2, <3>1, <3>4 DEF GenerationOK
  <2>3. QED  BY <2>1, <2>2
<1>13. finished' \in BOOLEAN /\ generationOf' \in [Calls -> Nat]  BY <1>2 DEF IInv
<1>14. QED  BY <1>1, <1>2, <1>3, <1>4, <1>12, <1>13, OneChanges

\* An exporter is one of an existing generation.
LEMMA ExporterFacts ==
    ASSUME IInv, NEW x \in Exporters
    PROVE  /\ x[1] \in 1..Len(generations) /\ x[2] \in DOMAIN generations[x[1]].items
           /\ ItemOK(Item(x)) /\ Item(x) = generations[x[1]].items[x[2]]
           /\ GenerationOK(generations[x[1]]) /\ ItemsOK(generations[x[1]])
           /\ Item(x).flight > 0 => ~generations[x[1]].collected
           /\ Item(x).timer => ~generations[x[1]].collected
<1>1. PICK n \in DOMAIN generations : x \in {n} \X DOMAIN generations[n].items
  BY DEF Exporters
<1>2. n \in 1..Len(generations)  BY LenProperties DEF IInv
<1>3. x[1] = n /\ x[2] \in DOMAIN generations[n].items  BY <1>1
<1>4. GenerationOK(generations[n]) /\ ItemsOK(generations[n])  BY <1>2, EachGeneration
<1>5. Item(x) = generations[n].items[x[2]]  BY <1>3 DEF Item
<1>6. ItemOK(Item(x))  BY <1>3, <1>4, <1>5 DEF ItemsOK
<1>7. generations[n].collected => Item(x).flight = 0 /\ ~Item(x).timer
  BY <1>3, <1>4, <1>5 DEF GenerationOK, Idle
<1>8. QED  BY <1>2, <1>3, <1>4, <1>5, <1>6, <1>7

\* Another state of one exporter.
LEMMA WithItem ==
    ASSUME NEW g, ItemsOK(g), NEW t \in DOMAIN g.items, NEW i, ItemOK(i),
           NEW h, h = [g EXCEPT !.items[t] = i]
    PROVE  /\ ItemsOK(h) /\ DOMAIN h.items = DOMAIN g.items /\ h.items[t] = i
           /\ h.retired = g.retired /\ h.collected = g.collected /\ h.owners = g.owners
           /\ Flushing(g) /\ (i.flight = 0 => i.queue = 0) => Flushing(h)
<1>1. PICK items : items = [g.items EXCEPT ![t] = i]  OBVIOUS
<1>2. g \in Generation /\ g.items = [u \in DOMAIN g.items |-> g.items[u]]
  BY DEF ItemsOK, Generation
<1>3. /\ DOMAIN items = DOMAIN g.items /\ items = [u \in DOMAIN items |-> items[u]]
      /\ \A u \in DOMAIN items : items[u] = IF u = t THEN i ELSE g.items[u]
  BY <1>1, <1>2
<1>4. \A u \in DOMAIN items : ItemOK(items[u])  BY <1>3 DEF ItemsOK
<1>5. h = [g EXCEPT !.items = items]  BY <1>1, <1>2 DEF Generation
<1>6. /\ ItemsOK(h) /\ h.items = items
      /\ h.retired = g.retired /\ h.collected = g.collected /\ h.owners = g.owners
  BY <1>2, <1>3, <1>4, <1>5, WithItems
<1>7. QED  BY <1>3, <1>6 DEF Flushing

LEMMA TimerFiresKeeps ==
    ASSUME IInv, NEW x \in Exporters, TimerFires(x)
    PROVE  IInv'
<1>1. PICK n, t, g, i : n = x[1] /\ t = x[2] /\ g = generations[n] /\ i = FlushItem(Item(x))
  OBVIOUS
<1>2. PICK h : h = [g EXCEPT !.items[t] = i]  OBVIOUS
<1>3. /\ n \in 1..Len(generations) /\ t \in DOMAIN g.items /\ ItemOK(Item(x))
      /\ Item(x) = g.items[t] /\ GenerationOK(g) /\ ItemsOK(g)
      /\ Item(x).timer => ~g.collected
  BY <1>1, ExporterFacts
<1>4. /\ Item(x).timer /\ generations' = [generations EXCEPT ![n].items[t] = FlushItem(@)]
      /\ UNCHANGED <<active, closed, finished, generationOf>>
  BY <1>1 DEF TimerFires
<1>5. generations' = [generations EXCEPT ![n] = h]  BY <1>1, <1>2, <1>3, <1>4
<1>6. /\ ItemOK(i) /\ (i.flight = 0 => i.queue = 0)
      /\ ~(i.queue = 0 /\ i.flight = 0)
  <2>1. Item(x).queue # 0
    BY <1>3, <1>4, TelemetryAssumption DEF ItemOK, ItemSet
  <2>2. QED  BY <1>1, <1>3, <2>1, FlushItemOK
<1>7. /\ ItemsOK(h) /\ t \in DOMAIN h.items /\ h.items[t] = i /\ h.retired = g.retired
      /\ h.collected = g.collected /\ (Flushing(g) => Flushing(h))
  BY <1>2, <1>3, <1>6, WithItem
<1>8. ~Idle(h)  BY <1>6, <1>7 DEF Idle
<1>9. GenerationOK(h)  BY <1>3, <1>4, <1>7, <1>8 DEF GenerationOK
<1>10. closed => Flushing(h)  BY <1>1, <1>3, <1>7 DEF IInv
<1>11. finished' \in BOOLEAN /\ generationOf' \in [Calls -> Nat]  BY <1>4 DEF IInv
<1>12. QED  BY <1>1, <1>3, <1>4, <1>5, <1>7, <1>9, <1>10, <1>11, OneChanges

\* A batch ended.
LEMMA AfterKeeps ==
    ASSUME IInv, NEW x \in Exporters, Item(x).flight > 0, NEW i, ItemOK(i),
           i.flight = 0 => i.queue = 0, After(x, i),
           UNCHANGED <<active, closed, finished, generationOf>>
    PROVE  IInv'
<1>1. PICK n, t, g : n = x[1] /\ t = x[2] /\ g = generations[n]  OBVIOUS
<1>2. PICK k : k = [g EXCEPT !.items[t] = i]  OBVIOUS
<1>3. PICK h : h = Collect(k)  OBVIOUS
<1>4. /\ n \in 1..Len(generations) /\ t \in DOMAIN g.items /\ ItemsOK(g) /\ ~g.collected
  BY <1>1, ExporterFacts
<1>5. generations' = [generations EXCEPT ![n] = h]
  BY <1>1, <1>2, <1>3, BecomeIs DEF After
<1>6. /\ ItemsOK(k) /\ k.retired = g.retired /\ k.collected = g.collected
      /\ (Flushing(g) => Flushing(k))
  BY <1>2, <1>4, WithItem
<1>7. GenerationOK(h) /\ h.items = k.items /\ h.retired = k.retired
  BY <1>3, <1>4, <1>6, CollectOK
<1>8. closed => Flushing(h)
  <2>1. closed => Flushing(g)  BY <1>1, <1>4 DEF IInv
  <2>2. QED  BY <1>6, <1>7, <2>1 DEF Flushing
<1>9. finished' \in BOOLEAN /\ generationOf' \in [Calls -> Nat]  BY DEF IInv
<1>10. QED  BY <1>1, <1>4, <1>5, <1>6, <1>7, <1>8, <1>9, OneChanges

LEMMA UpToMaxCount ==
    ASSUME NEW n \in Nat
    PROVE  /\ Least(MaxCount, n) \in 0..MaxCount /\ Least(MaxCount, n) <= n
           /\ Least(MaxCount, n) = n \/ Least(MaxCount, n) = MaxCount
           /\ Least(MaxCount, n) < n => Least(MaxCount, n) = MaxCount
           /\ n >= MaxCount => Least(MaxCount, n) = MaxCount
           /\ Least(MaxCount, n) \in Nat /\ MaxCount \in Nat
  BY TelemetryAssumption DEF Least

LEMMA BatchEndsKeeps ==
    ASSUME IInv, NEW x \in Exporters, NEW m \in Nat, BatchEnds(x, m)
    PROVE  IInv'
<1>1. /\ Item(x).flight > 0 /\ ~Item(x).cancelled
      /\ After(x, NextBatch([Item(x) EXCEPT !.dropped = Least(MaxCount, @ + m)]))
      /\ UNCHANGED <<active, closed, finished, generationOf>>
  BY DEF BatchEnds
<1>2. ItemOK(Item(x))  BY ExporterFacts
<1>3. PICK i : i = Item(x)  OBVIOUS
<1>4. PICK d \in Nat : d = Least(MaxCount, i.dropped + m)
  <2>1. i.dropped + m \in Nat  BY <1>2, <1>3 DEF ItemOK, ItemSet
  <2>2. QED  BY <2>1, UpToMaxCount
<1>5. PICK j : j = [i EXCEPT !.dropped = d]  OBVIOUS
<1>6. After(x, NextBatch(j))
  <2>1. j = [Item(x) EXCEPT !.dropped = Least(MaxCount, @ + m)]  BY <1>3, <1>4, <1>5
  <2>2. QED  BY <1>1, <2>1
<1>7. /\ j \in ItemSet /\ j.cancelled = i.cancelled /\ j.timer = i.timer
      /\ j.abandoned = i.abandoned /\ j.queue = i.queue
  BY <1>2, <1>3, <1>5 DEF ItemOK, ItemSet
<1>8. ~i.timer
  BY <1>1, <1>2, <1>3, TelemetryAssumption DEF ItemOK, ItemSet
<1>9. ItemOK(NextBatch(j)) /\ (NextBatch(j).flight = 0 => NextBatch(j).queue = 0)
  BY <1>1, <1>2, <1>3, <1>7, <1>8, NextBatchOK DEF ItemOK
<1>10. QED  BY <1>1, <1>6, <1>9, AfterKeeps

\* What a batch that ends adds to the count of dropped spans.
LEMMA ExportSettlesAs ==
    ASSUME IInv, NEW x \in Exporters, ExportSettles(x)
    PROVE  \/ /\ BatchEnds(x, Item(x).flight) /\ Item(x).flight \in Nat
              /\ UNCHANGED <<answered, reported>>
           \/ \E n \in Nat : /\ BatchEnds(x, n)
                             /\ answered' = answered + Item(x).flight
                             /\ reported' = reported + n
<1>1. Item(x).flight \in 0..BatchSize  BY ExporterFacts DEF ItemOK, ItemSet
<1>2. Item(x).flight \in Nat  BY <1>1, TelemetryAssumption
<1>3. Reports \cup {0} \subseteq Nat  BY TelemetryAssumption
<1>4. QED  BY <1>2, <1>3 DEF ExportSettles

LEMMA ExportSettlesKeeps ==
    ASSUME IInv, NEW x \in Exporters, ExportSettles(x)
    PROVE  IInv'
  BY ExportSettlesAs, BatchEndsKeeps

LEMMA CancelledEndsKeeps ==
    ASSUME IInv, NEW x \in Exporters, CancelledEnds(x)
    PROVE  IInv'
<1>1. /\ Item(x).cancelled /\ After(x, Ended(Item(x)))
      /\ UNCHANGED <<active, closed, finished, generationOf>>
  BY DEF CancelledEnds
<1>2. ItemOK(Item(x))  BY ExporterFacts
<1>3. PICK i : i = Item(x)  OBVIOUS
<1> PICK none \in 0..BatchSize : none = 0  BY TelemetryAssumption
<1> PICK no \in BOOLEAN : no = FALSE  OBVIOUS
<1>4. PICK j : j = [i EXCEPT !.flight = none, !.cancelled = no]  OBVIOUS
<1>5. Ended(Item(x)) = j  BY <1>3, <1>4 DEF Ended
<1>6. /\ j \in ItemSet /\ ~j.cancelled /\ j.flight = 0 /\ j.timer = i.timer
      /\ j.abandoned = i.abandoned /\ j.queue = i.queue
  BY <1>2, <1>3, <1>4 DEF ItemOK, ItemSet
<1>7. /\ i.abandoned /\ i.flight > 0 /\ i.queue = 0 /\ ~i.timer
  BY <1>1, <1>2, <1>3, TelemetryAssumption DEF ItemOK, ItemSet
<1>8. ItemOK(j) /\ j.queue = 0  BY <1>6, <1>7 DEF ItemOK
<1>9. Item(x).flight > 0  BY <1>3, <1>7
<1>10. QED  BY <1>1, <1>5, <1>8, <1>9, AfterKeeps

\* A flush of all: what is still queued waits behind a batch.
LEMMA FlushAllOK ==
    ASSUME NEW gs \in Seq(Generation),
           \A n \in 1..Len(gs) : /\ ItemsOK(gs[n])
                                 /\ gs[n].collected => gs[n].retired /\ Idle(gs[n])
    PROVE  /\ FlushAll(gs) \in Seq(Generation) /\ Len(FlushAll(gs)) = Len(gs)
           /\ \A n \in 1..Len(gs) :
                 /\ GenerationOK(FlushAll(gs)[n]) /\ Flushing(FlushAll(gs)[n])
                 /\ FlushAll(gs)[n].retired = gs[n].retired
<1>1. Len(gs) \in Nat /\ DOMAIN gs = 1..Len(gs)  BY LenProperties
<1>2. PICK fs : fs = FlushAll(gs)  OBVIOUS
<1>3. /\ fs = [n \in 1..Len(gs) |-> fs[n]]
      /\ \A n \in 1..Len(gs) :
            fs[n] = IF gs[n].collected \/ DOMAIN gs[n].items = {} THEN gs[n] ELSE Flushed(gs[n])
  BY <1>1, <1>2 DEF FlushAll
<1>4. ASSUME NEW n \in 1..Len(gs)
      PROVE  GenerationOK(fs[n]) /\ Flushing(fs[n]) /\ fs[n].retired = gs[n].retired
  <2>1. ItemsOK(gs[n])  OBVIOUS
  <2>2. CASE gs[n].collected \/ DOMAIN gs[n].items = {}
    <3>1. fs[n] = gs[n]  BY <1>3, <2>2
    <3>2. GenerationOK(gs[n])  BY <2>1, <2>2 DEF GenerationOK
    <3>3. Flushing(gs[n])  BY <2>2 DEF Flushing, Idle
    <3>4. QED  BY <3>1, <3>2, <3>3
  <2>3. CASE ~(gs[n].collected \/ DOMAIN gs[n].items = {})
    BY <1>3, <2>1, <2>3, FlushedOK
  <2>4. QED  BY <2>2, <2>3
<1>5. \A n \in 1..Len(gs) : fs[n] \in Generation  BY <1>4 DEF GenerationOK, ItemsOK
<1>6. fs \in [1..Len(gs) -> Generation]  BY <1>3, <1>5
<1>7. fs \in Seq(Generation)  BY <1>1, <1>6, SeqDef
<1>8. Len(fs) = Len(gs)
  <2>1. DOMAIN fs = 1..Len(gs)  BY <1>6
  <2>2. QED  BY <1>1, <1>7, <2>1, LenProperties
<1>9. QED  BY <1>2, <1>4, <1>7, <1>8

\* All generations change.
LEMMA AllChange ==
    ASSUME IInv, generations' \in Seq(Generation), Len(generations') = Len(generations),
           \A n \in 1..Len(generations) : GenerationOK(generations'[n]),
           \/ closed' = TRUE
           \/ /\ UNCHANGED closed
              /\ \A n \in 1..Len(generations) : generations'[n].retired = generations[n].retired,
           closed' => \A n \in 1..Len(generations) : Flushing(generations'[n]),
           UNCHANGED <<active, generationOf>>, finished' \in BOOLEAN
    PROVE  IInv'
<1>1. active' \in 1..Len(generations')  BY DEF IInv
<1>2. closed' \in BOOLEAN  BY DEF IInv
<1>3. ~closed' => ~generations'[active'].retired  BY DEF IInv
<1>4. QED  BY <1>1, <1>2, <1>3 DEF IInv

LEMMA FlushKeeps ==
    ASSUME IInv, Flush
    PROVE  IInv'
<1>1. /\ generations' = FlushAll(generations)
      /\ UNCHANGED <<active, closed, finished, generationOf>>
  BY BecomeIs DEF Flush
<1>2. generations \in Seq(Generation)  BY DEF IInv
<1>3. \A n \in 1..Len(generations) :
         /\ ItemsOK(generations[n])
         /\ generations[n].collected => generations[n].retired /\ Idle(generations[n])
  BY DEF IInv, GenerationOK
<1>4. /\ generations' \in Seq(Generation) /\ Len(generations') = Len(generations)
      /\ \A n \in 1..Len(generations) :
            /\ GenerationOK(generations'[n]) /\ Flushing(generations'[n])
            /\ generations'[n].retired = generations[n].retired
  BY <1>1, <1>2, <1>3, FlushAllOK
<1>5. finished' \in BOOLEAN  BY <1>1 DEF IInv
<1>6. QED  BY <1>1, <1>4, <1>5, AllChange

LEMMA ShutdownKeeps ==
    ASSUME IInv, Shutdown
    PROVE  IInv'
<1>1. PICK gs : gs = [n \in DOMAIN generations |-> [generations[n] EXCEPT !.retired = TRUE]]
  OBVIOUS
<1>2. /\ closed' = TRUE /\ generations' = FlushAll(gs)
      /\ UNCHANGED <<active, finished, generationOf>>
  BY <1>1, BecomeIs DEF Shutdown
<1>3. Len(generations) \in Nat /\ DOMAIN generations = 1..Len(generations)
  BY LenProperties DEF IInv
<1>4. ASSUME NEW n \in 1..Len(generations)
      PROVE  gs[n] \in Generation /\ ItemsOK(gs[n]) /\ (gs[n].collected => gs[n].retired /\ Idle(gs[n]))
  <2>1. PICK g : g = generations[n]  OBVIOUS
  <2>2. PICK h : h = [g EXCEPT !.retired = TRUE]  OBVIOUS
  <2>3. gs[n] = h  BY <1>1, <1>3, <2>1, <2>2
  <2>4. GenerationOK(g) /\ g \in Generation  BY <2>1, EachGeneration
  <2>5. /\ h \in Generation /\ h.items = g.items /\ h.owners = g.owners
        /\ h.collected = g.collected /\ h.retired
    BY <2>2, <2>4 DEF Generation
  <2>6. QED  BY <2>3, <2>4, <2>5 DEF GenerationOK, ItemsOK, Idle
<1>5. gs \in Seq(Generation) /\ Len(gs) = Len(generations)
  <2>1. gs = [n \in 1..Len(generations) |-> gs[n]]  BY <1>1, <1>3
  <2>2. gs \in [1..Len(generations) -> Generation]  BY <1>4, <2>1
  <2>3. gs \in Seq(Generation)  BY <1>3, <2>2, SeqDef
  <2>4. DOMAIN gs = 1..Len(generations)  BY <2>2
  <2>5. QED  BY <1>3, <2>3, <2>4, LenProperties
<1>6. /\ generations' \in Seq(Generation) /\ Len(generations') = Len(generations)
      /\ \A n \in 1..Len(generations) :
            GenerationOK(generations'[n]) /\ Flushing(generations'[n])
  BY <1>2, <1>4, <1>5, FlushAllOK
<1>7. finished' \in BOOLEAN  BY <1>2 DEF IInv
<1>8. QED  BY <1>2, <1>6, <1>7, AllChange

\* An exporter gives up: it was waiting behind a batch, or is left as it is.
LEMMA AbandonOK ==
    ASSUME NEW i, ItemOK(i), i.flight = 0 => i.queue = 0
    PROVE  /\ ItemOK(Abandon(i)) /\ Abandon(i).queue = 0 /\ Abandon(i).flight = i.flight
           /\ ~Abandon(i).timer /\ ~i.timer
<1>1. /\ i.queue \in 0..QueueLimit /\ i.flight \in 0..BatchSize /\ i.dropped \in Nat
      /\ i \in ItemSet /\ QueueLimit \in Nat /\ BatchSize \in Nat
  BY TelemetryAssumption DEF ItemOK, ItemSet
<1>2. ~i.timer  BY <1>1 DEF ItemOK
<1>3. CASE Busy(i)
  <2> PICK d \in Nat : d = i.dropped + i.queue + i.flight  BY <1>1
  <2> PICK none \in 0..QueueLimit : none = 0  BY <1>1
  <2> PICK no \in BOOLEAN, yes \in BOOLEAN : no = FALSE /\ yes = TRUE  OBVIOUS
  <2> DEFINE sent == i.flight > 0
  <2>1. sent \in BOOLEAN  OBVIOUS
  <2>2. PICK j : j = [i EXCEPT !.dropped = d, !.queue = none, !.timer = no,
                               !.abandoned = yes, !.cancelled = sent]
    OBVIOUS
  <2>3. Abandon(i) = j  BY <1>3, <2>1, <2>2 DEF Abandon
  <2>4. /\ j \in ItemSet /\ j.queue = 0 /\ ~j.timer /\ j.abandoned /\ j.flight = i.flight
        /\ (j.cancelled <=> i.flight > 0)
    <3>1. j.cancelled = sent /\ j.flight = i.flight  BY <1>1, <2>2 DEF ItemSet
    <3> HIDE DEF sent
    <3>2. /\ j \in ItemSet /\ j.queue = 0 /\ ~j.timer /\ j.abandoned
      BY <1>1, <2>1, <2>2 DEF ItemSet
    <3>3. QED  BY <3>1, <3>2 DEF sent
  <2>5. QED  BY <1>2, <2>3, <2>4 DEF ItemOK
<1>4. CASE ~Busy(i)
  <2>1. Abandon(i) = i  BY <1>4 DEF Abandon
  <2>2. i.queue = 0  BY <1>1, <1>4 DEF Busy
  <2>3. QED  BY <1>2, <2>1, <2>2
<1>5. QED  BY <1>3, <1>4

LEMMA ShutdownForcedKeeps ==
    ASSUME IInv, ShutdownForced
    PROVE  IInv'
<1>1. /\ closed /\ finished' = TRUE
      /\ generations' = [n \in DOMAIN generations |->
            [generations[n] EXCEPT !.items = [t \in DOMAIN @ |-> Abandon(@[t])]]]
      /\ UNCHANGED <<active, closed, generationOf>>
  BY DEF ShutdownForced
<1>2. Len(generations) \in Nat /\ DOMAIN generations = 1..Len(generations)
  BY LenProperties DEF IInv
<1>3. ASSUME NEW n \in 1..Len(generations)
      PROVE  /\ GenerationOK(generations'[n]) /\ generations'[n] \in Generation
             /\ Flushing(generations'[n])
  <2>1. PICK g, items : g = generations[n] /\ items = [t \in DOMAIN g.items |-> Abandon(g.items[t])]
    OBVIOUS
  <2>2. PICK h : h = [g EXCEPT !.items = items]  OBVIOUS
  <2>3. GenerationOK(g) /\ g \in Generation /\ Flushing(g)
    BY <1>1, <2>1, EachGeneration DEF IInv
  <2>4. generations'[n] = h  BY <1>1, <1>2, <2>1, <2>2, <2>3 DEF Generation
  <2>5. /\ DOMAIN items = DOMAIN g.items /\ items = [t \in DOMAIN items |-> items[t]]
        /\ \A t \in DOMAIN items : items[t] = Abandon(g.items[t])
    BY <2>1
  <2>6. ASSUME NEW t \in DOMAIN items
        PROVE  /\ ItemOK(items[t]) /\ items[t].queue = 0 /\ items[t].flight = g.items[t].flight
               /\ ~items[t].timer /\ ~g.items[t].timer
               /\ g.items[t].flight = 0 => g.items[t].queue = 0
    <3>1. ItemOK(g.items[t]) /\ (g.items[t].flight = 0 => g.items[t].queue = 0)
      BY <2>3, <2>5 DEF GenerationOK, ItemsOK, Flushing
    <3>2. QED  BY <2>5, <3>1, AbandonOK
  <2>7. /\ ItemsOK(h) /\ h.items = items /\ h.retired = g.retired
        /\ h.collected = g.collected /\ h.owners = g.owners
    BY <2>2, <2>3, <2>5, <2>6, WithItems
  <2>8. Idle(h) <=> Idle(g)  BY <2>5, <2>6, <2>7 DEF Idle
  <2>9. GenerationOK(h)  BY <2>3, <2>5, <2>7, <2>8 DEF GenerationOK
  <2>10. Flushing(h)  BY <2>6, <2>7 DEF Flushing
  <2>11. QED  BY <2>4, <2>7, <2>9, <2>10 DEF ItemsOK
<1>4. generations' \in Seq(Generation) /\ Len(generations') = Len(generations)
  <2>1. generations' = [n \in 1..Len(generations) |-> generations'[n]]  BY <1>1, <1>2
  <2>2. generations' \in [1..Len(generations) -> Generation]  BY <1>3, <2>1
  <2>3. generations' \in Seq(Generation)  BY <1>2, <2>2, SeqDef
  <2>4. DOMAIN generations' = 1..Len(generations)  BY <2>2
  <2>5. QED  BY <1>2, <2>3, <2>4, LenProperties
<1>5. closed' = TRUE  BY <1>1 DEF IInv
<1>6. QED  BY <1>1, <1>3, <1>4, <1>5, AllChange

-------------------------------------------------------------------------------
LEMMA InitIInv ==
    ASSUME Init
    PROVE  IInv
<1>1. PICK private \in BOOLEAN : private = FALSE  OBVIOUS
<1>2. PICK owners \in SUBSET Calls, dests \in FewTransports : owners = {} /\ dests = {}
  BY FS_EmptySet DEF FewTransports
<1>3. PICK items : items = [t \in dests |-> NewItem]  OBVIOUS
<1>4. PICK g : g = [items |-> items, temporary |-> private, retired |-> private,
                    collected |-> FALSE, owners |-> owners]
  OBVIOUS
<1>5. g = NewGeneration({}, FALSE)  BY <1>1, <1>2, <1>3, <1>4 DEF NewGeneration
<1>6. private => owners # {}  BY <1>1
<1>7. GenerationOK(g) /\ g \in Generation /\ g.retired = private
  BY <1>3, <1>4, <1>6, NewGenerationOK
<1>8. /\ generations = <<g>> /\ active = 1 /\ closed = FALSE /\ finished = FALSE
      /\ generationOf = [c \in Calls |-> 0]
  BY <1>5 DEF Init
<1>9. generations \in Seq(Generation) /\ Len(generations) = 1 /\ generations[1] = g
  BY <1>7, <1>8
<1>10. \A n \in 1..Len(generations) : GenerationOK(generations[n])  BY <1>7, <1>9
<1>11. generationOf \in [Calls -> Nat]  BY <1>8
<1>12. active \in 1..Len(generations) /\ ~generations[active].retired
  BY <1>1, <1>7, <1>8, <1>9
<1>13. QED  BY <1>8, <1>9, <1>10, <1>11, <1>12 DEF IInv

LEMMA StepKeepsIInv ==
    ASSUME IInv, [Next]_vars
    PROVE  IInv'
<1>1. CASE \E dests \in Configurations : Configure(dests)  BY <1>1, ConfigureKeeps
<1>2. ASSUME NEW c \in Calls, Execute(c)
      PROVE  IInv'
  BY <1>2, ExecuteKeeps
<1>3. ASSUME NEW c \in Calls, NEW dests \in Configurations, ExecutePrivate(c, dests)
      PROVE  IInv'
  BY <1>3, ExecutePrivateKeeps
<1>4. ASSUME NEW c \in Calls, Complete(c)
      PROVE  IInv'
  BY <1>4, CompleteKeeps
<1>5. CASE ExporterStep
  BY <1>5, TimerFiresKeeps, ExportSettlesKeeps, CancelledEndsKeeps DEF ExporterStep
<1>6. CASE Flush  BY <1>6, FlushKeeps
<1>7. CASE Shutdown  BY <1>7, ShutdownKeeps
<1>8. CASE ShutdownDrained  BY <1>8 DEF ShutdownDrained, IInv
<1>9. CASE ShutdownForced  BY <1>9, ShutdownForcedKeeps
<1>10. CASE UNCHANGED vars  BY <1>10 DEF vars, IInv
<1>11. QED  BY <1>1, <1>2, <1>3, <1>4, <1>5, <1>6, <1>7, <1>8, <1>9, <1>10 DEF Next

THEOREM Inductive == Spec => []IInv
BY InitIInv, StepKeepsIInv, PTL DEF Spec

-------------------------------------------------------------------------------
LEMMA IInvTypes ==
    ASSUME IInv
    PROVE  TypeOK
<1>1. DOMAIN generations = 1..Len(generations)  BY LenProperties DEF IInv
<1>2. ASSUME NEW n \in DOMAIN generations
      PROVE  DOMAIN generations[n].items \subseteq Transports /\ generations[n].owners \subseteq Calls
  BY <1>1, <1>2, EachGeneration DEF Generation, FewTransports
<1>3. ASSUME NEW x \in Exporters
      PROVE  /\ Item(x).queue \in 0..QueueLimit
             /\ Item(x).flight \in 0..BatchSize
             /\ Item(x).cancelled => Item(x).abandoned /\ Item(x).flight > 0
             /\ Item(x).timer => Item(x).flight = 0 /\ Item(x).queue > 0
  <2>1. ItemOK(Item(x))  BY ExporterFacts
  <2>2. QED  BY <2>1 DEF ItemOK, ItemSet
<1>4. QED  BY <1>1, <1>2, <1>3 DEF TypeOK, IInv

\* A generation leaves the runtime exactly when it is retired and has neither an
\* owner nor work (collect(), and each of its callers).
THEOREM GenerationsAreCollected == Spec => []CollectedWhenDone
<1>1. ASSUME IInv
      PROVE  CollectedWhenDone
  <2>1. DOMAIN generations = 1..Len(generations)  BY <1>1, LenProperties DEF IInv
  <2>2. \A n \in DOMAIN generations : GenerationOK(generations[n])  BY <1>1, <2>1 DEF IInv
  <2>3. TypeOK  BY <1>1, IInvTypes
  <2>4. QED  BY <2>2, <2>3 DEF CollectedWhenDone, GenerationOK
<1>2. QED  BY <1>1, Inductive, PTL

-------------------------------------------------------------------------------
(* What the exporters hold and count.                                      *)

Load(i) == i.queue + i.flight

\* Another state of an exporter that accounts for the same spans.
Alike(i, j) ==
    /\ Held(j) = Held(i) /\ j.dropped = i.dropped /\ Load(j) = Load(i)
    /\ j.abandoned = i.abandoned

\* Another state of a generation whose exporters do.
Follows(g, h) ==
    /\ DOMAIN h.items = DOMAIN g.items
    /\ \A t \in DOMAIN g.items : Alike(g.items[t], h.items[t])
    /\ h.temporary = g.temporary
    /\ g.collected => h.collected

\* The counts of the generations collected by a step.
Gone == {y \in Exporters : generations'[y[1]].collected /\ ~generations[y[1]].collected}

CountsLeave ==
    completed' = Least(MaxCount, completed + Total([x \in Gone |-> Item(x)'.dropped]))

\* What the runtime still has to account for.
Share(x) == Held(Item(x)) + IF generations[x[1]].collected THEN 0 ELSE Item(x).dropped

Shares == [x \in Exporters |-> Share(x)]

Helds == [x \in Exporters |-> Held(Item(x))]

\* A count that has reached the most it can be: it never falls below that again.
Saturated ==
    \/ completed >= MaxCount
    \/ \E x \in Exporters : ~generations[x[1]].collected /\ Item(x).dropped >= MaxCount

\* What counts could not take in (cut) is missing only when one of them is full.
SpansInv ==
    /\ {offered, answered, reported} \subseteq Nat /\ completed \in 0..MaxCount
    /\ answered + Total(Helds) <= offered
    /\ \E cut \in Nat :
          /\ offered + reported = answered + completed + Total(Shares) + cut
          /\ cut > 0 => Saturated
    /\ \A x \in Exporters : Item(x).abandoned => finished
    /\ finished => closed /\ \A x \in Exporters : Held(Item(x)) = 0

\* What the exporters of a transport that share its budget hold.
Loads(t) == [x \in Private(t) |-> Load(Item(x))]

BudgetInv ==
    /\ privatePending \in [Transports -> 0..QueueLimit]
    /\ \A t \in Transports : privatePending[t] = Total(Loads(t))

LEMMA ItemFacts ==
    ASSUME NEW i \in ItemSet
    PROVE  /\ i.queue \in Nat /\ i.flight \in Nat /\ i.dropped \in Nat
           /\ Held(i) \in Nat /\ Load(i) \in Nat /\ Held(i) <= Load(i)
           /\ i.queue <= QueueLimit /\ i.flight <= BatchSize
<1>1. QueueLimit \in Nat /\ BatchSize \in Nat  BY TelemetryAssumption
<1>2. i.queue \in 0..QueueLimit /\ i.flight \in 0..BatchSize /\ i.dropped \in Nat
  BY DEF ItemSet
<1>3. QED  BY <1>1, <1>2 DEF Held, Load

LEMMA ExportersAreFew ==
    ASSUME IInv
    PROVE  /\ IsFiniteSet(Exporters)
           /\ \A n, t : <<n, t>> \in Exporters
                        <=> n \in 1..Len(generations) /\ t \in DOMAIN generations[n].items
           /\ \A x \in Exporters : x = <<x[1], x[2]>>
<1>1. Len(generations) \in Nat /\ DOMAIN generations = 1..Len(generations)
  BY LenProperties DEF IInv
<1>2. PICK rows : rows = {{n} \X DOMAIN generations[n].items : n \in 1..Len(generations)}
  OBVIOUS
<1>3. PICK row : row = [n \in 1..Len(generations) |-> {n} \X DOMAIN generations[n].items]
  OBVIOUS
<1>4. row \in Surjection(1..Len(generations), rows)  BY <1>2, <1>3 DEF Surjection
<1>5. IsFiniteSet(1..Len(generations))  BY <1>1, FS_Interval
<1>6. IsFiniteSet(rows)  BY <1>4, <1>5, FS_Surjection
<1>7. ASSUME NEW n \in 1..Len(generations)
      PROVE  IsFiniteSet({n} \X DOMAIN generations[n].items)
  <2>1. PICK S, T : S = {n} /\ T = DOMAIN generations[n].items  OBVIOUS
  <2>2. IsFiniteSet(T)  BY <2>1, EachGeneration DEF Generation, FewTransports
  <2>3. IsFiniteSet(S)  BY <2>1, FS_Singleton
  <2>4. IsFiniteSet(S \X T)  BY <2>2, <2>3, FS_Product
  <2>5. QED  BY <2>1, <2>4
<1>8. IsFiniteSet(UNION rows)  BY <1>2, <1>6, <1>7, FS_UNION
<1>9. Exporters = UNION rows  BY <1>1, <1>2 DEF Exporters
<1>10. \A x : x \in Exporters <=> \E n \in 1..Len(generations) : x \in {n} \X DOMAIN generations[n].items
  BY <1>1 DEF Exporters
<1>11. QED  BY <1>8, <1>9, <1>10

\* The exporters of one state, and of the next.
LEMMA ExporterTypes ==
    ASSUME IInv
    PROVE  \A x \in Exporters :
              /\ Item(x) \in ItemSet /\ Share(x) \in Nat
              /\ Held(Item(x)) \in Nat /\ Load(Item(x)) \in Nat /\ Item(x).dropped \in Nat
<1> SUFFICES ASSUME NEW x \in Exporters
             PROVE  /\ Item(x) \in ItemSet /\ Share(x) \in Nat
                    /\ Held(Item(x)) \in Nat /\ Load(Item(x)) \in Nat /\ Item(x).dropped \in Nat
  OBVIOUS
<1>1. Item(x) \in ItemSet  BY ExporterFacts DEF ItemOK
<1>2. QED  BY <1>1, ItemFacts DEF Share

LEMMA NextExporters ==
    IInv' => /\ \A n, t : <<n, t>> \in Exporters'
                          <=> n \in 1..Len(generations') /\ t \in DOMAIN generations'[n].items
             /\ \A x \in Exporters' : x = <<x[1], x[2]>>
<1>1. IInv => /\ \A n, t : <<n, t>> \in Exporters
                           <=> n \in 1..Len(generations) /\ t \in DOMAIN generations[n].items
              /\ \A x \in Exporters : x = <<x[1], x[2]>>
  BY ExportersAreFew
<1>2. (IInv => /\ \A n, t : <<n, t>> \in Exporters
                            <=> n \in 1..Len(generations) /\ t \in DOMAIN generations[n].items
               /\ \A x \in Exporters : x = <<x[1], x[2]>>)'
  BY <1>1, PTL
<1>3. QED  BY <1>2

LEMMA NextExporterTypes ==
    IInv' => (\A x \in Exporters :
                 /\ Item(x) \in ItemSet /\ Share(x) \in Nat
                 /\ Held(Item(x)) \in Nat /\ Load(Item(x)) \in Nat /\ Item(x).dropped \in Nat)'
<1>1. IInv => \A x \in Exporters :
                 /\ Item(x) \in ItemSet /\ Share(x) \in Nat
                 /\ Held(Item(x)) \in Nat /\ Load(Item(x)) \in Nat /\ Item(x).dropped \in Nat
  BY ExporterTypes
<1>2. QED  BY <1>1, PTL

\* A ledger over S is now one over T, and the entries of G were moved elsewhere.
Entries(S, T, G, old, new, left, in, out) ==
    /\ \A x \in T \ S : new[x] = 0
    /\ \A x \in S : new[x] + (IF x \in G THEN left[x] ELSE 0) + out[x] = old[x] + in[x]

LEMMA Ledger ==
    ASSUME NEW S, IsFiniteSet(S), NEW T, S \subseteq T, NEW G, G \subseteq S,
           NEW old \in [S -> Nat], NEW new \in [T -> Nat], NEW left \in [G -> Nat],
           NEW in \in [S -> Nat], NEW out \in [S -> Nat],
           Entries(S, T, G, old, new, left, in, out)
    PROVE  /\ {Total(new), Total(left), Total(out), Total(old), Total(in)} \subseteq Nat
           /\ Total(new) + Total(left) + Total(out) = Total(old) + Total(in)
<1>1. PICK kept, moved, after :
         /\ kept = [x \in S |-> new[x]]
         /\ moved = [x \in S |-> IF x \in G THEN left[x] ELSE 0]
         /\ after = [x \in S |-> new[x] + (IF x \in G THEN left[x] ELSE 0)]
  OBVIOUS
<1>2. ASSUME NEW x \in S
      PROVE  new[x] \in Nat /\ (x \in G => left[x] \in Nat)
  OBVIOUS
<1>3. /\ kept \in [S -> Nat] /\ moved \in [S -> Nat] /\ after \in [S -> Nat]
      /\ \A x \in S : after[x] = kept[x] + moved[x]
  BY <1>1, <1>2
<1>4. /\ \A x \in S : new[x] = kept[x]
      /\ \A x \in G : moved[x] = left[x]
      /\ \A x \in S \ G : moved[x] = 0
  BY <1>1
<1>5. Total(new) = Total(kept)
  <2>1. \A x \in S : new[x] = kept[x]  BY <1>4
  <2>2. kept \in [S -> Nat]  BY <1>3
  <2>3. \A x \in T \ S : new[x] = 0  BY DEF Entries
  <2>4. QED  BY <2>1, <2>2, <2>3, TotalExtends
<1>6. Total(moved) = Total(left)
  <2>1. moved \in [S -> Nat]  BY <1>3
  <2>2. QED  BY <1>4, <2>1, TotalExtends
<1>7. Total(after) = Total(kept) + Total(moved)  BY <1>3, TotalAdds
<1>8. Total(after) + Total(out) = Total(old) + Total(in)
  <2>1. \A x \in S : after[x] + out[x] = old[x] + in[x]  BY <1>1 DEF Entries
  <2>2. after \in [S -> Nat]  BY <1>3
  <2>3. QED  BY <2>1, <2>2, TotalsBalance
<1>9. {Total(kept), Total(moved), Total(out), Total(old), Total(in)} \subseteq Nat
  BY <1>3, TotalIsNat
<1>10. QED  BY <1>5, <1>6, <1>7, <1>8, <1>9

\* What goes into the exporters of this state and out of them by a step.
Balances(in, out) ==
    \A x \in Exporters :
       IF generations[x[1]].collected
       THEN /\ generations'[x[1]].collected
            /\ Held(Item(x)') + out[x] = Held(Item(x)) + in[x]
       ELSE Held(Item(x)') + Item(x)'.dropped + out[x]
              = Held(Item(x)) + Item(x).dropped + in[x]

LEMMA SharesBalance ==
    ASSUME IInv, IInv', Exporters \subseteq Exporters', completed \in 0..MaxCount, CountsLeave,
           \A x \in Exporters' \ Exporters : Share(x)' = 0,
           NEW in \in [Exporters -> Nat], NEW out \in [Exporters -> Nat],
           Balances(in, out)
    PROVE  /\ completed' \in 0..MaxCount
           /\ {Total(Shares'), Total(out), Total(Shares), Total(in)} \subseteq Nat
           /\ \E cut \in Nat :
                 /\ completed' + cut + Total(Shares') + Total(out)
                      = completed + Total(Shares) + Total(in)
                 /\ cut > 0 => completed' = MaxCount
<1>1. IsFiniteSet(Exporters)  BY ExportersAreFew
<1>2. PICK S, T, G : S = Exporters /\ T = Exporters' /\ G = Gone  OBVIOUS
<1>3. PICK left : left = [x \in G |-> Item(x)'.dropped]  OBVIOUS
<1>4. \A x \in S : Share(x) \in Nat /\ Held(Item(x)) \in Nat /\ Item(x).dropped \in Nat
  BY <1>2, ExporterTypes
<1>5. \A x \in T : /\ Share(x)' \in Nat /\ Held(Item(x)') \in Nat
                   /\ Item(x)'.dropped \in Nat
  BY <1>2, NextExporterTypes
<1>6. S \subseteq T /\ G \subseteq S  BY <1>2 DEF Gone
<1>7. PICK old, new : old = [x \in S |-> Share(x)] /\ new = [x \in T |-> Share(x)']  OBVIOUS
<1>8. old \in [S -> Nat] /\ new \in [T -> Nat] /\ left \in [G -> Nat]
  BY <1>3, <1>4, <1>5, <1>6, <1>7
<1>9. old = Shares /\ new = Shares'  BY <1>2, <1>7 DEF Shares
<1>10. \A x \in T \ S : new[x] = 0  BY <1>2, <1>7
<1>11. ASSUME NEW x \in S
       PROVE  new[x] + (IF x \in G THEN left[x] ELSE 0) + out[x] = old[x] + in[x]
  <2>1. PICK h, hh, d, dd \in Nat :
           h = Held(Item(x)) /\ hh = Held(Item(x)') /\ d = Item(x).dropped /\ dd = Item(x)'.dropped
    BY <1>4, <1>5, <1>6
  <2>2. /\ old[x] = h + IF generations[x[1]].collected THEN 0 ELSE d
        /\ new[x] = hh + IF generations'[x[1]].collected THEN 0 ELSE dd
    BY <1>6, <1>7, <2>1 DEF Share
  <2>3. x \in G <=> generations'[x[1]].collected /\ ~generations[x[1]].collected
    BY <1>2 DEF Gone
  <2>4. x \in G => left[x] = dd  BY <1>3, <2>1
  <2>5. PICK i, o \in Nat : i = in[x] /\ o = out[x]  BY <1>2
  <2>6. IF generations[x[1]].collected
        THEN generations'[x[1]].collected /\ hh + o = h + i
        ELSE hh + dd + o = h + d + i
    BY <1>2, <2>1, <2>5 DEF Balances
  <2>7. QED  BY <2>2, <2>3, <2>4, <2>5, <2>6
<1>12. in \in [S -> Nat] /\ out \in [S -> Nat] /\ IsFiniteSet(S)  BY <1>1, <1>2
<1>13. /\ {Total(new), Total(left), Total(out), Total(old), Total(in)} \subseteq Nat
       /\ Total(new) + Total(left) + Total(out) = Total(old) + Total(in)
  <2>1. Entries(S, T, G, old, new, left, in, out)  BY <1>10, <1>11 DEF Entries
  <2>2. QED  BY <1>6, <1>8, <1>12, <2>1, Ledger
<1>14. completed' = Least(MaxCount, completed + Total(left))  BY <1>2, <1>3 DEF CountsLeave
<1>15. PICK a, b, c, d, e \in Nat :
          a = Total(new) /\ b = Total(left) /\ c = Total(out) /\ d = Total(old) /\ e = Total(in)
  BY <1>13
<1>16. completed \in Nat /\ MaxCount \in Nat  BY TelemetryAssumption
<1>17. PICK m \in Nat : m = completed + b  BY <1>16
<1>18. completed' = Least(MaxCount, m) /\ a + b + c = d + e  BY <1>13, <1>14, <1>15, <1>17
<1>19. /\ completed' \in 0..MaxCount /\ completed' \in Nat /\ completed' <= m
       /\ completed' < m => completed' = MaxCount
  BY <1>18, UpToMaxCount
<1>20. PICK o, k \in Nat : o = completed /\ k = completed'  BY <1>16, <1>19
<1>21. PICK cut \in Nat : cut = m - k
  <2>1. k <= m  BY <1>19, <1>20
  <2>2. QED  BY <2>1
<1>22. m = o + b /\ k + cut = m
  <2>1. k <= m /\ cut = m - k  BY <1>19, <1>20, <1>21
  <2>2. k + cut = m  BY <2>1
  <2>3. QED  BY <1>17, <1>20, <2>2
<1>23. k + cut + a + c = o + d + e  BY <1>18, <1>22
<1>24. cut > 0 => completed' = MaxCount
  <2>1. cut > 0 => k < m  BY <1>22
  <2>2. QED  BY <1>19, <1>20, <2>1
<1>25. completed' + cut + a + c = completed + d + e  BY <1>20, <1>23
<1>26. QED  BY <1>9, <1>15, <1>19, <1>24, <1>25

\* What the exporters hold only grows by the spans they take, and what they have
\* handed over is no longer held.
HeldsFall(fresh, sent) ==
    \A x \in Exporters : Held(Item(x)') + sent[x] <= Held(Item(x)) + fresh[x]

LEMMA HeldsBalance ==
    ASSUME IInv, IInv', Exporters \subseteq Exporters',
           \A x \in Exporters' \ Exporters : Item(x)' = NewItem,
           NEW fresh \in [Exporters -> Nat], NEW sent \in [Exporters -> Nat],
           HeldsFall(fresh, sent)
    PROVE  /\ {Total(Helds'), Total(sent), Total(Helds), Total(fresh)} \subseteq Nat
           /\ Total(Helds') + Total(sent) <= Total(Helds) + Total(fresh)
<1>1. PICK S, T, G, old, new :
         /\ S = Exporters /\ T = Exporters' /\ G = {}
         /\ old = [x \in S |-> Held(Item(x))] /\ new = [x \in T |-> Held(Item(x)')]
  OBVIOUS
<1>2. PICK left : left = [x \in G |-> 0]  OBVIOUS
<1>3. IsFiniteSet(S) /\ S \subseteq T  BY <1>1, ExportersAreFew
<1>4. old \in [S -> Nat] /\ new \in [T -> Nat]  BY <1>1, ExporterTypes, NextExporterTypes
<1>5. old = Helds /\ new = Helds'  BY <1>1 DEF Helds
<1>6. ASSUME NEW x \in T \ S
      PROVE  new[x] = 0
  <2>1. Item(x)' = NewItem  BY <1>1
  <2>2. Held(NewItem) = 0  BY DEF NewItem, Held
  <2>3. QED  BY <1>1, <2>1, <2>2
<1>7. PICK more, out :
         /\ more = [x \in S |-> old[x] + fresh[x] - (new[x] + sent[x])]
         /\ out = [x \in S |-> sent[x] + more[x]]
  OBVIOUS
<1>8. ASSUME NEW x \in S
      PROVE  /\ more[x] \in Nat /\ out[x] = sent[x] + more[x] /\ out[x] \in Nat
             /\ new[x] + out[x] = old[x] + fresh[x]
  <2>1. PICK a, b, c, d \in Nat : a = new[x] /\ b = sent[x] /\ c = old[x] /\ d = fresh[x]
    BY <1>1, <1>3, <1>4
  <2>2. a + b <= c + d  BY <1>1, <1>3, <2>1 DEF HeldsFall
  <2>3. more[x] = c + d - (a + b) /\ out[x] = b + more[x]  BY <1>7, <2>1
  <2>4. QED  BY <2>1, <2>2, <2>3
<1>9. more \in [S -> Nat] /\ out \in [S -> Nat]  BY <1>7, <1>8
<1>10. fresh \in [S -> Nat] /\ sent \in [S -> Nat]  BY <1>1
<1>11. \A x \in S : new[x] + (IF x \in G THEN left[x] ELSE 0) + out[x] = old[x] + fresh[x]
  <2>1. ASSUME NEW x \in S
        PROVE  new[x] + (IF x \in G THEN left[x] ELSE 0) + out[x] = old[x] + fresh[x]
    <3>1. new[x] \in Nat /\ x \notin G  BY <1>1, <1>3, <1>4
    <3>2. QED  BY <1>8, <3>1
  <2>2. QED  BY <2>1
<1>12. Entries(S, T, G, old, new, left, fresh, out)  BY <1>6, <1>11 DEF Entries
<1>13. G \subseteq S /\ left \in [G -> Nat]  BY <1>1, <1>2
<1>14. /\ {Total(new), Total(left), Total(out), Total(old), Total(fresh)} \subseteq Nat
       /\ Total(new) + Total(left) + Total(out) = Total(old) + Total(fresh)
  BY <1>3, <1>4, <1>9, <1>10, <1>12, <1>13, Ledger
<1>15. Total(left) = 0
  <2>1. \A x \in G : left[x] = 0  BY <1>1
  <2>2. QED  BY <1>13, <2>1, TotalZero
<1>16. Total(out) = Total(sent) + Total(more)  BY <1>3, <1>8, <1>9, <1>10, TotalAdds
<1>17. Total(sent) \in Nat /\ Total(more) \in Nat  BY <1>3, <1>9, <1>10, TotalIsNat
<1>18. PICK a, b, c, d, e \in Nat :
          a = Total(new) /\ b = Total(sent) /\ c = Total(more) /\ d = Total(old) /\ e = Total(fresh)
  BY <1>14, <1>17
<1>19. a + b <= d + e  BY <1>14, <1>15, <1>16, <1>18
<1>20. QED  BY <1>5, <1>18, <1>19

\* A count that is full stays so: it goes on in its exporter or in completed.
LEMMA FullStays ==
    ASSUME IInv, IInv', Exporters \subseteq Exporters', completed \in 0..MaxCount, CountsLeave
    PROVE  /\ completed >= MaxCount => Saturated'
           /\ \A x \in Exporters :
                 ~generations[x[1]].collected /\ Item(x)'.dropped >= MaxCount => Saturated'
<1>1. PICK G, left : G = Gone /\ left = [x \in G |-> Item(x)'.dropped]  OBVIOUS
<1>2. G \subseteq Exporters  BY <1>1 DEF Gone
<1>3. IsFiniteSet(G)  BY <1>2, ExportersAreFew, FS_Subset
<1>4. \A x \in G : Item(x)'.dropped \in Nat  BY <1>2, NextExporterTypes
<1>5. left \in [G -> Nat]  BY <1>1, <1>4
<1>6. PICK t \in Nat : t = Total(left)  BY <1>3, <1>5, TotalIsNat
<1>7. completed' = Least(MaxCount, completed + t)  BY <1>1, <1>6 DEF CountsLeave
<1>8. completed \in Nat /\ MaxCount \in Nat  BY TelemetryAssumption
<1>9. PICK m \in Nat : m = completed + t  BY <1>8
<1>10. m >= MaxCount => completed' = MaxCount  BY <1>7, <1>9, UpToMaxCount
<1>11. completed >= MaxCount => Saturated'  BY <1>8, <1>9, <1>10 DEF Saturated
<1>12. ASSUME NEW x \in Exporters, ~generations[x[1]].collected, Item(x)'.dropped >= MaxCount
       PROVE  Saturated'
  <2>1. CASE generations'[x[1]].collected
    <3>1. x \in G  BY <1>1, <1>12, <2>1 DEF Gone
    <3>2. left[x] <= Total(left)  BY <1>3, <1>5, <3>1, TotalHolds
    <3>3. left[x] = Item(x)'.dropped /\ left[x] \in Nat  BY <1>1, <1>4, <3>1
    <3>4. m >= MaxCount  BY <1>6, <1>8, <1>9, <1>12, <3>2, <3>3
    <3>5. QED  BY <1>8, <1>10, <3>4 DEF Saturated
  <2>2. CASE ~generations'[x[1]].collected
    BY <1>12, <2>2 DEF Saturated
  <2>3. QED  BY <2>1, <2>2
<1>13. QED  BY <1>11, <1>12

\* No exporter forgets what it has dropped, but for what is beyond MaxCount.
Grows ==
    \A x \in Exporters :
       Item(x).dropped <= Item(x)'.dropped \/ Item(x)'.dropped >= MaxCount

LEMMA SaturatedStays ==
    ASSUME IInv, IInv', Exporters \subseteq Exporters', completed \in 0..MaxCount, CountsLeave,
           Grows, Saturated
    PROVE  Saturated'
<1>1. MaxCount \in Nat  BY TelemetryAssumption
<1>2. ASSUME NEW x \in Exporters, ~generations[x[1]].collected, Item(x).dropped >= MaxCount
      PROVE  Saturated'
  <2>1. Item(x).dropped \in Nat /\ Item(x)'.dropped \in Nat
    BY ExporterTypes, NextExporterTypes
  <2>2. Item(x)'.dropped >= MaxCount  BY <1>1, <1>2, <2>1 DEF Grows
  <2>3. QED  BY <1>2, <2>2, FullStays
<1>3. QED  BY <1>2, FullStays DEF Saturated

\* The spans of a step that only adds some to exporters and takes some out are
\* accounted for: offered and answered change by those that enter and are answered,
\* r more were reported, and e could not be counted.
LEMMA SpansBalance ==
    ASSUME IInv, IInv', SpansInv, Exporters \subseteq Exporters', CountsLeave,
           \A x \in Exporters' \ Exporters : Item(x)' = NewItem,
           NEW fresh \in [Exporters -> Nat], NEW sent \in [Exporters -> Nat],
           NEW in \in [Exporters -> Nat], NEW out \in [Exporters -> Nat],
           HeldsFall(fresh, sent), Balances(in, out), Grows,
           NEW r \in Nat, NEW e \in Nat, e > 0 => Saturated',
           Total(in) = Total(fresh) + r, Total(out) = Total(sent) + e,
           offered' = offered + Total(fresh), answered' = answered + Total(sent),
           reported' = reported + r,
           \A x \in Exporters' : Item(x)'.abandoned => finished',
           finished' => closed' /\ \A x \in Exporters' : Held(Item(x)') = 0
    PROVE  SpansInv'
<1>1. ASSUME NEW x \in Exporters' \ Exporters
      PROVE  Share(x)' = 0
  <2>1. Item(x)' = NewItem  OBVIOUS
  <2>2. Held(NewItem) = 0 /\ NewItem.dropped = 0  BY DEF Held, NewItem
  <2>3. Share(x)' = Held(Item(x)') + IF generations'[x[1]].collected THEN 0 ELSE Item(x)'.dropped
    BY DEF Share
  <2>4. QED  BY <2>1, <2>2, <2>3
<1>2. /\ offered \in Nat /\ answered \in Nat /\ reported \in Nat /\ completed \in 0..MaxCount
      /\ answered + Total(Helds) <= offered
  BY DEF SpansInv
<1>3. PICK cut \in Nat : /\ offered + reported = answered + completed + Total(Shares) + cut
                         /\ cut > 0 => Saturated
  BY DEF SpansInv
<1>4. /\ completed' \in 0..MaxCount
      /\ {Total(Shares'), Total(out), Total(Shares), Total(in)} \subseteq Nat
      /\ \E k \in Nat :
            /\ completed' + k + Total(Shares') + Total(out)
                 = completed + Total(Shares) + Total(in)
            /\ k > 0 => completed' = MaxCount
  BY <1>1, <1>2, SharesBalance
<1>5. PICK k \in Nat :
         /\ completed' + k + Total(Shares') + Total(out) = completed + Total(Shares) + Total(in)
         /\ k > 0 => completed' = MaxCount
  BY <1>4
<1>6. /\ {Total(Helds'), Total(sent), Total(Helds), Total(fresh)} \subseteq Nat
      /\ Total(Helds') + Total(sent) <= Total(Helds) + Total(fresh)
  BY HeldsBalance
<1>7. PICK a, b, c, d \in Nat :
         a = Total(Shares') /\ b = Total(out) /\ c = Total(Shares) /\ d = Total(in)
  BY <1>4
<1>8. PICK h, s, g, f \in Nat :
         h = Total(Helds') /\ s = Total(sent) /\ g = Total(Helds) /\ f = Total(fresh)
  BY <1>6
<1>9. completed \in Nat /\ completed' \in Nat  BY <1>2, <1>4, TelemetryAssumption
<1>10. /\ offered' = offered + f /\ answered' = answered + s /\ reported' = reported + r
       /\ d = f + r /\ b = s + e
  BY <1>7, <1>8
<1>11. PICK all \in Nat : all = cut + k + e  OBVIOUS
<1>12. offered' + reported' = answered' + completed' + a + all
  BY <1>2, <1>3, <1>5, <1>7, <1>9, <1>10, <1>11
<1>13. all > 0 => Saturated'
  <2>1. cut > 0 => Saturated'  BY <1>2, <1>3, SaturatedStays
  <2>2. k > 0 => Saturated'  BY <1>5, <1>9, TelemetryAssumption DEF Saturated
  <2>3. all > 0 => cut > 0 \/ k > 0 \/ e > 0  BY <1>11
  <2>4. QED  BY <2>1, <2>2, <2>3
<1>14. answered' + h <= offered'  BY <1>2, <1>6, <1>8, <1>10
<1>15. offered' \in Nat /\ answered' \in Nat /\ reported' \in Nat  BY <1>2, <1>10
<1>16. Total(Shares)' = a /\ Total(Helds)' = h  BY <1>7, <1>8
<1>17. QED  BY <1>4, <1>12, <1>13, <1>14, <1>15, <1>16 DEF SpansInv

\* The same for a step in which no batch ends: nothing is answered or reported.
LEMMA SpansMoved ==
    ASSUME IInv, IInv', SpansInv, Exporters \subseteq Exporters', CountsLeave,
           \A x \in Exporters' \ Exporters : Item(x)' = NewItem,
           NEW in \in [Exporters -> Nat], Balances(in, [x \in Exporters |-> 0]), Grows,
           \A x \in Exporters : Held(Item(x)') <= Held(Item(x)) + in[x],
           offered' = offered + Total(in), answered' = answered, reported' = reported,
           \A x \in Exporters' : Item(x)'.abandoned => finished',
           finished' => closed' /\ \A x \in Exporters' : Held(Item(x)') = 0
    PROVE  SpansInv'
<1>1. PICK none : none = [x \in Exporters |-> 0]  OBVIOUS
<1>2. none \in [Exporters -> Nat] /\ \A x \in Exporters : none[x] = 0  BY <1>1
<1>3. Total(none) = 0  BY <1>2, TotalZero
<1>4. HeldsFall(in, none)
  <2>1. ASSUME NEW x \in Exporters
        PROVE  Held(Item(x)') + none[x] <= Held(Item(x)) + in[x]
    <3>1. Held(Item(x)') \in Nat  BY NextExporterTypes
    <3>2. Held(Item(x)') + 0 = Held(Item(x)')  BY <3>1
    <3>3. QED  BY <1>2, <3>2
  <2>2. QED  BY <2>1 DEF HeldsFall
<1>5. Total(in) \in Nat  BY ExportersAreFew, TotalIsNat
<1>6. PICK z \in Nat : z = 0  OBVIOUS
<1>7. answered \in Nat /\ reported \in Nat  BY DEF SpansInv
<1>8. /\ Total(in) = Total(in) + z /\ Total(none) = Total(none) + z
      /\ answered' = answered + Total(none) /\ reported' = reported + z
      /\ z > 0 => Saturated'
  BY <1>3, <1>5, <1>6, <1>7
<1>9. Balances(in, none)  BY <1>1
<1>10. QED  BY <1>2, <1>4, <1>6, <1>8, <1>9, SpansBalance

\* The same for what counts against the budget of a transport.
LoadsBalance(t, in, out) ==
    \A x \in Private(t) : Load(Item(x)') + out[x] = Load(Item(x)) + in[x]

KindsKept ==
    /\ Exporters \subseteq Exporters'
    /\ \A x \in Exporters : generations'[x[1]].temporary = generations[x[1]].temporary
    /\ \A x \in Exporters' \ Exporters : Item(x)' = NewItem

LEMMA PrivateIsFew ==
    ASSUME IInv, NEW t
    PROVE  /\ IsFiniteSet(Private(t)) /\ Loads(t) \in [Private(t) -> Nat]
           /\ \A x \in Private(t) : x \in Exporters
<1>1. Private(t) \subseteq Exporters  BY DEF Private
<1>2. IsFiniteSet(Private(t))  BY <1>1, ExportersAreFew, FS_Subset
<1>3. \A x \in Private(t) : Load(Item(x)) \in Nat  BY <1>1, ExporterTypes
<1>4. QED  BY <1>1, <1>2, <1>3 DEF Loads

LEMMA LoadsBalanced ==
    ASSUME IInv, IInv', KindsKept, NEW t,
           NEW in \in [Private(t) -> Nat], NEW out \in [Private(t) -> Nat],
           LoadsBalance(t, in, out)
    PROVE  /\ {Total(Loads(t)'), Total(out), Total(Loads(t)), Total(in)} \subseteq Nat
           /\ Total(Loads(t)') + Total(out) = Total(Loads(t)) + Total(in)
<1>1. PICK S, T, G, old, new :
         /\ S = Private(t) /\ T = Private(t)' /\ G = {}
         /\ old = Loads(t) /\ new = Loads(t)'
  OBVIOUS
<1>2. PICK left : left = [x \in G |-> 0]  OBVIOUS
<1>3. IsFiniteSet(S) /\ old \in [S -> Nat]  BY <1>1, PrivateIsFew
<1>4. /\ \A x : x \in S <=> x \in Exporters /\ x[2] = t /\ generations[x[1]].temporary
      /\ \A x : x \in T <=> x \in Exporters' /\ x[2] = t /\ generations'[x[1]].temporary
  BY <1>1 DEF Private
<1>5. /\ old = [x \in S |-> Load(Item(x))] /\ new = [x \in T |-> Load(Item(x)')]
  BY <1>1 DEF Loads
<1>6. S \subseteq T  BY <1>4 DEF KindsKept
<1>7. \A x \in T : Load(Item(x)') \in Nat  BY <1>4, NextExporterTypes
<1>8. new \in [T -> Nat]  BY <1>5, <1>7
<1>9. ASSUME NEW x \in T \ S
      PROVE  new[x] = 0
  <2>1. Item(x)' = NewItem  BY <1>4 DEF KindsKept
  <2>2. Load(NewItem) = 0  BY DEF NewItem, Load
  <2>3. QED  BY <1>5, <2>1, <2>2
<1>10. ASSUME NEW x \in S
       PROVE  new[x] + (IF x \in G THEN left[x] ELSE 0) + out[x] = old[x] + in[x]
  <2>1. new[x] = Load(Item(x)') /\ old[x] = Load(Item(x))  BY <1>5, <1>6
  <2>2. new[x] \in Nat /\ old[x] \in Nat  BY <1>3, <1>6, <1>8
  <2>3. new[x] + out[x] = old[x] + in[x]  BY <1>1, <2>1 DEF LoadsBalance
  <2>4. x \notin G  BY <1>1
  <2>5. QED  BY <2>2, <2>3, <2>4
<1>11. Entries(S, T, G, old, new, left, in, out)  BY <1>9, <1>10 DEF Entries
<1>12. G \subseteq S /\ left \in [G -> Nat]  BY <1>1, <1>2
<1>13. in \in [S -> Nat] /\ out \in [S -> Nat]  BY <1>1
<1>14. /\ {Total(new), Total(left), Total(out), Total(old), Total(in)} \subseteq Nat
       /\ Total(new) + Total(left) + Total(out) = Total(old) + Total(in)
  BY <1>3, <1>6, <1>8, <1>11, <1>12, <1>13, Ledger
<1>15. Total(left) = 0
  <2>1. \A x \in G : left[x] = 0  BY <1>1
  <2>2. QED  BY <1>12, <2>1, TotalZero
<1>16. PICK a, c, d, e \in Nat :
          a = Total(new) /\ c = Total(out) /\ d = Total(old) /\ e = Total(in)
  BY <1>14
<1>17. a + c = d + e  BY <1>14, <1>15, <1>16
<1>18. QED  BY <1>1, <1>16, <1>17

\* A step that only moves spans inside the exporters, or collects.
Quietly ==
    /\ KindsKept
    /\ \A x \in Exporters :
          /\ Alike(Item(x), Item(x)')
          /\ generations[x[1]].collected => generations'[x[1]].collected
    /\ UNCHANGED <<offered, answered, reported, privatePending>>

LEMMA QuietStep ==
    ASSUME IInv, IInv', SpansInv, BudgetInv, Quietly, CountsLeave,
           finished => finished',
           finished' => closed' /\ (finished \/ \A x \in Exporters : Held(Item(x)) = 0)
    PROVE  SpansInv' /\ BudgetInv'
<1>1. /\ Exporters \subseteq Exporters'
      /\ \A x \in Exporters' \ Exporters : Item(x)' = NewItem
      /\ \A x \in Exporters : Alike(Item(x), Item(x)')
      /\ UNCHANGED <<offered, answered, reported, privatePending>>
  BY DEF Quietly, KindsKept
<1>2. PICK none : none = [x \in Exporters |-> 0]  OBVIOUS
<1>3. Balances(none, [x \in Exporters |-> 0])
  <2>1. ASSUME NEW x \in Exporters
        PROVE  /\ Held(Item(x)') + none[x] = Held(Item(x)) + none[x]
               /\ Held(Item(x)') + Item(x)'.dropped + none[x]
                    = Held(Item(x)) + Item(x).dropped + none[x]
    BY <1>1 DEF Alike
  <2>2. \A x \in Exporters : generations[x[1]].collected => generations'[x[1]].collected
    BY DEF Quietly
  <2>3. Balances(none, none)  BY <2>1, <2>2 DEF Balances
  <2>4. QED  BY <1>2, <2>3
<1>4. none \in [Exporters -> Nat] /\ Total(none) = 0
  <2>1. none \in [Exporters -> Nat] /\ \A x \in Exporters : none[x] = 0  BY <1>2
  <2>2. QED  BY <2>1, TotalZero
<1>5. offered \in Nat  BY DEF SpansInv
<1>6. offered' = offered + Total(none)  BY <1>1, <1>4, <1>5
<1>6a. Grows /\ \A x \in Exporters : Held(Item(x)') <= Held(Item(x)) + none[x]
  <2>1. ASSUME NEW x \in Exporters
        PROVE  Item(x).dropped <= Item(x)'.dropped /\ Held(Item(x)') <= Held(Item(x)) + none[x]
    <3>1. PICK d, h \in Nat : d = Item(x).dropped /\ h = Held(Item(x))  BY ExporterTypes
    <3>2. Item(x)'.dropped = d /\ Held(Item(x)') = h /\ none[x] = 0
      BY <1>1, <1>2, <3>1 DEF Alike
    <3>3. QED  BY <3>1, <3>2
  <2>2. QED  BY <2>1 DEF Grows
<1>7. ASSUME NEW x \in Exporters', Item(x)'.abandoned
      PROVE  finished'
  <2>1. CASE x \in Exporters
    <3>1. Item(x).abandoned  BY <1>1, <1>7, <2>1 DEF Alike
    <3>2. QED  BY <2>1, <3>1 DEF SpansInv
  <2>2. CASE x \notin Exporters  BY <1>1, <1>7, <2>2 DEF NewItem
  <2>3. QED  BY <2>1, <2>2
<1>8. ASSUME finished', NEW x \in Exporters'
      PROVE  Held(Item(x)') = 0
  <2>1. CASE x \in Exporters
    <3>1. Held(Item(x)') = Held(Item(x))  BY <1>1, <2>1 DEF Alike
    <3>2. QED  BY <1>8, <2>1, <3>1 DEF SpansInv
  <2>2. CASE x \notin Exporters
    <3>1. Item(x)' = NewItem  BY <1>1, <2>2
    <3>2. QED  BY <3>1 DEF NewItem, Held
  <2>3. QED  BY <2>1, <2>2
<1>9. SpansInv'  BY <1>1, <1>3, <1>4, <1>6, <1>6a, <1>7, <1>8, SpansMoved
<1>10. ASSUME NEW t \in Transports
       PROVE  Total(Loads(t)') = Total(Loads(t))
  <2>1. PICK zero : zero = [x \in Private(t) |-> 0]  OBVIOUS
  <2>2. zero \in [Private(t) -> Nat] /\ \A x \in Private(t) : zero[x] = 0  BY <2>1
  <2>3. \A x \in Private(t) : Load(Item(x)') = Load(Item(x))
    BY <1>1, PrivateIsFew DEF Alike
  <2>4. LoadsBalance(t, zero, zero)  BY <2>3 DEF LoadsBalance
  <2>5. Total(zero) = 0  BY <2>2, TotalZero
  <2>6. KindsKept  BY DEF Quietly
  <2>7. /\ {Total(Loads(t)'), Total(zero), Total(Loads(t)), Total(zero)} \subseteq Nat
        /\ Total(Loads(t)') + Total(zero) = Total(Loads(t)) + Total(zero)
    BY <2>2, <2>4, <2>6, LoadsBalanced
  <2>8. QED  BY <2>5, <2>7
<1>11. \A t \in Transports : Total(Loads(t))' = Total(Loads(t))  BY <1>10
<1>12. BudgetInv'
  <2>1. privatePending' = privatePending  BY <1>1
  <2>2. QED  BY <1>11, <2>1 DEF BudgetInv
<1>13. QED  BY <1>9, <1>12

\* A step after which every generation follows what it was.
LEMMA Following ==
    ASSUME IInv, IInv', Len(generations) <= Len(generations'),
           \A n \in 1..Len(generations) : Follows(generations[n], generations'[n]),
           \A n \in 1..Len(generations') : n > Len(generations) =>
              \A t \in DOMAIN generations'[n].items : generations'[n].items[t] = NewItem,
           UNCHANGED <<offered, answered, reported, privatePending>>
    PROVE  Quietly
<1>1. \A n, t : <<n, t>> \in Exporters
                <=> n \in 1..Len(generations) /\ t \in DOMAIN generations[n].items
  BY ExportersAreFew
<1>2. \A n, t : <<n, t>> \in Exporters'
                <=> n \in 1..Len(generations') /\ t \in DOMAIN generations'[n].items
  BY NextExporters
<1>3. /\ \A x \in Exporters : x = <<x[1], x[2]>>
      /\ \A x \in Exporters' : x = <<x[1], x[2]>>
  BY ExportersAreFew, NextExporters
<1>4. Len(generations) \in Nat /\ Len(generations') \in Nat  BY LenProperties DEF IInv
<1>5. ASSUME NEW x \in Exporters
      PROVE  /\ x \in Exporters' /\ Alike(Item(x), Item(x)')
             /\ generations'[x[1]].temporary = generations[x[1]].temporary
             /\ generations[x[1]].collected => generations'[x[1]].collected
  <2>1. PICK n, t : x = <<n, t>> /\ n \in 1..Len(generations) /\ t \in DOMAIN generations[n].items
    BY <1>1, <1>3
  <2>2. n \in 1..Len(generations') /\ Follows(generations[n], generations'[n])
    BY <1>4, <2>1
  <2>3. x[1] = n /\ x[2] = t  BY <2>1
  <2>4. x \in Exporters'  BY <1>2, <2>1, <2>2 DEF Follows
  <2>5. Item(x) = generations[n].items[t] /\ Item(x)' = generations'[n].items[t]
    BY <2>3 DEF Item
  <2>6. QED  BY <2>1, <2>2, <2>3, <2>4, <2>5 DEF Follows
<1>6. ASSUME NEW x \in Exporters', x \notin Exporters
      PROVE  Item(x)' = NewItem
  <2>1. PICK n, t : x = <<n, t>> /\ n \in 1..Len(generations') /\ t \in DOMAIN generations'[n].items
    BY <1>2, <1>3
  <2>2. n > Len(generations)
    <3>1. n \in 1..Len(generations) => t \in DOMAIN generations[n].items
      BY <2>1 DEF Follows
    <3>2. n \notin 1..Len(generations)  BY <1>1, <1>6, <2>1, <3>1
    <3>3. QED  BY <1>4, <2>1, <3>2
  <2>3. Item(x)' = generations'[n].items[t]  BY <2>1 DEF Item
  <2>4. QED  BY <2>1, <2>2, <2>3
<1>7. QED  BY <1>5, <1>6 DEF Quietly, KindsKept

-------------------------------------------------------------------------------
(* What flushing and collecting leave as it was. *)

\* flushItem() moves spans from the queue to a batch.
LEMMA FlushItemAlike ==
    ASSUME NEW i, ItemOK(i)
    PROVE  Alike(i, FlushItem(i))
<1>1. CASE i.abandoned \/ i.flight > 0  BY <1>1 DEF FlushItem, Alike
<1>2. CASE ~(i.abandoned \/ i.flight > 0)
  <2>1. PICK n : n = Least(i.queue, BatchSize)  OBVIOUS
  <2>2. i.queue \in 0..QueueLimit /\ i.flight = 0 /\ ~i.cancelled /\ i \in ItemSet
    BY <1>2, TelemetryAssumption DEF ItemOK, ItemSet
  <2>3. n \in 0..BatchSize /\ i.queue - n \in 0..QueueLimit
    BY <2>1, <2>2, Batches
  <2>4. PICK j : j = [i EXCEPT !.queue = i.queue - n, !.flight = n, !.timer = FALSE]  OBVIOUS
  <2>5. /\ j.queue = i.queue - n /\ j.flight = n /\ j.dropped = i.dropped
        /\ ~j.cancelled /\ j.abandoned = i.abandoned
    BY <2>2, <2>4 DEF ItemSet
  <2>6. FlushItem(i) = j
    <3>1. FlushItem(i) = [[i EXCEPT !.queue = i.queue - n, !.flight = n] EXCEPT !.timer = FALSE]
      BY <1>2, <2>1 DEF FlushItem, NextBatch
    <3>2. QED  BY <2>2, <2>4, <3>1 DEF ItemSet
  <2>7. i.queue - n + n = i.queue + 0
    BY <2>2, <2>3, TelemetryAssumption
  <2>8. Held(j) = Held(i) /\ Load(j) = Load(i)  BY <2>2, <2>5, <2>7 DEF Held, Load
  <2>9. QED  BY <2>5, <2>6, <2>8 DEF Alike
<1>3. QED  BY <1>1, <1>2

\* retire() and flush() change nothing that is accounted for.
LEMMA FlushedFollows ==
    ASSUME NEW g, ItemsOK(g)
    PROVE  Follows(g, Flushed(g))
<1>1. PICK items : items = [t \in DOMAIN g.items |-> FlushItem(g.items[t])]  OBVIOUS
<1>2. PICK h : h = [g EXCEPT !.items = items]  OBVIOUS
<1>3. FlushItems(g) = h  BY <1>1, <1>2 DEF FlushItems, ItemsOK, Generation
<1>4. /\ h.items = items /\ h.temporary = g.temporary /\ h.collected = g.collected
      /\ h = [items |-> h.items, temporary |-> h.temporary, retired |-> h.retired,
              collected |-> h.collected, owners |-> h.owners]
  BY <1>2 DEF ItemsOK, Generation
<1>5. PICK k, c : c = (h.collected \/ (h.retired /\ Idle(h))) /\ k = [h EXCEPT !.collected = c]
  OBVIOUS
<1>6. Collect(h) = k  BY <1>5 DEF Collect
<1>7. k.items = items /\ k.temporary = g.temporary  BY <1>4, <1>5
<1>8. g.collected => k.collected  BY <1>4, <1>5
<1>9. \A t \in DOMAIN g.items : Alike(g.items[t], items[t])
  BY <1>1, FlushItemAlike DEF ItemsOK
<1>10. DOMAIN items = DOMAIN g.items  BY <1>1
<1>11. QED  BY <1>3, <1>6, <1>7, <1>8, <1>9, <1>10 DEF Flushed, Follows

LEMMA FollowsSelf ==
    ASSUME NEW g, NEW h, h.items = g.items, h.temporary = g.temporary,
           g.collected => h.collected
    PROVE  Follows(g, h)
BY DEF Follows, Alike

LEMMA FollowsBoth ==
    ASSUME NEW g, NEW h, NEW k, Follows(g, h), Follows(h, k)
    PROVE  Follows(g, k)
<1>1. DOMAIN k.items = DOMAIN g.items  BY DEF Follows
<1>2. \A t \in DOMAIN g.items : Alike(g.items[t], k.items[t])  BY DEF Follows, Alike
<1>3. QED  BY <1>1, <1>2 DEF Follows

LEMMA FlushAllFollows ==
    ASSUME NEW gs \in Seq(Generation), \A n \in 1..Len(gs) : ItemsOK(gs[n])
    PROVE  /\ Len(FlushAll(gs)) = Len(gs)
           /\ \A n \in 1..Len(gs) : Follows(gs[n], FlushAll(gs)[n])
<1>1. Len(gs) \in Nat /\ DOMAIN gs = 1..Len(gs)  BY LenProperties
<1>2. PICK fs : fs = FlushAll(gs)  OBVIOUS
<1>3. /\ fs = [n \in 1..Len(gs) |-> fs[n]]
      /\ \A n \in 1..Len(gs) :
            fs[n] = IF gs[n].collected \/ DOMAIN gs[n].items = {} THEN gs[n] ELSE Flushed(gs[n])
  BY <1>1, <1>2 DEF FlushAll
<1>4. ASSUME NEW n \in 1..Len(gs)
      PROVE  Follows(gs[n], fs[n])
  <2>1. Follows(gs[n], gs[n])  BY FollowsSelf
  <2>2. Follows(gs[n], Flushed(gs[n]))  BY FlushedFollows
  <2>3. QED  BY <1>3, <2>1, <2>2
<1>5. fs \in Seq({fs[n] : n \in 1..Len(gs)})
  <2>1. fs \in [1..Len(gs) -> {fs[n] : n \in 1..Len(gs)}]  BY <1>3
  <2>2. QED  BY <1>1, <2>1, SeqDef
<1>6. DOMAIN fs = 1..Len(gs)  BY <1>3
<1>7. Len(fs) = Len(gs)  BY <1>1, <1>5, <1>6, LenProperties
<1>8. QED  BY <1>2, <1>4, <1>7

\* What collect() does to the counts, as Become has it.
LEMMA BecomeCounts ==
    ASSUME NEW gs, Become(gs)
    PROVE  generations' = gs /\ CountsLeave
<1>1. generations' = gs  BY DEF Become
<1>2. Gone = {y \in Exporters : gs[y[1]].collected /\ ~generations[y[1]].collected}
  BY <1>1 DEF Gone
<1>3. [x \in Gone |-> Item(x)'.dropped]
        = [x \in {y \in Exporters : gs[y[1]].collected /\ ~generations[y[1]].collected} |->
             gs[x[1]].items[x[2]].dropped]
  BY <1>1, <1>2 DEF Item
<1>4. QED  BY <1>1, <1>3 DEF Become, CountsLeave

LEMMA NothingCollected ==
    ASSUME completed \in 0..MaxCount, completed' = completed,
           \A x \in Exporters : generations'[x[1]].collected => generations[x[1]].collected
    PROVE  CountsLeave
<1>1. PICK G, left : G = Gone /\ left = [x \in G |-> Item(x)'.dropped]  OBVIOUS
<1>2. G = {}  BY <1>1 DEF Gone
<1>3. left \in [G -> Nat] /\ \A x \in G : left[x] = 0  BY <1>1, <1>2
<1>4. Total(left) = 0  BY <1>3, TotalZero
<1>5. completed = Least(MaxCount, completed + 0)  BY TelemetryAssumption DEF Least
<1>6. QED  BY <1>1, <1>4, <1>5 DEF CountsLeave

-------------------------------------------------------------------------------
(* Steps that move spans. *)

Accounted == SpansInv /\ BudgetInv

LEMMA ConfigureAccounts ==
    ASSUME IInv, IInv', Accounted, NEW dests \in Configurations, Configure(dests)
    PROVE  Accounted'
<1>1. PICK g, old, gs, h :
         /\ g = [generations[active] EXCEPT !.retired = TRUE] /\ old = Flushed(g)
         /\ gs = [generations EXCEPT ![active] = old]
         /\ h = NewGeneration(dests, FALSE)
  OBVIOUS
<1>2. /\ ~closed /\ Become(Append(gs, h))
      /\ UNCHANGED <<privatePending, closed, finished, offered, answered, reported>>
  BY <1>1 DEF Configure
<1>3. generations' = Append(gs, h) /\ CountsLeave  BY <1>2, BecomeCounts
<1>4. /\ generations \in Seq(Generation) /\ active \in 1..Len(generations)
      /\ ItemsOK(generations[active]) /\ generations[active] \in Generation
  BY EachGeneration DEF IInv
<1>5. /\ g.items = generations[active].items /\ g.temporary = generations[active].temporary
      /\ g.collected = generations[active].collected /\ g \in Generation
  BY <1>1, <1>4 DEF Generation
<1>6. ItemsOK(g)  BY <1>4, <1>5 DEF ItemsOK
<1>7. Follows(generations[active], old)
  <2>1. Follows(g, old)  BY <1>1, <1>6, FlushedFollows
  <2>2. Follows(generations[active], g)  BY <1>5, FollowsSelf
  <2>3. QED  BY <2>1, <2>2, FollowsBoth
<1>8. Len(generations) \in Nat /\ DOMAIN generations = 1..Len(generations)
  BY <1>4, LenProperties
<1>9. PICK all : all = {gs[n] : n \in 1..Len(generations)} \cup {h}  OBVIOUS
<1>10. /\ gs \in Seq(all) /\ h \in all /\ Len(gs) = Len(generations)
       /\ \A n \in 1..Len(generations) : gs[n] = IF n = active THEN old ELSE generations[n]
  <2>1. /\ gs = [n \in 1..Len(generations) |-> gs[n]]
        /\ \A n \in 1..Len(generations) : gs[n] = IF n = active THEN old ELSE generations[n]
    BY <1>1, <1>8, LenProperties, <1>4
  <2>2. gs \in [1..Len(generations) -> all]  BY <1>9, <2>1
  <2>3. gs \in Seq(all)  BY <1>8, <2>2, SeqDef
  <2>4. DOMAIN gs = 1..Len(generations)  BY <2>2
  <2>5. Len(gs) = Len(generations)  BY <1>8, <2>3, <2>4, LenProperties
  <2>6. QED  BY <1>9, <2>1, <2>3, <2>5
<1>11. /\ Len(generations') = Len(generations) + 1
       /\ \A n \in 1..Len(generations) : generations'[n] = gs[n]
       /\ generations'[Len(generations) + 1] = h
  BY <1>3, <1>10, AppendProperties
<1>12. \A n \in 1..Len(generations) : Follows(generations[n], generations'[n])
  <2>1. \A n \in 1..Len(generations) : Follows(generations[n], generations[n])
    BY FollowsSelf
  <2>2. QED  BY <1>7, <1>10, <1>11, <2>1
<1>13. ASSUME NEW n \in 1..Len(generations'), n > Len(generations)
       PROVE  \A t \in DOMAIN generations'[n].items : generations'[n].items[t] = NewItem
  <2>1. n = Len(generations) + 1  BY <1>8, <1>11, <1>13
  <2>2. h.items = [t \in dests |-> NewItem]  BY <1>1 DEF NewGeneration
  <2>3. QED  BY <1>11, <2>1, <2>2
<1>14. Len(generations) <= Len(generations')  BY <1>8, <1>11
<1>15. Quietly  BY <1>2, <1>12, <1>13, <1>14, Following
<1>16. ~finished' /\ ~finished  BY <1>2 DEF Accounted, SpansInv
<1>17. QED  BY <1>3, <1>15, <1>16, QuietStep DEF Accounted

\* One generation is replaced by one that follows it, and nothing is collected.
LEMMA OneFollows ==
    ASSUME IInv, IInv', Accounted, NEW n \in 1..Len(generations), NEW h,
           Follows(generations[n], h), h.collected = generations[n].collected,
           generations' = [generations EXCEPT ![n] = h],
           UNCHANGED <<offered, answered, reported, completed, privatePending, closed, finished>>
    PROVE  Accounted'
<1>1. Len(generations) \in Nat /\ DOMAIN generations = 1..Len(generations)
  BY LenProperties DEF IInv
<1>2. /\ DOMAIN generations' = 1..Len(generations)
      /\ \A m \in 1..Len(generations) : generations'[m] = IF m = n THEN h ELSE generations[m]
  BY <1>1
<1>3. Len(generations') = Len(generations)  BY <1>1, <1>2, LenProperties DEF IInv
<1>4. \A m \in 1..Len(generations) : Follows(generations[m], generations'[m])
  <2>1. \A m \in 1..Len(generations) : Follows(generations[m], generations[m])
    BY FollowsSelf
  <2>2. QED  BY <1>2, <2>1
<1>5. \A m \in 1..Len(generations') : ~(m > Len(generations))  BY <1>1, <1>3
<1>6. Quietly  BY <1>1, <1>3, <1>4, <1>5, Following
<1>7. CountsLeave
  <2>1. \A x \in Exporters : x[1] \in 1..Len(generations)  BY ExporterFacts
  <2>2. \A x \in Exporters : generations'[x[1]].collected => generations[x[1]].collected
    BY <1>2, <2>1
  <2>3. completed \in 0..MaxCount /\ completed' = completed  BY DEF Accounted, SpansInv
  <2>4. QED  BY <2>2, <2>3, NothingCollected
<1>8. finished' = finished /\ (finished => closed')  BY DEF Accounted, SpansInv
<1>9. QED  BY <1>6, <1>7, <1>8, QuietStep DEF Accounted

LEMMA ExecuteAccounts ==
    ASSUME IInv, IInv', Accounted, NEW c \in Calls, Execute(c)
    PROVE  Accounted'
<1>1. PICK h : h = [generations[active] EXCEPT !.owners = generations[active].owners \cup {c}]
  OBVIOUS
<1>2. /\ generations' = [generations EXCEPT ![active] = h]
      /\ UNCHANGED <<privatePending, completed, closed, finished, offered, answered, reported>>
  BY <1>1 DEF Execute
<1>3. active \in 1..Len(generations) /\ generations[active] \in Generation
  BY EachGeneration DEF IInv
<1>4. /\ h.items = generations[active].items /\ h.temporary = generations[active].temporary
      /\ h.collected = generations[active].collected
  BY <1>1, <1>3 DEF Generation
<1>5. Follows(generations[active], h)  BY <1>4, FollowsSelf
<1>6. QED  BY <1>2, <1>3, <1>4, <1>5, OneFollows

LEMMA ExecutePrivateAccounts ==
    ASSUME IInv, IInv', Accounted, NEW c \in Calls, NEW dests \in Configurations,
           ExecutePrivate(c, dests)
    PROVE  Accounted'
<1>1. PICK h : h = [NewGeneration(dests, TRUE) EXCEPT !.owners = {c}]  OBVIOUS
<1>2. /\ ~closed /\ generations' = Append(generations, h)
      /\ UNCHANGED <<privatePending, completed, closed, finished, offered, answered, reported>>
  BY <1>1 DEF ExecutePrivate
<1>3. Len(generations) \in Nat  BY LenProperties DEF IInv
<1>4. PICK all : all = Generation \cup {h}  OBVIOUS
<1>5. generations \in Seq(all)
  <2>1. generations \in [1..Len(generations) -> Generation]  BY LenProperties DEF IInv
  <2>2. generations \in [1..Len(generations) -> all]  BY <1>4, <2>1
  <2>3. QED  BY <1>3, <2>2, SeqDef
<1>6. /\ Len(generations') = Len(generations) + 1
      /\ \A n \in 1..Len(generations) : generations'[n] = generations[n]
      /\ generations'[Len(generations) + 1] = h
  BY <1>2, <1>4, <1>5, AppendProperties
<1>7. \A n \in 1..Len(generations) : Follows(generations[n], generations'[n])
  BY <1>6, FollowsSelf
<1>8. ASSUME NEW n \in 1..Len(generations'), n > Len(generations)
      PROVE  \A t \in DOMAIN generations'[n].items : generations'[n].items[t] = NewItem
  <2>1. n = Len(generations) + 1  BY <1>3, <1>6, <1>8
  <2>2. h.items = [t \in dests |-> NewItem]  BY <1>1 DEF NewGeneration
  <2>3. QED  BY <1>6, <2>1, <2>2
<1>9. Len(generations) <= Len(generations')  BY <1>3, <1>6
<1>10. Quietly  BY <1>2, <1>7, <1>8, <1>9, Following
<1>11. CountsLeave
  <2>1. \A x \in Exporters : generations'[x[1]] = generations[x[1]]
    BY <1>6, ExporterFacts
  <2>2. completed \in 0..MaxCount /\ completed' = completed  BY <1>2 DEF Accounted, SpansInv
  <2>3. QED  BY <2>1, <2>2, NothingCollected
<1>12. ~finished' /\ ~finished  BY <1>2 DEF Accounted, SpansInv
<1>13. QED  BY <1>10, <1>11, <1>12, QuietStep DEF Accounted

LEMMA TimerFiresAccounts ==
    ASSUME IInv, IInv', Accounted, NEW x \in Exporters, TimerFires(x)
    PROVE  Accounted'
<1>1. PICK n, t, g, i : n = x[1] /\ t = x[2] /\ g = generations[n] /\ i = FlushItem(Item(x))
  OBVIOUS
<1>2. PICK h : h = [g EXCEPT !.items[t] = i]  OBVIOUS
<1>3. /\ n \in 1..Len(generations) /\ t \in DOMAIN g.items /\ ItemOK(Item(x))
      /\ Item(x) = g.items[t] /\ ItemsOK(g)
  BY <1>1, ExporterFacts
<1>4. /\ generations' = [generations EXCEPT ![n].items[t] = FlushItem(@)]
      /\ UNCHANGED <<privatePending, completed, closed, finished, offered, answered, reported>>
  BY <1>1 DEF TimerFires
<1>5. generations' = [generations EXCEPT ![n] = h]  BY <1>1, <1>2, <1>3, <1>4
<1>6. Alike(g.items[t], i)  BY <1>1, <1>3, FlushItemAlike
<1>7. Follows(g, h) /\ h.collected = g.collected
  <2>1. PICK items : items = [g.items EXCEPT ![t] = i]  OBVIOUS
  <2>2. g \in Generation /\ g.items = [u \in DOMAIN g.items |-> g.items[u]]
    BY <1>3 DEF ItemsOK, Generation
  <2>3. h.items = items /\ h.temporary = g.temporary /\ h.collected = g.collected
    BY <1>2, <2>1, <2>2 DEF Generation
  <2>4. /\ DOMAIN items = DOMAIN g.items
        /\ \A u \in DOMAIN g.items : items[u] = IF u = t THEN i ELSE g.items[u]
    BY <2>1, <2>2
  <2>5. \A u \in DOMAIN g.items : Alike(g.items[u], g.items[u])  BY DEF Alike
  <2>6. QED  BY <1>6, <2>3, <2>4, <2>5 DEF Follows
<1>8. QED  BY <1>1, <1>3, <1>4, <1>5, <1>7, OneFollows

LEMMA AllFollow ==
    ASSUME IInv, IInv', Accounted, Len(generations') = Len(generations),
           \A n \in 1..Len(generations) : Follows(generations[n], generations'[n]),
           CountsLeave, UNCHANGED <<offered, answered, reported, privatePending, finished>>,
           closed => closed'
    PROVE  Accounted'
<1>1. Len(generations) \in Nat  BY LenProperties DEF IInv
<1>2. \A m \in 1..Len(generations') : ~(m > Len(generations))  BY <1>1
<1>3. Len(generations) <= Len(generations')  BY <1>1
<1>4. Quietly  BY <1>2, <1>3, Following
<1>5. finished' = finished /\ (finished => closed')  BY DEF Accounted, SpansInv
<1>6. QED  BY <1>4, <1>5, QuietStep DEF Accounted

LEMMA FlushAccounts ==
    ASSUME IInv, IInv', Accounted, Flush
    PROVE  Accounted'
<1>1. /\ generations' = FlushAll(generations) /\ CountsLeave
      /\ UNCHANGED <<privatePending, closed, finished, offered, answered, reported>>
  BY BecomeCounts DEF Flush
<1>2. generations \in Seq(Generation) /\ \A n \in 1..Len(generations) : ItemsOK(generations[n])
  BY EachGeneration DEF IInv
<1>3. /\ Len(generations') = Len(generations)
      /\ \A n \in 1..Len(generations) : Follows(generations[n], generations'[n])
  BY <1>1, <1>2, FlushAllFollows
<1>4. QED  BY <1>1, <1>3, AllFollow

LEMMA ShutdownAccounts ==
    ASSUME IInv, IInv', Accounted, Shutdown
    PROVE  Accounted'
<1>1. PICK gs : gs = [n \in DOMAIN generations |-> [generations[n] EXCEPT !.retired = TRUE]]
  OBVIOUS
<1>2. /\ closed' = TRUE /\ generations' = FlushAll(gs) /\ CountsLeave
      /\ UNCHANGED <<privatePending, finished, offered, answered, reported>>
  BY <1>1, BecomeCounts DEF Shutdown
<1>3. Len(generations) \in Nat /\ DOMAIN generations = 1..Len(generations)
  BY LenProperties DEF IInv
<1>4. ASSUME NEW n \in 1..Len(generations)
      PROVE  gs[n] \in Generation /\ ItemsOK(gs[n]) /\ Follows(generations[n], gs[n])
  <2>1. PICK g : g = generations[n]  OBVIOUS
  <2>2. PICK h : h = [g EXCEPT !.retired = TRUE]  OBVIOUS
  <2>3. gs[n] = h  BY <1>1, <1>3, <2>1, <2>2
  <2>4. ItemsOK(g) /\ g \in Generation  BY <2>1, EachGeneration
  <2>5. /\ h \in Generation /\ h.items = g.items /\ h.temporary = g.temporary
        /\ h.collected = g.collected
    BY <2>2, <2>4 DEF Generation
  <2>6. Follows(g, h)  BY <2>5, FollowsSelf
  <2>7. QED  BY <2>1, <2>3, <2>4, <2>5, <2>6 DEF ItemsOK
<1>5. gs \in Seq(Generation) /\ Len(gs) = Len(generations)
  <2>1. gs = [n \in 1..Len(generations) |-> gs[n]]  BY <1>1, <1>3
  <2>2. gs \in [1..Len(generations) -> Generation]  BY <1>4, <2>1
  <2>3. gs \in Seq(Generation)  BY <1>3, <2>2, SeqDef
  <2>4. DOMAIN gs = 1..Len(generations)  BY <2>2
  <2>5. QED  BY <1>3, <2>3, <2>4, LenProperties
<1>6. /\ Len(generations') = Len(generations)
      /\ \A n \in 1..Len(generations) : Follows(gs[n], generations'[n])
  BY <1>2, <1>4, <1>5, FlushAllFollows
<1>7. \A n \in 1..Len(generations) : Follows(generations[n], generations'[n])
  BY <1>4, <1>6, FollowsBoth
<1>8. QED  BY <1>2, <1>6, <1>7, AllFollow

LEMMA ShutdownDrainedAccounts ==
    ASSUME IInv, IInv', Accounted, ShutdownDrained
    PROVE  Accounted'
<1>1. /\ closed /\ finished' = TRUE /\ \A x \in Exporters : ~Busy(Item(x))
      /\ UNCHANGED <<generations, privatePending, completed, closed, offered, answered, reported>>
  BY DEF ShutdownDrained
<1>2. \A n \in 1..Len(generations) : Follows(generations[n], generations'[n])
  BY <1>1, FollowsSelf
<1>3. Len(generations') = Len(generations) /\ Len(generations) \in Nat
  BY <1>1, LenProperties DEF IInv
<1>4. \A m \in 1..Len(generations') : ~(m > Len(generations))  BY <1>3
<1>5. Len(generations) <= Len(generations')  BY <1>3
<1>6. Quietly  BY <1>1, <1>2, <1>4, <1>5, Following
<1>7. CountsLeave
  <2>1. completed \in 0..MaxCount  BY DEF Accounted, SpansInv
  <2>2. QED  BY <1>1, <2>1, NothingCollected
<1>8. ASSUME NEW x \in Exporters
      PROVE  Held(Item(x)) = 0
  <2>1. Item(x) \in ItemSet  BY ExporterTypes
  <2>2. Item(x).queue \in Nat /\ Item(x).flight \in Nat  BY <2>1, ItemFacts
  <2>3. Item(x).queue = 0 /\ Item(x).flight = 0  BY <1>1, <2>2 DEF Busy
  <2>4. QED  BY <2>3 DEF Held
<1>9. QED  BY <1>1, <1>6, <1>7, <1>8, QuietStep DEF Accounted

-------------------------------------------------------------------------------
(* Steps that take spans in or get rid of them. *)

\* One generation is replaced by one with exporters of the same transports.
LEMMA OneReplaced ==
    ASSUME IInv, IInv', NEW n \in 1..Len(generations), NEW h,
           DOMAIN h.items = DOMAIN generations[n].items,
           h.temporary = generations[n].temporary,
           generations[n].collected => h.collected,
           generations' = [generations EXCEPT ![n] = h]
    PROVE  /\ Exporters' = Exporters /\ KindsKept
           /\ \A y \in Exporters :
                 /\ Item(y)' = IF y[1] = n THEN h.items[y[2]] ELSE Item(y)
                 /\ generations[y[1]].collected => generations'[y[1]].collected
<1>1. Len(generations) \in Nat /\ DOMAIN generations = 1..Len(generations)
  BY LenProperties DEF IInv
<1>2. /\ DOMAIN generations' = 1..Len(generations)
      /\ \A m \in 1..Len(generations) : generations'[m] = IF m = n THEN h ELSE generations[m]
  BY <1>1
<1>3. ASSUME NEW m \in 1..Len(generations)
      PROVE  DOMAIN generations'[m].items = DOMAIN generations[m].items
  BY <1>2
<1>4. Exporters' = UNION {{m} \X DOMAIN generations'[m].items : m \in 1..Len(generations)}
  BY <1>2 DEF Exporters
<1>5. Exporters = UNION {{m} \X DOMAIN generations[m].items : m \in 1..Len(generations)}
  BY <1>1 DEF Exporters
<1>6. Exporters' = Exporters  BY <1>3, <1>4, <1>5
<1>7. ASSUME NEW y \in Exporters
      PROVE  /\ Item(y)' = IF y[1] = n THEN h.items[y[2]] ELSE Item(y)
             /\ generations'[y[1]].temporary = generations[y[1]].temporary
             /\ generations[y[1]].collected => generations'[y[1]].collected
  <2>1. y[1] \in 1..Len(generations)  BY ExporterFacts
  <2>2. generations'[y[1]] = IF y[1] = n THEN h ELSE generations[y[1]]  BY <1>2, <2>1
  <2>3. Item(y)' = generations'[y[1]].items[y[2]]  BY DEF Item
  <2>4. Item(y) = generations[y[1]].items[y[2]]  BY DEF Item
  <2>5. QED  BY <2>2, <2>3, <2>4
<1>8. QED  BY <1>6, <1>7 DEF KindsKept

\* A batch ended: its spans no longer count against the budget, s of them were
\* answered, r were reported, and e did not fit into the count of dropped ones.
LEMMA AfterAccounts ==
    ASSUME IInv, IInv', Accounted, NEW x \in Exporters, Item(x).flight > 0,
           NEW i, After(x, i), i.abandoned = Item(x).abandoned,
           NEW s \in Nat, NEW r \in Nat, NEW e \in Nat, Held(i) \in Nat, i.dropped \in Nat,
           Held(i) + i.dropped + s + e = Held(Item(x)) + Item(x).dropped + r,
           Held(i) + s <= Held(Item(x)),
           (Item(x).dropped <= i.dropped) \/ (i.dropped >= MaxCount),
           e > 0 => i.dropped >= MaxCount,
           Load(i) + Item(x).flight = Load(Item(x)),
           finished => Held(i) = 0,
           privatePending' = Released(x),
           answered' = answered + s, reported' = reported + r,
           UNCHANGED <<closed, finished, offered>>
    PROVE  Accounted'
<1>1. PICK n, t, g : n = x[1] /\ t = x[2] /\ g = generations[n]  OBVIOUS
<1>2. PICK k : k = [g EXCEPT !.items[t] = i]  OBVIOUS
<1>3. PICK h : h = Collect(k)  OBVIOUS
<1>4. /\ n \in 1..Len(generations) /\ t \in DOMAIN g.items /\ ItemsOK(g) /\ ~g.collected
      /\ Item(x) = g.items[t] /\ x = <<n, t>> /\ Item(x) \in ItemSet
  BY <1>1, ExporterFacts, ExportersAreFew DEF ItemOK
<1>5. generations' = [generations EXCEPT ![n] = h] /\ CountsLeave
  BY <1>1, <1>2, <1>3, BecomeCounts DEF After
<1>6. /\ DOMAIN h.items = DOMAIN g.items /\ h.temporary = g.temporary
      /\ \A u \in DOMAIN g.items : h.items[u] = IF u = t THEN i ELSE g.items[u]
  <2>1. PICK items : items = [g.items EXCEPT ![t] = i]  OBVIOUS
  <2>2. g \in Generation /\ g.items = [u \in DOMAIN g.items |-> g.items[u]]
    BY <1>4 DEF ItemsOK, Generation
  <2>3. k = [items |-> items, temporary |-> g.temporary, retired |-> g.retired,
             collected |-> g.collected, owners |-> g.owners]
    BY <1>2, <2>1, <2>2 DEF Generation
  <2>4. PICK c : c = (k.collected \/ (k.retired /\ Idle(k)))  OBVIOUS
  <2>5. h = [k EXCEPT !.collected = c]  BY <1>3, <2>4 DEF Collect
  <2>6. h.items = items /\ h.temporary = g.temporary  BY <2>3, <2>5
  <2>7. QED  BY <2>1, <2>2, <2>6
<1>7. /\ Exporters' = Exporters /\ KindsKept
      /\ \A y \in Exporters :
            /\ Item(y)' = IF y[1] = n THEN h.items[y[2]] ELSE Item(y)
            /\ generations[y[1]].collected => generations'[y[1]].collected
  <2>1. /\ n \in 1..Len(generations) /\ generations' = [generations EXCEPT ![n] = h]
        /\ DOMAIN h.items = DOMAIN generations[n].items
        /\ h.temporary = generations[n].temporary
        /\ generations[n].collected => h.collected
    BY <1>1, <1>4, <1>5, <1>6
  <2>2. QED  BY <2>1, OneReplaced
<1>8. ASSUME NEW y \in Exporters
      PROVE  Item(y)' = IF y = x THEN i ELSE Item(y)
  <2>1. y = <<y[1], y[2]>> /\ y[2] \in DOMAIN generations[y[1]].items
        /\ Item(y) = generations[y[1]].items[y[2]]
    BY ExporterFacts, ExportersAreFew
  <2>2. CASE y[1] # n  BY <1>4, <1>7, <2>1, <2>2
  <2>3. CASE y[1] = n
    <3>1. y = x <=> y[2] = t  BY <1>4, <2>1, <2>3
    <3>2. Item(y)' = h.items[y[2]]  BY <1>7, <2>3
    <3>3. QED  BY <1>1, <1>6, <2>1, <2>3, <3>1, <3>2
  <2>4. QED  BY <2>2, <2>3
<1>8a. PICK o \in Nat : o = s + e  OBVIOUS
<1>9. PICK fresh, sent, in, out :
         /\ fresh = [y \in Exporters |-> 0]
         /\ sent = [y \in Exporters |-> IF y = x THEN s ELSE 0]
         /\ in = [y \in Exporters |-> IF y = x THEN r ELSE 0]
         /\ out = [y \in Exporters |-> IF y = x THEN o ELSE 0]
  OBVIOUS
<1>10. /\ fresh \in [Exporters -> Nat] /\ sent \in [Exporters -> Nat]
       /\ in \in [Exporters -> Nat] /\ out \in [Exporters -> Nat]
  BY <1>9
<1>11. Total(fresh) = 0 /\ Total(sent) = s /\ Total(in) = r /\ Total(out) = o
  <2>1. \A y \in Exporters : fresh[y] = 0  BY <1>9
  <2>2. \A y \in Exporters : y # x => sent[y] = 0 /\ in[y] = 0 /\ out[y] = 0  BY <1>9
  <2>3. sent[x] = s /\ in[x] = r /\ out[x] = o  BY <1>9
  <2>4. IsFiniteSet(Exporters)  BY ExportersAreFew
  <2>5. Total(fresh) = 0  BY <1>10, <2>1, TotalZero
  <2>6. Total(sent) = sent[x]  BY <1>10, <2>2, <2>4, TotalHolds
  <2>7. Total(in) = in[x]  BY <1>10, <2>2, <2>4, TotalHolds
  <2>8. Total(out) = out[x]  BY <1>10, <2>2, <2>4, TotalHolds
  <2>9. QED  BY <2>3, <2>5, <2>6, <2>7, <2>8
<1>12. Balances(in, out)
  <2>1. ASSUME NEW y \in Exporters, y = x
        PROVE  /\ ~generations[y[1]].collected
               /\ Held(Item(y)') + Item(y)'.dropped + out[y]
                    = Held(Item(y)) + Item(y).dropped + in[y]
    <3>1. Item(y)' = i /\ Item(y) = Item(x) /\ in[y] = r /\ out[y] = o  BY <1>8, <1>9, <2>1
    <3>2. Held(i) + i.dropped + o = Held(Item(x)) + Item(x).dropped + r  BY <1>8a
    <3>3. QED  BY <1>1, <1>4, <2>1, <3>1, <3>2
  <2>2. ASSUME NEW y \in Exporters, y # x
        PROVE  /\ Held(Item(y)') + out[y] = Held(Item(y)) + in[y]
               /\ Held(Item(y)') + Item(y)'.dropped + out[y]
                    = Held(Item(y)) + Item(y).dropped + in[y]
    BY <1>8, <1>9, <2>2
  <2>3. QED  BY <1>7, <2>1, <2>2 DEF Balances
<1>12a. HeldsFall(fresh, sent) /\ Grows
  <2>1. ASSUME NEW y \in Exporters
        PROVE  /\ Held(Item(y)') + sent[y] <= Held(Item(y)) + fresh[y]
               /\ \/ Item(y).dropped <= Item(y)'.dropped
                  \/ Item(y)'.dropped >= MaxCount
    <3>1. PICK a, b \in Nat : a = Held(Item(y)) /\ b = Item(y).dropped  BY ExporterTypes
    <3>2. CASE y = x
      <4>1. Item(y)' = i /\ sent[y] = s /\ fresh[y] = 0  BY <1>8, <1>9, <3>2
      <4>2. Held(i) + s <= a + 0 /\ (b <= i.dropped \/ i.dropped >= MaxCount)
        BY <3>1, <3>2
      <4>3. QED  BY <3>1, <4>1, <4>2
    <3>3. CASE y # x
      <4>1. Item(y)' = Item(y) /\ sent[y] = 0 /\ fresh[y] = 0  BY <1>8, <1>9, <3>3
      <4>2. a + 0 <= a + 0 /\ b <= b  BY <3>1
      <4>3. QED  BY <3>1, <4>1, <4>2
    <3>4. QED  BY <3>2, <3>3
  <2>2. QED  BY <2>1 DEF HeldsFall, Grows
<1>12b. e > 0 => Saturated'
  <2>1. Item(x)' = i /\ ~generations[x[1]].collected  BY <1>1, <1>4, <1>8
  <2>2. Exporters \subseteq Exporters' /\ completed \in 0..MaxCount
    BY <1>7 DEF Accounted, SpansInv
  <2>3. QED  BY <1>5, <2>1, <2>2, FullStays
<1>13. SpansInv'
  <2>1. offered \in Nat  BY DEF Accounted, SpansInv
  <2>2. /\ offered' = offered + Total(fresh) /\ answered' = answered + Total(sent)
        /\ Total(in) = Total(fresh) + r /\ Total(out) = Total(sent) + e
    BY <1>8a, <1>11, <2>1
  <2>3. \A y \in Exporters' : Item(y)'.abandoned => finished'
    BY <1>7, <1>8 DEF Accounted, SpansInv
  <2>4. finished' => closed' /\ \A y \in Exporters' : Held(Item(y)') = 0
    BY <1>7, <1>8 DEF Accounted, SpansInv
  <2>5. /\ Exporters \subseteq Exporters'
        /\ \A y \in Exporters' \ Exporters : Item(y)' = NewItem
    BY <1>7
  <2>6. SpansInv  BY DEF Accounted
  <2>7. QED  BY <1>5, <1>10, <1>12, <1>12a, <1>12b, <2>2, <2>3, <2>4, <2>5, <2>6, SpansBalance
<1>14. PICK f \in Nat : f = Item(x).flight  BY <1>4, ItemFacts
<1>15. ASSUME NEW u \in Transports
       PROVE  privatePending'[u] = Total(Loads(u)') /\ privatePending'[u] \in 0..QueueLimit
  <2>1. PICK zero, gone :
           /\ zero = [y \in Private(u) |-> 0]
           /\ gone = [y \in Private(u) |-> IF y = x THEN f ELSE 0]
    OBVIOUS
  <2>2. zero \in [Private(u) -> Nat] /\ gone \in [Private(u) -> Nat]  BY <2>1
  <2>3. Total(zero) = 0
    <3>1. \A y \in Private(u) : zero[y] = 0  BY <2>1
    <3>2. QED  BY <2>2, <3>1, TotalZero
  <2>4. LoadsBalance(u, zero, gone)
    <3>1. ASSUME NEW y \in Private(u)
          PROVE  Load(Item(y)') + gone[y] = Load(Item(y)) + zero[y]
      <4>1. y \in Exporters  BY PrivateIsFew
      <4>2. CASE y = x
        <5>1. Item(y)' = i /\ gone[y] = f /\ zero[y] = 0  BY <1>8, <2>1, <4>1, <4>2
        <5>2. Load(Item(x)) \in Nat  BY <1>4, ItemFacts
        <5>3. Load(i) + f = Load(Item(x)) + 0  BY <1>14, <5>2
        <5>4. QED  BY <4>2, <5>1, <5>3
      <4>3. CASE y # x  BY <1>8, <2>1, <4>1, <4>3
      <4>4. QED  BY <4>2, <4>3
    <3>2. QED  BY <3>1 DEF LoadsBalance
  <2>5. /\ {Total(Loads(u)'), Total(gone), Total(Loads(u)), Total(zero)} \subseteq Nat
        /\ Total(Loads(u)') + Total(gone) = Total(Loads(u)) + Total(zero)
    BY <1>7, <2>2, <2>4, LoadsBalanced
  <2>6. PICK a, b, c \in Nat : a = Total(Loads(u)') /\ b = Total(gone) /\ c = Total(Loads(u))
    BY <2>5
  <2>7. a + b = c  BY <2>3, <2>5, <2>6
  <2>8. privatePending[u] = c /\ c \in 0..QueueLimit
    BY <2>6 DEF Accounted, BudgetInv
  <2>9. QueueLimit \in Nat  BY TelemetryAssumption
  <2>10. CASE u = t /\ g.temporary
    <3>1. x \in Private(u)  BY <1>1, <1>4, <2>10 DEF Private
    <3>2. gone[x] = f /\ \A y \in Private(u) : y # x => gone[y] = 0  BY <2>1, <3>1
    <3>3. b = f  BY <2>2, <2>6, <3>1, <3>2, PrivateIsFew, TotalHolds
    <3>4. privatePending \in [Transports -> 0..QueueLimit]  BY DEF Accounted, BudgetInv
    <3>5. privatePending'[u] = IF c > f THEN c - f ELSE 0
      BY <1>1, <1>14, <2>8, <2>10, <3>4 DEF Released
    <3>6. QED  BY <2>6, <2>7, <2>8, <2>9, <3>3, <3>5
  <2>11. CASE ~(u = t /\ g.temporary)
    <3>1. x \notin Private(u)  BY <1>1, <2>11 DEF Private
    <3>2. \A y \in Private(u) : gone[y] = 0  BY <2>1, <3>1
    <3>3. b = 0  BY <2>2, <2>6, <3>2, TotalZero
    <3>4. privatePending \in [Transports -> 0..QueueLimit]  BY DEF Accounted, BudgetInv
    <3>5. privatePending'[u] = privatePending[u]
      BY <1>1, <2>11, <3>4 DEF Released
    <3>6. QED  BY <2>6, <2>7, <2>8, <3>3, <3>5
  <2>12. QED  BY <2>10, <2>11
<1>16. BudgetInv'
  <2>1. privatePending \in [Transports -> 0..QueueLimit]  BY DEF Accounted, BudgetInv
  <2>2. privatePending' = [u \in Transports |-> privatePending'[u]]
    BY <2>1 DEF Released
  <2>3. privatePending' \in [Transports -> 0..QueueLimit]  BY <1>15, <2>2
  <2>4. \A u \in Transports : privatePending'[u] = Total(Loads(u))'  BY <1>15
  <2>5. QED  BY <2>3, <2>4 DEF BudgetInv
<1>17. QED  BY <1>13, <1>16 DEF Accounted

LEMMA BatchEndsAccounts ==
    ASSUME IInv, IInv', Accounted, NEW x \in Exporters,
           NEW m \in Nat, NEW s \in Nat, NEW r \in Nat, BatchEnds(x, m),
           m + s = Item(x).flight + r, s <= Item(x).flight,
           answered' = answered + s, reported' = reported + r
    PROVE  Accounted'
<1>1. PICK i : i = Item(x)  OBVIOUS
<1>2. /\ i.flight > 0 /\ ~i.cancelled
      /\ After(x, NextBatch([i EXCEPT !.dropped = Least(MaxCount, @ + m)]))
      /\ privatePending' = Released(x)
      /\ UNCHANGED <<closed, finished, offered>>
  BY <1>1 DEF BatchEnds
<1>3. /\ i \in ItemSet /\ i.queue \in 0..QueueLimit /\ i.flight \in Nat /\ i.dropped \in Nat
      /\ i.queue \in Nat
  BY <1>1, ExporterTypes, ItemFacts DEF ItemSet
<1>4. PICK w \in Nat : w = i.dropped + m  BY <1>3
<1>5. PICK d \in Nat : d = Least(MaxCount, w)  BY UpToMaxCount
<1>5a. /\ d <= w /\ (d < w => d >= MaxCount) /\ MaxCount \in Nat
  BY <1>5, UpToMaxCount
<1>5b. PICK e \in Nat : e = w - d  BY <1>5a
<1>6. PICK n : n = Least(i.queue, BatchSize)  OBVIOUS
<1>7. n \in 0..BatchSize /\ i.queue - n \in 0..QueueLimit  BY <1>3, <1>6, Batches
<1>8. PICK q \in Nat : q = i.queue - n  BY <1>7, TelemetryAssumption
<1>9. n \in Nat /\ q + n = i.queue  BY <1>3, <1>7, <1>8, TelemetryAssumption
<1>10. PICK j : j = [i EXCEPT !.dropped = d, !.queue = q, !.flight = n]  OBVIOUS
<1>11. NextBatch([i EXCEPT !.dropped = Least(MaxCount, @ + m)]) = j
  <2>1. PICK k : k = [i EXCEPT !.dropped = d]  OBVIOUS
  <2>2. k = [i EXCEPT !.dropped = Least(MaxCount, @ + m)]  BY <1>4, <1>5, <2>1
  <2>3. k.queue = i.queue  BY <1>3, <2>1 DEF ItemSet
  <2>4. NextBatch(k) = [k EXCEPT !.queue = q, !.flight = n]
    BY <1>6, <1>8, <2>3 DEF NextBatch
  <2>5. [k EXCEPT !.queue = q, !.flight = n] = j  BY <1>3, <1>10, <2>1 DEF ItemSet
  <2>6. QED  BY <2>2, <2>4, <2>5
<1>12. /\ j.queue = q /\ j.flight = n /\ j.dropped = d /\ ~j.cancelled
       /\ j.abandoned = i.abandoned
  BY <1>2, <1>3, <1>10 DEF ItemSet
<1>13. Held(j) = i.queue /\ Held(i) = i.queue + i.flight
  BY <1>2, <1>9, <1>12 DEF Held
<1>14. Load(j) = i.queue /\ Load(i) = i.queue + i.flight  BY <1>9, <1>12 DEF Load
<1>15. /\ Held(j) + j.dropped + s + e = Held(i) + i.dropped + r
       /\ Held(j) + s <= Held(i) /\ Held(j) \in Nat /\ j.dropped \in Nat
       /\ e > 0 => j.dropped >= MaxCount
  <2>1. PICK a, f, p \in Nat : a = i.queue /\ f = i.flight /\ p = i.dropped  BY <1>3
  <2>2. m + s = f + r /\ s <= f /\ w = p + m  BY <1>1, <1>4, <2>1
  <2>3. d + e = w  BY <1>5a, <1>5b
  <2>4. a + d + s + e = a + f + p + r  BY <2>2, <2>3
  <2>5. a + s <= a + f  BY <2>2
  <2>6. e > 0 => d >= MaxCount
    <3>1. e > 0 => d < w  BY <2>3
    <3>2. QED  BY <1>5a, <3>1
  <2>7. Held(j) = a /\ Held(i) = a + f /\ j.dropped = d  BY <1>12, <1>13, <2>1
  <2>8. QED  BY <2>1, <2>4, <2>5, <2>6, <2>7
<1>16. Load(j) + i.flight = Load(i)  BY <1>14
<1>17. ~finished
  <2>1. Held(i) # 0  BY <1>2, <1>3, <1>13
  <2>2. QED  BY <1>1, <2>1 DEF Accounted, SpansInv
<1>18. (i.dropped <= j.dropped) \/ (j.dropped >= MaxCount)
  <2>1. d = w \/ d = MaxCount  BY <1>5, UpToMaxCount
  <2>2. CASE d = w  BY <1>3, <1>4, <1>12, <2>2
  <2>3. CASE d = MaxCount  BY <1>5a, <1>12, <2>3
  <2>4. QED  BY <2>1, <2>2, <2>3
<1>19. /\ After(x, j) /\ Item(x).flight > 0 /\ j.abandoned = Item(x).abandoned
       /\ Held(j) + j.dropped + s + e = Held(Item(x)) + Item(x).dropped + r
       /\ Held(j) + s <= Held(Item(x))
       /\ (Item(x).dropped <= j.dropped) \/ (j.dropped >= MaxCount)
       /\ Load(j) + Item(x).flight = Load(Item(x))
  BY <1>1, <1>2, <1>11, <1>12, <1>15, <1>16, <1>18
<1>20. QED  BY <1>2, <1>15, <1>17, <1>19, AfterAccounts

LEMMA ExportSettlesAccounts ==
    ASSUME IInv, IInv', Accounted, NEW x \in Exporters, ExportSettles(x)
    PROVE  Accounted'
<1>1. PICK f \in Nat : f = Item(x).flight
  <2>1. Item(x) \in ItemSet  BY ExporterTypes
  <2>2. QED  BY <2>1, ItemFacts
<1>2. PICK none \in Nat : none = 0  OBVIOUS
<1>3. answered \in Nat /\ reported \in Nat  BY DEF Accounted, SpansInv
<1>4. CASE BatchEnds(x, Item(x).flight) /\ UNCHANGED <<answered, reported>>
  <2>1. /\ BatchEnds(x, f) /\ f + none = Item(x).flight + none /\ none <= Item(x).flight
        /\ answered' = answered + none /\ reported' = reported + none
    BY <1>1, <1>2, <1>3, <1>4
  <2>2. QED  BY <2>1, BatchEndsAccounts
<1>5. ASSUME NEW n \in Nat, BatchEnds(x, n), answered' = answered + Item(x).flight,
             reported' = reported + n
      PROVE  Accounted'
  <2>1. /\ n + f = Item(x).flight + n /\ f <= Item(x).flight /\ answered' = answered + f
    BY <1>1, <1>5
  <2>2. QED  BY <1>5, <2>1, BatchEndsAccounts
<1>6. QED  BY <1>4, <1>5, ExportSettlesAs

LEMMA CancelledEndsAccounts ==
    ASSUME IInv, IInv', Accounted, NEW x \in Exporters, CancelledEnds(x)
    PROVE  Accounted'
<1>1. PICK i : i = Item(x)  OBVIOUS
<1>2. /\ i.cancelled /\ After(x, Ended(i)) /\ privatePending' = Released(x)
      /\ UNCHANGED <<closed, finished, offered, answered, reported>>
  BY <1>1 DEF CancelledEnds
<1>3. ItemOK(i)  BY <1>1, ExporterFacts
<1>4. i \in ItemSet /\ i.flight > 0  BY <1>2, <1>3 DEF ItemOK
<1>5. i.queue \in Nat /\ i.flight \in Nat /\ i.dropped \in Nat  BY <1>4, ItemFacts
<1>6. PICK j : j = Ended(i)  OBVIOUS
<1>7. /\ j.queue = i.queue /\ j.flight = 0 /\ ~j.cancelled /\ j.dropped = i.dropped
      /\ j.abandoned = i.abandoned
  BY <1>4, <1>6 DEF Ended, ItemSet
<1>8. Held(j) = Held(i) /\ Load(j) = i.queue /\ Load(i) = i.queue + i.flight
  BY <1>2, <1>5, <1>7 DEF Held, Load
<1>9. PICK o \in Nat : o = 0  OBVIOUS
<1>10. Held(i) \in Nat  BY <1>4, ItemFacts
<1>11. /\ Held(j) + j.dropped + o + o = Held(i) + i.dropped + o
       /\ Held(j) + o <= Held(i) /\ i.dropped <= j.dropped
       /\ Held(j) \in Nat /\ j.dropped \in Nat /\ ~(o > 0)
       /\ Load(j) + i.flight = Load(i)
  BY <1>5, <1>7, <1>8, <1>9, <1>10
<1>12. finished => Held(j) = 0  BY <1>1, <1>8 DEF Accounted, SpansInv
<1>13. answered' = answered + o /\ reported' = reported + o
  BY <1>2, <1>9 DEF Accounted, SpansInv
<1>14. /\ After(x, j) /\ Item(x).flight > 0 /\ j.abandoned = Item(x).abandoned
       /\ Held(j) + j.dropped + o + o = Held(Item(x)) + Item(x).dropped + o
       /\ Held(j) + o <= Held(Item(x)) /\ Item(x).dropped <= j.dropped
       /\ Load(j) + Item(x).flight = Load(Item(x))
  BY <1>1, <1>2, <1>4, <1>6, <1>7, <1>11
<1>15. QED  BY <1>2, <1>11, <1>12, <1>13, <1>14, AfterAccounts

\* enqueue() counts a span once: it is queued, or dropped for it or another.  Only
\* a queue with room holds more afterwards.
LEMMA EnqueuedCounts ==
    ASSUME NEW g, ItemsOK(g), NEW t \in DOMAIN g.items, NEW i, i = g.items[t],
           ~i.abandoned, NEW j, j = Enqueued(g, t)
    PROVE  /\ ~j.abandoned
           /\ Held(j) + j.dropped = Held(i) + i.dropped + 1
           /\ Held(j) <= Held(i) + 1 /\ i.dropped <= j.dropped
           /\ Load(j) = Load(i) + IF OverBudget(g, t) \/ i.queue >= QueueLimit THEN 0 ELSE 1
<1>1. i \in ItemSet /\ ~i.cancelled  BY DEF ItemsOK, ItemOK
<1>2. i.queue \in Nat /\ i.flight \in Nat /\ i.dropped \in Nat  BY <1>1, ItemFacts
<1>3. PICK timer : timer = (i.timer \/ i.flight = 0)  OBVIOUS
<1>4. CASE OverBudget(g, t)
  <2>1. PICK k : k = [i EXCEPT !.dropped = i.dropped + 1]  OBVIOUS
  <2>2. j = k  BY <1>4, <2>1 DEF Enqueued
  <2>3. /\ k.queue = i.queue /\ k.flight = i.flight /\ k.dropped = i.dropped + 1
        /\ ~k.cancelled /\ ~k.abandoned
    BY <1>1, <2>1 DEF ItemSet
  <2>4. QED  BY <1>1, <1>2, <1>4, <2>2, <2>3 DEF Held, Load
<1>5. CASE ~OverBudget(g, t) /\ i.queue >= QueueLimit
  <2>1. PICK k : k = [i EXCEPT !.dropped = i.dropped + 1, !.timer = timer]  OBVIOUS
  <2>2. j = k  BY <1>3, <1>5, <2>1 DEF Enqueued
  <2>3. /\ k.queue = i.queue /\ k.flight = i.flight /\ k.dropped = i.dropped + 1
        /\ ~k.cancelled /\ ~k.abandoned
    BY <1>1, <2>1 DEF ItemSet
  <2>4. Load(j) = Load(i)  BY <2>2, <2>3 DEF Load
  <2>5. Held(j) = Held(i)  BY <1>1, <2>2, <2>3 DEF Held
  <2>6. PICK a \in Nat : a = Held(i)  BY <1>1, ItemFacts
  <2>7. Held(j) + j.dropped = Held(i) + i.dropped + 1  BY <1>2, <2>2, <2>3, <2>5, <2>6
  <2>8. Load(i) + 0 = Load(i)
    <3>1. Load(i) \in Nat  BY <1>1, ItemFacts
    <3>2. QED  BY <3>1
  <2>9. Held(j) <= Held(i) + 1 /\ i.dropped <= j.dropped
    BY <1>2, <2>2, <2>3, <2>5, <2>6
  <2>10. QED  BY <1>5, <2>2, <2>3, <2>4, <2>7, <2>8, <2>9
<1>6. CASE ~OverBudget(g, t) /\ ~(i.queue >= QueueLimit)
  <2>1. PICK k : k = [i EXCEPT !.queue = i.queue + 1, !.timer = timer]  OBVIOUS
  <2>2. j = k  BY <1>3, <1>6, <2>1 DEF Enqueued
  <2>3. /\ k.queue = i.queue + 1 /\ k.flight = i.flight /\ k.dropped = i.dropped
        /\ ~k.cancelled /\ ~k.abandoned
    BY <1>1, <2>1 DEF ItemSet
  <2>4. QED  BY <1>1, <1>2, <1>6, <2>2, <2>3 DEF Held, Load
<1>7. QED  BY <1>4, <1>5, <1>6

\* The generation of a call that ends, before and after.
LEMMA CompleteReplaces ==
    ASSUME IInv, NEW c \in Calls, Complete(c)
    PROVE  \E n \in 1..Len(generations) : \E h :
              /\ n = generationOf[c]
              /\ generations' = [generations EXCEPT ![n] = h] /\ CountsLeave
              /\ ~generations[n].collected /\ ItemsOK(generations[n])
              /\ DOMAIN h.items = DOMAIN generations[n].items
              /\ h.temporary = generations[n].temporary
              /\ \A t \in DOMAIN h.items :
                    Alike(IF closed THEN generations[n].items[t]
                                    ELSE Enqueued(generations[n], t), h.items[t])
<1>1. PICK n, g, items, left, h :
         /\ n = generationOf[c] /\ g = generations[n]
         /\ items = IF closed THEN g.items ELSE [t \in DOMAIN g.items |-> Enqueued(g, t)]
         /\ left = [g EXCEPT !.items = items, !.owners = g.owners \ {c}]
         /\ h = IF g.retired THEN Flushed(left) ELSE left
  OBVIOUS
<1>2. /\ n \in DOMAIN generations /\ c \in g.owners
      /\ Become([generations EXCEPT ![n] = h])
  BY <1>1 DEF Complete
<1>3. generations' = [generations EXCEPT ![n] = h] /\ CountsLeave  BY <1>2, BecomeCounts
<1>4. n \in 1..Len(generations)  BY <1>2, LenProperties DEF IInv
<1>5. ItemsOK(g) /\ g \in Generation /\ ~g.collected
  BY <1>1, <1>2, <1>4, EachGeneration
<1>6. /\ DOMAIN items = DOMAIN g.items /\ items = [t \in DOMAIN items |-> items[t]]
      /\ \A t \in DOMAIN items : ItemOK(items[t])
      /\ \A t \in DOMAIN items : items[t] = IF closed THEN g.items[t] ELSE Enqueued(g, t)
  <2>1. CASE closed  BY <1>1, <1>5, <2>1 DEF ItemsOK, Generation
  <2>2. CASE ~closed  BY <1>1, <1>5, <2>2, EnqueuedOK
  <2>3. QED  BY <2>1, <2>2
<1>7. PICK k : k = [g EXCEPT !.items = items]  OBVIOUS
<1>8. ItemsOK(k) /\ k.items = items  BY <1>5, <1>6, <1>7, WithItems
<1>9. left = [k EXCEPT !.owners = g.owners \ {c}]  BY <1>1, <1>5, <1>7 DEF Generation
<1>10. k.temporary = g.temporary  BY <1>5, <1>7 DEF Generation
<1>11. left \in Generation /\ left.items = items /\ left.temporary = g.temporary
  BY <1>5, <1>8, <1>9, <1>10 DEF ItemsOK, Generation
<1>12. ItemsOK(left)  BY <1>6, <1>11 DEF ItemsOK
<1>13. Follows(left, h)
  <2>1. Follows(left, Flushed(left))  BY <1>12, FlushedFollows
  <2>2. Follows(left, left)  BY FollowsSelf
  <2>3. QED  BY <1>1, <2>1, <2>2
<1>14. /\ DOMAIN h.items = DOMAIN g.items /\ h.temporary = g.temporary
       /\ \A t \in DOMAIN h.items : Alike(items[t], h.items[t])
  BY <1>6, <1>11, <1>13 DEF Follows
<1>15. \A t \in DOMAIN h.items :
          Alike(IF closed THEN g.items[t] ELSE Enqueued(g, t), h.items[t])
  BY <1>6, <1>14
<1>16. /\ n = generationOf[c]
       /\ generations' = [generations EXCEPT ![n] = h] /\ CountsLeave
       /\ ~generations[n].collected /\ ItemsOK(generations[n])
       /\ DOMAIN h.items = DOMAIN generations[n].items
       /\ h.temporary = generations[n].temporary
       /\ \A t \in DOMAIN h.items :
             Alike(IF closed THEN generations[n].items[t]
                             ELSE Enqueued(generations[n], t), h.items[t])
  <2>1. n = generationOf[c] /\ g = generations[n]  BY <1>1
  <2>2. QED  BY <1>3, <1>5, <1>14, <1>15, <2>1
<1>17. QED  BY <1>4, <1>16, Zenon

LEMMA CompleteAccounts ==
    ASSUME IInv, IInv', Accounted, NEW c \in Calls, Complete(c)
    PROVE  Accounted'
<1>1. PICK n \in 1..Len(generations) : \E h :
         /\ n = generationOf[c]
         /\ generations' = [generations EXCEPT ![n] = h] /\ CountsLeave
         /\ ~generations[n].collected /\ ItemsOK(generations[n])
         /\ DOMAIN h.items = DOMAIN generations[n].items
         /\ h.temporary = generations[n].temporary
         /\ \A t \in DOMAIN h.items :
               Alike(IF closed THEN generations[n].items[t]
                               ELSE Enqueued(generations[n], t), h.items[t])
  BY CompleteReplaces
<1>2. PICK h :
         /\ n = generationOf[c]
         /\ generations' = [generations EXCEPT ![n] = h] /\ CountsLeave
         /\ ~generations[n].collected /\ ItemsOK(generations[n])
         /\ DOMAIN h.items = DOMAIN generations[n].items
         /\ h.temporary = generations[n].temporary
         /\ \A t \in DOMAIN h.items :
               Alike(IF closed THEN generations[n].items[t]
                               ELSE Enqueued(generations[n], t), h.items[t])
  BY <1>1
<1>3. /\ Exporters' = Exporters /\ KindsKept
      /\ \A y \in Exporters :
            /\ Item(y)' = IF y[1] = n THEN h.items[y[2]] ELSE Item(y)
            /\ generations[y[1]].collected => generations'[y[1]].collected
  BY <1>2, OneReplaced
<1>4. /\ UNCHANGED <<closed, finished, answered, reported>>
      /\ offered' = IF closed THEN offered
                    ELSE offered + Cardinality({x \in Exporters : x[1] = n /\ ~Item(x).abandoned})
      /\ privatePending' =
           [t \in Transports |->
              IF /\ generations[n].temporary /\ ~closed /\ t \in DOMAIN generations[n].items
                 /\ ~OverBudget(generations[n], t)
              THEN privatePending[t] + 1 ELSE privatePending[t]]
  BY <1>2 DEF Complete
<1>5. ASSUME NEW y \in Exporters, y[1] = n
      PROVE  /\ y[2] \in DOMAIN h.items /\ Item(y) = generations[n].items[y[2]]
             /\ Alike(IF closed THEN Item(y) ELSE Enqueued(generations[n], y[2]), Item(y)')
  <2>1. y[2] \in DOMAIN generations[n].items /\ Item(y) = generations[n].items[y[2]]
    BY <1>5, ExporterFacts
  <2>2. Item(y)' = h.items[y[2]]  BY <1>3, <1>5
  <2>3. QED  BY <1>2, <2>1, <2>2
<1>6. privatePending \in [Transports -> 0..QueueLimit]  BY DEF Accounted, BudgetInv
<1>7. CASE closed
  <2>1. privatePending' = privatePending  BY <1>4, <1>6, <1>7
  <2>2. \A y \in Exporters : Alike(Item(y), Item(y)')
    <3>1. ASSUME NEW y \in Exporters, y[1] # n
          PROVE  Alike(Item(y), Item(y)')
      BY <1>3, <3>1 DEF Alike
    <3>2. QED  BY <1>5, <1>7, <3>1
  <2>3. Quietly  BY <1>3, <1>4, <1>7, <2>1, <2>2 DEF Quietly
  <2>4. finished' = finished /\ (finished => closed')  BY <1>4 DEF Accounted, SpansInv
  <2>5. QED  BY <1>2, <2>3, <2>4, QuietStep DEF Accounted
<1>8. CASE ~closed
  <2>1. ~finished /\ ~finished'  BY <1>4, <1>8 DEF Accounted, SpansInv
  <2>2. \A y \in Exporters : ~Item(y).abandoned  BY <2>1 DEF Accounted, SpansInv
  <2>3. ASSUME NEW y \in Exporters, y[1] = n
        PROVE  /\ ~Item(y)'.abandoned
               /\ Held(Item(y)') + Item(y)'.dropped = Held(Item(y)) + Item(y).dropped + 1
               /\ Held(Item(y)') <= Held(Item(y)) + 1 /\ Item(y).dropped <= Item(y)'.dropped
               /\ Load(Item(y)') = Load(Item(y)) +
                    IF OverBudget(generations[n], y[2]) \/ Item(y).queue >= QueueLimit
                    THEN 0 ELSE 1
    <3>1. PICK j : j = Enqueued(generations[n], y[2])  OBVIOUS
    <3>2. PICK i : i = Item(y)  OBVIOUS
    <3>3. /\ ~j.abandoned
          /\ Held(j) + j.dropped = Held(i) + i.dropped + 1
          /\ Held(j) <= Held(i) + 1 /\ i.dropped <= j.dropped
          /\ Load(j) = Load(i) +
               IF OverBudget(generations[n], y[2]) \/ i.queue >= QueueLimit THEN 0 ELSE 1
      <4>1. /\ ItemsOK(generations[n]) /\ y[2] \in DOMAIN generations[n].items
            /\ i = generations[n].items[y[2]] /\ ~i.abandoned
        BY <1>2, <1>5, <2>2, <2>3, <3>2
      <4>2. QED  BY <3>1, <4>1, EnqueuedCounts
    <3>4. Alike(j, Item(y)')  BY <1>5, <1>8, <2>3, <3>1
    <3>5. QED  BY <3>2, <3>3, <3>4 DEF Alike
  <2>4. PICK A, in, out :
           /\ A = {x \in Exporters : x[1] = n /\ ~Item(x).abandoned}
           /\ in = [y \in Exporters |-> IF y \in A THEN 1 ELSE 0]
           /\ out = [y \in Exporters |-> 0]
    OBVIOUS
  <2>5. in \in [Exporters -> Nat] /\ out \in [Exporters -> Nat]  BY <2>4
  <2>6. Total(in) = Cardinality(A) /\ Total(out) = 0
    <3>1. \A y \in Exporters : in[y] = IF y \in A THEN 1 ELSE 0  BY <2>4
    <3>2. \A y \in Exporters : out[y] = 0  BY <2>4
    <3>3. A \in SUBSET Exporters  BY <2>4
    <3>4. IsFiniteSet(Exporters)  BY ExportersAreFew
    <3>5. Total(in) = Cardinality(A)  BY <2>5, <3>1, <3>3, <3>4, TotalCounts
    <3>6. QED  BY <2>5, <3>2, <3>5, TotalZero
  <2>7. Balances(in, [x \in Exporters |-> 0])
    <3>1. ASSUME NEW y \in Exporters, y[1] = n
          PROVE  /\ ~generations[y[1]].collected
                 /\ Held(Item(y)') + Item(y)'.dropped + out[y]
                      = Held(Item(y)) + Item(y).dropped + in[y]
      <4>1. in[y] = 1 /\ out[y] = 0  BY <2>2, <2>4, <3>1
      <4>2. PICK a, b \in Nat : a = Held(Item(y)) /\ b = Item(y).dropped  BY ExporterTypes
      <4>3. Held(Item(y)') + Item(y)'.dropped = a + b + 1  BY <2>3, <3>1, <4>2
      <4>4. a + b + 1 + 0 = a + b + 1  BY <4>2
      <4>5. QED  BY <1>2, <3>1, <4>1, <4>2, <4>3, <4>4
    <3>2. ASSUME NEW y \in Exporters, y[1] # n
          PROVE  /\ Held(Item(y)') + out[y] = Held(Item(y)) + in[y]
                 /\ Held(Item(y)') + Item(y)'.dropped + out[y]
                      = Held(Item(y)) + Item(y).dropped + in[y]
      <4>1. Item(y)' = Item(y)  BY <1>3, <3>2
      <4>2. in[y] = 0 /\ out[y] = 0  BY <2>4, <3>2
      <4>3. QED  BY <4>1, <4>2
    <3>3. Balances(in, out)  BY <1>3, <3>1, <3>2 DEF Balances
    <3>4. QED  BY <2>4, <3>3
  <2>7a. Grows /\ \A y \in Exporters : Held(Item(y)') <= Held(Item(y)) + in[y]
    <3>1. ASSUME NEW y \in Exporters
          PROVE  /\ Item(y).dropped <= Item(y)'.dropped
                 /\ Held(Item(y)') <= Held(Item(y)) + in[y]
      <4>1. PICK a, b \in Nat : a = Held(Item(y)) /\ b = Item(y).dropped  BY ExporterTypes
      <4>2. CASE y[1] = n
        <5>1. in[y] = 1  BY <2>2, <2>4, <4>2
        <5>2. QED  BY <2>3, <4>2, <5>1
      <4>3. CASE y[1] # n
        <5>1. Item(y)' = Item(y) /\ in[y] = 0  BY <1>3, <2>4, <4>3
        <5>2. b <= b /\ a <= a + 0  BY <4>1
        <5>3. QED  BY <4>1, <5>1, <5>2
      <4>4. QED  BY <4>2, <4>3
    <3>2. QED  BY <3>1 DEF Grows
  <2>8. SpansInv'
    <3>1. offered \in Nat  BY DEF Accounted, SpansInv
    <3>2. offered' = offered + Total(in) /\ answered' = answered /\ reported' = reported
      BY <1>4, <1>8, <2>4, <2>6, <3>1
    <3>3. ASSUME NEW y \in Exporters'
          PROVE  ~Item(y)'.abandoned
      <4>1. y \in Exporters  BY <1>3
      <4>2. CASE y[1] = n  BY <2>3, <4>1, <4>2
      <4>3. CASE y[1] # n
        <5>1. Item(y)' = Item(y)  BY <1>3, <4>1, <4>3
        <5>2. QED  BY <2>2, <4>1, <5>1
      <4>4. QED  BY <4>2, <4>3
    <3>4. \A y \in Exporters' : Item(y)'.abandoned => finished'  BY <3>3
    <3>5. finished' => closed' /\ \A y \in Exporters' : Held(Item(y)') = 0  BY <2>1
    <3>6. /\ Exporters \subseteq Exporters'
          /\ \A y \in Exporters' \ Exporters : Item(y)' = NewItem
      BY <1>3
    <3>7. SpansInv  BY DEF Accounted
    <3>8. QED  BY <1>2, <2>5, <2>7, <2>7a, <3>2, <3>4, <3>5, <3>6, <3>7, SpansMoved
  <2>9. ASSUME NEW u \in Transports
        PROVE  privatePending'[u] = Total(Loads(u)') /\ privatePending'[u] \in 0..QueueLimit
    <3>1. PICK room : room = (/\ generations[n].temporary /\ u \in DOMAIN generations[n].items
                              /\ ~OverBudget(generations[n], u))
      OBVIOUS
    <3>2. PICK S : S = Private(u)  OBVIOUS
    <3>3. PICK zero, more :
             /\ zero = [y \in S |-> 0]
             /\ more = [y \in S |-> IF room /\ y[1] = n THEN 1 ELSE 0]
      OBVIOUS
    <3>4. zero \in [S -> Nat] /\ more \in [S -> Nat]  BY <3>3
    <3>5. /\ \A y \in S : /\ y \in Exporters /\ y[2] = u /\ generations[y[1]].temporary
                          /\ y = <<y[1], y[2]>>
          /\ IsFiniteSet(S)
      BY <3>2, PrivateIsFew, ExportersAreFew DEF Private
    <3>6. Total(zero) = 0
      <4>1. \A y \in S : zero[y] = 0  BY <3>3
      <4>2. QED  BY <3>4, <4>1, TotalZero
    <3>7. privatePending[u] = Total(Loads(u)) /\ privatePending[u] \in 0..QueueLimit
      BY DEF Accounted, BudgetInv
    <3>8. QueueLimit \in Nat  BY TelemetryAssumption
    <3>9. ASSUME NEW y \in S
          PROVE  Load(Item(y)') + zero[y] = Load(Item(y)) + more[y]
      <4>1. y \in Exporters /\ y[2] = u /\ generations[y[1]].temporary  BY <3>5
      <4>2. Load(Item(y)) \in Nat  BY <4>1, ExporterTypes
      <4>3. CASE y[1] # n
        <5>1. Item(y)' = Item(y)  BY <1>3, <4>1, <4>3
        <5>2. QED  BY <3>3, <4>3, <5>1
      <4>4. CASE y[1] = n
        <5>1. u \in DOMAIN generations[n].items /\ generations[n].temporary
          BY <1>2, <1>5, <4>1, <4>4
        <5>2. ~OverBudget(generations[n], u) => ~(Item(y).queue >= QueueLimit)
          <6>1. ASSUME Item(y).queue >= QueueLimit
                PROVE  OverBudget(generations[n], u)
            <7>1. Loads(u) \in [S -> Nat] /\ Loads(u)[y] = Load(Item(y))
              BY <3>2, PrivateIsFew DEF Loads
            <7>2. Loads(u)[y] <= Total(Loads(u))  BY <3>5, <7>1, TotalHolds
            <7>3. Item(y).queue <= Load(Item(y))
              <8>1. Item(y) \in ItemSet  BY <4>1, ExporterTypes
              <8>2. Item(y).queue \in Nat /\ Item(y).flight \in Nat  BY <8>1, ItemFacts
              <8>3. QED  BY <8>2 DEF Load
            <7>4. Item(y).queue \in Nat
              <8>1. Item(y) \in ItemSet  BY <4>1, ExporterTypes
              <8>2. QED  BY <8>1, ItemFacts
            <7>5. privatePending[u] >= QueueLimit
              BY <3>7, <3>8, <4>2, <6>1, <7>1, <7>2, <7>3, <7>4
            <7>6. QED  BY <5>1, <7>5 DEF OverBudget
          <6>2. QED  BY <6>1
        <5>3. Load(Item(y)') = Load(Item(y)) +
                IF OverBudget(generations[n], u) \/ Item(y).queue >= QueueLimit THEN 0 ELSE 1
          BY <2>3, <4>1, <4>4
        <5>4. Load(Item(y)') = Load(Item(y)) + IF room THEN 1 ELSE 0
          BY <3>1, <5>1, <5>2, <5>3
        <5>5. more[y] = (IF room THEN 1 ELSE 0) /\ zero[y] = 0  BY <3>3, <4>4
        <5>6. QED  BY <4>2, <5>4, <5>5
      <4>5. QED  BY <4>3, <4>4
    <3>10. LoadsBalance(u, more, zero)  BY <3>2, <3>9 DEF LoadsBalance
    <3>11. /\ {Total(Loads(u)'), Total(zero), Total(Loads(u)), Total(more)} \subseteq Nat
           /\ Total(Loads(u)') + Total(zero) = Total(Loads(u)) + Total(more)
      <4>1. more \in [Private(u) -> Nat] /\ zero \in [Private(u) -> Nat]  BY <3>2, <3>4
      <4>2. QED  BY <1>3, <3>10, <4>1, LoadsBalanced
    <3>12. PICK a, b, d \in Nat : a = Total(Loads(u)') /\ b = Total(Loads(u)) /\ d = Total(more)
      BY <3>11
    <3>13. a = b + d  BY <3>6, <3>11, <3>12
    <3>14. privatePending'[u] = IF room THEN privatePending[u] + 1 ELSE privatePending[u]
      BY <1>4, <1>8, <3>1
    <3>15. CASE room
      <4>1. PICK x : x = <<n, u>>  OBVIOUS
      <4>2. x \in S
        <5>1. x \in Exporters  BY <3>1, <3>15, <4>1, ExportersAreFew
        <5>2. x[1] = n /\ x[2] = u  BY <4>1
        <5>3. generations[n].temporary  BY <3>1, <3>15
        <5>4. QED  BY <3>2, <5>1, <5>2, <5>3 DEF Private
      <4>3. more[x] = 1 /\ \A y \in S : y # x => more[y] = 0
        BY <3>3, <3>5, <3>15, <4>1, <4>2
      <4>4. d = 1
        <5>1. more \in [S -> Nat] /\ IsFiniteSet(S) /\ x \in S  BY <3>4, <3>5, <4>2
        <5>2. (\A y \in S : y # x => more[y] = 0) => Total(more) = more[x]  BY <5>1, TotalHolds
        <5>3. QED  BY <3>12, <4>3, <5>2
      <4>5. ~(privatePending[u] >= QueueLimit)  BY <3>1, <3>15 DEF OverBudget
      <4>6. QED  BY <3>7, <3>8, <3>12, <3>13, <3>14, <3>15, <4>4, <4>5
    <3>16. CASE ~room
      <4>1. \A y \in S : more[y] = 0  BY <3>3, <3>16
      <4>2. d = 0  BY <3>4, <3>12, <4>1, TotalZero
      <4>3. QED  BY <3>7, <3>12, <3>13, <3>14, <3>16, <4>2
    <3>17. QED  BY <3>15, <3>16
  <2>10. BudgetInv'
    <3>1. privatePending' = [u \in Transports |-> privatePending'[u]]  BY <1>4
    <3>2. privatePending' \in [Transports -> 0..QueueLimit]  BY <2>9, <3>1
    <3>3. \A u \in Transports : privatePending'[u] = Total(Loads(u))'  BY <2>9
    <3>4. QED  BY <3>2, <3>3 DEF BudgetInv
  <2>11. QED  BY <2>8, <2>10 DEF Accounted
<1>9. QED  BY <1>7, <1>8

\* An exporter that gives up counts all it has: the batch keeps its share of the
\* budget until it ends, what was queued does not.
LEMMA AbandonCounts ==
    ASSUME NEW i \in ItemSet, ~i.cancelled, NEW j, j = Abandon(i)
    PROVE  /\ Held(j) = 0 /\ Held(j) + j.dropped = Held(i) + i.dropped
           /\ i.dropped <= j.dropped
           /\ Load(j) + i.queue = Load(i)
           /\ (i.queue = 0 /\ i.flight = 0 => j = i)
<1>1. i.queue \in Nat /\ i.flight \in Nat /\ i.dropped \in Nat  BY ItemFacts
<1>2. CASE Busy(i)
  <2> DEFINE sent == i.flight > 0
  <2>1. PICK d : d = i.dropped + i.queue + i.flight  OBVIOUS
  <2>2. PICK k : k = [i EXCEPT !.dropped = d, !.queue = 0, !.timer = FALSE,
                               !.abandoned = TRUE, !.cancelled = sent]
    OBVIOUS
  <2>3. j = k  BY <1>2, <2>1, <2>2 DEF Abandon
  <2>4. k.queue = 0 /\ k.flight = i.flight /\ k.dropped = d /\ k.cancelled = sent
    <3> HIDE DEF sent
    <3> QED  BY <2>2 DEF ItemSet
  <2>5. Held(k) = 0
    <3>1. i.flight = 0 \/ sent  BY <1>1
    <3>2. sent => k.cancelled
      <4> HIDE DEF sent
      <4> QED  BY <2>4
    <3>3. i.flight = 0 \/ k.cancelled  BY <3>1, <3>2
    <3>4. QED  BY <2>4, <3>3 DEF Held
  <2>6. Held(i) = i.queue + i.flight /\ Load(i) = i.queue + i.flight /\ Load(k) = 0 + i.flight
    BY <2>4 DEF Held, Load
  <2>7. 0 + k.dropped = Held(i) + i.dropped  BY <1>1, <2>1, <2>4, <2>6
  <2>8. Load(k) + i.queue = Load(i)  BY <1>1, <2>6
  <2>9. ~(i.queue = 0 /\ i.flight = 0)  BY <1>2 DEF Busy
  <2>10. i.dropped <= k.dropped  BY <1>1, <2>1, <2>4
  <2>11. QED  BY <2>3, <2>5, <2>7, <2>8, <2>9, <2>10
<1>3. CASE ~Busy(i)
  <2>1. j = i  BY <1>3 DEF Abandon
  <2>2. i.queue = 0 /\ i.flight = 0  BY <1>1, <1>3 DEF Busy
  <2>3. Held(i) = 0  BY <2>2 DEF Held
  <2>4. Load(i) = 0  BY <2>2 DEF Load
  <2>5. i.dropped <= i.dropped  BY <1>1
  <2>6. QED  BY <2>1, <2>2, <2>3, <2>4, <2>5
<1>4. QED  BY <1>2, <1>3

LEMMA ShutdownForcedAccounts ==
    ASSUME IInv, IInv', Accounted, ShutdownForced
    PROVE  Accounted'
<1>1. /\ closed /\ ~finished /\ finished' = TRUE
      /\ generations' = [n \in DOMAIN generations |->
            [generations[n] EXCEPT !.items = [t \in DOMAIN @ |-> Abandon(@[t])]]]
      /\ privatePending' =
            [t \in Transports |->
               privatePending[t] - Total([x \in Private(t) |-> Item(x).queue])]
      /\ UNCHANGED <<closed, completed, offered, answered, reported>>
  BY DEF ShutdownForced
<1>2. Len(generations) \in Nat /\ DOMAIN generations = 1..Len(generations)
  BY LenProperties DEF IInv
<1>3. ASSUME NEW n \in 1..Len(generations)
      PROVE  /\ DOMAIN generations'[n].items = DOMAIN generations[n].items
             /\ \A t \in DOMAIN generations[n].items :
                   generations'[n].items[t] = Abandon(generations[n].items[t])
             /\ generations'[n].temporary = generations[n].temporary
             /\ generations'[n].collected = generations[n].collected
  <2>1. PICK g, items : g = generations[n] /\ items = [t \in DOMAIN g.items |-> Abandon(g.items[t])]
    OBVIOUS
  <2>2. PICK h : h = [g EXCEPT !.items = items]  OBVIOUS
  <2>3. g \in Generation  BY <2>1, EachGeneration
  <2>4. generations'[n] = h  BY <1>1, <1>2, <2>1, <2>2, <2>3 DEF Generation
  <2>5. h.items = items /\ h.temporary = g.temporary /\ h.collected = g.collected
    BY <2>2, <2>3 DEF Generation
  <2>6. QED  BY <2>1, <2>4, <2>5
<1>4. Exporters' = Exporters
  <2>1. DOMAIN generations' = 1..Len(generations)  BY <1>1, <1>2
  <2>2. Exporters' = UNION {{m} \X DOMAIN generations'[m].items : m \in 1..Len(generations)}
    BY <2>1 DEF Exporters
  <2>3. Exporters = UNION {{m} \X DOMAIN generations[m].items : m \in 1..Len(generations)}
    BY <1>2 DEF Exporters
  <2>4. \A m \in 1..Len(generations) : DOMAIN generations'[m].items = DOMAIN generations[m].items
    BY <1>3
  <2>5. QED  BY <2>2, <2>3, <2>4
<1>5. ASSUME NEW x \in Exporters
      PROVE  /\ Item(x)' = Abandon(Item(x)) /\ Item(x) \in ItemSet /\ ~Item(x).cancelled
             /\ generations'[x[1]].temporary = generations[x[1]].temporary
             /\ generations'[x[1]].collected = generations[x[1]].collected
  <2>1. /\ x[1] \in 1..Len(generations) /\ x[2] \in DOMAIN generations[x[1]].items
        /\ ItemOK(Item(x)) /\ Item(x) = generations[x[1]].items[x[2]]
    BY ExporterFacts
  <2>2. Item(x)' = generations'[x[1]].items[x[2]]  BY DEF Item
  <2>3. ~Item(x).cancelled  BY <1>1, <2>1 DEF ItemOK, Accounted, SpansInv
  <2>4. Item(x) \in ItemSet  BY <2>1 DEF ItemOK
  <2>5. QED  BY <1>3, <2>1, <2>2, <2>3, <2>4
<1>6. ASSUME NEW x \in Exporters
      PROVE  /\ Held(Item(x)') = 0
             /\ Held(Item(x)') + Item(x)'.dropped = Held(Item(x)) + Item(x).dropped
             /\ Item(x).dropped <= Item(x)'.dropped
             /\ Load(Item(x)') + Item(x).queue = Load(Item(x))
             /\ Item(x).queue = 0 /\ Item(x).flight = 0 => Item(x)' = Item(x)
  <2>1. PICK i, j : i = Item(x) /\ j = Item(x)'  OBVIOUS
  <2>2. i \in ItemSet /\ ~i.cancelled /\ j = Abandon(i)  BY <1>5, <2>1
  <2>3. /\ Held(j) = 0 /\ Held(j) + j.dropped = Held(i) + i.dropped
        /\ i.dropped <= j.dropped /\ Load(j) + i.queue = Load(i)
        /\ (i.queue = 0 /\ i.flight = 0 => j = i)
    BY <2>2, AbandonCounts
  <2>4. QED  BY <2>1, <2>3
<1>7. KindsKept  BY <1>4, <1>5 DEF KindsKept
<1>8. CountsLeave
  <2>1. completed \in 0..MaxCount  BY DEF Accounted, SpansInv
  <2>2. QED  BY <1>1, <1>5, <2>1, NothingCollected
<1>9. PICK none : none = [x \in Exporters |-> 0]  OBVIOUS
<1>10. none \in [Exporters -> Nat] /\ Total(none) = 0
  <2>1. none \in [Exporters -> Nat] /\ \A x \in Exporters : none[x] = 0  BY <1>9
  <2>2. QED  BY <2>1, TotalZero
<1>11. Balances(none, [x \in Exporters |-> 0])
  <2>1. ASSUME NEW x \in Exporters
        PROVE  Held(Item(x)') + Item(x)'.dropped + none[x]
                 = Held(Item(x)) + Item(x).dropped + none[x]
    BY <1>6
  <2>2. ASSUME NEW x \in Exporters, generations[x[1]].collected
        PROVE  /\ generations'[x[1]].collected
               /\ Held(Item(x)') + none[x] = Held(Item(x)) + none[x]
    <3>1. Item(x).queue = 0 /\ Item(x).flight = 0
      <4>1. /\ x[2] \in DOMAIN generations[x[1]].items /\ GenerationOK(generations[x[1]])
            /\ Item(x) = generations[x[1]].items[x[2]]
        BY ExporterFacts
      <4>2. QED  BY <2>2, <4>1 DEF GenerationOK, Idle
    <3>2. QED  BY <1>5, <1>6, <2>2, <3>1
  <2>3. Balances(none, none)  BY <2>1, <2>2 DEF Balances
  <2>4. QED  BY <1>9, <2>3
<1>11a. Grows /\ \A x \in Exporters : Held(Item(x)') <= Held(Item(x)) + none[x]
  <2>1. ASSUME NEW x \in Exporters
        PROVE  Held(Item(x)') <= Held(Item(x)) + none[x]
    <3>1. PICK h \in Nat : h = Held(Item(x))  BY ExporterTypes
    <3>2. 0 <= h + 0 /\ none[x] = 0  BY <1>9, <3>1
    <3>3. QED  BY <1>6, <3>1, <3>2
  <2>2. QED  BY <1>6, <2>1 DEF Grows
<1>12. SpansInv'
  <2>1. offered \in Nat  BY DEF Accounted, SpansInv
  <2>2. offered' = offered + Total(none) /\ answered' = answered /\ reported' = reported
    BY <1>1, <1>10, <2>1
  <2>3. \A x \in Exporters' : Item(x)'.abandoned => finished'  BY <1>1
  <2>4. finished' => closed' /\ \A x \in Exporters' : Held(Item(x)') = 0
    BY <1>1, <1>4, <1>6
  <2>5. /\ Exporters \subseteq Exporters'
        /\ \A x \in Exporters' \ Exporters : Item(x)' = NewItem
    BY <1>4
  <2>6. SpansInv  BY DEF Accounted
  <2>7. QED  BY <1>8, <1>10, <1>11, <1>11a, <2>2, <2>3, <2>4, <2>5, <2>6, SpansMoved
<1>13. ASSUME NEW u \in Transports
       PROVE  privatePending'[u] = Total(Loads(u)') /\ privatePending'[u] \in 0..QueueLimit
  <2>1. PICK zero, gone :
           /\ zero = [x \in Private(u) |-> 0]
           /\ gone = [x \in Private(u) |-> Item(x).queue]
    OBVIOUS
  <2>2. \A x \in Private(u) : x \in Exporters /\ Item(x).queue \in Nat
    BY <1>5, PrivateIsFew, ItemFacts
  <2>3. zero \in [Private(u) -> Nat] /\ gone \in [Private(u) -> Nat]  BY <2>1, <2>2
  <2>4. Total(zero) = 0
    <3>1. \A x \in Private(u) : zero[x] = 0  BY <2>1
    <3>2. QED  BY <2>3, <3>1, TotalZero
  <2>5. LoadsBalance(u, zero, gone)
    <3>1. ASSUME NEW x \in Private(u)
          PROVE  Load(Item(x)') + gone[x] = Load(Item(x)) + zero[x]
      <4>1. x \in Exporters  BY <2>2
      <4>2. gone[x] = Item(x).queue /\ zero[x] = 0  BY <2>1
      <4>3. PICK l \in Nat : l = Load(Item(x))  BY <4>1, ExporterTypes
      <4>4. Load(Item(x)') + Item(x).queue = l + 0  BY <1>6, <4>1, <4>3
      <4>5. QED  BY <4>2, <4>3, <4>4
    <3>2. QED  BY <3>1 DEF LoadsBalance
  <2>6. /\ {Total(Loads(u)'), Total(gone), Total(Loads(u)), Total(zero)} \subseteq Nat
        /\ Total(Loads(u)') + Total(gone) = Total(Loads(u)) + Total(zero)
    BY <1>7, <2>3, <2>5, LoadsBalanced
  <2>7. PICK a, b, c \in Nat : a = Total(Loads(u)') /\ b = Total(gone) /\ c = Total(Loads(u))
    BY <2>6
  <2>8. a + b = c  BY <2>4, <2>6, <2>7
  <2>9. privatePending[u] = c /\ c \in 0..QueueLimit
    BY <2>7 DEF Accounted, BudgetInv
  <2>10. privatePending'[u] = c - b  BY <1>1, <2>1, <2>7, <2>9
  <2>11. QueueLimit \in Nat  BY TelemetryAssumption
  <2>12. QED  BY <2>7, <2>8, <2>9, <2>10, <2>11
<1>14. BudgetInv'
  <2>1. privatePending' = [u \in Transports |-> privatePending'[u]]  BY <1>1
  <2>2. privatePending' \in [Transports -> 0..QueueLimit]  BY <1>13, <2>1
  <2>3. \A u \in Transports : privatePending'[u] = Total(Loads(u))'  BY <1>13
  <2>4. QED  BY <2>2, <2>3 DEF BudgetInv
<1>15. QED  BY <1>12, <1>14 DEF Accounted

-------------------------------------------------------------------------------
LEMMA InitAccounts ==
    ASSUME Init
    PROVE  Accounted
<1>1. /\ generations = <<NewGeneration({}, FALSE)>> /\ completed = 0
      /\ offered = 0 /\ answered = 0 /\ reported = 0 /\ finished = FALSE
      /\ privatePending = [t \in Transports |-> 0]
  BY DEF Init
<1>2. \A n \in DOMAIN generations : n = 1 /\ generations[n].items = [t \in {} |-> NewItem]
  BY <1>1 DEF NewGeneration
<1>3. Exporters = {}  BY <1>2 DEF Exporters
<1>4. Total(Shares) = 0
  <2>1. PICK f : f = Shares  OBVIOUS
  <2>2. PICK S : S = Exporters  OBVIOUS
  <2>3. f \in [S -> Nat] /\ \A x \in S : f[x] = 0  BY <1>3, <2>1, <2>2 DEF Shares
  <2>4. QED  BY <2>1, <2>3, TotalZero
<1>4a. Total(Helds) = 0
  <2>1. PICK f : f = Helds  OBVIOUS
  <2>2. PICK S : S = Exporters  OBVIOUS
  <2>3. f \in [S -> Nat] /\ \A x \in S : f[x] = 0  BY <1>3, <2>1, <2>2 DEF Helds
  <2>4. QED  BY <2>1, <2>3, TotalZero
<1>5. SpansInv
  <2>1. completed \in 0..MaxCount  BY <1>1, TelemetryAssumption
  <2>2. PICK cut \in Nat : cut = 0  OBVIOUS
  <2>3. offered + reported = answered + completed + Total(Shares) + cut  BY <1>1, <1>4, <2>2
  <2>4. QED  BY <1>1, <1>3, <1>4a, <2>1, <2>2, <2>3 DEF SpansInv
<1>6. ASSUME NEW t \in Transports
      PROVE  Total(Loads(t)) = 0
  <2>1. PICK f, S : f = Loads(t) /\ S = Private(t)  OBVIOUS
  <2>2. S = {}  BY <1>3, <2>1 DEF Private
  <2>3. f \in [S -> Nat] /\ \A x \in S : f[x] = 0  BY <2>1, <2>2 DEF Loads
  <2>4. QED  BY <2>1, <2>3, TotalZero
<1>7. BudgetInv  BY <1>1, <1>6, TelemetryAssumption DEF BudgetInv
<1>8. QED  BY <1>5, <1>7 DEF Accounted

LEMMA StepAccounts ==
    ASSUME IInv, IInv', Accounted, [Next]_vars
    PROVE  Accounted'
<1>1. CASE \E dests \in Configurations : Configure(dests)  BY <1>1, ConfigureAccounts
<1>2. ASSUME NEW c \in Calls, Execute(c)
      PROVE  Accounted'
  BY <1>2, ExecuteAccounts
<1>3. ASSUME NEW c \in Calls, NEW dests \in Configurations, ExecutePrivate(c, dests)
      PROVE  Accounted'
  BY <1>3, ExecutePrivateAccounts
<1>4. ASSUME NEW c \in Calls, Complete(c)
      PROVE  Accounted'
  BY <1>4, CompleteAccounts
<1>5. CASE ExporterStep
  BY <1>5, TimerFiresAccounts, ExportSettlesAccounts, CancelledEndsAccounts DEF ExporterStep
<1>6. CASE Flush  BY <1>6, FlushAccounts
<1>7. CASE Shutdown  BY <1>7, ShutdownAccounts
<1>8. CASE ShutdownDrained  BY <1>8, ShutdownDrainedAccounts
<1>9. CASE ShutdownForced  BY <1>9, ShutdownForcedAccounts
<1>10. CASE UNCHANGED vars
  <2>1. /\ UNCHANGED <<offered, answered, reported, privatePending, finished, closed, completed>>
        /\ generations' = generations
    BY <1>10 DEF vars
  <2>2. \A n \in 1..Len(generations) : Follows(generations[n], generations'[n])
    BY <2>1, FollowsSelf
  <2>3. completed \in 0..MaxCount  BY DEF Accounted, SpansInv
  <2>4. CountsLeave  BY <2>1, <2>3, NothingCollected
  <2>5. QED  BY <2>1, <2>2, <2>4, AllFollow
<1>11. QED  BY <1>1, <1>2, <1>3, <1>4, <1>5, <1>6, <1>7, <1>8, <1>9, <1>10 DEF Next

\* Every span is accounted for and every budget is held, by what each step moves
\* from one exporter's field, or counter, to another.
THEOREM AccountsInductive == Spec => []Accounted
<1>1. Init => Accounted  BY InitAccounts
<1>2. IInv /\ IInv' /\ Accounted /\ [Next]_vars => Accounted'  BY StepAccounts
<1>3. QED  BY <1>1, <1>2, Inductive, PTL DEF Spec

\* Each span an exporter took is queued, in flight, in an answered batch or lost, and
\* status() shows as dropped the lost ones and those that collectors reported, up to
\* MaxCount (enqueue(), exportBatch(), collect(), shutdown(), status()).
THEOREM SpansAreAccounted == Spec => []SpansAccounted
<1>1. ASSUME IInv, Accounted
      PROVE  SpansAccounted
  <2>1. PICK S, G : S = Exporters /\ G = {y \in Exporters : ~generations[y[1]].collected}
    OBVIOUS
  <2>2. PICK held, current, kept, all :
           /\ held = [x \in S |-> Held(Item(x))]
           /\ current = [x \in G |-> Item(x).dropped]
           /\ kept = [x \in S |-> IF x \in G THEN Item(x).dropped ELSE 0]
           /\ all = [x \in S |-> Share(x)]
    OBVIOUS
  <2>3. G \subseteq S /\ IsFiniteSet(S)  BY <1>1, <2>1, ExportersAreFew
  <2>4. \A x \in S : Held(Item(x)) \in Nat /\ Item(x).dropped \in Nat /\ Share(x) \in Nat
    BY <1>1, <2>1, ExporterTypes
  <2>5. /\ held \in [S -> Nat] /\ current \in [G -> Nat] /\ kept \in [S -> Nat]
        /\ all \in [S -> Nat]
    BY <2>2, <2>3, <2>4
  <2>6. ASSUME NEW x \in S
        PROVE  all[x] = held[x] + kept[x]
    <3>1. x \in G <=> ~generations[x[1]].collected  BY <2>1
    <3>2. Share(x) = Held(Item(x)) + IF generations[x[1]].collected THEN 0 ELSE Item(x).dropped
      BY DEF Share
    <3>3. QED  BY <2>2, <3>1, <3>2
  <2>7. Total(all) = Total(held) + Total(kept)  BY <2>3, <2>5, <2>6, TotalAdds
  <2>8. Total(kept) = Total(current)
    <3>1. /\ \A x \in G : kept[x] = current[x]
          /\ \A x \in S \ G : kept[x] = 0
      BY <2>2, <2>3
    <3>2. G \subseteq S /\ current \in [G -> Nat] /\ kept \in [S -> Nat]  BY <2>3, <2>5
    <3>3. QED  BY <3>1, <3>2, TotalExtends
  <2>9. Total(held) \in Nat /\ Total(current) \in Nat
    <3>1. Total(held) \in Nat  BY <2>3, <2>5, TotalIsNat
    <3>2. IsFiniteSet(G)  BY <2>3, FS_Subset
    <3>3. Total(current) \in Nat  BY <2>5, <3>2, TotalIsNat
    <3>4. QED  BY <3>1, <3>3
  <2>10. /\ offered \in Nat /\ answered \in Nat /\ reported \in Nat /\ completed \in 0..MaxCount
         /\ answered + Total(Helds) <= offered
         /\ finished => \A x \in Exporters : Held(Item(x)) = 0
    BY <1>1 DEF Accounted, SpansInv
  <2>11. Shares = all /\ Helds = held  BY <2>1, <2>2 DEF Shares, Helds
  <2>12. PICK cut \in Nat : /\ offered + reported = answered + completed + Total(Shares) + cut
                            /\ cut > 0 => Saturated
    BY <1>1 DEF Accounted, SpansInv
  <2>13. PICK a, b \in Nat : a = Total(held) /\ b = Total(current)  BY <2>9
  <2>14. completed \in Nat /\ MaxCount \in Nat  BY <2>10, TelemetryAssumption
  <2>15. PICK lost \in 0..offered : lost = offered - (answered + a)
    BY <2>10, <2>11, <2>13
  <2>16. offered = answered + lost + a  BY <2>10, <2>13, <2>15
  <2>17. lost + reported = completed + b + cut
    BY <2>7, <2>8, <2>10, <2>11, <2>12, <2>13, <2>14, <2>15
  <2>18. cut > 0 => completed + b >= MaxCount
    <3>1. completed >= MaxCount => completed + b >= MaxCount  BY <2>13, <2>14
    <3>2. ASSUME NEW x \in Exporters, ~generations[x[1]].collected, Item(x).dropped >= MaxCount
          PROVE  completed + b >= MaxCount
      <4>1. x \in G /\ current[x] = Item(x).dropped  BY <2>1, <2>2, <3>2
      <4>2. IsFiniteSet(G)  BY <2>3, FS_Subset
      <4>3. current[x] <= Total(current) /\ current[x] \in Nat
        BY <2>5, <4>1, <4>2, TotalHolds
      <4>4. QED  BY <2>13, <2>14, <3>2, <4>1, <4>3
    <3>3. QED  BY <2>12, <3>1, <3>2 DEF Saturated
  <2>19. PICK m, l \in Nat : m = completed + b /\ l = lost + reported
    BY <2>10, <2>13, <2>14, <2>15
  <2>20. Least(MaxCount, m) = Least(MaxCount, l)
    <3>1. CASE cut = 0  BY <2>13, <2>14, <2>17, <2>19, <3>1
    <3>2. CASE cut > 0
      <4>1. m >= MaxCount /\ l >= MaxCount
        BY <2>13, <2>14, <2>17, <2>18, <2>19, <3>2
      <4>2. QED  BY <4>1, UpToMaxCount
    <3>3. QED  BY <3>1, <3>2
  <2>21. ShownDropped = Least(MaxCount, lost + reported)
    <3>1. ShownDropped = Least(MaxCount, completed + Total(current))
      BY <2>1, <2>2 DEF ShownDropped
    <3>2. QED  BY <2>13, <2>19, <2>20, <3>1
  <2>22. offered = answered + lost + Total([x \in Exporters |-> Held(Item(x))])
    BY <2>1, <2>2, <2>13, <2>16
  <2>23. QED  BY <2>10, <2>15, <2>21, <2>22 DEF SpansAccounted
<1>2. QED  BY <1>1, Inductive, AccountsInductive, PTL

\* The budget of a transport is what its private exporters hold, never more than
\* the limit (enqueue(), releasePrivate(), shutdown()).
THEOREM BudgetsAreHeld == Spec => []BudgetIsHeld
<1>1. ASSUME Accounted
      PROVE  BudgetIsHeld
  <2>1. ASSUME NEW t \in Transports
        PROVE  /\ privatePending[t] \in 0..QueueLimit
               /\ privatePending[t] =
                    Total([x \in Private(t) |-> Item(x).queue + Item(x).flight])
    BY <1>1 DEF Accounted, BudgetInv, Loads, Load
  <2>2. QED  BY <2>1 DEF BudgetIsHeld
<1>2. QED  BY <1>1, AccountsInductive, PTL
===============================================================================
