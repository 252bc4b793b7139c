------------------------------ MODULE JournalMap ------------------------------
(***************************************************************************)
(* The journal as the code writes it: a Map whose keys keep the order they *)
(* were set in, pruned by a loop that deletes first keys.  GatewayDaemon   *)
(* keeps a set of stamped entries instead; both are run on every journal   *)
(* that the daemon reaches, to show that they are the same thing.          *)
(***************************************************************************)
EXTENDS GatewayDaemon, Subsequences

\* The entries inserted before entry e.
Older(j, e) == {f \in j : f.stamp < e.stamp}

\* this.entries, in insertion order
MapOf(j) ==
    [i \in 1..Cardinality(j) |-> CHOOSE e \in j : Cardinality(Older(j, e)) = i - 1]

\* while (this.entries.size > this.limit) delete(first key): the loop ends the first
\* time that no more than the limit is left.
DropOldest(m) ==
    LET left(n) == SubSeq(m, n + 1, Len(m))
        deleted == CHOOSE n \in 0..Len(m) :
                      /\ ~(Len(left(n)) > JournalLimit)
                      /\ \A k \in 0..n : k < n => Len(left(k)) > JournalLimit
    IN  left(deleted)

\* The keys that prune()'s first loop leaves: those of entries that are not expired.
Unexpired(m) == Picked(m, {i \in 1..Len(m) : m[i].expiresAt > clock})

PruneMap(m) == DropOldest(Unexpired(m))

\* Map.set: a key that is present keeps its place, another one goes last.
SetKey(m, e) ==
    IF \E i \in 1..Len(m) : m[i].op = e.op
    THEN [i \in 1..Len(m) |-> IF m[i].op = e.op THEN e ELSE m[i]]
    ELSE Append(m, e)

PutMap(m, e) == PruneMap(SetKey(PruneMap(m), e))

\* The journal has one entry per operation and no more than the limit, and the loops
\* over the Map leave what the set operators leave, in the order of the stamps:
\* prune() on what is in memory, in the file or was ever put, and put() of the
\* outcome of any run that may end now.
SameJournal ==
    /\ JournalBounded
    /\ \A j \in {journal, disk, completed} : PruneMap(MapOf(j)) = MapOf(Prune(j, clock))
    /\ \A r \in running :
          PutMap(MapOf(journal), Outcome(r)) = MapOf(Put(journal, Outcome(r), clock))
===============================================================================
