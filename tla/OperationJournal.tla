--------------------------- MODULE OperationJournal ---------------------------
(***************************************************************************)
(* The completed-operation journal of a gateway (gateway/lib/journal.mjs). *)
(*                                                                         *)
(* The code keeps a JavaScript Map from operation id to entry, iterated in *)
(* insertion order.  Here the Map is the set of its entries; the field     *)
(* "stamp" numbers the insertions, so that the Map's first key is the      *)
(* entry with the smallest stamp.  The file holds the same entries in the  *)
(* same order, so a loaded journal keeps the stamps it was saved with.     *)
(***************************************************************************)
EXTENDS Naturals, FiniteSets

CONSTANTS
    JournalLimit,   \* DEFAULT_JOURNAL_LIMIT: how many entries prune() leaves
    JournalTtl      \* DEFAULT_JOURNAL_TTL_MS: how long an entry is replayed

\* The defaults are 256 entries and five minutes; nothing but their being
\* positive matters here.
ASSUME JournalAssumption ==
    /\ JournalLimit \in Nat \ {0}
    /\ JournalTtl \in Nat \ {0}

-------------------------------------------------------------------------------
\* The entries inserted after entry e.
Newer(j, e) == {f \in j : f.stamp > e.stamp}

\* The first loop of prune(): an entry is dropped once expiresAt <= current.
Live(j, now) == {e \in j : e.expiresAt > now}

\* Mutant: one entry more than the limit stays.
EvictLate(j) == {e \in j : Cardinality(Newer(j, e)) <= JournalLimit}

\* The second loop of prune(): first keys go while more than the limit is held.
Evict(j) == {e \in j : Cardinality(Newer(j, e)) < JournalLimit}

Prune(j, now) == Evict(Live(j, now))

\* entries.get(id), as the set of at most one entry.
Lookup(j, op) == {e \in j : e.op = op}

\* put(): prune, entries.set(id, entry), prune again.  Map.set on a key that is
\* present keeps the key's old place; put() is only reached for a key that is
\* absent (see RunningNotRetained), where it appends.
Put(j, e, now) ==
    LET pruned == Prune(j, now)
    IN  Prune((pruned \ Lookup(pruned, e.op)) \cup {e}, now)
===============================================================================
