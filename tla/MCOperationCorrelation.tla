------------------------ MODULE MCOperationCorrelation ------------------------
\* Small instances of OperationCorrelation for TLC.
EXTENDS OperationCorrelation, TLC

\* Calls, operation ids and digests are interchangeable.
Symmetry == Permutations(Calls) \cup Permutations(Ops) \cup Permutations(Digests)

\* On short sequences, what Picked leaves is what filter() and SelectSeq leave.
ASSUME PickedFilters ==
    \A s \in UNION {[1..n -> 1..3] : n \in 0..5}, keep \in SUBSET (1..3) :
        Picked(s, {i \in 1..Len(s) : s[i] \in keep})
            = SelectSeq(s, LAMBDA x : x \in keep)
===============================================================================
