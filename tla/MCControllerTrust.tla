--------------------------- MODULE MCControllerTrust ---------------------------
\* Small instances of ControllerTrust for TLC.
EXTENDS ControllerTrust, TLC

\* Gateway ids and hosts are interchangeable.
Symmetry == Permutations(Ids) \cup Permutations(Hosts)
===============================================================================
