---------------------------- MODULE MCGatewayDaemon ----------------------------
\* Small instances of GatewayDaemon for TLC.
EXTENDS GatewayDaemonContract, JournalMap, TLC

\* The daemon treats requests, operation ids and digests alike.
Symmetry == Permutations(Requests) \cup Permutations(Ops) \cup Permutations(Digests)
===============================================================================
