------------------------- MODULE MCControllerListener -------------------------
\* Small instances of ControllerListener for TLC.
EXTENDS ControllerListener

\* Sockets, hosts, requests and operation ids are interchangeable.
Symmetry == Permutations(Conns) \cup Permutations(Hosts)
            \cup Permutations(Requests) \cup Permutations(Ops)
===============================================================================
