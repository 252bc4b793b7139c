---------------------------- MODULE MCNodeTransport ----------------------------
\* Small instances of NodeTransport for TLC.
EXTENDS NodeTransport
===============================================================================
