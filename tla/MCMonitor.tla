----------------------------- MODULE MCMonitor -----------------------------
EXTENDS Monitor

MCPeer == 1 .. 3
MCFounders == {2, 3}
=============================================================================
