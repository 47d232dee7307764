---------------------------- MODULE MC_RdmaConnect ----------------------------
EXTENDS RdmaConnect

CONSTANTS p1, p2

TwoPeers == {p1, p2}

=============================================================================
