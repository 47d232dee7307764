--------------------------- MODULE MC_MRBroadcast ---------------------------
EXTENDS MRBroadcast

CONSTANTS p1, p2, t1, t2

OnePeer == {p1}
TwoPeers == {p1, p2}
OneThread == {t1}
TwoThreads == {t1, t2}

=============================================================================
