CONSTANTS
  p1 = p1
  p2 = p2
  t1 = t1
  t2 = t2
  Peers <- TwoPeers
  RegThreads <- OneThread
  Slots = 2
  IdMaxValue = 2
  PostFailures = {"recvfail"}
  PeerCrash = FALSE
SPECIFICATION Spec
INVARIANT ReadyMeansKnown
CHECK_DEADLOCK FALSE
