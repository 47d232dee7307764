CONSTANTS
  p1 = p1
  p2 = p2
  Peers <- TwoPeers
  VerbsFail = FALSE
  PeerCrash = FALSE
SPECIFICATION Spec
INVARIANT
  PolledConnsSet
CHECK_DEADLOCK FALSE
