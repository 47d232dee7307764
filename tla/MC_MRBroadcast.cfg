\* One registering thread, one peer, two regions in a ring of two slots,
\* failed sends and a peer crash; the pollers, the hardware and a thread
\* inside reg_src_mr are weakly fair.
CONSTANTS
  p1 = p1
  p2 = p2
  t1 = t1
  t2 = t2
  Peers <- OnePeer
  RegThreads <- OneThread
  Slots = 2
  IdMaxValue = 2
  PostFailures = {"sendfail"}
  PeerCrash = TRUE
SPECIFICATION FairSpec
INVARIANT TypeOK
INVARIANT PendingDrained
PROPERTY RegistryRefinement
PROPERTY BroadcastAcked
CHECK_DEADLOCK FALSE
