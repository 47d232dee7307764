\* One sandbox, two pages on one machine, a request ring of one slot: the
\* second read is posted after the first one's drain and before the
\* poller's tail loop.
CONSTANTS
  j1 = j1
  j2 = j2
  m1 = m1
  m2 = m2
  Jobs <- OneJob
  MachineOrder <- OneMachine
  NumPages = 2
  ReqSlots = 1
  MaxRestores = 0
  PageSize = 2
  PatchThreshold = 2
  ULongModulus = 256
  MaxDumpFiles = 3
  MaxFilePages = 2
  PostFail = FALSE
SPECIFICATION Spec
INVARIANT CountedReadsOutstanding
CHECK_DEADLOCK FALSE
