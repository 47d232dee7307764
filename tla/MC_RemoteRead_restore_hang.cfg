\* One sandbox of one page, deduplicated and restored once; the pool, the
\* poller and the NIC are weakly fair.
CONSTANTS
  j1 = j1
  j2 = j2
  m1 = m1
  m2 = m2
  Jobs <- OneJob
  MachineOrder <- OneMachine
  NumPages = 1
  ReqSlots = 2
  MaxRestores = 1
  PageSize = 2
  PatchThreshold = 2
  ULongModulus = 256
  MaxDumpFiles = 3
  MaxFilePages = 2
  PostFail = FALSE
SPECIFICATION FairSpec
PROPERTY RestoreCompletes
CHECK_DEADLOCK FALSE
