\* Two sandboxes on the same worker, two pages each with base pages on one
\* machine, request rings of two slots, failing posts, one restore each;
\* each sandbox's pages laid out in up to three dump files, with
\* patch_threshold = PAGE_SIZE, the largest threshold that keeps the
\* framing sound; PAGE_SIZE scaled to 2.
CONSTANTS
  j1 = j1
  j2 = j2
  m1 = m1
  m2 = m2
  Jobs <- TwoJobs
  MachineOrder <- OneMachine
  NumPages = 2
  ReqSlots = 2
  MaxRestores = 1
  PageSize = 2
  PatchThreshold = 2
  ULongModulus = 256
  MaxDumpFiles = 3
  MaxFilePages = 2
  PostFail = TRUE
SPECIFICATION Spec
INVARIANT TypeOK
INVARIANT CompletionsMatchRequests
INVARIANT ReadsLandedBeforeUse
INVARIANT PatchFileRoundTrip
CHECK_DEADLOCK FALSE
