CONSTANTS
  r1 = r1
  r2 = r2
  r3 = r3
  m1 = m1
  Threads <- TwoThreads
  Arrivals = 3
  Machines <- MCMachines
  MaxSandboxes = 1
  MaxTries = 2
  MaxEvictions = 1
  NumFailures = 2
  DedupStartsPerMachine = 1
  DedupPerBase = 1
  MaxQueued = 1
  Policy = "Boundary"
  LossyRPC = TRUE
  MemoryPressure = TRUE
SPECIFICATION Spec
INVARIANT
  NextAssignedHasWaiter
CONSTRAINT SandboxBound
CHECK_DEADLOCK FALSE
