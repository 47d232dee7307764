CONSTANTS
  r1 = r1
  r2 = r2
  r3 = r3
  m1 = m1
  Threads <- TwoThreads
  Arrivals = 5
  Machines <- MCMachines
  MaxSandboxes = 3
  MaxTries = 1
  MaxEvictions = 1
  NumFailures = 2
  DedupStartsPerMachine = 1
  DedupPerBase = 2
  MaxQueued = 1
  Policy = "Boundary"
  LossyRPC = FALSE
  MemoryPressure = FALSE
SPECIFICATION Spec
INVARIANT
  DedupStartsBounded
CONSTRAINT NoFailure
CHECK_DEADLOCK FALSE
