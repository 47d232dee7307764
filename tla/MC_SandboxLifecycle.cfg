CONSTANTS
  r1 = r1
  r2 = r2
  r3 = r3
  m1 = m1
  Threads <- OneThread
  Arrivals = 3
  Machines <- MCMachines
  MaxSandboxes = 2
  MaxTries = 1
  MaxEvictions = 1
  NumFailures = 2
  DedupStartsPerMachine = 1
  DedupPerBase = 1
  MaxQueued = 1
  Policy = "Boundary"
  LossyRPC = FALSE
  MemoryPressure = FALSE
SPECIFICATION Spec
INVARIANT
  TypeOK
  DedupCheckpointed
CONSTRAINT SandboxBound
CHECK_DEADLOCK FALSE
