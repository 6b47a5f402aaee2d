SPECIFICATION Spec
CONSTANTS
  Runs <- MCRuns
  Devices <- MCDevices
  Hops <- MCHops
  Batches <- MCBatches
  DedupSeconds = 1
  Immediate <- MCImmediate
  Periodic <- MCPeriodic
  Known <- MCKnown
  MaxEnv <- MCMaxEnv
  MaxActs = 2
INVARIANTS
  OneCasePerSample
  CaseBacksSample
PROPERTIES
  HandedOver
CHECK_DEADLOCK FALSE
