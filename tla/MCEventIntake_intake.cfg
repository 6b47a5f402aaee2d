SPECIFICATION FairSpec
CONSTANTS
  q1 = q1
  q2 = q2
  e1 = e1
  e2 = e2
  e3 = e3
  core = core
  access = access
  NoDevice = NoDevice
  Requests = {q1, q2}
  Events = {e1, e2, e3}
  Devices = {core, access}
  DeviceOf <- MCDeviceOf
  SourceOf <- MCSourceOf
  LevelsOf <- MCLevelsOf
  Flagged = {}
  Tier <- MCTier
  Links <- MCLinks
  MaxHops = 2
  NoiseToTicket = 2
  ToCase = 3
  PeerBoost = 1
  Ingests = 3
  Operations = 1
  Closes = 1
  Crashes = 1
  Modes <- MCModes
  MaxEnv <- MCMaxEnv
INVARIANTS
  OneCasePerEvent
  LinksBacked
PROPERTIES
  DecisionsCovered
CHECK_DEADLOCK FALSE
