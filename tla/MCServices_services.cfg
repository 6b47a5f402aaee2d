SPECIFICATION ServicesSpec
CONSTANTS
  j1 = j1
  j2 = j2
  u1 = u1
  u2 = u2
  k1 = k1
  k2 = k2
  c1 = c1
  s1 = s1
  d1 = d1
  f1 = f1
  Jobs = {j1, j2}
  Rules <- MCRules
  Undo <- MCUndo
  Settings = {0, 3}
  EnvLevel = 2
  MaxRuns = 2
  MaxEnv <- MCMaxEnv
  Creds = {c1}
  Keys = {k1, k2}
  Ports = {22, 830}
  Admins = {u1, u2}
  Sessions = {s1}
  Tokens = {"t1", "t2"}
  Deployed <- MCDeployed
  Payloads <- MCPayloads
  Edits <- MCEdits
  AccessMaxEnv <- MCAccessMaxEnv
  Devices = {d1}
  Vendors = {"v1", "v2"}
  Asked <- MCAsked
  Fetches = {f1}
  TTL = 1
  MaxNow = 3
  AssetsMaxEnv <- MCAssetsMaxEnv
  Places <- MCPlaces
  Kinds <- MCKinds
  Times = {1, 2}
  Window = 3
  Limit = 1
  Readers = {"any", "log_signal"}
  EventsMaxEnv <- MCEventsMaxEnv
SYMMETRY Symmetric
INVARIANTS
  
  AutoStands
  OneHostKey
  KnowsItsHost
  AnswersFresh
  NothingEscapes
PROPERTIES
  MirrorForward
  EvidenceNeverWeakens
CHECK_DEADLOCK FALSE
