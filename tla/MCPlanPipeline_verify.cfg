SPECIFICATION FairSpec
CONSTANTS
  u1 = u1
  u2 = u2
  w1 = w1
  w2 = w2
  k1 = k1
  k2 = k2
  NoKey = NoKey
  Users = {u1}
  Verifiers = {w1, w2}
  Keys = {k1}
  Contents = {"pair", "survey"}
  Actions <- ActionsOf
  HasRollback = {}
  MaxActions = 2
  MaxRounds = 2
  CaseStart = {"planning"}
  MaxVersions = 1
  Crashes = 1
  Stalls = 1
  Writes = 0
  Moves = 1
  Rechecks = 2
  MaxEnv <- MCMaxEnv
INVARIANTS
  ResolvedMeansVerified
PROPERTIES
  VerdictsFinal
  OpenVerificationEnds
CHECK_DEADLOCK FALSE
