SPECIFICATION Spec
CONSTANTS
  u1 = u1
  u2 = u2
  w1 = w1
  w2 = w2
  k1 = k1
  k2 = k2
  NoKey = NoKey
  Users = {u1, u2}
  Verifiers = {}
  Keys = {k1, k2}
  Contents = {"pair", "guided", "advice"}
  Actions <- ActionsOf
  HasRollback = {"pair"}
  MaxActions = 2
  MaxRounds = 2
  CaseStart = {"planning"}
  MaxVersions = 2
  Crashes = 1
  Stalls = 0
  Writes = 1
  Moves = 1
  Rechecks = 0
  MaxEnv <- MCMaxEnv
INVARIANTS
  TypeOK
  ChangesPaidByApprovals
PROPERTIES
  ChangesUnderApproval
SYMMETRY Symmetry
CHECK_DEADLOCK FALSE
