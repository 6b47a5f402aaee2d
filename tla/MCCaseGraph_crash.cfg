SPECIFICATION Spec
CONSTANTS
  r1 = r1
  r2 = r2
  w1 = w1
  w2 = w2
  NoRun = NoRun
  Runs = {r1}
  Workers = {w1, w2}
  MaxAttempts = 2
  AgentRuns = 16
  LlmCalls = 8
  ProbeCalls = 4
  Replans = 1
  ProbesPerRequest = 2
  CaseStart = {"new"}
  FlakyAgents = {}
  CredStart = {TRUE}
  Crashes = 2
  Stalls = 0
  Faults = 0
  Moves = 0
  Elapses = 0
  OtherProbes = 1
  Slows = 1
  Budget <- MCBudget
  MaxEnv <- MCMaxEnv
INVARIANTS
  TypeOK
  ExclusiveWorkers
  NoStrandedRun
  LedgerExact
PROPERTIES
  CallsNeverRepeat
CHECK_DEADLOCK FALSE
