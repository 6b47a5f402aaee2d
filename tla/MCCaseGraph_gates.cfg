SPECIFICATION Spec
CONSTANTS
  r1 = r1
  r2 = r2
  w1 = w1
  w2 = w2
  NoRun = NoRun
  Runs = {r1}
  Workers = {w1}
  MaxAttempts = 2
  AgentRuns = 16
  LlmCalls = 8
  ProbeCalls = 2
  Replans = 2
  ProbesPerRequest = 1
  CaseStart = {"new"}
  FlakyAgents = {"diagnostic", "historical", "plan_candidate"}
  CredStart = {TRUE}
  Crashes = 0
  Stalls = 0
  Faults = 1
  Moves = 2
  Elapses = 0
  OtherProbes = 0
  Slows = 0
  Budget <- MCBudget
  MaxEnv <- MCMaxEnv
INVARIANTS
  GatesPassed
PROPERTIES
  CaseFollowsLifecycle
CHECK_DEADLOCK FALSE
