SPECIFICATION FairSpec
CONSTANTS
  r1 = r1
  r2 = r2
  w1 = w1
  w2 = w2
  NoRun = NoRun
  Runs = {r1}
  Workers = {w1}
  MaxAttempts = 2
  AgentRuns = 16
  LlmCalls = 8
  ProbeCalls = 4
  Replans = 1
  ProbesPerRequest = 1
  CaseStart = {"new", "resolved"}
  FlakyAgents = {}
  CredStart = {TRUE}
  Crashes = 1
  Stalls = 0
  Faults = 1
  Moves = 0
  Elapses = 1
  OtherProbes = 0
  Slows = 1
  Budget <- MCBudget
  MaxEnv <- MCMaxEnv
PROPERTIES
  RunsSettle
CHECK_DEADLOCK FALSE
