SPECIFICATION FairSpec
CONSTANTS
  w1 = w1
  w2 = w2
  s1 = s1
  s2 = s2
  Nobody = Nobody
  Workers = {w1, w2}
  Scopes = {s1, s2}
  ScopeOrder <- MCScopeOrder
  Broken = {}
  Docs <- MCDocs
  ScopeOf <- MCScopeOf
  BucketOf <- MCBucketOf
  SeverityOf <- MCSeverityOf
  Early = {1, 2}
  PageSize = 2
  MinSeverity = 4
  Crashes = 1
  Stalls = 1
  Faults = 1
  MaxEnv <- MCMaxEnv
INVARIANTS
  NoGap
  BucketsTrue
PROPERTIES
  CursorForward
  DocumentsIngested
  BucketsEmitted
