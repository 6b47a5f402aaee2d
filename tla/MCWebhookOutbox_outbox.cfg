SPECIFICATION FairSpec
CONSTANTS
  w1 = w1
  w2 = w2
  e1 = e1
  e2 = e2
  p1 = p1
  Workers = {w1, w2}
  Events = {e1, e2}
  Endpoints = {p1}
  Subscribed <- MCSubscribed
  Limits = {1, 2}
  Crashes = 1
  Stalls = 1
  Redeliveries = 1
  Edits = 1
  MaxEnv <- MCMaxEnv
INVARIANTS
  HoldersCounted
  AttemptsBounded
PROPERTIES
  DeliveriesSettle
CHECK_DEADLOCK FALSE
