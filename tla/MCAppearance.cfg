SPECIFICATION MCSpec
CONSTANTS
  ann = ann
  ben = ben
  fan = fan
  t1 = t1
  t2 = t2
  s1 = s1
  s2 = s2
  v1 = v1
  v2 = v2
  k1 = k1
  k2 = k2
  None = None
  Calls <- MCCalls
  Accounts = {ann, ben, fan}
  Watchers = {fan}
  Targets = {t1, t2}
  Scopes = {s1, s2}
  ScopeOf <- MCScopeOf
  Members <- MCMembers
  Values = {v1, v2}
  Ids = {k1, k2}
  Requests <- MCRequests
  Grants <- MCGrants
  InitialRole <- MCInitialRole
  Capacity = 1
  PageLimit = 1
  MaxCrashes = 1
  MaxAdmin = 1
INVARIANTS
  OutboxIsHistory
  OneEffectPerRequest
  NoSilentLoss
PROPERTIES
  ImplementsLog
  ChangesArrive
CHECK_DEADLOCK FALSE
