SPECIFICATION MCSpec
SYMMETRY Names
CONSTRAINT InScenario
CONSTANTS
  Accounts = {owner, a}
  Owner = owner
  Providers = {official}
  Official = official
  Uuids = {u}
  Sessions = {s1, s2}
  Challenges = {c1}
  Flows = {f1}
  Requests = {r1, r2}
  Token = token
  Nil = nil
  MaxUpdates = 2
  Scenarios = {{"api", "browser", "update", "solo"}}
INVARIANT
  UpdatesEndEverySession
CHECK_DEADLOCK FALSE
