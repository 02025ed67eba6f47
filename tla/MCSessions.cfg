SPECIFICATION MCSpec
SYMMETRY Names
CONSTRAINT InScenario
CONSTANTS
  Accounts = {owner, a}
  Owner = owner
  Providers = {official}
  Official = official
  Uuids = {u}
  Sessions = {s1, s2}
  Challenges = {c1}
  Flows = {f1}
  Requests = {r1, r2}
  Token = token
  Nil = nil
  MaxUpdates = 2
  Scenarios = {
    {"api", "console", "update", "solo"},
    {"account", "create", "update", "solo"},
    {"browser", "update", "solo"},
    {"connect", "update", "solo"},
    {"api", "callback", "redeem", "update", "solo", "kept"},
    {"api", "callback", "redeem"},
    {"api", "game", "connect", "solo"},
    {"api", "game", "browser", "linking", "kept"},
    {"game", "browser", "toggle", "solo"},
    {"api", "connect", "browser", "linking", "lasting"}}
INVARIANTS
  UpdatesEndSignIns
  OneSessionPerSignIn
  OneOwner
  LinksPairAccounts
  ProofsUsedOnce
PROPERTY
  ImplementsSignIns
CHECK_DEADLOCK FALSE
