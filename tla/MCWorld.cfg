SPECIFICATION MCSpec
CONSTRAINT InScenario
CONSTANTS
  Accounts = {o, a}
  Host = o
  First = {p1, b1, c1, e1, t1}
  Worlds = {w}
  Targets = {t1, t2}
  Entities = {e1, e2}
  Models = {m}
  Identities = {i}
  Persons = {p1, p2}
  Bindings = {b1, b2}
  Codes = {c1, c2}
  Events = {v1, v2}
  Motions = {x1, x2}
  Nil = nil
  Lag = 1
  MaxTime = 3
  MaxRevision = 3
  MaxAttempts = 2
  CodeTtl = 1
  IdleTtl = 2
  Lifetime = 3
  Fresh = 1
  PerPublisher = 2
  PerWorld = 2
  MotionTtl = 1
  Scenarios = {
    {"worlds", "roles", "targets"},
    {"claims", "targets", "one"},
    {"targets", "looks", "grants", "one"},
    {"targets", "bound", "one"},
    {"targets", "vehicles"},
    {"targets", "vehicles", "grants", "one"},
    {"private", "entities", "looks", "one", "long"},
    {"private", "entities", "owners", "rights", "one"},
    {"public", "entities", "motions", "grants", "clock", "one"},
    {"public", "entities", "motions", "bound", "looks", "one"},
    {"public", "shots", "clock"},
    {"public", "shots", "faces", "clock", "one"},
    {"public", "shots", "profiles", "withheld", "clock", "one"}}
CHECK_DEADLOCK FALSE
INVARIANTS
  OneHolderPerEntity
  ShotsShownOnce
  SharesAreChosen
PROPERTIES
  ClaimsAreFinal
  MotionFollowsItsDriver
  CleanupIsInvisible
