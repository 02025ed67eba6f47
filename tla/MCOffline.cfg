SPECIFICATION Spec
SYMMETRY Names
CONSTANTS
  Accounts = {a, b}
  Entities = {e}
  Models = {m}
  Identities = {i1, i2}
  Keys = {k1, k2}
  Sessions = {s1, s2}
  Requests = {r1}
  Nil = nil
  Quota = 2
  MaxRevision = 3
  RivalRevision = 2
CONSTRAINT InInstance
INVARIANTS
  Consistent
  NoMissedChange
PROPERTIES
  SessionsNeverRevive
  DecisionsStand
  IssuedOnlyToApproved
  ImplementsPresence
CHECK_DEADLOCK FALSE
