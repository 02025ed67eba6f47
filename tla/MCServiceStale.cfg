CONSTANTS
  Blockable = {"r18", "unclassified"}
  Providers = {p1}
  p1 = p1
  Options <- MCOptions
  Secrets = {k1}
  Nil = Nil
  MaxEdits = 2
  MaxSaves = 1
  MaxFaults = 1
  MaxChanges = 5
  Accounts = {a1}
  Assets = {x1}
  Contents = {c1, c2}
  Scanners = {s1, s2}
  Renderers = {r1}
  MaxRevisions = 2
  Requests = {q1, q2}
  q2 = q2
  s2 = s2
  MaxKeys = 4
  MaxPages = 1
  Scenarios = {{"warm", "scans", "pictures"}}
SPECIFICATION MCSpec
PROPERTY StalePicturesAreRejected
CHECK_DEADLOCK FALSE
