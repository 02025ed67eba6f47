SPECIFICATION Spec
CONSTANTS
  alice = alice
  bob = bob
  skin = skin
  x = x
  y = y
  k1 = k1
  k2 = k2
  c1 = c1
  Calls = {c1, c2}
  NoOne = NoOne
  NoReply = NoReply
  NoJob = NoJob
  Accounts <- MCAccounts
  Assets <- MCAssets
  Contents <- MCContents
  Keys <- MCKeys
  Requests <- MCRivals
  MaxCrashes = 0
  MaxAdmin = 0
INVARIANTS
  RevisionsHaveObjects
CHECK_DEADLOCK FALSE
