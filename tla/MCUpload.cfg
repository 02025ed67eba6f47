SPECIFICATION MCSpec
CONSTANTS
  alice = alice
  bob = bob
  skin = skin
  x = x
  y = y
  k1 = k1
  k2 = k2
  c1 = c1
  Calls = {c1, c2}
  NoOne = NoOne
  NoReply = NoReply
  NoJob = NoJob
  Accounts <- MCAccounts
  Assets <- MCAssets
  Contents <- MCContents
  Keys <- MCKeys
  Requests <- MCRequests
  MaxCrashes = 1
  MaxAdmin = 1
INVARIANTS
  OneRevisionPerKey
  CommittedMeansRegistered
  LeaseFollowsOperation
  ObjectsLostOnlyByUndo
  CatalogListsRevisions
PROPERTIES
  ImplementsLedger
  TempsAreReclaimed
  LeasedOperationsSettle
CHECK_DEADLOCK FALSE
