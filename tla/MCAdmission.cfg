SPECIFICATION MCSpec
CONSTANTS
  Uploads <- MCUploads
  Previews = {p1}
  Updater = updater
  Limits = {0, 2}
  InitialLimit = 1
  MaxUpdates = 1
  MaxSettings = 1
INVARIANTS
  NoLostWakeup
  UploadsCanFinish
PROPERTIES
  ImplementsGate
  DrainEnds
  WaitersAreAdmitted
CHECK_DEADLOCK FALSE
