SPECIFICATION Spec
CONSTANTS
  Account = {a1}
  NoAccount = none
  MaxOps = 3
  BatchSize = 2
  MaxAttempts = 2
  Slot = {s1}
  NoSlot = noslot
  Refused = {}
  Invalid = {}
  Fault = {"dispatch", "record", "crash"}
  UserDoes = {"trip:CREATE", "points:CREATE", "trip:FINISH", "trip:CANCEL"}
INVARIANTS
  SystemTypeOK
  SyncingIsInBatch
  NothingOvertakes
  TripConverged
  DistanceKept
PROPERTIES
  CausalFailure
