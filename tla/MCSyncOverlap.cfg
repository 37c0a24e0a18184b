SPECIFICATION Spec
CONSTANTS
  Account = {a1}
  NoAccount = none
  MaxOps = 2
  BatchSize = 2
  MaxAttempts = 2
  Slot = {s1, s2}
  NoSlot = noslot
  Refused = {}
  Invalid = {1}
  Fault = {"record", "crash"}
  UserDoes = {"route:UPSERT", "route:DELETE", "trip:CREATE", "retry"}
SYMMETRY AnySlot
INVARIANTS
  CompletedWasApplied
  SuccessIsBacked
PROPERTIES
  ImplementsDelivery
