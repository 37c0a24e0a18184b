SPECIFICATION Spec
CONSTANTS
  Account = {a1, a2}
  NoAccount = none
  MaxOps = 3
  BatchSize = 2
  MaxAttempts = 2
  Slot = {s1}
  NoSlot = noslot
  Refused = {}
  Invalid = {}
  Fault = {}
  UserDoes = {"route:UPSERT", "route:DELETE", "login"}
INVARIANTS
  OwnSession
