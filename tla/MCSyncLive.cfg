SPECIFICATION LiveSpec
CONSTANTS
  Account = {a1, a2}
  NoAccount = none
  MaxOps = 3
  BatchSize = 2
  MaxAttempts = 2
  Slot = {s1}
  NoSlot = noslot
  Refused = {1}
  Invalid = {}
  Fault = {"dispatch"}
  UserDoes = {"trip:CREATE", "points:CREATE", "login"}
INVARIANTS
  OnlyOffenderRefused
  RoundKeepsToItsAccount
PROPERTIES
  EveryOpSettles
  RoundEnds
