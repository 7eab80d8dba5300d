SPECIFICATION SecretsSpec
CONSTANTS
  Requests = {r1, r2}
  Logins = {home, work}
  Rotates = TRUE
  SKEW = 1
  TIMEOUT = 2
  Interval = 1
  Life = 3
  MaxDelay = 1
  MaxTime = 4
  short = short  two = two  other = other  three = three
  Secrets = {short, two, other, three}
  Size <- MCSize
  MaxSize = 3
  Clients = {c}
  MayFail = TRUE
  NoSecret = NoSecret
  Damaged = Damaged
SYMMETRY AnyNames
INVARIANTS   BearerIsGood ApprovalIsSeen
PROPERTY ImplementsVault
CHECK_DEADLOCK FALSE
