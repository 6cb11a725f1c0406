SPECIFICATION Spec
CONSTANTS
  Key = {k1, k2}
  Pipelined = {k2}
  Blind = {}
  Pusher = {p1, p2}
  MaxTs = 1
  MaxEpoch = 0
  Budgets <- UndecidedOnly
SYMMETRY Perms
CHECK_DEADLOCK FALSE
INVARIANT RecoveryNeverFails
