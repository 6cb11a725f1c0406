SPECIFICATION Spec
CONSTANTS
  Key = {k1, k2}
  Pipelined = {k2}
  Blind = {k1}
  Pusher = {p1}
  MaxTs = 2
  MaxEpoch = 1
  Budgets <- RestartedOnly
CHECK_DEADLOCK FALSE
INVARIANT NotUnexpectedlyCommitted
