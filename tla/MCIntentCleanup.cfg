SPECIFICATION ContendedSpec
CONSTANTS
  Key = {k1, k2}
  Pipelined = {k2}
  Blind = {}
  Pusher = {p1}
  MaxTs = 2
  MaxEpoch = 0
  Budgets <- AbandonedOnly
CHECK_DEADLOCK FALSE
PROPERTY IntentsCleanedUp
