SPECIFICATION Spec
CONSTANTS
  a = a
  b = b
  Node = {a, b}
  First = a
  MaxOffset = 1
  Instances <- RestartedTwiceOnly
  MaxLag = 1
  MaxEpoch = 3
  MaxFlying = 1
CHECK_DEADLOCK FALSE
INVARIANT OneServer
