SPECIFICATION Spec
CONSTANTS
  a = a
  b = b
  Node = {a, b}
  First = a
  MaxOffset = 1
  Instances <- DemotedOnly
  MaxLag = 0
  MaxEpoch = 2
  MaxFlying = 1
CHECK_DEADLOCK FALSE
INVARIANT OneServer
