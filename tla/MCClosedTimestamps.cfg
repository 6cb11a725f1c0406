SPECIFICATION Spec
CONSTANTS
  Replica = {r1, r2}
  First = r1
  Cmd = {c1, c2}
  Instances <- Settings
SYMMETRY Perms
CHECK_DEADLOCK FALSE
INVARIANTS NoWriteBelowClosed AppliedAtMostOnce AcknowledgedTakesEffect
  RejectedUnlessUnindexed NoSideTransportRegression
