SPECIFICATION Spec
CONSTANTS
  Replica = {r1, r2}
  First = r1
  Cmd = {c1, c2}
  Instances <- SnapshotSettings
SYMMETRY Perms
CHECK_DEADLOCK FALSE
INVARIANT AppliedAtMostOnce
