SPECIFICATION Spec
CONSTANTS
  Replica = {r1}
  First = r1
  Cmd = {c1, c2}
  Instances <- RefusedSettings
SYMMETRY Perms
CHECK_DEADLOCK FALSE
INVARIANT RejectedHasNoEffect
