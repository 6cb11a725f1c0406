SPECIFICATION Spec
CONSTANTS
  Key = {k1, k2}
  Pipelined = {k2}
  Blind = {}
  Pusher = {p1, p2}
  MaxTs = 3
  MaxEpoch = 1
  Budgets <- AllBudgets
SYMMETRY Perms
CHECK_DEADLOCK FALSE
INVARIANTS AtomicCommit NotUnexpectedlyCommitted RecoveryFindsTheCommit
  ExplicitCommitSucceeds
PROPERTY ImplementsAtomicTransaction
