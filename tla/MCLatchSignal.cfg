SPECIFICATION FairSignalSpec
CONSTANTS
  Signallers = {s1, s2}
  Waiters = {w1, w2, w3}
  Idempotent = TRUE
  nil = nil
  closedC = closedC
CHECK_DEADLOCK FALSE
INVARIANTS NoPanic NoEarlyWakeup NoLostWakeup
PROPERTY SignalWakes
