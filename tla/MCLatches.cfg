SPECIFICATION FairSpec
CONSTANTS
  w1 = w1
  w2 = w2
  rd = rd
  op = op
  Req = {w1, w2, rd, op}
  Spans <- MixedSpans
  Policy <- MixedPolicy
  Optimistic = {op}
  OnlyWait = {rd}
  Stuck = {w1}
  NoReq = NoReq
CHECK_DEADLOCK FALSE
INVARIANTS Isolation OptimisticAlone NoWaitingInCircles
PROPERTY FailFast
