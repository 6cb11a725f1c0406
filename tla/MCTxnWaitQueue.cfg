SPECIFICATION FairSpec
CONSTANTS
  c1 = c1
  c2 = c2
  c3 = c3
  p1 = p1
  p2 = p2
  n1 = n1
  Txn = {1, 2, 3}
  Push = {c1, c2, c3, p1, p2, n1}
  Pusher <- PusherOf
  Pushee <- PusheeOf
  NoTxn = NoTxn
  Pri <- SamePri
  MaxPri = 2
  Mortal = {1}
  Recordless = {2}
  Cancellable = {p2}
  Timed = {p1, p2, n1}
  Instances <- CycleAndPairs
CHECK_DEADLOCK FALSE
INVARIANTS NoForgottenPush HighestSurvives
PROPERTY PushesReturn
