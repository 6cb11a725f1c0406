SPECIFICATION FairSpec
CONSTANTS
  Prop = {p1, p2, p3}
  Unsafe = {p3}
  NoProp = NoProp
  MinSize = 1
  MaxSize = 2
  ShrinkDelay = 2
  MaxRefresh = 2
  MaxMerges = 1
CHECK_DEADLOCK FALSE
INVARIANTS NoNilProposal NobodyLeftBehind
PROPERTIES InsertReturns AcceptedIsFlushed
