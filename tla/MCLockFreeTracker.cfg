CONSTANTS
    Requests = {r1, r2, r3}
    MaxTs = 2

SPECIFICATION Spec

INVARIANTS
    QuietBuckets
    SyntheticDiesWithBucket

PROPERTIES
    ImplementsTracker
    TrackReturns
