------------------------------- MODULE Tracker -------------------------------
(***************************************************************************)
(* What the Tracker interface of closedts/tracker/tracker.go promises its  *)
(* caller, the proposal buffer: a set of tracked write timestamps, and a   *)
(* LowerBound that is never above any of them.  The bound need not be      *)
(* exact, and an empty bound (0) is returned for an empty set only.        *)
(***************************************************************************)
EXTENDS Integers

CONSTANTS
    Requests,   \* evaluating requests; each tracks one timestamp at a time
    MaxTs       \* timestamps are 1..MaxTs; 0 is the empty timestamp

VARIABLES
    tracked,    \* tracked[r]: the timestamp r tracks, 0 when it tracks none
    bound       \* the result of the last LowerBound call

vars == <<tracked, bound>>

Timestamps == 1..MaxTs

\* The values LowerBound may return for a tracked set.
LegalBound(set, b) ==
    IF \A r \in Requests : set[r] = 0
    THEN b = 0
    ELSE /\ b \in Timestamps
         /\ \A r \in Requests : set[r] # 0 => b <= set[r]

Init ==
    /\ tracked = [r \in Requests |-> 0]
    /\ bound = 0

Track(r, ts) ==
    /\ tracked[r] = 0
    /\ tracked' = [tracked EXCEPT ![r] = ts]
    /\ UNCHANGED bound

Untrack(r) ==
    /\ tracked[r] # 0
    /\ tracked' = [tracked EXCEPT ![r] = 0]
    /\ UNCHANGED bound

LowerBound ==
    /\ bound' \in Timestamps \cup {0}
    /\ LegalBound(tracked, bound')
    /\ UNCHANGED tracked

Next ==
    \/ \E r \in Requests : \E ts \in Timestamps : Track(r, ts)
    \/ \E r \in Requests : Untrack(r)
    \/ LowerBound

Spec == Init /\ [][Next]_vars
==============================================================================
