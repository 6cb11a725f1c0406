--------------------------- MODULE LockFreeTracker ---------------------------
(***************************************************************************)
(* closedts/tracker/lockfree_tracker.go: the tracker of the write          *)
(* timestamps of the requests a range is evaluating.  Two buckets, each    *)
(* with one timestamp, a reference count and a "synthetic" flag, summarise *)
(* the tracked set.  Track runs under the proposer's read lock, so any     *)
(* number of Track calls interleave at their atomic operations; Untrack    *)
(* and LowerBound run under the write lock, so they are single steps that  *)
(* only happen while no Track call is between its first and its last step. *)
(*                                                                         *)
(* Simplification: the tracker stores the wall time of an HLC timestamp    *)
(* and drops its logical part; timestamps here are wall times.             *)
(***************************************************************************)
EXTENDS Integers, FiniteSets

CONSTANTS
    Requests,   \* evaluating requests, one Track call each at a time
    MaxTs       \* wall times are 1..MaxTs; 0 marks an uninitialised bucket

ASSUME MaxTsAssumption == MaxTs \in Nat \ {0}
ASSUME RequestsAssumption == IsFiniteSet(Requests)

VARIABLES
    ts,         \* ts[b]: the bucket's timestamp, 0 if uninitialised
    refcnt,     \* refcnt[b]: how many tokens name the bucket
    synthetic,  \* synthetic[b]: 1 if the bucket's bound counts as synthetic
    b1,         \* the bucket the b1 pointer names; b2 names the other one
    pc,         \* pc[r]: where r is in Track
    wts,        \* wts[r]: the timestamp r is tracking
    synth,      \* synth[r]: 1 if that timestamp is synthetic
    tok,        \* tok[r]: the bucket r is joining or holds a token of
    t,          \* t[r]: r's last load of its bucket's timestamp
    bound       \* the last result of LowerBound

tvars == <<ts, refcnt, synthetic, b1>>
vars == <<ts, refcnt, synthetic, b1, pc, wts, synth, tok, t, bound>>

Buckets == {0, 1}
Timestamps == 1..MaxTs
b2 == 1 - b1

\* r holds the read lock: it is inside Track.
InTrack(r) == pc[r] \in {"choose", "load", "cas", "mark", "join"}

\* The write lock can be taken: no reader holds the lock.
WriteLockFree == \A r \in Requests : ~InTrack(r)

Init ==
    /\ ts = [b \in Buckets |-> 0]
    /\ refcnt = [b \in Buckets |-> 0]
    /\ synthetic = [b \in Buckets |-> 0]
    /\ b1 = 0
    /\ pc = [r \in Requests |-> "idle"]
    /\ wts = [r \in Requests |-> 0]
    /\ synth = [r \in Requests |-> 0]
    /\ tok = [r \in Requests |-> 0]
    /\ t = [r \in Requests |-> 0]
    /\ bound = 0

\* Track is called with a timestamp and takes the read lock.
TrackCall(r, w, s) ==
    /\ pc[r] = "idle"
    /\ pc' = [pc EXCEPT ![r] = "choose"]
    /\ wts' = [wts EXCEPT ![r] = w]
    /\ synth' = [synth EXCEPT ![r] = s]
    /\ UNCHANGED <<ts, refcnt, synthetic, b1, tok, t, bound>>

\* b1's timestamp is loaded once: join b1 if it is uninitialised or not below
\* wts, join b2 otherwise.
ChooseBucket(r) ==
    /\ pc[r] = "choose"
    /\ tok' = [tok EXCEPT ![r] = IF ts[b1] = 0 \/ wts[r] <= ts[b1]
                                 THEN b1 ELSE b2]
    /\ pc' = [pc EXCEPT ![r] = "load"]
    /\ UNCHANGED <<ts, refcnt, synthetic, b1, wts, synth, t, bound>>

\* extendAndJoin, top of the loop: load the bucket's timestamp; leave the loop
\* if it is already low enough.
LoadBucket(r) ==
    /\ pc[r] = "load"
    /\ t' = [t EXCEPT ![r] = ts[tok[r]]]
    /\ pc' = [pc EXCEPT ![r] =
                IF ts[tok[r]] # 0 /\ ts[tok[r]] <= wts[r] THEN "join" ELSE "cas"]
    /\ UNCHANGED <<ts, refcnt, synthetic, b1, wts, synth, tok, bound>>

\* Mutant: a failed CompareAndSwap is tried again with the stale load.
CasNoReload(r) ==
    /\ pc[r] = "cas"
    /\ \/ /\ ts[tok[r]] = t[r]
          /\ ts' = [ts EXCEPT ![tok[r]] = wts[r]]
          /\ pc' = [pc EXCEPT ![r] =
                      IF t[r] = 0 /\ synth[r] = 1 THEN "mark" ELSE "join"]
       \/ ts[tok[r]] # t[r] /\ UNCHANGED <<ts, pc>>
    /\ UNCHANGED <<refcnt, synthetic, b1, wts, synth, tok, t, bound>>

\* extendAndJoin, CompareAndSwap: success leaves the loop, failure repeats it.
\* The request that initialised the bucket goes on to decide its synthetic flag.
CasBucket(r) ==
    /\ pc[r] = "cas"
    /\ \/ /\ ts[tok[r]] = t[r]
          /\ ts' = [ts EXCEPT ![tok[r]] = wts[r]]
          /\ pc' = [pc EXCEPT ![r] =
                      IF t[r] = 0 /\ synth[r] = 1 THEN "mark" ELSE "join"]
       \/ /\ ts[tok[r]] # t[r]
          /\ pc' = [pc EXCEPT ![r] = "load"]
          /\ UNCHANGED ts
    /\ UNCHANGED <<refcnt, synthetic, b1, wts, synth, tok, t, bound>>

MarkSynthetic(r) ==
    /\ pc[r] = "mark"
    /\ synthetic' = [synthetic EXCEPT ![tok[r]] = 1]
    /\ pc' = [pc EXCEPT ![r] = "join"]
    /\ UNCHANGED <<ts, refcnt, b1, wts, synth, tok, t, bound>>

\* The reference count is incremented and Track returns the token; its local
\* variables (t, synth) are gone.
JoinBucket(r) ==
    /\ pc[r] = "join"
    /\ refcnt' = [refcnt EXCEPT ![tok[r]] = @ + 1]
    /\ pc' = [pc EXCEPT ![r] = "tracked"]
    /\ t' = [t EXCEPT ![r] = 0]
    /\ synth' = [synth EXCEPT ![r] = 0]
    /\ UNCHANGED <<ts, synthetic, b1, wts, tok, bound>>

\* Mutant: the reset forgets the synthetic flag.
UntrackKeepsSynthetic(r) ==
    LET b == tok[r] IN
    /\ WriteLockFree
    /\ pc[r] = "tracked"
    /\ refcnt' = [refcnt EXCEPT ![b] = @ - 1]
    /\ ts' = IF refcnt[b] = 1 THEN [ts EXCEPT ![b] = 0] ELSE ts
    /\ b1' = IF refcnt[b] = 1 /\ b = b1 THEN b2 ELSE b1
    /\ pc' = [pc EXCEPT ![r] = "idle"]
    /\ wts' = [wts EXCEPT ![r] = 0]
    /\ tok' = [tok EXCEPT ![r] = 0]
    /\ UNCHANGED <<synthetic, synth, t, bound>>

\* Mutant: the pointers are not swapped when b1 is reset.
UntrackNoSwap(r) ==
    LET b == tok[r] IN
    /\ WriteLockFree
    /\ pc[r] = "tracked"
    /\ refcnt' = [refcnt EXCEPT ![b] = @ - 1]
    /\ ts' = IF refcnt[b] = 1 THEN [ts EXCEPT ![b] = 0] ELSE ts
    /\ synthetic' = IF refcnt[b] = 1 THEN [synthetic EXCEPT ![b] = 0] ELSE synthetic
    /\ pc' = [pc EXCEPT ![r] = "idle"]
    /\ wts' = [wts EXCEPT ![r] = 0]
    /\ tok' = [tok EXCEPT ![r] = 0]
    /\ UNCHANGED <<b1, synth, t, bound>>

\* Untrack, under the write lock: the last token resets its bucket and, if the
\* bucket was b1, swaps the pointers.
Untrack(r) ==
    LET b == tok[r] IN
    /\ WriteLockFree
    /\ pc[r] = "tracked"
    /\ refcnt' = [refcnt EXCEPT ![b] = @ - 1]
    /\ ts' = IF refcnt[b] = 1 THEN [ts EXCEPT ![b] = 0] ELSE ts
    /\ synthetic' = IF refcnt[b] = 1 THEN [synthetic EXCEPT ![b] = 0] ELSE synthetic
    /\ b1' = IF refcnt[b] = 1 /\ b = b1 THEN b2 ELSE b1
    /\ pc' = [pc EXCEPT ![r] = "idle"]
    /\ wts' = [wts EXCEPT ![r] = 0]
    /\ tok' = [tok EXCEPT ![r] = 0]
    /\ UNCHANGED <<synth, t, bound>>

\* LowerBound, under the write lock: only b1 is read.
LowerBound ==
    /\ WriteLockFree
    /\ bound' = ts[b1]
    /\ UNCHANGED <<ts, refcnt, synthetic, b1, pc, wts, synth, tok, t>>

Next ==
    \/ \E r \in Requests : \E w \in Timestamps : \E s \in {0, 1} : TrackCall(r, w, s)
    \/ \E r \in Requests : ChooseBucket(r)
    \/ \E r \in Requests : LoadBucket(r)
    \/ \E r \in Requests : CasBucket(r)
    \/ \E r \in Requests : MarkSynthetic(r)
    \/ \E r \in Requests : JoinBucket(r)
    \/ \E r \in Requests : Untrack(r)
    \/ LowerBound

\* A Track call that holds the read lock runs on: the loop of extendAndJoin is
\* lock free, and the Go scheduler starves no runnable goroutine.
Fairness ==
    \A r \in Requests :
        /\ WF_vars(ChooseBucket(r))
        /\ WF_vars(LoadBucket(r))
        /\ WF_vars(CasBucket(r))
        /\ WF_vars(MarkSynthetic(r))
        /\ WF_vars(JoinBucket(r))

Spec == Init /\ [][Next]_vars /\ Fairness

------------------------------------------------------------------------------
(* Properties.                                                             *)

\* Every variable stays in its range; a bound is never negative.
TypeOK ==
    /\ ts \in [Buckets -> 0..MaxTs]
    /\ refcnt \in [Buckets -> Int]
    /\ synthetic \in [Buckets -> {0, 1}]
    /\ b1 \in Buckets
    /\ pc \in [Requests -> {"idle", "choose", "load", "cas", "mark", "join", "tracked"}]
    /\ wts \in [Requests -> 0..MaxTs]
    /\ synth \in [Requests -> {0, 1}]
    /\ tok \in [Requests -> Buckets]
    /\ t \in [Requests -> 0..MaxTs]
    /\ bound \in 0..MaxTs

\* The requests that hold a token of bucket b.
Holders(b) == {r \in Requests : pc[r] = "tracked" /\ tok[r] = b}

\* The reference count of a bucket is the number of requests holding one of its
\* tokens, whatever Track calls are in progress; so Untrack never finds a
\* negative count (its log.Fatalf).
RefcntCountsTokens ==
    \A b \in Buckets : refcnt[b] = Cardinality(Holders(b))

\* "If both buckets are initialized, b1.timestamp < b2.timestamp": concurrent
\* Track calls lower the two buckets independently and never invert them.
BucketsOrdered ==
    ts[b1] # 0 /\ ts[b2] # 0 => ts[b1] < ts[b2]

\* A token's request is never below its bucket's timestamp, at any moment of
\* any Track call.
TokensAboveBucket ==
    \A r \in Requests : pc[r] = "tracked" => ts[tok[r]] # 0 /\ ts[tok[r]] <= wts[r]

\* "If only one bucket is initialized, it is b1" and "initialized buckets are
\* not empty", whenever the write lock can be taken.
QuietBuckets ==
    WriteLockFree =>
        /\ \A b \in Buckets : ts[b] # 0 <=> refcnt[b] > 0
        /\ ts[b2] # 0 => ts[b1] # 0

\* A synthetic flag never outlives the synthetic request that initialised the
\* bucket: an uninitialised bucket has none, so the next incarnation starts
\* physical.
SyntheticDiesWithBucket ==
    \A b \in Buckets : ts[b] = 0 => synthetic[b] = 0

\* The detailed tracker implements the interface: Track takes effect when it
\* returns, Untrack and LowerBound when they run.
Abs == INSTANCE Tracker WITH
    tracked <- [r \in Requests |-> IF pc[r] = "tracked" THEN wts[r] ELSE 0]

ImplementsTracker == Abs!Spec

\* The CAS loop of extendAndJoin is lock free: every Track call returns although
\* other calls keep changing the bucket under it.
TrackReturns ==
    \A r \in Requests : InTrack(r) ~> pc[r] = "tracked"
==============================================================================
