------------------------ MODULE LockFreeTrackerProofs ------------------------
(***************************************************************************)
(* The safety properties of LockFreeTracker and the interface it           *)
(* implements, proved for any finite set of requests and any MaxTs.        *)
(*                                                                         *)
(* The stated invariants are not inductive.  IInv adds what a request that *)
(* is inside Track has established: a request that chose b2 is above b1    *)
(* (ChoseB2), one that is past the CAS loop is not below its bucket        *)
(* (PastLoop), and an initialised bucket has a request that keeps it       *)
(* initialised, a holder of a token or a call about to become one (Kept).  *)
(***************************************************************************)
EXTENDS LockFreeTracker, FiniteSetTheorems, TLAPS

Joined == {"mark", "join", "tracked"}

\* A Track call that chose b2 found b1 initialised and below it.
ChoseB2 ==
    \A r \in Requests :
        pc[r] \in {"load", "cas"} /\ tok[r] = b2 => ts[b1] # 0 /\ ts[b1] < wts[r]

\* Past the loop of extendAndJoin the bucket is not above the request.
PastLoop ==
    \A r \in Requests :
        pc[r] \in Joined => ts[tok[r]] # 0 /\ ts[tok[r]] <= wts[r]

\* A CAS is only attempted to initialise the bucket or to lower it.
CasLowers ==
    \A r \in Requests : pc[r] = "cas" => t[r] = 0 \/ wts[r] < t[r]

\* A request in Track or tracked has a timestamp.
HasTs == \A r \in Requests : pc[r] # "idle" => wts[r] \in Timestamps

\* A bucket is initialised exactly while a request joined it.
Kept ==
    \A b \in Buckets : ts[b] # 0 => \E r \in Requests : pc[r] \in Joined /\ tok[r] = b

B1First == ts[b2] # 0 => ts[b1] # 0

IInv ==
    /\ TypeOK /\ RefcntCountsTokens /\ BucketsOrdered /\ SyntheticDiesWithBucket
    /\ ChoseB2 /\ PastLoop /\ CasLowers /\ HasTs /\ Kept /\ B1First

\* The holders of a bucket's tokens are a finite set.
LEMMA HoldersFinite ==
    ASSUME NEW b PROVE IsFiniteSet(Holders(b)) /\ Cardinality(Holders(b)) \in Nat
<1>1. Holders(b) \in SUBSET Requests
    BY DEF Holders
<1> QED BY <1>1, FS_Subset, FS_CardinalityType, RequestsAssumption

\* A step that neither hands out nor takes back a token keeps the counts right.
LEMMA CountsKept ==
    ASSUME RefcntCountsTokens, UNCHANGED refcnt,
           \A b \in Buckets : Holders(b)' = Holders(b)
    PROVE  RefcntCountsTokens'
BY DEF RefcntCountsTokens

LEMMA InitIInv == ASSUME Init PROVE IInv
<1> USE DEF Init
<1>1. TypeOK
    BY MaxTsAssumption DEF TypeOK, Buckets
<1>2. \A b \in Buckets : Holders(b) = {}
    BY DEF Holders
<1>3. RefcntCountsTokens
    BY <1>2, FS_EmptySet DEF RefcntCountsTokens
<1> QED
    BY <1>1, <1>3 DEF IInv, BucketsOrdered, SyntheticDiesWithBucket, ChoseB2, PastLoop,
        CasLowers, HasTs, Kept, B1First, Joined, b2, Buckets

\* Every step of Track keeps the invariant.
LEMMA TrackIInv ==
    ASSUME IInv, NEW r \in Requests,
           \/ \E w \in Timestamps : \E s \in {0, 1} : TrackCall(r, w, s)
           \/ ChooseBucket(r) \/ LoadBucket(r) \/ CasBucket(r) \/ MarkSynthetic(r)
    PROVE  IInv'
<1> USE DEF IInv, TypeOK, Buckets, b2, Joined, Timestamps
<1> USE MaxTsAssumption
<1>1. CASE \E w \in Timestamps : \E s \in {0, 1} : TrackCall(r, w, s)
    <2> USE <1>1 DEF TrackCall
    <2>1. TypeOK'  OBVIOUS
    <2>2. \A b \in Buckets : Holders(b)' = Holders(b)  BY DEF Holders
    <2>3. RefcntCountsTokens'  BY <2>2, CountsKept
    <2>4. (BucketsOrdered /\ SyntheticDiesWithBucket /\ B1First)'
        BY DEF BucketsOrdered, SyntheticDiesWithBucket, B1First
    <2>5. (ChoseB2 /\ PastLoop /\ CasLowers /\ HasTs)'
        BY DEF ChoseB2, PastLoop, CasLowers, HasTs
    <2>6. Kept'  BY DEF Kept
    <2> QED BY <2>1, <2>3, <2>4, <2>5, <2>6
<1>2. CASE ChooseBucket(r)
    <2> USE <1>2 DEF ChooseBucket
    <2>1. TypeOK'  OBVIOUS
    <2>2. \A b \in Buckets : Holders(b)' = Holders(b)  BY DEF Holders
    <2>3. RefcntCountsTokens'  BY <2>2, CountsKept
    <2>4. (BucketsOrdered /\ SyntheticDiesWithBucket /\ B1First)'
        BY DEF BucketsOrdered, SyntheticDiesWithBucket, B1First
    <2>5. (ChoseB2 /\ PastLoop /\ CasLowers /\ HasTs)'
        BY DEF ChoseB2, PastLoop, CasLowers, HasTs
    <2>6. Kept'  BY DEF Kept
    <2> QED BY <2>1, <2>3, <2>4, <2>5, <2>6
<1>3. CASE LoadBucket(r)
    <2> USE <1>3 DEF LoadBucket
    <2>1. TypeOK'  OBVIOUS
    <2>2. \A b \in Buckets : Holders(b)' = Holders(b)  BY DEF Holders
    <2>3. RefcntCountsTokens'  BY <2>2, CountsKept
    <2>4. (BucketsOrdered /\ SyntheticDiesWithBucket /\ B1First)'
        BY DEF BucketsOrdered, SyntheticDiesWithBucket, B1First
    <2>5. (ChoseB2 /\ PastLoop /\ CasLowers /\ HasTs)'
        BY DEF ChoseB2, PastLoop, CasLowers, HasTs
    <2>6. Kept'  BY DEF Kept
    <2> QED BY <2>1, <2>3, <2>4, <2>5, <2>6
<1>4. CASE CasBucket(r)
    <2> USE <1>4 DEF CasBucket
    <2>1. TypeOK'  OBVIOUS
    <2>2. \A b \in Buckets : Holders(b)' = Holders(b)  BY DEF Holders
    <2>3. RefcntCountsTokens'  BY <2>2, CountsKept
    <2>a. CASE ts[tok[r]] # t[r]
        <3> USE <2>a
        <3>1. (BucketsOrdered /\ SyntheticDiesWithBucket /\ B1First)'
            BY DEF BucketsOrdered, SyntheticDiesWithBucket, B1First
        <3>2. (ChoseB2 /\ PastLoop /\ CasLowers /\ HasTs)'
            BY DEF ChoseB2, PastLoop, CasLowers, HasTs
        <3>3. Kept'  BY DEF Kept
        <3> QED BY <2>1, <2>3, <3>1, <3>2, <3>3
    <2>b. CASE ts[tok[r]] = t[r]
        <3> USE <2>b
        <3>1. wts[r] \in Timestamps /\ (t[r] = 0 \/ wts[r] < t[r])
            BY DEF HasTs, CasLowers
        <3>2. tok[r] = b2 => ts[b1] # 0 /\ ts[b1] < wts[r]
            BY DEF ChoseB2
        <3>3. ts' = [ts EXCEPT ![tok[r]] = wts[r]]  OBVIOUS
        <3>4. BucketsOrdered'
            BY <3>1, <3>2, <3>3 DEF BucketsOrdered, B1First
        <3>5. SyntheticDiesWithBucket' /\ B1First'
            BY <3>1, <3>2, <3>3 DEF SyntheticDiesWithBucket, B1First
        <3>6. ChoseB2'
            BY <3>1, <3>2, <3>3 DEF ChoseB2
        <3>7. PastLoop'
            BY <3>1, <3>3 DEF PastLoop
        <3>8. (CasLowers /\ HasTs)'
            BY DEF CasLowers, HasTs
        <3>9. Kept'  BY <3>1, <3>3 DEF Kept
        <3> QED BY <2>1, <2>3, <3>4, <3>5, <3>6, <3>7, <3>8, <3>9
    <2> QED BY <2>a, <2>b
<1>5. CASE MarkSynthetic(r)
    <2> USE <1>5 DEF MarkSynthetic
    <2>1. TypeOK'  OBVIOUS
    <2>2. \A b \in Buckets : Holders(b)' = Holders(b)  BY DEF Holders
    <2>3. RefcntCountsTokens'  BY <2>2, CountsKept
    <2>4. (BucketsOrdered /\ B1First)'
        BY DEF BucketsOrdered, B1First
    <2>5. SyntheticDiesWithBucket'
        BY DEF SyntheticDiesWithBucket, PastLoop
    <2>6. (ChoseB2 /\ PastLoop /\ CasLowers /\ HasTs)'
        BY DEF ChoseB2, PastLoop, CasLowers, HasTs
    <2>7. Kept'  BY DEF Kept
    <2> QED BY <2>1, <2>3, <2>4, <2>5, <2>6, <2>7
<1> QED BY <1>1, <1>2, <1>3, <1>4, <1>5

\* Handing out a token raises one count by the one new holder.
LEMMA JoinIInv ==
    ASSUME IInv, NEW r \in Requests, JoinBucket(r)
    PROVE  IInv'
<1> USE DEF IInv, TypeOK, Buckets, b2, Joined, Timestamps, JoinBucket
<1> USE MaxTsAssumption
<1>1. TypeOK'  OBVIOUS
<1>2. RefcntCountsTokens'
    <2> SUFFICES ASSUME NEW b \in Buckets
                 PROVE  refcnt'[b] = Cardinality(Holders(b)')
        BY DEF RefcntCountsTokens, Holders
    <2>1. CASE b = tok[r]
        <3>1. Holders(b)' = Holders(b) \cup {r} /\ r \notin Holders(b)
            BY <2>1 DEF Holders
        <3>2. Cardinality(Holders(b) \cup {r}) = Cardinality(Holders(b)) + 1
            BY <3>1, HoldersFinite, FS_AddElement
        <3> QED BY <2>1, <3>1, <3>2 DEF RefcntCountsTokens
    <2>2. CASE b # tok[r]
        <3>1. Holders(b)' = Holders(b)
            BY <2>2 DEF Holders
        <3> QED BY <2>2, <3>1 DEF RefcntCountsTokens
    <2> QED BY <2>1, <2>2
<1>3. (BucketsOrdered /\ SyntheticDiesWithBucket /\ B1First)'
    BY DEF BucketsOrdered, SyntheticDiesWithBucket, B1First
<1>4. (ChoseB2 /\ PastLoop /\ CasLowers /\ HasTs)'
    BY DEF ChoseB2, PastLoop, CasLowers, HasTs
<1>5. Kept'  BY DEF Kept
<1> QED BY <1>1, <1>2, <1>3, <1>4, <1>5

\* With the write lock held, the last token of a bucket is the only one.
LEMMA LastToken ==
    ASSUME IInv, WriteLockFree, NEW b \in Buckets
    PROVE  /\ ts[b] # 0 <=> Holders(b) # {}
           /\ refcnt[b] = 0 <=> Holders(b) = {}
           /\ refcnt[b] \in Nat
           /\ \A r \in Holders(b) : refcnt[b] = 1 <=> Holders(b) = {r}
<1>1. \A r \in Requests : pc[r] \in {"idle", "tracked"}
    BY DEF WriteLockFree, InTrack, IInv, TypeOK
<1>2. ts[b] # 0 => Holders(b) # {}
    BY <1>1 DEF IInv, Kept, Joined, Holders
<1>3. Holders(b) # {} => ts[b] # 0
    BY DEF IInv, PastLoop, Joined, Holders
<1>4. refcnt[b] = Cardinality(Holders(b))
    BY DEF IInv, RefcntCountsTokens
<1>5. refcnt[b] \in Nat
    BY <1>4, HoldersFinite
<1>6. refcnt[b] = 0 <=> Holders(b) = {}
    BY <1>4, HoldersFinite, FS_EmptySet
<1>7. refcnt[b] = 1 <=> \E x : Holders(b) = {x}
    BY <1>4, HoldersFinite, FS_Singleton
<1> QED BY <1>2, <1>3, <1>5, <1>6, <1>7

\* Taking back a token keeps the invariant; the last one resets its bucket.
LEMMA UntrackIInv ==
    ASSUME IInv, NEW r \in Requests, Untrack(r)
    PROVE  IInv'
<1> USE MaxTsAssumption
<1> USE DEF Buckets
<1>0. /\ TypeOK /\ RefcntCountsTokens /\ BucketsOrdered /\ SyntheticDiesWithBucket
      /\ PastLoop /\ HasTs /\ Kept /\ B1First
    BY DEF IInv
<1>a. /\ WriteLockFree /\ pc[r] = "tracked" /\ tok[r] \in Buckets
      /\ refcnt' = [refcnt EXCEPT ![tok[r]] = @ - 1]
      /\ pc' = [pc EXCEPT ![r] = "idle"]
      /\ wts' = [wts EXCEPT ![r] = 0] /\ tok' = [tok EXCEPT ![r] = 0]
      /\ UNCHANGED <<synth, t, bound>>
    BY <1>0 DEF Untrack, TypeOK
<1>b. \A q \in Requests : pc[q] \in {"idle", "tracked"}
    BY <1>0, <1>a DEF WriteLockFree, InTrack, TypeOK
<1>c. r \in Holders(tok[r])
    BY <1>a DEF Holders
<1>1. TypeOK'
    BY <1>0 DEF TypeOK, Untrack, b2
<1>2. RefcntCountsTokens'
    <2> SUFFICES ASSUME NEW b \in Buckets
                 PROVE  refcnt'[b] = Cardinality(Holders(b)')
        BY DEF RefcntCountsTokens, Holders
    <2>1. CASE b = tok[r]
        <3>1. Holders(b)' = Holders(b) \ {r}
            BY <2>1, <1>0, <1>a DEF Holders, TypeOK
        <3>2. Cardinality(Holders(b) \ {r}) = Cardinality(Holders(b)) - 1
            BY <2>1, <1>c, HoldersFinite, FS_RemoveElement
        <3> QED BY <2>1, <3>1, <3>2, <1>0, <1>a DEF RefcntCountsTokens, TypeOK
    <2>2. CASE b # tok[r]
        <3>1. Holders(b)' = Holders(b)
            BY <2>2, <1>0, <1>a DEF Holders, TypeOK
        <3> QED BY <2>2, <3>1, <1>0, <1>a DEF RefcntCountsTokens, TypeOK
    <2> QED BY <2>1, <2>2
<1>3. (ChoseB2 /\ CasLowers /\ HasTs)'
    BY <1>0, <1>a, <1>b DEF ChoseB2, CasLowers, HasTs, TypeOK
<1>4. CASE refcnt[tok[r]] = 1
    <2>1. Holders(tok[r]) = {r}
        BY <1>4, <1>a, <1>c, LastToken
    <2>2. /\ ts' = [ts EXCEPT ![tok[r]] = 0]
          /\ synthetic' = [synthetic EXCEPT ![tok[r]] = 0]
          /\ b1' = IF tok[r] = b1 THEN b2 ELSE b1
        BY <1>4 DEF Untrack
    <2>3. \A q \in Requests : q # r /\ pc[q] = "tracked" => tok[q] # tok[r]
        BY <2>1 DEF Holders
    <2>4. (BucketsOrdered /\ B1First)'
        BY <2>2, <1>0, <1>a DEF BucketsOrdered, B1First, TypeOK, b2
    <2>5. SyntheticDiesWithBucket'
        BY <2>2, <1>0, <1>a DEF SyntheticDiesWithBucket, TypeOK
    <2>6. PastLoop'
        BY <2>2, <2>3, <1>0, <1>a, <1>b DEF PastLoop, TypeOK, Joined
    <2>7. Kept'
        BY <2>2, <2>3, <1>0, <1>a, <1>b DEF Kept, TypeOK, Joined
    <2> QED BY <1>1, <1>2, <1>3, <2>4, <2>5, <2>6, <2>7 DEF IInv
<1>5. CASE refcnt[tok[r]] # 1
    <2>1. ts' = ts /\ synthetic' = synthetic /\ b1' = b1
        BY <1>5 DEF Untrack
    <2>2. Holders(tok[r]) # {r}
        BY <1>5, <1>a, <1>c, LastToken
    <2>3. PICK q \in Requests : q # r /\ pc[q] = "tracked" /\ tok[q] = tok[r]
        BY <2>2, <1>c DEF Holders
    <2>4. (BucketsOrdered /\ B1First /\ SyntheticDiesWithBucket)'
        BY <2>1, <1>0 DEF BucketsOrdered, B1First, SyntheticDiesWithBucket, b2
    <2>5. PastLoop'
        BY <2>1, <1>0, <1>a, <1>b DEF PastLoop, TypeOK, Joined
    <2>6. Kept'
        <3> SUFFICES ASSUME NEW b \in Buckets, ts'[b] # 0
                     PROVE  \E p \in Requests : pc'[p] \in Joined /\ tok'[p] = b
            BY DEF Kept
        <3>1. PICK p \in Requests : pc[p] \in Joined /\ tok[p] = b
            BY <2>1, <1>0 DEF Kept
        <3>2. CASE p # r
            BY <3>1, <3>2, <1>a, <1>0 DEF TypeOK
        <3>3. CASE p = r
            BY <3>1, <3>3, <2>3, <1>a, <1>0 DEF TypeOK, Joined
        <3> QED BY <3>2, <3>3
    <2> QED BY <1>1, <1>2, <1>3, <2>4, <2>5, <2>6 DEF IInv
<1> QED BY <1>4, <1>5

LEMMA BoundIInv ==
    ASSUME IInv, LowerBound \/ UNCHANGED vars
    PROVE  IInv'
<1>1. TypeOK'
    BY DEF IInv, TypeOK, LowerBound, vars, Buckets
<1>2. \A b \in Buckets : Holders(b)' = Holders(b)
    BY DEF Holders, LowerBound, vars
<1>3. RefcntCountsTokens'
    BY <1>2, CountsKept DEF IInv, LowerBound, vars
<1> QED
    BY <1>1, <1>3 DEF IInv, LowerBound, vars, BucketsOrdered, SyntheticDiesWithBucket,
        ChoseB2, PastLoop, CasLowers, HasTs, Kept, B1First, b2

LEMMA NextIInv == ASSUME IInv, [Next]_vars PROVE IInv'
BY TrackIInv, JoinIInv, UntrackIInv, BoundIInv DEF Next

\* The inductive invariant holds in every reachable state of the tracker.
THEOREM Inductive == Spec => []IInv
BY InitIInv, NextIInv, PTL DEF Spec

\* Between Track calls (the write lock is free) the two buckets are as the
\* comment of Track says: initialised exactly when not empty, b1 first.
THEOREM QuietBucketsHold == Spec => []QuietBuckets
<1>1. IInv => QuietBuckets
    <2> SUFFICES ASSUME IInv, WriteLockFree PROVE
            (\A b \in Buckets : ts[b] # 0 <=> refcnt[b] > 0) /\ (ts[b2] # 0 => ts[b1] # 0)
        BY DEF QuietBuckets
    <2>1. \A b \in Buckets : ts[b] # 0 <=> refcnt[b] > 0
        BY LastToken
    <2> QED BY <2>1 DEF IInv, B1First
<1> QED BY <1>1, Inductive, PTL

\* Concurrent Track calls never invert the buckets.
THEOREM BucketsOrderedHolds == Spec => []BucketsOrdered
<1>1. IInv => BucketsOrdered  BY DEF IInv
<1> QED BY <1>1, Inductive, PTL

\* Every variable of the tracker stays in its range.
THEOREM TypeCorrect == Spec => []TypeOK
<1>1. IInv => TypeOK  BY DEF IInv
<1> QED BY <1>1, Inductive, PTL

\* A reference count is exactly the number of outstanding tokens.
THEOREM RefcntHolds == Spec => []RefcntCountsTokens
<1>1. IInv => RefcntCountsTokens  BY DEF IInv
<1> QED BY <1>1, Inductive, PTL

\* A tracked timestamp is never below the timestamp of its bucket.
THEOREM TokensAboveBucketHolds == Spec => []TokensAboveBucket
<1>1. IInv => TokensAboveBucket  BY DEF IInv, PastLoop, Joined, TokensAboveBucket
<1> QED BY <1>1, Inductive, PTL

\* A synthetic flag does not outlive its bucket.
THEOREM SyntheticHolds == Spec => []SyntheticDiesWithBucket
<1>1. IInv => SyntheticDiesWithBucket  BY DEF IInv
<1> QED BY <1>1, Inductive, PTL

\* What LowerBound reads is a legal bound of the tracked set.
LEMMA BoundLegal ==
    ASSUME IInv, WriteLockFree
    PROVE  /\ ts[b1] \in Abs!Timestamps \cup {0}
           /\ Abs!LegalBound([r \in Requests |-> IF pc[r] = "tracked" THEN wts[r] ELSE 0],
                             ts[b1])
<1> DEFINE set == [r \in Requests |-> IF pc[r] = "tracked" THEN wts[r] ELSE 0]
<1>1. ts[b1] \in 0..MaxTs /\ b1 \in Buckets /\ b2 \in Buckets /\ b2 # b1
    BY DEF IInv, TypeOK, Buckets, b2
<1>2. \A r \in Requests : pc[r] = "tracked" =>
          /\ wts[r] \in Timestamps /\ ts[tok[r]] # 0 /\ ts[tok[r]] <= wts[r]
          /\ tok[r] \in Buckets
    BY DEF IInv, PastLoop, HasTs, Joined, TypeOK
<1>3. \A r \in Requests : pc[r] = "tracked" => ts[b1] # 0 /\ ts[b1] <= wts[r]
    BY <1>1, <1>2, MaxTsAssumption
       DEF IInv, BucketsOrdered, B1First, b2, Buckets, TypeOK, Timestamps
<1>4. ASSUME \A r \in Requests : set[r] = 0
      PROVE  ts[b1] = 0
    <2>1. \A r \in Requests : pc[r] # "tracked"
        BY <1>2, <1>4 DEF Timestamps
    <2>2. Holders(b1) = {}
        BY <2>1 DEF Holders
    <2> QED BY <2>2, <1>1, LastToken
<1>5. ASSUME NEW r \in Requests, set[r] # 0
      PROVE  ts[b1] \in Timestamps /\ ts[b1] <= set[r]
    BY <1>1, <1>3, <1>5, MaxTsAssumption DEF Timestamps
<1> HIDE DEF set
<1>6. Abs!LegalBound(set, ts[b1])
    BY <1>4, <1>5 DEF Abs!LegalBound, Abs!Timestamps, Timestamps
<1> QED
    BY <1>1, <1>6, MaxTsAssumption DEF set, Abs!Timestamps

\* Every step of the detailed tracker is a step of the interface or changes
\* nothing the interface can see.
LEMMA StepRefines ==
    ASSUME IInv, [Next]_vars
    PROVE  [Abs!Next]_(Abs!vars)
<1> DEFINE set == [q \in Requests |-> IF pc[q] = "tracked" THEN wts[q] ELSE 0]
<1> USE DEF IInv, TypeOK
<1>1. ASSUME NEW r \in Requests, NEW w \in Timestamps, NEW s \in {0, 1}, TrackCall(r, w, s)
      PROVE  set' = set /\ bound' = bound
    BY <1>1 DEF TrackCall
<1>2. ASSUME NEW r \in Requests,
             ChooseBucket(r) \/ LoadBucket(r) \/ CasBucket(r) \/ MarkSynthetic(r)
      PROVE  set' = set /\ bound' = bound
    BY <1>2 DEF ChooseBucket, LoadBucket, CasBucket, MarkSynthetic
<1>3. ASSUME NEW r \in Requests, JoinBucket(r)
      PROVE  \E ts1 \in Abs!Timestamps : Abs!Track(r, ts1)
    <2>1. wts[r] \in Timestamps
        BY <1>3 DEF JoinBucket, HasTs
    <2>2. set[r] = 0 /\ set' = [set EXCEPT ![r] = wts[r]] /\ bound' = bound
        BY <1>3 DEF JoinBucket
    <2> QED BY <2>1, <2>2 DEF Abs!Track, Abs!Timestamps, Timestamps
<1>4. ASSUME NEW r \in Requests, Untrack(r)
      PROVE  Abs!Untrack(r)
    <2>1. wts[r] \in Timestamps
        BY <1>4 DEF Untrack, HasTs
    <2>2. pc[r] = "tracked" /\ pc' = [pc EXCEPT ![r] = "idle"]
          /\ wts' = [wts EXCEPT ![r] = 0] /\ bound' = bound
        BY <1>4 DEF Untrack
    <2>3. set[r] # 0
        BY <2>1, <2>2 DEF Timestamps
    <2>4. pc'[r] # "tracked" /\ \A q \in Requests \ {r} : pc'[q] = pc[q] /\ wts'[q] = wts[q]
        BY <2>2
    <2>5. set' = [set EXCEPT ![r] = 0]
        BY <2>4
    <2> QED BY <2>2, <2>3, <2>5 DEF Abs!Untrack
<1>5. ASSUME LowerBound PROVE Abs!LowerBound
    <2>1. WriteLockFree /\ bound' = ts[b1] /\ set' = set
        BY <1>5 DEF LowerBound
    <2> QED BY <2>1, BoundLegal DEF Abs!LowerBound
<1>6. ASSUME UNCHANGED vars PROVE set' = set /\ bound' = bound
    BY <1>6 DEF vars
<1> QED
    BY <1>1, <1>2, <1>3, <1>4, <1>5, <1>6 DEF Next, Abs!Next, Abs!vars

\* The lock-free tracker implements the Tracker interface: whatever Track calls
\* interleave, LowerBound returns a bound no tracked request is below, and an
\* empty bound only for an empty set.
THEOREM Refinement == Spec => ImplementsTracker
<1>1. Init => Abs!Init
    BY DEF Init, Abs!Init
<1>2. IInv /\ [Next]_vars => [Abs!Next]_(Abs!vars)
    BY StepRefines
<1> QED BY <1>1, <1>2, Inductive, PTL DEF Spec, Abs!Spec, ImplementsTracker
==============================================================================
