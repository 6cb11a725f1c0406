--------------------------- MODULE LatchesProofs ---------------------------
(***************************************************************************)
(* Latches isolate requests and never deadlock, whatever the requests and  *)
(* the spans they declare.  Of two requests that conflict, the one that    *)
(* was sequenced later has the other's latch in its snapshot: that is what *)
(* isolates them, and, since nobody has a later request in its snapshot,   *)
(* it is also why there are no cycles.  The signal they wait on loses no   *)
(* wake-up and gives none early.                                           *)
(***************************************************************************)
EXTENDS Latches, LatchSignal, TLAPS

LatchOf(r, s) == [req |-> r, span |-> s]

\* The latches of a request are there from its sequencing until it removes them;
\* the lock-free part of Release only comes in between.
LatchesPresent ==
    \A r \in Req \ OnlyWait :
        pc[r] \in {"optimistic", "waiting", "holding", "releasing", "removing"}
            => \A s \in Spans[r] : LatchOf(r, s) \in readSet \cup tree
\* Nobody knows a request that is not sequenced yet.
OnlySequenced ==
    /\ \A l \in readSet \cup tree : pc[l.req] # "new"
    /\ \A r \in Req : \A l \in snap[r] : pc[l.req] # "new"
WaitForOnlyWaits == \A r \in OnlyWait : pc[r] \in {"new", "waiting", "gone"}
DoneIsOver == \A r \in done : pc[r] \in {"removing", "gone"}
ReadsAll == \A r \in Req : pc[r] \in {"new", "optimistic", "waiting"} => read[r] = Spans[r]

\* Of two requests that conflict and hold latches or want to, one has the other's
\* latch in its snapshot and still has to wait for it, or to check it.
Behind(r, q, t) == pc[r] \in {"optimistic", "waiting"} /\ LatchOf(q, t) \in snap[r]
Ordered ==
    \A r, q \in Req \ OnlyWait :
        /\ r # q
        /\ pc[r] \in {"optimistic", "waiting", "holding"}
        /\ pc[q] \in {"optimistic", "waiting", "holding"}
        => \A s \in read[r], t \in read[q] :
                Conflict(s, t) => Behind(r, q, t) \/ Behind(q, r, s)

\* What an optimistic request met has had its latches, and is in its snapshot if
\* they conflict.
MetHeld ==
    \A r \in Req : \A q \in met[r] : q \notin OnlyWait /\ pc[q] \in {"holding", "releasing", "removing", "gone"}
MetFits(r) ==
    /\ pc[r] \in {"new", "waiting"} => met[r] = {}
    /\ pc[r] = "optimistic" => \A q \in met[r] : \A s \in Spans[r], t \in read[q] :
            Conflict(s, t) => LatchOf(q, t) \in snap[r]
    /\ pc[r] = "holding" => \A q \in met[r] : \A s \in read[r], t \in read[q] : ~ Conflict(s, t)
MetInSnapshot == \A r \in Optimistic : MetFits(r)

\* Who waits for a request has one of its latches in its snapshot; and no set of
\* requests is such that each of them has another one in its snapshot.
WaitsForSnapshot ==
    \A r \in Req : on[r] # NoReq => pc[r] = "waiting" /\ \E l \in snap[r] : l.req = on[r]
NoCycle ==
    \A S \in SUBSET Req : S # {} => \E r \in S : \A l \in snap[r] : l.req \notin S

IInv ==
    /\ TypeOK /\ LatchesPresent /\ OnlySequenced /\ WaitForOnlyWaits /\ DoneIsOver /\ ReadsAll
    /\ Ordered /\ MetHeld /\ MetInSnapshot
    /\ WaitsForSnapshot /\ NoCycle

-----------------------------------------------------------------------------
(* Latches, conflicts and snapshots.                                       *)

LEMMA OwnLatches ==
    ASSUME NEW r \in Req, NEW l
    PROVE l \in Latch(r) <=> \E s \in Spans[r] : l = LatchOf(r, s)
  BY DEF Latch, LatchOf

LEMMA LatchFacts ==
    ASSUME NEW l \in AllLatches
    PROVE /\ l.req \in Req /\ l.span \in Spans[l.req] /\ l.span \in Span
          /\ l = LatchOf(l.req, l.span)
  <1>1. PICK r \in Req : l \in Latch(r)
    BY DEF AllLatches
  <1>2. PICK s \in Spans[r] : l = LatchOf(r, s)
    BY <1>1, OwnLatches
  <1>3. l.req = r /\ l.span = s
    BY <1>2 DEF LatchOf
  <1>4. s \in Span
    BY LatchesAssumption
  <1> QED
    BY <1>2, <1>3, <1>4

LEMMA LatchIn ==
    ASSUME NEW r \in Req, NEW s \in Spans[r]
    PROVE /\ LatchOf(r, s) \in Latch(r) /\ LatchOf(r, s) \in AllLatches
          /\ LatchOf(r, s).req = r /\ LatchOf(r, s).span = s
  BY OwnLatches DEF LatchOf, AllLatches

LEMMA ConflictSymmetric ==
    ASSUME NEW s \in Span, NEW t \in Span
    PROVE Conflict(s, t) <=> Conflict(t, s)
  BY DEF Conflict, Overlap, Ignore, Span

\* What the latches call a conflict is what disturbs.
LEMMA DisturbsConflicts ==
    ASSUME NEW s \in Span, NEW t \in Span, Disturbs(s, t)
    PROVE Conflict(s, t)
  BY DEF Conflict, Overlap, Ignore, Span, Disturbs

LEMMA SnapshotKnown ==
    ASSUME NEW r \in Req, NEW l \in Snapshot(r)
    PROVE l \in readSet \cup tree
  BY DEF Snapshot, Flushed

\* A snapshot has every latch there is that r conflicts with.
LEMMA SnapshotCatches ==
    ASSUME TypeOK, NEW r \in Req, NEW q \in Req, NEW s \in Spans[r], NEW t \in Spans[q],
           LatchOf(q, t) \in readSet \cup tree, Conflict(s, t)
    PROVE LatchOf(q, t) \in Snapshot(r)
  <1> DEFINE l == LatchOf(q, t)
  <1>1. l.span = t
    BY LatchIn
  <1>2. s \in Span /\ t \in Span
    BY LatchesAssumption
  <1>3. s.scope = t.scope
    BY DEF Conflict, Overlap
  <1>4. CASE t.write
    <2>1. l \in tree
      BY <1>1, <1>4 DEF TypeOK
    <2>2. Reading(r, t.scope) \/ Writing(r, t.scope)
      BY <1>3 DEF Reading, Writing
    <2> QED
      BY <1>1, <1>4, <2>1, <2>2 DEF Snapshot
  <1>5. CASE ~ t.write
    <2>1. s.write
      BY <1>5, <1>2 DEF Conflict, Ignore, Span
    <2>2. Writing(r, t.scope)
      BY <1>3, <2>1 DEF Writing
    <2>3. l \in tree \cup Flushed(r)
      BY <1>1, <2>2 DEF Flushed
    <2> QED
      BY <1>1, <1>5, <2>2, <2>3 DEF Snapshot
  <1> QED
    BY <1>4, <1>5

\* A cycle is not closed by snapshots that lose latches.
LEMMA FewerLatches ==
    ASSUME NoCycle, \A r \in Req : snap'[r] \subseteq snap[r]
    PROVE NoCycle'
  BY DEF NoCycle

-----------------------------------------------------------------------------
(* Every action preserves the invariant.                                   *)

LEMMA InitInv == Init => IInv
  <1> SUFFICES ASSUME Init PROVE IInv
    OBVIOUS
  <1> USE LatchesAssumption DEF Init
  <1>1. TypeOK
    BY DEF TypeOK
  <1>2. LatchesPresent /\ OnlySequenced /\ WaitForOnlyWaits /\ DoneIsOver /\ ReadsAll
    BY DEF LatchesPresent, OnlySequenced, WaitForOnlyWaits, DoneIsOver, ReadsAll
  <1>3. Ordered /\ MetHeld /\ MetInSnapshot
    BY DEF Ordered, MetHeld, MetInSnapshot, MetFits
  <1>4. WaitsForSnapshot /\ NoCycle
    BY DEF WaitsForSnapshot, NoCycle
  <1> QED
    BY <1>1, <1>2, <1>3, <1>4 DEF IInv

\* Sequence and WaitFor: r, which nobody knows yet, takes its snapshot.
LEMMA SnapshotKeepsNoCycle ==
    ASSUME IInv, NEW r \in Req, pc[r] = "new", snap' = [snap EXCEPT ![r] = Snapshot(r)]
    PROVE NoCycle'
  <1> USE DEF IInv
  <1>1. SUFFICES ASSUME NEW S \in SUBSET Req, S # {},
                        \A q \in S : \E l \in snap'[q] : l.req \in S
                 PROVE FALSE
    BY DEF NoCycle
  <1>2. \A q \in Req : q # r => snap'[q] = snap[q]
    BY DEF TypeOK
  <1>3. snap'[r] = Snapshot(r)
    BY DEF TypeOK
  <1>4. \A q \in S \ {r} : \E l \in snap[q] : l.req \in S \ {r}
    BY <1>1, <1>2 DEF OnlySequenced
  <1>5. S \ {r} = {}
    BY <1>4 DEF NoCycle
  <1>6. PICK l \in Snapshot(r) : l.req = r
    BY <1>1, <1>3, <1>5
  <1> QED
    BY <1>6, SnapshotKnown DEF OnlySequenced

LEMMA SequenceInv == ASSUME IInv, NEW r \in Req, Sequence(r) PROVE IInv'
  <1> USE LatchesAssumption DEF IInv
  <1>0. /\ pc[r] = "new" /\ r \notin OnlyWait
        /\ pc' = [pc EXCEPT ![r] = IF r \in Optimistic THEN "optimistic" ELSE "waiting"]
        /\ snap' = [snap EXCEPT ![r] = Snapshot(r)]
        /\ UNCHANGED <<done, poison, on, seen, read>>
    BY DEF Sequence, signals
  <1>a. readSet' \cup tree' = readSet \cup tree \cup Latch(r)
    BY DEF Sequence, Flushed, Listed
  <1>b. Snapshot(r) \subseteq readSet \cup tree /\ Latch(r) \subseteq AllLatches
    BY SnapshotKnown DEF AllLatches
  <1>1. TypeOK'
    <2>1. readSet' \subseteq AllLatches /\ tree' \subseteq AllLatches
      BY <1>a, <1>b DEF TypeOK
    <2>2. \A l \in readSet' : ~ l.span.write
      BY DEF TypeOK, Sequence, Listed
    <2>3. snap' \in [Req -> SUBSET AllLatches]
      BY <1>0, <1>b DEF TypeOK
    <2>4. met' \in [Req -> SUBSET Req]
      BY DEF TypeOK, Sequence
    <2> QED
      BY <1>0, <2>1, <2>2, <2>3, <2>4 DEF TypeOK
  <1>2. LatchesPresent'
    BY <1>0, <1>a, LatchIn DEF LatchesPresent, TypeOK
  <1>3. OnlySequenced'
    <2>1. \A l \in Latch(r) : l.req = r
      BY OwnLatches DEF LatchOf
    <2>2. pc'[r] # "new" /\ \A q \in Req : q # r => pc'[q] = pc[q]
      BY <1>0 DEF TypeOK
    <2>3. \A l \in readSet \cup tree : pc'[l.req] # "new"
      BY <2>2, LatchFacts DEF TypeOK, OnlySequenced
    <2>4. \A q \in Req : \A l \in snap[q] : pc'[l.req] # "new"
      BY <2>2, LatchFacts DEF TypeOK, OnlySequenced
    <2>5. \A q \in Req : \A l \in snap'[q] : l \in snap[q] \/ l \in readSet \cup tree
      BY <1>0, <1>b DEF TypeOK
    <2> QED
      BY <1>a, <2>1, <2>2, <2>3, <2>4, <2>5 DEF OnlySequenced
  <1>4. WaitForOnlyWaits' /\ DoneIsOver' /\ ReadsAll'
    BY <1>0 DEF WaitForOnlyWaits, DoneIsOver, ReadsAll, TypeOK
  <1>5. Ordered'
    <2>1. \A q \in Req \ OnlyWait : q # r /\ pc[q] \in {"optimistic", "waiting", "holding"}
             => \A s \in read[r], t \in read[q] : Conflict(s, t) => Behind(r, q, t)'
      <3>1. SUFFICES ASSUME NEW q \in Req \ OnlyWait, q # r, pc[q] \in {"optimistic", "waiting", "holding"},
                            NEW s \in read[r], NEW t \in read[q], Conflict(s, t)
                     PROVE Behind(r, q, t)'
        OBVIOUS
      <3>2. s \in Spans[r] /\ t \in Spans[q]
        BY DEF TypeOK
      <3>3. LatchOf(q, t) \in Snapshot(r)
        BY <3>1, <3>2, SnapshotCatches DEF LatchesPresent
      <3> QED
        BY <1>0, <3>3 DEF Behind, TypeOK
    <2>2. \A q, p \in Req \ {r} : \A t : Behind(q, p, t) => Behind(q, p, t)'
      BY <1>0 DEF Behind, TypeOK
    <2>3. \A q \in Req \ {r} : pc'[q] = pc[q]
      BY <1>0 DEF TypeOK
    <2>4. \A q \in Req : \A s \in read[q] : s \in Span
      BY DEF TypeOK
    <2> QED
      BY <1>0, <2>1, <2>2, <2>3, <2>4, ConflictSymmetric DEF Ordered
  <1>6. MetHeld'
    BY <1>0 DEF MetHeld, Sequence, TypeOK, Holds, WaitForOnlyWaits
  <1>7. MetInSnapshot'
    <2>1. ASSUME r \in Optimistic, NEW q \in met'[r], NEW s \in Spans[r], NEW t \in read[q], Conflict(s, t)
          PROVE LatchOf(q, t) \in snap'[r]
      <3>1. q \in Req /\ pc[q] = "holding" /\ q \notin OnlyWait
        BY DEF Sequence, Holds, TypeOK, WaitForOnlyWaits
      <3>2. t \in Spans[q]
        BY <3>1 DEF TypeOK
      <3>3. LatchOf(q, t) \in Snapshot(r)
        BY <2>1, <3>1, <3>2, SnapshotCatches DEF LatchesPresent
      <3> QED
        BY <1>0, <3>3 DEF TypeOK
    <2>2. r \in Optimistic => pc'[r] = "optimistic"
      BY <1>0 DEF TypeOK
    <2>3. \A q \in Req \ {r} : pc'[q] = pc[q] /\ snap'[q] = snap[q] /\ met'[q] = met[q]
      BY <1>0 DEF TypeOK, Sequence
    <2> QED
      BY <1>0, <2>1, <2>2, <2>3 DEF MetInSnapshot, MetFits
  <1>8. WaitsForSnapshot'
    BY <1>0 DEF WaitsForSnapshot, TypeOK
  <1>9. NoCycle'
    BY <1>0, SnapshotKeepsNoCycle
  <1> QED
    BY <1>1, <1>2, <1>3, <1>4, <1>5, <1>6, <1>7, <1>8, <1>9

LEMMA WaitForInv == ASSUME IInv, NEW r \in Req, WaitFor(r) PROVE IInv'
  <1> USE LatchesAssumption DEF IInv
  <1>0. /\ pc[r] = "new" /\ r \in OnlyWait /\ r \notin Optimistic
        /\ pc' = [pc EXCEPT ![r] = "waiting"]
        /\ snap' = [snap EXCEPT ![r] = Snapshot(r)]
        /\ UNCHANGED <<done, poison, on, seen, read, met>>
    BY DEF WaitFor, signals
  <1>a. readSet' \cup tree' = readSet \cup tree /\ readSet' \subseteq readSet
    BY DEF WaitFor, Flushed
  <1>b. Snapshot(r) \subseteq readSet \cup tree
    BY SnapshotKnown
  <1>1. TypeOK'
    <2>1. snap' \in [Req -> SUBSET AllLatches]
      BY <1>0, <1>b DEF TypeOK
    <2> QED
      BY <1>0, <1>a, <2>1 DEF TypeOK
  <1>2. LatchesPresent'
    BY <1>0, <1>a DEF LatchesPresent, TypeOK
  <1>3. OnlySequenced'
    <2>1. pc'[r] # "new" /\ \A q \in Req : q # r => pc'[q] = pc[q]
      BY <1>0 DEF TypeOK
    <2>2. \A l \in readSet \cup tree : pc'[l.req] # "new"
      BY <2>1, LatchFacts DEF TypeOK, OnlySequenced
    <2>3. \A q \in Req : \A l \in snap[q] : pc'[l.req] # "new"
      BY <2>1, LatchFacts DEF TypeOK, OnlySequenced
    <2>4. \A q \in Req : \A l \in snap'[q] : l \in snap[q] \/ l \in readSet \cup tree
      BY <1>0, <1>b DEF TypeOK
    <2> QED
      BY <1>a, <2>1, <2>2, <2>3, <2>4 DEF OnlySequenced
  <1>4. WaitForOnlyWaits' /\ DoneIsOver' /\ ReadsAll'
    BY <1>0 DEF WaitForOnlyWaits, DoneIsOver, ReadsAll, TypeOK
  <1>5. Ordered'
    BY <1>0 DEF Ordered, Behind, TypeOK
  <1>6. MetHeld' /\ MetInSnapshot'
    BY <1>0 DEF MetHeld, MetInSnapshot, MetFits, TypeOK
  <1>7. WaitsForSnapshot'
    BY <1>0 DEF WaitsForSnapshot, TypeOK
  <1>8. NoCycle'
    BY <1>0, SnapshotKeepsNoCycle
  <1> QED
    BY <1>1, <1>2, <1>3, <1>4, <1>5, <1>6, <1>7, <1>8

\* Whoever has its latches now, having checked or waited for the spans S, was not
\* behind anybody in what it goes on to use: those it conflicts with are behind it.
LEMMA AcquiredAhead ==
    ASSUME IInv, NEW r \in Req \ OnlyWait, NEW S \in SUBSET Spans[r],
           pc[r] \in {"optimistic", "waiting"},
           \A l \in InTheWay(r, S) : l.req \in done,
           NEW q \in Req \ OnlyWait, q # r, pc[q] \in {"optimistic", "waiting", "holding"},
           NEW s \in S, NEW t \in read[q], Conflict(s, t)
    PROVE Behind(q, r, s)
  <1> USE LatchesAssumption DEF IInv
  <1>1. t \in Spans[q] /\ s \in read[r]
    BY DEF TypeOK, ReadsAll
  <1>2. q \notin done
    BY DEF DoneIsOver
  <1>3. LatchOf(q, t) \notin snap[r]
    BY <1>1, <1>2, LatchIn DEF InTheWay
  <1> QED
    BY <1>1, <1>3 DEF Ordered, Behind

LEMMA CheckOptimisticInv ==
    ASSUME IInv, NEW r \in Req, NEW S \in SUBSET Spans[r], CheckOptimistic(r, S) PROVE IInv'
  <1> USE LatchesAssumption DEF IInv
  <1>0. /\ pc[r] = "optimistic" /\ r \notin OnlyWait
        /\ UNCHANGED <<readSet, tree, done, poison, snap, on, seen>>
    BY DEF CheckOptimistic, trees, signals, WaitForOnlyWaits
  <1>1. CASE /\ InTheWay(r, S) = {} /\ pc' = [pc EXCEPT ![r] = "holding"]
             /\ read' = [read EXCEPT ![r] = S] /\ met' = MetBy(r)
    <2>a. pc'[r] = "holding" /\ read'[r] = S
      BY <1>1 DEF TypeOK
    <2>b. \A q \in Req \ {r} : pc'[q] = pc[q] /\ read'[q] = read[q]
      BY <1>1 DEF TypeOK
    <2>c. /\ \A q \in Req : met'[q] = met[q] \/ (pc[q] = "optimistic" /\ q # r /\ met'[q] = met[q] \cup {r})
          /\ met'[r] = met[r]
      BY <1>1 DEF MetBy
    <2>d. \A q \in Req : \A t \in read[q] : t \in Span
      BY DEF TypeOK
    <2>1. TypeOK'
      <3>1. read' \in [Req -> SUBSET Span] /\ \A q \in Req : read'[q] \subseteq Spans[q]
        BY <1>1 DEF TypeOK
      <3>2. met' \in [Req -> SUBSET Req]
        BY <1>1 DEF TypeOK, MetBy
      <3> QED
        BY <1>0, <1>1, <3>1, <3>2 DEF TypeOK
    <2>2. LatchesPresent' /\ WaitForOnlyWaits' /\ DoneIsOver' /\ ReadsAll'
      BY <1>0, <2>a, <2>b DEF LatchesPresent, WaitForOnlyWaits, DoneIsOver, ReadsAll, TypeOK
    <2>3. OnlySequenced'
      BY <1>0, <1>1 DEF OnlySequenced, TypeOK
    <2>4. Ordered'
      <3>1. \A q \in Req \ OnlyWait : q # r /\ pc[q] \in {"optimistic", "waiting", "holding"}
               => \A s \in S, t \in read[q] : Conflict(s, t) => Behind(q, r, s)'
        BY <1>0, <1>1, <2>b, AcquiredAhead DEF Behind
      <3>2. \A q, p \in Req \ {r} : \A t : Behind(q, p, t) => Behind(q, p, t)'
        BY <1>0, <2>b DEF Behind
      <3>3. \A q \in Req : \A s \in S, t \in read[q] : Conflict(s, t) <=> Conflict(t, s)
        BY <2>d, ConflictSymmetric
      <3> QED
        BY <1>0, <2>a, <2>b, <3>1, <3>2, <3>3 DEF Ordered
    <2>5. MetHeld'
      BY <1>0, <2>a, <2>b, <2>c DEF MetHeld, TypeOK
    <2>6. MetInSnapshot'
      <3>1. r \in Optimistic => \A q \in met[r] : \A s \in S, t \in read[q] : ~ Conflict(s, t)
        <4>1. SUFFICES ASSUME r \in Optimistic, NEW q \in met[r], NEW s \in S, NEW t \in read[q], Conflict(s, t)
                       PROVE FALSE
          OBVIOUS
        <4>2. q \in Req /\ t \in Spans[q]
          BY DEF TypeOK
        <4>3. LatchOf(q, t) \in snap[r]
          BY <1>0, <4>1 DEF MetInSnapshot, MetFits
        <4> QED
          BY <1>1, <4>1, <4>2, <4>3, LatchIn DEF InTheWay
      <3>2. ASSUME NEW q \in Req \ OnlyWait, q # r, pc[q] = "optimistic",
                   NEW s \in Spans[q], NEW t \in S, Conflict(s, t)
            PROVE LatchOf(r, t) \in snap[q]
        <4>1. Conflict(t, s)
          BY <3>2, ConflictSymmetric
        <4> QED
          BY <1>0, <1>1, <3>2, <4>1, AcquiredAhead DEF Behind, ReadsAll
      <3>3. r \notin met[r]
        BY <1>0 DEF MetHeld
      <3>4. \A q \in Req : r \notin met[q]
        BY <1>0 DEF MetHeld
      <3>5. \A q \in Req : \A p \in met[q] : p \in Req /\ p # r /\ read'[p] = read[p]
        BY <2>b, <3>4 DEF TypeOK
      <3>6. ASSUME NEW q \in Optimistic, q # r PROVE MetFits(q)'
        <4>1. q \in Req /\ pc'[q] = pc[q] /\ read'[q] = read[q]
          BY <2>b, <3>6
        <4>2. CASE met'[q] = met[q]
          BY <1>0, <3>5, <4>1, <4>2 DEF MetInSnapshot, MetFits
        <4>3. CASE pc[q] = "optimistic" /\ met'[q] = met[q] \cup {r}
          <5>1. q \notin OnlyWait
            OBVIOUS
          <5>2. \A p \in met[q] : \A s \in Spans[q], t \in read'[p] : Conflict(s, t) => LatchOf(p, t) \in snap[q]
            BY <3>5, <4>3 DEF MetInSnapshot, MetFits
          <5>3. \A s \in Spans[q], t \in read'[r] : Conflict(s, t) => LatchOf(r, t) \in snap[q]
            BY <2>a, <3>2, <3>6, <4>3, <5>1
          <5> QED
            BY <1>0, <4>1, <4>3, <5>2, <5>3 DEF MetFits
        <4> QED
          BY <2>c, <4>1, <4>2, <4>3
      <3>7. r \in Optimistic => MetFits(r)'
        BY <2>a, <2>c, <3>1, <3>5 DEF MetFits
      <3> QED
        BY <3>6, <3>7 DEF MetInSnapshot, MetFits
    <2>7. WaitsForSnapshot'
      BY <1>0, <2>a, <2>b DEF WaitsForSnapshot
    <2>8. NoCycle'
      BY <1>0, FewerLatches
    <2> QED
      BY <2>1, <2>2, <2>3, <2>4, <2>5, <2>6, <2>7, <2>8
  <1>2. CASE /\ pc' = [pc EXCEPT ![r] = "waiting"]
             /\ met' = [met EXCEPT ![r] = {}] /\ read' = read
    <2>1. TypeOK'
      BY <1>0, <1>2 DEF TypeOK
    <2>2. LatchesPresent' /\ OnlySequenced' /\ WaitForOnlyWaits' /\ DoneIsOver' /\ ReadsAll'
      BY <1>0, <1>2 DEF LatchesPresent, OnlySequenced, WaitForOnlyWaits, DoneIsOver, ReadsAll, TypeOK
    <2>3. Ordered'
      BY <1>0, <1>2 DEF Ordered, Behind, TypeOK
    <2>4. MetHeld' /\ MetInSnapshot'
      BY <1>0, <1>2 DEF MetHeld, MetInSnapshot, MetFits, TypeOK
    <2>5. WaitsForSnapshot' /\ NoCycle'
      BY <1>0, <1>2, FewerLatches DEF WaitsForSnapshot, TypeOK
    <2> QED
      BY <2>1, <2>2, <2>3, <2>4, <2>5
  <1> QED
    BY <1>1, <1>2 DEF CheckOptimistic, Blocking

\* Steps of a request that leave the latches and snapshots as they are.
LEMMA PickInv ==
    ASSUME IInv, NEW r \in Req, NEW l \in InTheWay(r, Spans[r]), Pick(r, l) PROVE IInv'
  <1> USE LatchesAssumption DEF IInv
  <1>0. /\ pc[r] = "waiting" /\ on' = [on EXCEPT ![r] = l.req]
        /\ seen' = [seen EXCEPT ![r] = FALSE]
        /\ UNCHANGED <<pc, readSet, tree, done, poison, snap, read, met>>
    BY DEF Pick, trees, signals
  <1>1. l \in snap[r] /\ l.req \in Req
    BY LatchFacts DEF InTheWay, TypeOK
  <1>2. TypeOK'
    BY <1>0, <1>1 DEF TypeOK
  <1>3. LatchesPresent' /\ OnlySequenced' /\ WaitForOnlyWaits' /\ DoneIsOver' /\ ReadsAll'
    BY <1>0 DEF LatchesPresent, OnlySequenced, WaitForOnlyWaits, DoneIsOver, ReadsAll
  <1>4. Ordered' /\ MetHeld' /\ MetInSnapshot'
    BY <1>0 DEF Ordered, Behind, MetHeld, MetInSnapshot, MetFits
  <1>5. WaitsForSnapshot' /\ NoCycle'
    BY <1>0, <1>1, FewerLatches DEF WaitsForSnapshot, TypeOK
  <1> QED
    BY <1>2, <1>3, <1>4, <1>5

LEMMA AcquiredInv == ASSUME IInv, NEW r \in Req, Acquired(r) PROVE IInv'
  <1> USE LatchesAssumption DEF IInv
  <1>0. /\ pc[r] = "waiting" /\ on[r] = NoReq
        /\ \A l \in InTheWay(r, Spans[r]) : l.req \in done
        /\ snap' = [snap EXCEPT ![r] = {}] /\ seen' = [seen EXCEPT ![r] = FALSE]
        /\ UNCHANGED <<readSet, tree, done, poison, on, read>>
    BY DEF Acquired, trees, signals
  <1>a. \A q \in Req \ {r} : pc'[q] = pc[q] /\ snap'[q] = snap[q]
    BY <1>0 DEF Acquired, TypeOK
  <1>b. pc'[r] = IF r \in OnlyWait THEN "gone" ELSE "holding"
    BY DEF Acquired, TypeOK
  <1>c. /\ \A q \in Req : \/ met'[q] = met[q]
                          \/ r \notin OnlyWait /\ pc[q] = "optimistic" /\ met'[q] = met[q] \cup {r}
        /\ met'[r] = met[r]
    BY <1>0 DEF Acquired, MetBy
  <1>1. TypeOK'
    <2>1. met' \in [Req -> SUBSET Req]
      BY DEF Acquired, MetBy, TypeOK
    <2>2. pc' \in [Req -> {"new", "optimistic", "waiting", "holding", "releasing", "removing", "gone"}]
      BY DEF Acquired, TypeOK
    <2>3. snap' \in [Req -> SUBSET AllLatches]
      BY <1>0 DEF TypeOK
    <2> QED
      BY <1>0, <2>1, <2>2, <2>3 DEF TypeOK
  <1>2. LatchesPresent' /\ WaitForOnlyWaits' /\ DoneIsOver' /\ ReadsAll'
    BY <1>0, <1>a, <1>b DEF LatchesPresent, WaitForOnlyWaits, DoneIsOver, ReadsAll, TypeOK
  <1>3. OnlySequenced'
    <2>1. \A q \in Req : pc[q] # "new" => pc'[q] # "new"
      BY <1>a, <1>b
    <2>2. \A q \in Req : \A l \in snap'[q] : l \in snap[q]
      BY <1>0 DEF TypeOK
    <2> QED
      BY <1>0, <2>1, <2>2, LatchFacts DEF OnlySequenced, TypeOK
  <1>4. Ordered'
    <2>1. r \notin OnlyWait => \A q \in Req \ OnlyWait :
              q # r /\ pc[q] \in {"optimistic", "waiting", "holding"}
               => \A s \in Spans[r], t \in read[q] : Conflict(s, t) => Behind(q, r, s)'
      BY <1>0, <1>a, AcquiredAhead DEF Behind
    <2>2. \A q, p \in Req \ {r} : \A t : Behind(q, p, t) => Behind(q, p, t)'
      BY <1>a DEF Behind
    <2>3. \A q \in Req : \A s \in read[r], t \in read[q] : Conflict(s, t) <=> Conflict(t, s)
      BY ConflictSymmetric DEF TypeOK
    <2>4. read[r] = Spans[r]
      BY <1>0 DEF ReadsAll
    <2> QED
      BY <1>0, <1>a, <1>b, <2>1, <2>2, <2>3, <2>4 DEF Ordered
  <1>5. MetHeld'
    BY <1>0, <1>a, <1>b, <1>c DEF MetHeld, TypeOK
  <1>6. MetInSnapshot'
    <2>1. ASSUME NEW q \in Req \ OnlyWait, r \notin OnlyWait, pc[q] = "optimistic",
                 NEW s \in Spans[q], NEW t \in read[r], Conflict(s, t)
          PROVE LatchOf(r, t) \in snap[q]
      <3>1. Conflict(t, s) /\ t \in Spans[r] /\ s \in read[q]
        BY <2>1, ConflictSymmetric DEF TypeOK, ReadsAll
      <3> QED
        BY <1>0, <2>1, <3>1, AcquiredAhead DEF Behind
    <2>2. ASSUME NEW q \in Optimistic, q # r PROVE MetFits(q)'
      <3>1. q \in Req /\ q \notin OnlyWait /\ pc'[q] = pc[q] /\ snap'[q] = snap[q]
        BY <1>a, <2>2
      <3>2. CASE met'[q] = met[q]
        BY <1>0, <3>1, <3>2 DEF MetInSnapshot, MetFits
      <3>3. CASE r \notin OnlyWait /\ pc[q] = "optimistic" /\ met'[q] = met[q] \cup {r}
        BY <1>0, <2>1, <3>1, <3>3 DEF MetInSnapshot, MetFits
      <3> QED
        BY <1>c, <3>1, <3>2, <3>3
    <2>3. r \in Optimistic => MetFits(r)'
      BY <1>0, <1>b, <1>c DEF MetInSnapshot, MetFits
    <2> QED
      BY <2>2, <2>3 DEF MetInSnapshot
  <1>7. WaitsForSnapshot'
    BY <1>0, <1>a, <1>b DEF WaitsForSnapshot
  <1>8. NoCycle'
    BY <1>0, FewerLatches DEF TypeOK
  <1> QED
    BY <1>1, <1>2, <1>3, <1>4, <1>5, <1>6, <1>7, <1>8

\* A request that stops waiting for one latch, fails, is cancelled or finishes.
LEMMA MovesOn ==
    ASSUME IInv, NEW r \in Req, NEW to, NEW n \in {on[r], NoReq},
           \/ to = pc[r]
           \/ to = "releasing" /\ r \notin OnlyWait /\ pc[r] \in {"optimistic", "waiting", "holding"} /\ n = NoReq
           \/ to = "gone" /\ r \in OnlyWait /\ pc[r] = "waiting" /\ n = NoReq,
           pc' = [pc EXCEPT ![r] = to], on' = [on EXCEPT ![r] = n],
           seen' \in [Req -> BOOLEAN], poison' \subseteq Req,
           UNCHANGED <<readSet, tree, done, snap, read, met>>
    PROVE IInv'
  <1> USE LatchesAssumption DEF IInv
  <1>a. pc'[r] = to /\ \A q \in Req \ {r} : pc'[q] = pc[q]
    BY DEF TypeOK
  <1>b. on'[r] = n /\ \A q \in Req \ {r} : on'[q] = on[q]
    BY DEF TypeOK
  <1>1. TypeOK'
    BY DEF TypeOK
  <1>2. LatchesPresent' /\ WaitForOnlyWaits' /\ ReadsAll'
    BY <1>a DEF LatchesPresent, WaitForOnlyWaits, ReadsAll
  <1>3. OnlySequenced' /\ DoneIsOver'
    BY <1>a, LatchFacts DEF OnlySequenced, DoneIsOver, TypeOK
  <1>4. Ordered'
    BY <1>a DEF Ordered, Behind
  <1>5. MetHeld' /\ MetInSnapshot'
    BY <1>a DEF MetHeld, MetInSnapshot, MetFits, TypeOK
  <1>6. WaitsForSnapshot' /\ NoCycle'
    BY <1>a, <1>b, FewerLatches DEF WaitsForSnapshot
  <1> QED
    BY <1>1, <1>2, <1>3, <1>4, <1>5, <1>6

LEMMA WaitingStepInv ==
    ASSUME IInv, NEW r \in Req,
           SeeDone(r) \/ SeePoison(r) \/ CancelWait(r) \/ Finish(r) \/ Poison(r)
    PROVE IInv'
  <1> USE DEF IInv
  <1>0. pc = [pc EXCEPT ![r] = pc[r]] /\ on = [on EXCEPT ![r] = on[r]]
    BY DEF TypeOK
  <1>1. CASE SeeDone(r)
    BY <1>0, <1>1, MovesOn DEF SeeDone, trees, signals, TypeOK
  <1>2. CASE SeePoison(r)
    <2>1. seen' \in [Req -> BOOLEAN] /\ UNCHANGED <<readSet, tree, done, snap, read, met>>
      BY <1>2 DEF SeePoison, trees, TypeOK
    <2>2. CASE Policy[r] = "error" /\ Fail(r) /\ UNCHANGED poison
      BY <1>2, <2>1, <2>2, MovesOn DEF SeePoison, Fail, TypeOK
    <2>3. CASE poison' = poison \cup PoisonPassed(r) /\ UNCHANGED <<pc, on>>
      BY <1>0, <1>2, <2>1, <2>3, MovesOn DEF PoisonPassed, TypeOK
    <2> QED
      BY <1>2, <2>2, <2>3 DEF SeePoison
  <1>3. CASE CancelWait(r)
    BY <1>3, MovesOn DEF CancelWait, Fail, trees, signals, TypeOK
  <1>4. CASE Finish(r)
    <2>1. on[r] = NoReq /\ r \notin OnlyWait
      BY <1>4 DEF Finish, WaitsForSnapshot, WaitForOnlyWaits
    <2> QED
      BY <1>0, <1>4, <2>1, MovesOn DEF Finish, trees, signals, TypeOK
  <1>5. CASE Poison(r)
    BY <1>0, <1>5, MovesOn DEF Poison, trees, TypeOK
  <1> QED
    BY <1>1, <1>2, <1>3, <1>4, <1>5

LEMMA SignalDoneInv == ASSUME IInv, NEW r \in Req, SignalDone(r) PROVE IInv'
  <1> USE LatchesAssumption DEF IInv
  <1>0. /\ pc[r] = "releasing" /\ done' = done \cup {r} /\ pc' = [pc EXCEPT ![r] = "removing"]
        /\ snap' = [snap EXCEPT ![r] = {}] /\ seen' = [seen EXCEPT ![r] = FALSE]
        /\ UNCHANGED <<readSet, tree, poison, on, read, met>>
    BY DEF SignalDone, trees
  <1>a. pc'[r] = "removing" /\ \A q \in Req \ {r} : pc'[q] = pc[q] /\ snap'[q] = snap[q]
    BY <1>0 DEF TypeOK
  <1>b. \A q \in Req : snap'[q] \subseteq snap[q]
    BY <1>0 DEF TypeOK
  <1>1. TypeOK'
    BY <1>0 DEF TypeOK
  <1>2. LatchesPresent' /\ WaitForOnlyWaits' /\ DoneIsOver' /\ ReadsAll'
    BY <1>0, <1>a DEF LatchesPresent, WaitForOnlyWaits, DoneIsOver, ReadsAll, TypeOK
  <1>3. OnlySequenced'
    BY <1>0, <1>a, <1>b, LatchFacts DEF OnlySequenced, TypeOK
  <1>4. Ordered'
    BY <1>0, <1>a DEF Ordered, Behind
  <1>5. MetHeld' /\ MetInSnapshot'
    BY <1>0, <1>a DEF MetHeld, MetInSnapshot, MetFits, TypeOK
  <1>6. WaitsForSnapshot' /\ NoCycle'
    BY <1>0, <1>a, <1>b, FewerLatches DEF WaitsForSnapshot
  <1> QED
    BY <1>1, <1>2, <1>3, <1>4, <1>5, <1>6

LEMMA RemoveLatchesInv == ASSUME IInv, NEW r \in Req, RemoveLatches(r) PROVE IInv'
  <1> USE LatchesAssumption DEF IInv
  <1>0. /\ pc[r] = "removing" /\ pc' = [pc EXCEPT ![r] = "gone"]
        /\ readSet' = readSet \ Latch(r) /\ tree' = tree \ Latch(r)
        /\ met' = [met EXCEPT ![r] = {}]
        /\ UNCHANGED <<done, poison, snap, on, seen, read>>
    BY DEF RemoveLatches, Removed, signals
  <1>a. pc'[r] = "gone" /\ \A q \in Req \ {r} : pc'[q] = pc[q]
    BY <1>0 DEF TypeOK
  <1>1. TypeOK'
    BY <1>0 DEF TypeOK
  <1>2. LatchesPresent'
    <2>1. \A q \in Req \ {r} : \A s \in Spans[q] : LatchOf(q, s) \notin Latch(r)
      BY OwnLatches, LatchIn
    <2> QED
      BY <1>0, <1>a, <2>1 DEF LatchesPresent
  <1>3. WaitForOnlyWaits' /\ DoneIsOver' /\ ReadsAll'
    BY <1>0, <1>a DEF WaitForOnlyWaits, DoneIsOver, ReadsAll, TypeOK
  <1>4. OnlySequenced'
    BY <1>0, <1>a, LatchFacts DEF OnlySequenced, TypeOK
  <1>5. Ordered'
    BY <1>0, <1>a DEF Ordered, Behind
  <1>6. MetHeld' /\ MetInSnapshot'
    BY <1>0, <1>a DEF MetHeld, MetInSnapshot, MetFits, TypeOK
  <1>7. WaitsForSnapshot' /\ NoCycle'
    BY <1>0, <1>a, FewerLatches DEF WaitsForSnapshot
  <1> QED
    BY <1>1, <1>2, <1>3, <1>4, <1>5, <1>6, <1>7

LEMMA NextInv == IInv /\ [Next]_vars => IInv'
  <1> SUFFICES ASSUME IInv, [Next]_vars PROVE IInv'
    OBVIOUS
  <1>1. CASE Next
    <2>1. PICK r \in Req :
            \/ Sequence(r) \/ WaitFor(r) \/ \E S \in SUBSET Spans[r] : CheckOptimistic(r, S)
            \/ WaitStep(r) \/ CancelWait(r)
            \/ Finish(r) \/ Poison(r) \/ SignalDone(r) \/ RemoveLatches(r)
      BY <1>1 DEF Next
    <2>2. CASE WaitStep(r)
      BY <2>2, PickInv, AcquiredInv, WaitingStepInv DEF WaitStep
    <2> QED
      BY <2>1, <2>2, SequenceInv, WaitForInv, CheckOptimisticInv, WaitingStepInv, SignalDoneInv,
         RemoveLatchesInv
  <1>2. CASE UNCHANGED vars
    <2>1. UNCHANGED <<pc, readSet, tree, done, poison, snap, on, seen, read, met>>
      BY <1>2 DEF vars, trees, signals
    <2> QED
      BY <2>1, SMTT(30) DEF IInv, TypeOK, LatchesPresent, OnlySequenced, WaitForOnlyWaits, DoneIsOver, ReadsAll,
         Ordered, Behind, MetHeld, MetInSnapshot, MetFits, WaitsForSnapshot, NoCycle
  <1> QED
    BY <1>1, <1>2

-----------------------------------------------------------------------------
(* What follows.                                                           *)

\* The snapshots and the latches in the trees fit each other in every state.
THEOREM Inductive == Spec => []IInv
  BY InitInv, NextInv, PTL DEF Spec

\* Every variable of the latch manager stays in its range.
THEOREM TypeCorrect == Spec => []TypeOK
  <1>1. IInv => TypeOK
    BY DEF IInv
  <1> QED
    BY <1>1, Inductive, PTL

\* Requests that hold latches at the same time do not disturb each other, for any
\* requests, spans and timestamps (sequence, iterAndWait, CheckOptimisticNoConflicts).
THEOREM IsolationHolds == Spec => []Isolation
  <1>1. IInv => Isolation
    <2>1. SUFFICES ASSUME IInv, NEW r \in Req, NEW q \in Req, r # q, Holds(r), Holds(q),
                          NEW s \in read[r], NEW t \in read[q], Disturbs(s, t)
                   PROVE FALSE
      BY DEF Isolation
    <2>2. Conflict(s, t)
      BY <2>1, DisturbsConflicts DEF IInv, TypeOK
    <2>3. r \notin OnlyWait /\ q \notin OnlyWait
      BY <2>1 DEF IInv, WaitForOnlyWaits, Holds
    <2> QED
      BY <2>1, <2>2, <2>3 DEF IInv, Ordered, Behind, Holds
  <1> QED
    BY <1>1, Inductive, PTL

\* An optimistic request that passed its check met no request that it conflicts
\* with, also if its latches were released before the check.
THEOREM OptimisticAloneHolds == Spec => []OptimisticAlone
  <1>1. IInv => OptimisticAlone
    <2>1. SUFFICES ASSUME IInv, NEW r \in Optimistic, NEW q \in Req, Holds(r), q \in met[r],
                          NEW s \in read[r], NEW t \in read[q], Disturbs(s, t)
                   PROVE FALSE
      BY DEF OptimisticAlone
    <2>2. Conflict(s, t)
      BY <2>1, LatchesAssumption, DisturbsConflicts DEF IInv, TypeOK
    <2> QED
      BY <2>1, <2>2 DEF IInv, MetInSnapshot, MetFits, Holds
  <1> QED
    BY <1>1, Inductive, PTL

\* No set of requests waits for itself, whatever the order in which each of them
\* goes through its snapshot.
THEOREM NoDeadlock == Spec => []NoWaitingInCircles
  <1>1. IInv => NoWaitingInCircles
    <2>1. SUFFICES ASSUME IInv, NEW S \in SUBSET Req, S # {}, \A r \in S : on[r] \in S
                   PROVE FALSE
      BY DEF NoWaitingInCircles
    <2>2. \A r \in S : \E l \in snap[r] : l.req \in S
      BY <2>1, LatchesAssumption DEF IInv, WaitsForSnapshot
    <2> QED
      BY <2>1, <2>2 DEF IInv, NoCycle
  <1> QED
    BY <1>1, Inductive, PTL

-----------------------------------------------------------------------------
(* The signal a latch is waited for with.                                  *)

LEMMA SignalInitInv == ASSUME SignalInit PROVE SignalIInv
  <1> USE SignalAssumption DEF SignalInit, Procs
  <1>1. SignalTypeOK
    BY DEF SignalTypeOK, SignallerPC, WaiterPC
  <1>2. InstallerOwns /\ LoadersAgree
    BY DEF InstallerOwns, LoadersAgree
  <1>3. SomeoneClaims
    BY DEF SomeoneClaims
  <1>4. OneCloser
    <2>1. a = 0 /\ closed = {}
      OBVIOUS
    <2>2. \A p \in Procs : at[p] # "close"
      OBVIOUS
    <2>3. a \in Int /\ a # 2
      BY <2>1
    <2> QED
      BY <2>1, <2>2, <2>3 DEF OneCloser
  <1>5. OneSignaller
    BY DEF OneSignaller
  <1> QED
    BY <1>1, <1>2, <1>3, <1>4, <1>5 DEF SignalIInv

LEMMA SignalSignalInv == ASSUME SignalIInv, NEW s \in Signallers, Signal(s) PROVE SignalIInv'
  <1> USE SignalAssumption DEF Procs, SignalIInv, Signal, Goto, Keep
  <1>1. SignalTypeOK'
    BY DEF SignalTypeOK, SignallerPC, WaiterPC, InstallerOwns, LoadersAgree
  <1> USE <1>1 DEF SignalTypeOK, SignallerPC, WaiterPC
  <1>2. InstallerOwns'
    BY DEF InstallerOwns
  <1>3. LoadersAgree'
    BY DEF LoadersAgree, InstallerOwns
  <1>4. SomeoneClaims'
    BY DEF SomeoneClaims, InstallerOwns, LoadersAgree
  <1>5. OneCloser'
    BY DEF OneCloser, InstallerOwns, LoadersAgree
  <1>6. OneSignaller'
    BY DEF OneSignaller, InstallerOwns, LoadersAgree, OneCloser
  <1> QED
    BY <1>1, <1>2, <1>3, <1>4, <1>5, <1>6

LEMMA SignalLoadChanInv == ASSUME SignalIInv, NEW s \in Signallers, LoadChan(s) PROVE SignalIInv'
  <1> USE SignalAssumption DEF Procs, SignalIInv, LoadChan, AfterLoad, Goto, Keep
  <1>1. SignalTypeOK'
    BY DEF SignalTypeOK, SignallerPC, WaiterPC, InstallerOwns, LoadersAgree
  <1> USE <1>1 DEF SignalTypeOK, SignallerPC, WaiterPC
  <1>2. InstallerOwns'
    BY DEF InstallerOwns
  <1>3. LoadersAgree'
    BY DEF LoadersAgree, InstallerOwns
  <1>4. SomeoneClaims'
    BY DEF SomeoneClaims, InstallerOwns, LoadersAgree
  <1>5. OneCloser'
    BY DEF OneCloser, InstallerOwns, LoadersAgree
  <1>6. OneSignaller'
    BY DEF OneSignaller, InstallerOwns, LoadersAgree, OneCloser
  <1> QED
    BY <1>1, <1>2, <1>3, <1>4, <1>5, <1>6

LEMMA SignalClaimBySignalInv == ASSUME SignalIInv, NEW s \in Signallers, ClaimBySignal(s) PROVE SignalIInv'
  <1> USE SignalAssumption DEF Procs, SignalIInv, ClaimBySignal, Claim, Claimed, Goto, Keep
  <1>1. SignalTypeOK'
    BY DEF SignalTypeOK, SignallerPC, WaiterPC, InstallerOwns, LoadersAgree
  <1> USE <1>1 DEF SignalTypeOK, SignallerPC, WaiterPC
  <1>2. InstallerOwns'
    BY DEF InstallerOwns
  <1>3. LoadersAgree'
    BY DEF LoadersAgree, InstallerOwns
  <1>4. SomeoneClaims'
    BY DEF SomeoneClaims, InstallerOwns, LoadersAgree
  <1>5. OneCloser'
    BY DEF OneCloser, InstallerOwns, LoadersAgree
  <1>6. OneSignaller'
    BY DEF OneSignaller, InstallerOwns, LoadersAgree, OneCloser
  <1> QED
    BY <1>1, <1>2, <1>3, <1>4, <1>5, <1>6

LEMMA SignalCloseInv == ASSUME SignalIInv, NEW p \in Procs, Close(p) PROVE SignalIInv'
  <1> USE SignalAssumption DEF Procs, SignalIInv, Close, Goto, Keep
  <1>1. SignalTypeOK'
    BY DEF SignalTypeOK, SignallerPC, WaiterPC, InstallerOwns, LoadersAgree
  <1> USE <1>1 DEF SignalTypeOK, SignallerPC, WaiterPC
  <1>2. InstallerOwns'
    BY DEF InstallerOwns
  <1>3. LoadersAgree'
    BY DEF LoadersAgree, InstallerOwns
  <1>4. SomeoneClaims'
    BY DEF SomeoneClaims, InstallerOwns, LoadersAgree
  <1>5. OneCloser'
    BY DEF OneCloser, InstallerOwns, LoadersAgree
  <1>6. OneSignaller'
    BY DEF OneSignaller, InstallerOwns, LoadersAgree, OneCloser
  <1> QED
    BY <1>1, <1>2, <1>3, <1>4, <1>5, <1>6

LEMMA SignalCheckInv == ASSUME SignalIInv, NEW s \in Waiters, Check(s) PROVE SignalIInv'
  <1> USE SignalAssumption DEF Procs, SignalIInv, Check, Goto, Keep
  <1>1. SignalTypeOK'
    BY DEF SignalTypeOK, SignallerPC, WaiterPC, InstallerOwns, LoadersAgree
  <1> USE <1>1 DEF SignalTypeOK, SignallerPC, WaiterPC
  <1>2. InstallerOwns'
    BY DEF InstallerOwns
  <1>3. LoadersAgree'
    BY DEF LoadersAgree, InstallerOwns
  <1>4. SomeoneClaims'
    BY DEF SomeoneClaims, InstallerOwns, LoadersAgree
  <1>5. OneCloser'
    BY DEF OneCloser, InstallerOwns, LoadersAgree
  <1>6. OneSignaller'
    BY DEF OneSignaller, InstallerOwns, LoadersAgree, OneCloser
  <1> QED
    BY <1>1, <1>2, <1>3, <1>4, <1>5, <1>6

LEMMA SignalGetInv == ASSUME SignalIInv, NEW s \in Waiters, Get(s) PROVE SignalIInv'
  <1> USE SignalAssumption DEF Procs, SignalIInv, Get, Goto, Keep
  <1>1. SignalTypeOK'
    BY DEF SignalTypeOK, SignallerPC, WaiterPC, InstallerOwns, LoadersAgree
  <1> USE <1>1 DEF SignalTypeOK, SignallerPC, WaiterPC
  <1>2. InstallerOwns'
    BY DEF InstallerOwns
  <1>3. LoadersAgree'
    BY DEF LoadersAgree, InstallerOwns
  <1>4. SomeoneClaims'
    BY DEF SomeoneClaims, InstallerOwns, LoadersAgree
  <1>5. OneCloser'
    BY DEF OneCloser, InstallerOwns, LoadersAgree
  <1>6. OneSignaller'
    BY DEF OneSignaller, InstallerOwns, LoadersAgree, OneCloser
  <1> QED
    BY <1>1, <1>2, <1>3, <1>4, <1>5, <1>6

LEMMA SignalInstallInv == ASSUME SignalIInv, NEW s \in Waiters, Install(s) PROVE SignalIInv'
  <1> USE SignalAssumption DEF Procs, SignalIInv, Install, MayInstall, AfterInstall, Goto, Keep
  <1>1. SignalTypeOK'
    BY DEF SignalTypeOK, SignallerPC, WaiterPC, InstallerOwns, LoadersAgree
  <1> USE <1>1 DEF SignalTypeOK, SignallerPC, WaiterPC
  <1>2. InstallerOwns'
    BY DEF InstallerOwns
  <1>3. LoadersAgree'
    BY DEF LoadersAgree, InstallerOwns
  <1>4. SomeoneClaims'
    BY DEF SomeoneClaims, InstallerOwns, LoadersAgree
  <1>5. OneCloser'
    BY DEF OneCloser, InstallerOwns, LoadersAgree
  <1>6. OneSignaller'
    BY DEF OneSignaller, InstallerOwns, LoadersAgree, OneCloser
  <1> QED
    BY <1>1, <1>2, <1>3, <1>4, <1>5, <1>6

LEMMA SignalRegetInv == ASSUME SignalIInv, NEW s \in Waiters, Reget(s) PROVE SignalIInv'
  <1> USE SignalAssumption DEF Procs, SignalIInv, Reget, Goto, Keep
  <1>1. SignalTypeOK'
    BY DEF SignalTypeOK, SignallerPC, WaiterPC, InstallerOwns, LoadersAgree
  <1> USE <1>1 DEF SignalTypeOK, SignallerPC, WaiterPC
  <1>2. InstallerOwns'
    BY DEF InstallerOwns
  <1>3. LoadersAgree'
    BY DEF LoadersAgree, InstallerOwns
  <1>4. SomeoneClaims'
    BY DEF SomeoneClaims, InstallerOwns, LoadersAgree
  <1>5. OneCloser'
    BY DEF OneCloser, InstallerOwns, LoadersAgree
  <1>6. OneSignaller'
    BY DEF OneSignaller, InstallerOwns, LoadersAgree, OneCloser
  <1> QED
    BY <1>1, <1>2, <1>3, <1>4, <1>5, <1>6

LEMMA SignalClaimByWaiterInv == ASSUME SignalIInv, NEW s \in Waiters, ClaimByWaiter(s) PROVE SignalIInv'
  <1> USE SignalAssumption DEF Procs, SignalIInv, ClaimByWaiter, Claim, Claimed, Goto, Keep
  <1>1. SignalTypeOK'
    BY DEF SignalTypeOK, SignallerPC, WaiterPC, InstallerOwns, LoadersAgree
  <1> USE <1>1 DEF SignalTypeOK, SignallerPC, WaiterPC
  <1>2. InstallerOwns'
    BY DEF InstallerOwns
  <1>3. LoadersAgree'
    BY DEF LoadersAgree, InstallerOwns
  <1>4. SomeoneClaims'
    BY DEF SomeoneClaims, InstallerOwns, LoadersAgree
  <1>5. OneCloser'
    BY DEF OneCloser, InstallerOwns, LoadersAgree
  <1>6. OneSignaller'
    BY DEF OneSignaller, InstallerOwns, LoadersAgree, OneCloser
  <1> QED
    BY <1>1, <1>2, <1>3, <1>4, <1>5, <1>6

LEMMA SignalStutterInv == ASSUME SignalIInv, UNCHANGED signalVars PROVE SignalIInv'
  BY DEF signalVars, SignalIInv, SignalTypeOK, InstallerOwns, LoadersAgree, SomeoneClaims, OneCloser, OneSignaller

\* The invariant is inductive: signalWithChoice and signalChan preserve it, one
\* atomic operation at a time.
THEOREM SignalInductive == SignalSpec => []SignalIInv
  <1>0. SignalInit => SignalIInv
    BY SignalInitInv
  <1>1. SignalIInv /\ [SignalNext]_signalVars => SignalIInv'
    <2> SUFFICES ASSUME SignalIInv, [SignalNext]_signalVars PROVE SignalIInv'
      OBVIOUS
    <2>1. ASSUME NEW s \in Signallers, SignallerStep(s) PROVE SignalIInv'
      BY <2>1, SignalSignalInv, SignalLoadChanInv, SignalClaimBySignalInv, SignalCloseInv DEF SignallerStep, Procs
    <2>2. ASSUME NEW w \in Waiters, WaiterStep(w) PROVE SignalIInv'
      BY <2>2, SignalCheckInv, SignalGetInv, SignalInstallInv, SignalRegetInv, SignalClaimByWaiterInv, SignalCloseInv
      DEF WaiterStep, Procs
    <2>3. CASE UNCHANGED signalVars
      BY <2>3, SignalStutterInv
    <2> QED
      BY <2>1, <2>2, <2>3 DEF SignalNext
  <1> QED
    BY <1>0, <1>1, PTL DEF SignalSpec

\* The atomic word, the pointer and the channels that waiters get are what the
\* code takes them for; in particular only a channel that a waiter made is closed.
THEOREM SignalTypeCorrect == SignalSpec => []SignalTypeOK
  <1>1. SignalIInv => SignalTypeOK
    BY DEF SignalIInv
  <1> QED
    BY <1>1, SignalInductive, PTL

\* No goroutine closes a closed channel or signals twice.
THEOREM SignalNoPanicHolds == SignalSpec => []NoPanic
  <1>1. SignalIInv => NoPanic
    BY DEF SignalIInv, OneSignaller, NoPanic
  <1> QED
    BY <1>1, SignalInductive, PTL

\* All waiters that must wait get the channel the signaller finds.
THEOREM SignalOneChannelHolds == SignalSpec => []OneChannel
  <1>1. SignalIInv => OneChannel
    BY DEF SignalIInv, InstallerOwns, OneChannel
  <1> QED
    BY <1>1, SignalInductive, PTL

\* Nobody is woken before the signal.
THEOREM SignalNoEarlyWakeupHolds == SignalSpec => []NoEarlyWakeup
  <1>1. SignalIInv => NoEarlyWakeup
    BY SignalAssumption DEF SignalIInv, SignalTypeOK, OneSignaller, OneCloser, NoEarlyWakeup, Woken
  <1> QED
    BY <1>1, SignalInductive, PTL

\* After the signal, when nobody is about to close the channel, nobody waits.
THEOREM SignalNoLostWakeupHolds == SignalSpec => []NoLostWakeup
  <1>1. SignalIInv => NoLostWakeup
    <2> SUFFICES ASSUME SignalIInv, a # 0, \A p \in Procs : at[p] \notin {"load", "claim", "close"},
                        NEW w \in Waiters, at[w] = "returned"
                 PROVE  Woken(w)
      BY DEF NoLostWakeup
    <2>1. CASE ptr[w] = closedC
      BY <2>1 DEF Woken
    <2>2. CASE ptr[w] = c /\ c # nil
      <3>1. a = 2
        BY <2>2, SignalAssumption DEF SignalIInv, SignalTypeOK, SomeoneClaims, Procs
      <3>2. c \in closed
        BY <3>1 DEF SignalIInv, OneCloser
      <3> QED
        BY <2>2, <3>2 DEF Woken
    <2> QED
      BY <2>1, <2>2 DEF SignalIInv, InstallerOwns
  <1> QED
    BY <1>1, SignalInductive, PTL
=============================================================================
