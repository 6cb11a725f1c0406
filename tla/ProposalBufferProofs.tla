------------------------ MODULE ProposalBufferProofs ------------------------
(***************************************************************************)
(* The buffer has no holes when it is flushed and loses no proposal, for   *)
(* any number of inserters and any sizes of the array.  A slot that was    *)
(* reserved belongs to one inserter, which has the read lock until it has  *)
(* filled it; and an accepted proposal is in the buffer, in the map, or    *)
(* answered.                                                               *)
(***************************************************************************)
EXTENDS ProposalBuffer, TLAPS

\* Who flushes or resizes excludes those that fill slots, and so does a change of
\* the destroyStatus.
WritersAlone ==
    /\ worker = "refresh" => Readers = {}
    /\ status # "alive" => \A p \in Prop : pc[p] # "holding"
\* Every reserved slot is in the array, empty, and reserved once.
SlotsReserved ==
    /\ \A p \in Prop : pc[p] = "holding" =>
            slot[p] < alloc /\ slot[p] < len /\ arr[slot[p]] = NoProp
    /\ \A p, q \in Prop : pc[p] = "holding" /\ pc[q] = "holding" /\ p # q => slot[p] # slot[q]
\* A slot is empty only until its inserter fills it; beyond those that are in use
\* there is nothing.
SlotsFilled ==
    /\ \A i \in Used(alloc) : arr[i] = NoProp => \E p \in Prop : pc[p] = "holding" /\ slot[p] = i
    /\ \A i \in 0 .. MaxSize - 1 : i >= alloc \/ i >= len => arr[i] = NoProp
Accounted == \A p \in Prop : pc[p] = "accepted" => p \in InBuffer \cup map \cup done
StoppedForGood ==
    worker = "stopped" => status = "removed" /\ alloc = 0 /\ map = {}

IInv ==
    /\ TypeOK /\ WritersAlone /\ SlotsReserved /\ SlotsFilled /\ Accounted /\ StoppedForGood

-----------------------------------------------------------------------------
(* The array.                                                              *)

LEMMA UsedSlots ==
    ASSUME NEW n \in Nat, len \in Nat, NEW i
    PROVE i \in Used(n) <=> i \in Nat /\ i < n /\ i < len
  BY DEF Used, Smaller

LEMMA BufferIs ==
    ASSUME TypeOK, NEW p \in Prop
    PROVE p \in InBuffer <=> \E i \in Nat : i < alloc /\ i < len /\ arr[i] = p
  <1>1. p # NoProp
    BY ProposalBufferAssumption
  <1>2. alloc \in Nat /\ len \in Nat
    BY ProposalBufferAssumption DEF TypeOK
  <1> QED
    BY <1>1, <1>2, UsedSlots DEF InBuffer

LEMMA EmptyIs == Empty \in [0 .. MaxSize - 1 -> Prop \cup {NoProp}] /\ \A i \in 0 .. MaxSize - 1 : Empty[i] = NoProp
  BY DEF Empty

\* adjustSize keeps the length of the array between its bounds.
LEMMA AdjustedInBounds ==
    ASSUME NEW n \in Nat, len \in MinSize .. MaxSize, shrink \in 0 .. ShrinkDelay - 1
    PROVE AdjustedLen(n) \in MinSize .. MaxSize /\ AdjustedShrink(n) \in 0 .. ShrinkDelay - 1
  <1> USE ProposalBufferAssumption
  <1>0. len \in Nat /\ shrink \in Nat /\ len \div 2 \in Nat /\ len \div 2 <= len
    OBVIOUS
  <1>1. AdjustedLen(n) \in MinSize .. MaxSize
    BY <1>0 DEF AdjustedLen
  <1>2. (shrink + 1) % ShrinkDelay \in 0 .. ShrinkDelay - 1
    BY <1>0
  <1>3. AdjustedShrink(n) \in 0 .. ShrinkDelay - 1
    BY <1>2 DEF AdjustedShrink
  <1> QED
    BY <1>1, <1>3

\* An emptied buffer has all it needs.
LEMMA Emptied ==
    ASSUME TypeOK', alloc' = 0, arr' = Empty, \A p \in Prop : pc'[p] # "holding"
    PROVE SlotsReserved' /\ SlotsFilled' /\ InBuffer' = {}
  <1> USE ProposalBufferAssumption
  <1>1. Used(alloc)' = {}
    <2>1. len' \in Nat /\ 0 <= len'
      BY DEF TypeOK
    <2>2. Used(alloc)' = 0 .. 0 - 1
      BY <2>1 DEF Used, Smaller
    <2> QED
      BY <2>2
  <1>2. SlotsReserved'
    BY DEF SlotsReserved
  <1>3. SlotsFilled'
    BY <1>1, EmptyIs DEF SlotsFilled
  <1> QED
    BY <1>1, <1>2, <1>3 DEF InBuffer

-----------------------------------------------------------------------------
(* The flush, by whoever holds the write lock.                             *)

PCs == {"new", "locked", "holding", "upgrade", "relock", "failing", "waiting", "woken", "accepted", "failed"}

LEMMA BroadcastOnlyWakes ==
    ASSUME NEW P \in [Prop -> PCs]
    PROVE /\ Broadcast(P) \in [Prop -> PCs]
          /\ \A p \in Prop : Broadcast(P)[p] = P[p] \/ (P[p] = "waiting" /\ Broadcast(P)[p] = "woken")
  BY DEF Broadcast, PCs

LEMMA FlushInv ==
    ASSUME IInv, Readers = {}, worker # "stopped", NEW P \in [Prop -> PCs],
           \A p \in Prop : P[p] \in {pc[p], "relock", "failing"},
           NEW n \in Nat, NEW rejected, Flush(P, n, rejected),
           worker' \in {"idle", "ready", "refresh"},
           todo' = todo, slot' = slot, status' = status,
           check' = check, refreshes' = refreshes, merges' = merges
    PROVE IInv'
  <1> USE ProposalBufferAssumption DEF IInv
  <1>0. /\ rejected \subseteq Prop /\ InBuffer \subseteq Prop
        /\ map' = (map \cup InBuffer) \ rejected /\ done' = done \cup rejected
        /\ arr' = Empty /\ alloc' = 0 /\ len' = AdjustedLen(n) /\ shrink' = AdjustedShrink(n)
    <2>1. InBuffer \subseteq Prop
      BY UsedSlots DEF InBuffer, TypeOK
    <2> QED
      BY <2>1 DEF Flush
  <1>1. pc' \in [Prop -> PCs] /\ \A p \in Prop : pc'[p] \in {P[p], "woken"}
    BY BroadcastOnlyWakes DEF Flush
  <1>2. TypeOK'
    BY <1>0, <1>1, EmptyIs, AdjustedInBounds DEF TypeOK, PCs
  <1>3. \A p \in Prop : pc'[p] # "holding" /\ pc'[p] # "locked"
    BY <1>1 DEF Readers
  <1>4. SlotsReserved' /\ SlotsFilled' /\ InBuffer' = {}
    BY <1>0, <1>2, <1>3, Emptied
  <1>5. WritersAlone'
    BY <1>3 DEF WritersAlone, Readers
  <1>6. Accounted'
    BY <1>0, <1>1, <1>4 DEF Accounted
  <1>7. StoppedForGood'
    BY DEF StoppedForGood
  <1> QED
    BY <1>2, <1>4, <1>5, <1>6, <1>7

-----------------------------------------------------------------------------
(* Every action preserves the invariant.                                   *)

LEMMA InitInv == Init => IInv
  <1> SUFFICES ASSUME Init PROVE IInv
    OBVIOUS
  <1> USE ProposalBufferAssumption DEF Init
  <1>1. TypeOK
    <2>1. 0 \in 0 .. MaxSize - 1 /\ 0 \in 0 .. ShrinkDelay - 1 /\ MinSize \in MinSize .. MaxSize
      OBVIOUS
    <2>2. slot \in [Prop -> 0 .. MaxSize - 1] /\ arr \in [0 .. MaxSize - 1 -> Prop \cup {NoProp}]
      BY <2>1, EmptyIs
    <2>3. refreshes \in 0 .. MaxRefresh /\ merges \in 0 .. MaxMerges
      OBVIOUS
    <2>4. check \in BOOLEAN
      OBVIOUS
    <2> QED
      BY <2>1, <2>2, <2>3, <2>4 DEF TypeOK
  <1>2. Used(alloc) = {}
    <2>0. len \in Nat /\ 0 <= len
      OBVIOUS
    <2>1. Used(alloc) = 0 .. 0 - 1
      BY <2>0 DEF Used, Smaller
    <2> QED
      BY <2>1
  <1>3. SlotsFilled
    BY <1>2, EmptyIs DEF SlotsFilled
  <1>4. WritersAlone /\ SlotsReserved /\ Accounted /\ StoppedForGood
    BY DEF WritersAlone, SlotsReserved, Accounted, StoppedForGood
  <1> QED
    BY <1>1, <1>3, <1>4 DEF IInv

\* Steps that leave the buffer, the map and the slots as they are.
LEMMA QuietInv ==
    ASSUME IInv, TypeOK',
           UNCHANGED <<slot, alloc, arr, len, map, done>>,
           \A p \in Prop : pc'[p] = "holding" <=> pc[p] = "holding",
           \A p \in Prop : pc'[p] = "accepted" <=> pc[p] = "accepted",
           WritersAlone', StoppedForGood'
    PROVE IInv'
  <1>1. SlotsReserved' /\ SlotsFilled'
    BY DEF IInv, SlotsReserved, SlotsFilled, Used, Smaller
  <1>2. Accounted'
    BY DEF IInv, Accounted, InBuffer, Used, Smaller
  <1> QED
    BY <1>1, <1>2 DEF IInv

LEMMA RLockInv == ASSUME IInv, NEW p \in Prop, RLock(p) \/ Refused(p) \/ InsertFails(p) PROVE IInv'
  <1> USE DEF IInv
  <1>0. /\ UNCHANGED <<slot, alloc, arr, len, shrink, map, done, check, worker, todo, status, refreshes, merges>>
        /\ \E c \in {"locked", "failed"} : pc' = [pc EXCEPT ![p] = c]
        /\ pc[p] \in {"new", "relock", "woken", "locked", "failing"}
        /\ worker = "refresh" => pc'[p] # "locked"
    BY DEF RLock, Refused, InsertFails, MayRLock, buffer, replica, TypeOK
  <1>1. TypeOK'
    BY <1>0 DEF TypeOK
  <1>2. \A q \in Prop \ {p} : pc'[q] = pc[q]
    BY <1>0 DEF TypeOK
  <1>3. pc'[p] \in {"locked", "failed"}
    BY <1>0 DEF TypeOK
  <1>4. WritersAlone' /\ StoppedForGood'
    BY <1>0, <1>2, <1>3 DEF WritersAlone, StoppedForGood, Readers
  <1> QED
    BY <1>0, <1>1, <1>2, <1>3, <1>4, QuietInv

LEMMA AllocateInv == ASSUME IInv, NEW p \in Prop, Allocate(p) PROVE IInv'
  <1> USE ProposalBufferAssumption DEF IInv
  <1>0. /\ pc[p] = "locked" /\ status = "alive" /\ alloc' = alloc + 1
        /\ pc' = [pc EXCEPT ![p] = AfterAllocate]
        /\ slot' = [slot EXCEPT ![p] = IF alloc < len THEN alloc ELSE @]
        /\ UNCHANGED <<arr, len, shrink, map, done, check, worker, todo, status, refreshes, merges>>
    BY DEF Allocate, replica
  <1>a. alloc \in Nat /\ len \in Nat /\ len <= MaxSize
    BY DEF TypeOK
  <1>b. AfterAllocate \in {"holding", "upgrade", "waiting"} /\ (AfterAllocate = "holding" <=> alloc < len)
    BY DEF AfterAllocate
  <1>c. /\ pc'[p] = AfterAllocate /\ \A q \in Prop \ {p} : pc'[q] = pc[q] /\ slot'[q] = slot[q]
        /\ alloc < len => slot'[p] = alloc
    BY <1>0 DEF TypeOK
  <1>1. TypeOK'
    <2>1. slot' \in [Prop -> 0 .. MaxSize - 1]
      BY <1>0, <1>a DEF TypeOK
    <2> QED
      BY <1>0, <1>a, <1>b, <2>1 DEF TypeOK
  <1>2. WritersAlone'
    BY <1>0, <1>c DEF WritersAlone, Readers
  <1>3. SlotsReserved'
    <2>1. \A q \in Prop : pc[q] = "holding" => slot[q] < alloc /\ slot[q] \in Nat
      BY DEF SlotsReserved, TypeOK
    <2>2. alloc < len => arr[alloc] = NoProp
      BY <1>a DEF SlotsFilled
    <2> QED
      BY <1>0, <1>a, <1>b, <1>c, <2>1, <2>2 DEF SlotsReserved
  <1>4. SlotsFilled'
    <2>1. ASSUME NEW i \in Used(alloc'), arr[i] = NoProp
          PROVE \E q \in Prop : pc'[q] = "holding" /\ slot'[q] = i
      <3>1. i \in Nat /\ i < alloc + 1 /\ i < len
        BY <1>0, <1>a, UsedSlots
      <3>2. CASE i = alloc
        BY <1>b, <1>c, <3>1, <3>2
      <3>3. CASE i # alloc
        <4>1. i \in Used(alloc)
          BY <1>a, <3>1, <3>3, UsedSlots
        <4>2. PICK q \in Prop : pc[q] = "holding" /\ slot[q] = i
          BY <2>1, <4>1 DEF SlotsFilled
        <4> QED
          BY <1>0, <1>c, <4>2
      <3> QED
        BY <3>2, <3>3
    <2>2. Used(alloc)' = Used(alloc')
      BY <1>0 DEF Used, Smaller
    <2> QED
      BY <1>0, <1>a, <2>1, <2>2 DEF SlotsFilled
  <1>5. Accounted'
    <2>1. \A q \in Prop : q \in InBuffer => q \in InBuffer'
      BY <1>0, <1>1, <1>a, BufferIs DEF InBuffer, Used, Smaller
    <2> QED
      BY <1>0, <1>b, <1>c, <2>1 DEF Accounted
  <1>6. StoppedForGood'
    BY <1>0 DEF StoppedForGood
  <1> QED
    BY <1>1, <1>2, <1>3, <1>4, <1>5, <1>6

LEMMA InsertIntoArrayInv == ASSUME IInv, NEW p \in Prop, InsertIntoArray(p) PROVE IInv'
  <1> USE ProposalBufferAssumption DEF IInv
  <1>0. /\ pc[p] = "holding" /\ arr' = [arr EXCEPT ![slot[p]] = p]
        /\ check' \in BOOLEAN /\ pc' = [pc EXCEPT ![p] = "accepted"]
        /\ UNCHANGED <<slot, alloc, len, shrink, map, done, worker, todo, status, refreshes, merges>>
    BY DEF InsertIntoArray, Scheduled, TypeOK
  <1>a. alloc \in Nat /\ len \in Nat /\ len <= MaxSize
    BY DEF TypeOK
  <1>b. slot[p] \in 0 .. MaxSize - 1 /\ slot[p] < alloc /\ slot[p] < len /\ arr[slot[p]] = NoProp
    BY <1>0 DEF TypeOK, SlotsReserved
  <1>c. pc'[p] = "accepted" /\ \A q \in Prop \ {p} : pc'[q] = pc[q]
    BY <1>0 DEF TypeOK
  <1>d. arr'[slot[p]] = p /\ \A i \in 0 .. MaxSize - 1 : i # slot[p] => arr'[i] = arr[i]
    BY <1>0, <1>b DEF TypeOK
  <1>1. TypeOK'
    <2>1. arr' \in [0 .. MaxSize - 1 -> Prop \cup {NoProp}]
      BY <1>0, <1>b DEF TypeOK
    <2> QED
      BY <1>0, <2>1 DEF TypeOK
  <1>2. WritersAlone'
    BY <1>0, <1>c DEF WritersAlone, Readers
  <1>3. SlotsReserved'
    <2>1. \A q \in Prop \ {p} : pc[q] = "holding" => slot[q] # slot[p] /\ slot[q] \in 0 .. MaxSize - 1
      BY <1>0 DEF SlotsReserved, TypeOK
    <2> QED
      BY <1>0, <1>c, <1>d, <2>1 DEF SlotsReserved
  <1>4. SlotsFilled'
    <2>1. ASSUME NEW i \in Used(alloc), arr'[i] = NoProp
          PROVE \E q \in Prop : pc'[q] = "holding" /\ slot[q] = i
      <3>1. i \in 0 .. MaxSize - 1 /\ i # slot[p]
        BY <1>a, <1>d, <2>1, UsedSlots
      <3>2. PICK q \in Prop : pc[q] = "holding" /\ slot[q] = i
        BY <1>d, <2>1, <3>1 DEF SlotsFilled
      <3> QED
        BY <1>c, <3>1, <3>2
    <2>2. Used(alloc)' = Used(alloc)
      BY <1>0 DEF Used, Smaller
    <2>3. \A i \in 0 .. MaxSize - 1 : i >= alloc \/ i >= len => i # slot[p]
      BY <1>a, <1>b
    <2> QED
      BY <1>0, <1>d, <2>1, <2>2, <2>3 DEF SlotsFilled
  <1>5. Accounted'
    <2>1. p \in InBuffer'
      <3>1. slot[p] \in Used(alloc)
        BY <1>a, <1>b, UsedSlots
      <3>2. Used(alloc)' = Used(alloc)
        BY <1>0 DEF Used, Smaller
      <3> QED
        BY <1>d, <3>1, <3>2 DEF InBuffer
    <2>2. \A q \in Prop : q \in InBuffer => q \in InBuffer'
      <3>1. SUFFICES ASSUME NEW q \in Prop, q \in InBuffer PROVE q \in InBuffer'
        OBVIOUS
      <3>2. PICK i \in Used(alloc) : arr[i] = q /\ q # NoProp
        BY <3>1 DEF InBuffer
      <3>3. i \in 0 .. MaxSize - 1 /\ i # slot[p]
        BY <1>a, <1>b, <3>2, UsedSlots
      <3>4. Used(alloc)' = Used(alloc)
        BY <1>0 DEF Used, Smaller
      <3> QED
        BY <1>d, <3>2, <3>3, <3>4 DEF InBuffer
    <2> QED
      BY <1>0, <1>c, <2>1, <2>2 DEF Accounted
  <1>6. StoppedForGood'
    BY <1>0 DEF StoppedForGood
  <1> QED
    BY <1>1, <1>2, <1>3, <1>4, <1>5, <1>6

LEMMA FlushRLockedInv == ASSUME IInv, NEW p \in Prop, FlushRLocked(p) PROVE IInv'
  <1> USE ProposalBufferAssumption DEF IInv
  <1>0. /\ pc[p] = "upgrade" /\ Readers = {} /\ worker # "refresh"
        /\ UNCHANGED <<slot, check, worker, todo, status, refreshes, merges>>
    BY DEF FlushRLocked, MayLock
  <1>1. CASE /\ status = "alive"
             /\ \E outcome \in {"relock", "failing"}, rejected \in SUBSET Unsafe :
                   Flush([pc EXCEPT ![p] = outcome], alloc, rejected)
    <2>1. PICK outcome \in {"relock", "failing"}, rejected \in SUBSET Unsafe :
             Flush([pc EXCEPT ![p] = outcome], alloc, rejected)
      BY <1>1
    <2> DEFINE P == [pc EXCEPT ![p] = outcome]
    <2>2. P \in [Prop -> PCs] /\ \A q \in Prop : P[q] \in {pc[q], "relock", "failing"}
      BY DEF TypeOK, PCs
    <2>3. worker # "stopped" /\ worker' \in {"idle", "ready", "refresh"} /\ alloc \in Nat
      BY <1>0, <1>1 DEF StoppedForGood, TypeOK
    <2>4. Flush(P, alloc, rejected)
      BY <2>1
    <2> HIDE DEF P
    <2> QED
      BY <1>0, <2>2, <2>3, <2>4, FlushInv
  <1>2. CASE /\ status # "alive" /\ pc' = Broadcast([pc EXCEPT ![p] = "failing"])
             /\ UNCHANGED <<buffer, map, done>>
    <2> DEFINE P == [pc EXCEPT ![p] = "failing"]
    <2>1. P \in [Prop -> PCs] /\ P[p] = "failing" /\ \A q \in Prop \ {p} : P[q] = pc[q]
      BY DEF TypeOK, PCs
    <2>2. pc' = Broadcast(P)
      BY <1>2
    <2> HIDE DEF P
    <2>3. /\ pc' \in [Prop -> PCs] /\ pc'[p] = "failing"
          /\ \A q \in Prop \ {p} : pc'[q] = pc[q] \/ (pc[q] = "waiting" /\ pc'[q] = "woken")
      BY <2>1, <2>2, BroadcastOnlyWakes
    <2>4. UNCHANGED <<alloc, arr, len, shrink, map, done>>
      BY <1>2 DEF buffer
    <2>5. TypeOK'
      BY <1>0, <2>3, <2>4 DEF TypeOK, PCs
    <2>6. WritersAlone' /\ StoppedForGood'
      BY <1>0, <2>3, <2>4 DEF WritersAlone, StoppedForGood, Readers
    <2>7. \A q \in Prop : /\ pc'[q] = "holding" <=> pc[q] = "holding"
                          /\ pc'[q] = "accepted" <=> pc[q] = "accepted"
      BY <1>0, <2>3
    <2> QED
      BY <1>0, <2>4, <2>5, <2>6, <2>7, QuietInv
  <1> QED
    BY <1>1, <1>2 DEF FlushRLocked

LEMMA HandleRaftReadyInv == ASSUME IInv, HandleRaftReady PROVE IInv'
  <1> USE ProposalBufferAssumption DEF IInv
  <1>0. /\ worker = "ready" /\ Readers = {} /\ worker' = "idle"
        /\ UNCHANGED <<slot, check, todo, status, refreshes, merges>>
    BY DEF HandleRaftReady, MayLock
  <1>1. ASSUME NEW rejected \in SUBSET Unsafe, Flush(pc, alloc, rejected) PROVE IInv'
    <2>1. pc \in [Prop -> PCs] /\ alloc \in Nat
      BY DEF TypeOK, PCs
    <2> QED
      BY <1>0, <1>1, <2>1, FlushInv
  <1>2. CASE UNCHANGED <<pc, buffer, map, done>>
    <2>1. UNCHANGED <<pc, alloc, arr, len, shrink, map, done>>
      BY <1>2 DEF buffer
    <2>2. TypeOK' /\ WritersAlone' /\ StoppedForGood'
      BY <1>0, <2>1 DEF TypeOK, WritersAlone, StoppedForGood, Readers
    <2> QED
      BY <1>0, <2>1, <2>2, QuietInv
  <1> QED
    BY <1>1, <1>2 DEF HandleRaftReady

LEMMA ReinsertInv == ASSUME IInv, NEW p \in Prop, Reinsert(p) PROVE IInv'
  <1> USE ProposalBufferAssumption DEF IInv
  <1>0. /\ worker = "refresh" /\ status = "alive" /\ alloc < len
        /\ alloc' = alloc + 1 /\ arr' = [arr EXCEPT ![alloc] = p]
        /\ check' \in BOOLEAN /\ todo' = todo \ {p}
        /\ UNCHANGED <<pc, slot, len, shrink, map, done, worker, status, refreshes, merges>>
    BY DEF Reinsert, Scheduled, TypeOK
  <1>a. alloc \in Nat /\ len \in Nat /\ len <= MaxSize /\ alloc \in 0 .. MaxSize - 1
    BY <1>0 DEF TypeOK
  <1>b. arr'[alloc] = p /\ \A i \in 0 .. MaxSize - 1 : i # alloc => arr'[i] = arr[i]
    BY <1>0, <1>a DEF TypeOK
  <1>c. \A q \in Prop : pc'[q] # "holding" /\ pc[q] # "holding"
    BY <1>0 DEF WritersAlone, Readers
  <1>1. TypeOK'
    <2>1. arr' \in [0 .. MaxSize - 1 -> Prop \cup {NoProp}]
      BY <1>0, <1>a DEF TypeOK
    <2> QED
      BY <1>0, <2>1 DEF TypeOK
  <1>2. WritersAlone' /\ SlotsReserved' /\ StoppedForGood'
    BY <1>0, <1>c DEF WritersAlone, Readers, SlotsReserved, StoppedForGood
  <1>3. SlotsFilled'
    <2>1. ASSUME NEW i \in Used(alloc') PROVE arr'[i] # NoProp
      <3>1. i \in Nat /\ i < alloc + 1 /\ i < len
        BY <1>0, <1>a, UsedSlots
      <3>2. CASE i = alloc
        BY <1>b, <3>2
      <3>3. CASE i # alloc
        <4>1. i \in Used(alloc) /\ i \in 0 .. MaxSize - 1
          BY <1>a, <3>1, <3>3, UsedSlots
        <4> QED
          BY <1>b, <1>c, <3>3, <4>1 DEF SlotsFilled
      <3> QED
        BY <3>2, <3>3
    <2>2. Used(alloc)' = Used(alloc')
      BY <1>0 DEF Used, Smaller
    <2> QED
      BY <1>0, <1>a, <1>b, <2>1, <2>2 DEF SlotsFilled
  <1>4. Accounted'
    <2>1. ASSUME NEW q \in Prop, q \in InBuffer PROVE q \in InBuffer'
      <3>1. PICK i \in Used(alloc) : arr[i] = q /\ q # NoProp
        BY <2>1 DEF InBuffer
      <3>2. i \in 0 .. MaxSize - 1 /\ i # alloc /\ i \in Used(alloc')
        BY <1>0, <1>a, <3>1, UsedSlots
      <3>3. Used(alloc)' = Used(alloc')
        BY <1>0 DEF Used, Smaller
      <3> QED
        BY <1>b, <3>1, <3>2, <3>3 DEF InBuffer
    <2> QED
      BY <1>0, <2>1 DEF Accounted
  <1> QED
    BY <1>1, <1>2, <1>3, <1>4

LEMMA ReinsertFlushesInv == ASSUME IInv, ReinsertFlushes PROVE IInv'
  <1> USE DEF IInv
  <1>1. /\ worker = "refresh" /\ Readers = {}
        /\ UNCHANGED <<slot, check, worker, todo, status, refreshes, merges>>
    BY DEF ReinsertFlushes, WritersAlone
  <1>2. PICK rejected \in SUBSET Unsafe : Flush(pc, alloc + 1, rejected)
    BY DEF ReinsertFlushes
  <1>3. pc \in [Prop -> PCs] /\ alloc + 1 \in Nat
    BY DEF TypeOK, PCs
  <1> QED
    BY <1>1, <1>2, <1>3, FlushInv

LEMMA ReinsertFailsInv == ASSUME IInv, NEW p \in Prop, ReinsertFails(p) PROVE IInv'
  <1> USE DEF IInv
  <1>0. /\ worker = "refresh" /\ map' = map \ {p} /\ done' = done \cup {p} /\ todo' = todo \ {p}
        /\ UNCHANGED <<pc, slot, alloc, arr, len, shrink, check, worker, status, refreshes, merges>>
    BY DEF ReinsertFails, buffer
  <1>1. TypeOK' /\ WritersAlone' /\ StoppedForGood'
    BY <1>0 DEF TypeOK, WritersAlone, StoppedForGood, Readers
  <1>2. SlotsReserved' /\ SlotsFilled'
    BY <1>0 DEF SlotsReserved, SlotsFilled, Used, Smaller
  <1>3. InBuffer' = InBuffer
    BY <1>0 DEF InBuffer, Used, Smaller
  <1>4. Accounted'
    BY <1>0, <1>3 DEF Accounted
  <1> QED
    BY <1>1, <1>2, <1>4

LEMMA DisconnectInv == ASSUME IInv, Disconnect PROVE IInv'
  <1> USE ProposalBufferAssumption DEF IInv
  <1>0. /\ Readers = {} /\ status = "removed"
        /\ done' = done \cup map \cup InBuffer /\ map' = {} /\ worker' = "stopped"
        /\ arr' = Empty /\ alloc' = 0 /\ len' = AdjustedLen(alloc) /\ shrink' = AdjustedShrink(alloc)
        /\ UNCHANGED <<slot, check, todo, status, refreshes, merges>>
    BY DEF Disconnect, MayLock, Cleared
  <1>1. pc' \in [Prop -> PCs] /\ \A p \in Prop : pc'[p] \in {pc[p], "woken"}
    BY BroadcastOnlyWakes DEF Disconnect, TypeOK, PCs
  <1>2. TypeOK'
    <2>1. InBuffer \subseteq Prop /\ alloc \in Nat
      BY UsedSlots DEF InBuffer, TypeOK
    <2> QED
      BY <1>0, <1>1, <2>1, EmptyIs, AdjustedInBounds DEF TypeOK, PCs
  <1>3. \A p \in Prop : pc'[p] # "holding"
    BY <1>0, <1>1 DEF Readers
  <1>4. SlotsReserved' /\ SlotsFilled'
    BY <1>0, <1>2, <1>3, Emptied
  <1>5. WritersAlone' /\ StoppedForGood'
    BY <1>0, <1>3 DEF WritersAlone, StoppedForGood
  <1>6. Accounted'
    BY <1>0, <1>1 DEF Accounted
  <1> QED
    BY <1>2, <1>4, <1>5, <1>6

\* The worker takes a check, begins or ends a refresh; the destroyStatus changes.
LEMMA QuietStepInv ==
    ASSUME IInv, TakeCheck \/ RefreshEnds \/ RefreshProposals \/ BeginMerge \/ EndMerge \/ MarkRemoved
    PROVE IInv'
  <1> USE ProposalBufferAssumption DEF IInv
  <1>0. UNCHANGED <<pc, slot, alloc, arr, len, shrink, map, done>>
    BY DEF TakeCheck, RefreshEnds, RefreshProposals, BeginMerge, EndMerge, MarkRemoved, buffer, replica
  <1>1. TypeOK'
    <2>1. CASE TakeCheck \/ RefreshEnds
      BY <1>0, <2>1 DEF TypeOK, TakeCheck, RefreshEnds
    <2>2. CASE RefreshProposals
      BY <1>0, <2>2 DEF TypeOK, RefreshProposals
    <2>3. CASE BeginMerge \/ EndMerge \/ MarkRemoved
      BY <1>0, <2>3 DEF TypeOK, BeginMerge, EndMerge, MarkRemoved, replica
    <2> QED
      BY <2>1, <2>2, <2>3
  <1>2. WritersAlone' /\ StoppedForGood'
    BY <1>0 DEF WritersAlone, StoppedForGood, Readers, MayLock, TakeCheck, RefreshEnds, RefreshProposals,
       BeginMerge, EndMerge, MarkRemoved, replica
  <1> QED
    BY <1>0, <1>1, <1>2, QuietInv

LEMMA NextInv == IInv /\ [Next]_vars => IInv'
  <1> SUFFICES ASSUME IInv, [Next]_vars PROVE IInv'
    OBVIOUS
  <1>1. ASSUME NEW p \in Prop, InserterNext(p) PROVE IInv'
    BY <1>1, RLockInv, AllocateInv, InsertIntoArrayInv, FlushRLockedInv DEF InserterNext
  <1>2. CASE WorkerNext
    BY <1>2, HandleRaftReadyInv, ReinsertInv, ReinsertFlushesInv, ReinsertFailsInv, DisconnectInv,
       QuietStepInv DEF WorkerNext
  <1>3. CASE Environment
    BY <1>3, QuietStepInv DEF Environment
  <1>4. CASE UNCHANGED vars
    <2>1. UNCHANGED <<pc, slot, alloc, arr, len, shrink, map, done, check, worker, todo, status, refreshes, merges>>
      BY <1>4 DEF vars, buffer, replica
    <2>2. TypeOK' /\ WritersAlone' /\ StoppedForGood'
      BY <2>1 DEF IInv, TypeOK, WritersAlone, StoppedForGood, Readers
    <2> QED
      BY <2>1, <2>2, QuietInv
  <1> QED
    BY <1>1, <1>2, <1>3, <1>4 DEF Next

-----------------------------------------------------------------------------
(* What follows.                                                           *)

\* Reserved slots, filled slots and accepted proposals are accounted for in every
\* state of the buffer.
THEOREM Inductive == Spec => []IInv
  BY InitInv, NextInv, PTL DEF Spec

\* Every variable of the buffer stays in its range; adjustSize never leaves the
\* bounds of the array.
THEOREM TypeCorrect == Spec => []TypeOK
  <1>1. IInv => TypeOK
    BY DEF IInv
  <1> QED
    BY <1>1, Inductive, PTL

\* FlushLockedWithRaftGroup never meets a nil proposal, however many inserters have
\* reserved slots before the write lock was asked for.
THEOREM NoNilProposalHolds == Spec => []NoNilProposal
  <1>1. IInv => NoNilProposal
    BY DEF IInv, NoNilProposal, MayLock, Readers, SlotsFilled
  <1> QED
    BY <1>1, Inductive, PTL

\* After disconnectReplicationRaftMuLocked every accepted proposal is answered.
THEOREM NobodyLeftBehindHolds == Spec => []NobodyLeftBehind
  <1>1. IInv => NobodyLeftBehind
    <2>1. SUFFICES ASSUME IInv, worker = "stopped", NEW p \in Prop, pc[p] = "accepted" PROVE p \in done
      BY DEF NobodyLeftBehind
    <2>2. alloc = 0 /\ map = {} /\ p \in InBuffer \cup map \cup done
      BY <2>1 DEF IInv, StoppedForGood, Accounted
    <2>3. p \notin InBuffer
      BY <2>1, <2>2, BufferIs DEF IInv
    <2> QED
      BY <2>2, <2>3
  <1> QED
    BY <1>1, Inductive, PTL
=============================================================================
