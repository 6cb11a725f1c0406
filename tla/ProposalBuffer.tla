--------------------------- MODULE ProposalBuffer ---------------------------
(***************************************************************************)
(* propBuf, the buffer between the goroutines that propose commands on a   *)
(* replica and the Raft worker that flushes them to Raft.                  *)
(*                                                                         *)
(* Inserters share the read lock of Replica.mu and reserve slots of an     *)
(* array by one atomic increment; whoever flushes holds the write lock.    *)
(* When the array is full the first inserter to notice gives up its read   *)
(* lock and flushes, the others wait on a condition variable.  A command   *)
(* in the buffer has been accepted: its client waits for an answer that    *)
(* only comes after a flush, so a slot reserved and never filled, a flush  *)
(* nobody was told to do or a wake-up that nobody sends hangs a client, a  *)
(* range, or crashes the node.                                             *)
(*                                                                         *)
(* The write lock is held by one goroutine, so what it does under the lock *)
(* is one step; a step of an inserter ends where it lets another in.       *)
(***************************************************************************)
EXTENDS Integers, FiniteSets

CONSTANTS
    Prop,           \* the proposals, each inserted by a goroutine of its own
    Unsafe,         \* the lease proposals that a flush may reject
    NoProp,         \* an empty slot
    MinSize,        \* propBufArrayMinSize
    MaxSize,        \* propBufArrayMaxSize
    ShrinkDelay,    \* propBufArrayShrinkDelay
    MaxRefresh,     \* bound on refreshes of pending proposals
    MaxMerges       \* bound on merges that are begun and given up

ASSUME ProposalBufferAssumption ==
    /\ Unsafe \subseteq Prop /\ NoProp \notin Prop
    /\ MinSize \in Nat \ {0} /\ MaxSize \in Nat /\ MinSize <= MaxSize
    /\ ShrinkDelay \in Nat \ {0} /\ MaxRefresh \in Nat /\ MaxMerges \in Nat

VARIABLES
    pc,         \* pc[p]: where the inserter of p is
    slot,       \* slot[p]: the index it has reserved
    alloc,      \* allocatedIdx
    arr,        \* the array
    len,        \* its length
    shrink,     \* flushes that found it too large
    map,        \* the proposals map of the replica
    done,       \* proposals whose client has its answer
    check,      \* TRUE if a Raft update check is scheduled
    worker,     \* what the Raft worker of the replica is doing
    todo,       \* proposals it is putting back
    status,     \* destroyStatus
    refreshes, merges

buffer == <<alloc, arr, len, shrink>>
replica == <<map, done, check, worker, todo>>
vars == <<pc, slot, buffer, replica, status, refreshes, merges>>

Empty == [i \in 0 .. MaxSize - 1 |-> NoProp]

\* Every variable stays in its range: the array never outgrows its maximum, nor is
\* a slot beyond it reserved.
TypeOK ==
    /\ pc \in [Prop -> {"new", "locked", "holding", "upgrade", "relock", "failing",
                        "waiting", "woken", "accepted", "failed"}]
    /\ slot \in [Prop -> 0 .. MaxSize - 1] /\ alloc \in Nat
    /\ arr \in [0 .. MaxSize - 1 -> Prop \cup {NoProp}]
    /\ len \in MinSize .. MaxSize /\ shrink \in 0 .. ShrinkDelay - 1
    /\ map \subseteq Prop /\ done \subseteq Prop /\ todo \subseteq Prop
    /\ check \in BOOLEAN
    /\ worker \in {"idle", "ready", "refresh", "stopped"}
    /\ status \in {"alive", "merging", "removed"}
    /\ refreshes \in 0 .. MaxRefresh /\ merges \in 0 .. MaxMerges

Init ==
    /\ pc = [p \in Prop |-> "new"] /\ slot = [p \in Prop |-> 0]
    /\ alloc = 0 /\ arr = Empty /\ len = MinSize /\ shrink = 0
    /\ map = {} /\ done = {} /\ check = FALSE /\ worker = "idle" /\ todo = {}
    /\ status = "alive" /\ refreshes = 0 /\ merges = 0

-----------------------------------------------------------------------------
(* Replica.mu: readers exclude writers, and a writer that waits keeps new  *)
(* readers out.                                                            *)

\* Mutant: a slot is reserved under the lock and filled without it.
ReadersUntilAllocated == {p \in Prop : pc[p] = "locked"}
Readers == {p \in Prop : pc[p] \in {"locked", "holding"}}
MayLock == Readers = {} /\ worker # "refresh"
MayRLock == worker \notin {"ready", "refresh"} /\ \A p \in Prop : pc[p] # "upgrade"

-----------------------------------------------------------------------------
(* The flush.                                                              *)

Smaller(a, b) == IF a <= b THEN a ELSE b
\* The slots a flush looks at.
Used(n) == 0 .. Smaller(n, len) - 1
InBuffer == {arr[i] : i \in Used(alloc)} \ {NoProp}

\* adjustSize, given the number of slots that inserters asked for.
TooLarge(n) == n <= len \div 4
TooSmall(n) == ~ TooLarge(n) /\ n >= len
MayShrink   == len > MinSize
AdjustedLen(n) ==
    IF TooSmall(n) /\ 2 * len <= MaxSize THEN 2 * len
    ELSE IF TooLarge(n) /\ MayShrink /\ shrink + 1 = ShrinkDelay
    THEN IF len \div 2 <= MinSize THEN MinSize ELSE len \div 2
    ELSE len
AdjustedShrink(n) ==
    IF TooLarge(n) THEN (IF MayShrink THEN (shrink + 1) % ShrinkDelay ELSE shrink) ELSE 0

\* sync.Cond.Broadcast: all that wait want the read lock again.
Broadcast(P) == [p \in Prop |-> IF P[p] = "waiting" THEN "woken" ELSE P[p]]
\* Mutant: nobody is woken.
NeverOverfull(n) == FALSE
Overfull(n) == n > len

\* FlushLockedWithRaftGroup, when n slots were asked for: the proposals of the
\* buffer move to the map, except those that are rejected; the array is emptied
\* and perhaps resized.  The pcs of the inserters are P, but for the waiting
\* ones, which are woken if the buffer was full.
Flush(P, n, rejected) ==
    /\ rejected \subseteq InBuffer \cap Unsafe
    /\ map' = (map \cup InBuffer) \ rejected
    /\ done' = done \cup rejected
    /\ arr' = Empty /\ alloc' = 0
    /\ len' = AdjustedLen(n) /\ shrink' = AdjustedShrink(n)
    /\ pc' = IF Overfull(n) THEN Broadcast(P) ELSE P

-----------------------------------------------------------------------------
(* Insert.                                                                 *)

RLock(p) ==
    /\ pc[p] \in {"new", "relock", "woken"} /\ MayRLock
    /\ pc' = [pc EXCEPT ![p] = "locked"]
    /\ UNCHANGED <<slot, buffer, replica, status, refreshes, merges>>

\* allocateIndex, one turn of the loop.  The read lock is released by who must
\* flush, by who must wait (it is on the list of waiters by then), and on errors.
Refused(p) ==
    /\ pc[p] = "locked" /\ status # "alive"
    /\ pc' = [pc EXCEPT ![p] = "failed"]
    /\ UNCHANGED <<slot, buffer, replica, status, refreshes, merges>>
AfterAllocate == IF alloc < len THEN "holding" ELSE IF alloc = len THEN "upgrade" ELSE "waiting"
Allocate(p) ==
    /\ pc[p] = "locked" /\ status = "alive"
    /\ alloc' = alloc + 1
    /\ pc' = [pc EXCEPT ![p] = AfterAllocate]
    /\ slot' = [slot EXCEPT ![p] = IF alloc < len THEN alloc ELSE @]
    /\ UNCHANGED <<arr, len, shrink, replica, status, refreshes, merges>>

\* insertIntoArray: the first of the buffer schedules an update check.
\* Mutant: the last one does.
ScheduledByLast(i) == i = len - 1
Scheduled(i) == i = 0
InsertIntoArray(p) ==
    /\ pc[p] = "holding"
    /\ arr' = [arr EXCEPT ![slot[p]] = p]
    /\ check' = (check \/ Scheduled(slot[p]))
    /\ pc' = [pc EXCEPT ![p] = "accepted"]
    /\ UNCHANGED <<slot, alloc, len, shrink, map, done, worker, todo, status, refreshes, merges>>

\* flushRLocked.  The replica may have been destroyed in between; Raft may
\* refuse the proposals, which are in the map nevertheless.
FlushRLocked(p) ==
    /\ pc[p] = "upgrade" /\ MayLock
    /\ \/ /\ status = "alive"
          /\ \E outcome \in {"relock", "failing"}, rejected \in SUBSET Unsafe :
                Flush([pc EXCEPT ![p] = outcome], alloc, rejected)
       \/ /\ status # "alive"
          /\ pc' = Broadcast([pc EXCEPT ![p] = "failing"])
          /\ UNCHANGED <<buffer, map, done>>
    /\ UNCHANGED <<slot, check, worker, todo, status, refreshes, merges>>
\* Insert returns the error, with the read lock taken and given back.
InsertFails(p) ==
    /\ pc[p] = "failing" /\ MayRLock
    /\ pc' = [pc EXCEPT ![p] = "failed"]
    /\ UNCHANGED <<slot, buffer, replica, status, refreshes, merges>>

-----------------------------------------------------------------------------
(* The Raft worker, which holds raftMu.                                    *)

\* An update check is taken from the scheduler; handleRaftReady flushes.
TakeCheck ==
    /\ worker = "idle" /\ check
    /\ check' = FALSE /\ worker' = "ready"
    /\ UNCHANGED <<pc, slot, buffer, map, done, todo, status, refreshes, merges>>
HandleRaftReady ==
    /\ worker = "ready" /\ MayLock /\ worker' = "idle"
    /\ \/ /\ status # "removed"
          /\ \E rejected \in SUBSET Unsafe : Flush(pc, alloc, rejected)
       \/ /\ status = "removed" /\ UNCHANGED <<pc, buffer, map, done>>
    /\ UNCHANGED <<slot, check, todo, status, refreshes, merges>>

\* refreshProposalsLocked: what is pending goes back into the buffer, under the
\* write lock, flushing the buffer whenever it is full.
RefreshProposals ==
    /\ worker = "idle" /\ MayLock /\ map # {}
    /\ refreshes < MaxRefresh /\ refreshes' = refreshes + 1
    /\ worker' = "refresh" /\ todo' = map
    /\ UNCHANGED <<pc, slot, buffer, map, done, check, status, merges>>
Reinsert(p) ==
    /\ worker = "refresh" /\ p \in todo /\ status = "alive" /\ alloc < len
    /\ alloc' = alloc + 1 /\ arr' = [arr EXCEPT ![alloc] = p]
    /\ check' = (check \/ Scheduled(alloc))
    /\ todo' = todo \ {p}
    /\ UNCHANGED <<pc, slot, len, shrink, map, done, worker, status, refreshes, merges>>
ReinsertFlushes ==
    /\ worker = "refresh" /\ todo # {} /\ status = "alive" /\ alloc >= len
    /\ \E rejected \in SUBSET Unsafe : Flush(pc, alloc + 1, rejected)
    /\ UNCHANGED <<slot, check, worker, todo, status, refreshes, merges>>
ReinsertFails(p) ==
    /\ worker = "refresh" /\ p \in todo /\ status # "alive"
    /\ map' = map \ {p} /\ done' = done \cup {p} /\ todo' = todo \ {p}
    /\ UNCHANGED <<pc, slot, buffer, check, worker, status, refreshes, merges>>
RefreshEnds ==
    /\ worker = "refresh" /\ todo = {}
    /\ worker' = "idle"
    /\ UNCHANGED <<pc, slot, buffer, map, done, check, todo, status, refreshes, merges>>

\* The range is about to be merged away, or the merge is given up.
BeginMerge ==
    /\ MayLock /\ status = "alive" /\ merges < MaxMerges
    /\ status' = "merging" /\ merges' = merges + 1
    /\ UNCHANGED <<pc, slot, buffer, replica, refreshes>>
EndMerge ==
    /\ MayLock /\ status = "merging"
    /\ status' = "alive"
    /\ UNCHANGED <<pc, slot, buffer, replica, refreshes, merges>>
\* The replica is removed, and its proposals are cleared a little later.
MarkRemoved ==
    /\ worker \in {"idle", "ready"} /\ MayLock /\ status # "removed"
    /\ status' = "removed"
    /\ UNCHANGED <<pc, slot, buffer, replica, refreshes, merges>>
\* disconnectReplicationRaftMuLocked: FlushLockedWithoutProposing, and every
\* proposal of the map is finished with an ambiguous error.
\* Mutant: the buffer is not flushed before the map is cleared.
ClearedUnflushed == map
Cleared == map \cup InBuffer
Disconnect ==
    /\ worker = "idle" /\ MayLock /\ status = "removed"
    /\ done' = done \cup Cleared /\ map' = {} /\ worker' = "stopped"
    /\ arr' = Empty /\ alloc' = 0
    /\ len' = AdjustedLen(alloc) /\ shrink' = AdjustedShrink(alloc)
    /\ pc' = IF Overfull(alloc) THEN Broadcast(pc) ELSE pc
    /\ UNCHANGED <<slot, check, todo, status, refreshes, merges>>

-----------------------------------------------------------------------------
InserterNext(p) ==
    \/ RLock(p) \/ Refused(p) \/ Allocate(p) \/ InsertIntoArray(p)
    \/ FlushRLocked(p) \/ InsertFails(p)
WorkerNext ==
    \/ TakeCheck \/ HandleRaftReady
    \/ \E p \in Prop : Reinsert(p)
    \/ ReinsertFlushes
    \/ \E p \in Prop : ReinsertFails(p)
    \/ RefreshEnds \/ Disconnect
Environment == RefreshProposals \/ BeginMerge \/ EndMerge \/ MarkRemoved

Next == (\E p \in Prop : InserterNext(p)) \/ WorkerNext \/ Environment

Spec == Init /\ [][Next]_vars
\* Goroutines run, the scheduler works off the update checks, and a replica
\* that is marked as removed is removed.
FairSpec == Spec /\ (\A p \in Prop : WF_vars(InserterNext(p))) /\ WF_vars(WorkerNext)

-----------------------------------------------------------------------------
(* Properties.                                                             *)

\* Whoever may take the write lock finds no hole in the buffer: every slot that
\* was reserved is filled.  A flush that meets a nil proposal ends the process.
NoNilProposal ==
    MayLock => \A i \in Used(alloc) : arr[i] # NoProp

\* When the replica is gone nobody is left with an accepted proposal and no
\* answer, also not one that was inserted while the replica was being removed.
NobodyLeftBehind ==
    worker = "stopped" => \A p \in Prop : pc[p] = "accepted" => p \in done

\* Every Insert returns, however full the buffer is, even if the replica is
\* destroyed meanwhile.
InsertReturns ==
    \A p \in Prop : pc[p] # "new" ~> pc[p] \in {"accepted", "failed"}
\* Every accepted proposal reaches the map, from where it is proposed again and
\* again, or its client is answered.
AcceptedIsFlushed ==
    \A p \in Prop : pc[p] = "accepted" ~> p \in map \cup done
=============================================================================
