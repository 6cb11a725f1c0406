------------------------------ MODULE Latches ------------------------------
(***************************************************************************)
(* spanlatch.Manager: the latches that isolate requests from each other    *)
(* while they evaluate.                                                    *)
(*                                                                         *)
(* A request takes, under the manager's mutex, an immutable snapshot of    *)
(* the latches there are and adds its own, and then waits, without the     *)
(* mutex, for the conflicting ones of its snapshot to be released.  Reads  *)
(* wait in a list that the next write flushes into the tree, so that they  *)
(* need not pay for the tree.  A read may also evaluate first and look for *)
(* conflicts afterwards (optimistic latching).  A request that is stuck    *)
(* below Raft poisons its latches: whoever waits for it fails or, if it    *)
(* insists on waiting, passes the poison on to those that wait for it.     *)
(*                                                                         *)
(* The order in which a request waits for the latches of its snapshot is   *)
(* left open.                                                              *)
(***************************************************************************)
EXTENDS Integers, FiniteSets

CONSTANTS
    Req,            \* the requests
    Spans,          \* Spans[r]: what r declares; ts 0 is no timestamp
    Policy,         \* Policy[r]: poison.Policy, "wait" or "error"
    Optimistic,     \* the requests that latch optimistically
    OnlyWait,       \* the requests that use WaitFor
    Stuck,          \* the requests that may get stuck below Raft
    NoReq

Span == [scope : {"local", "global"}, key : Nat, write : BOOLEAN, ts : Nat]

ASSUME LatchesAssumption ==
    /\ Spans \in [Req -> SUBSET Span] /\ \A r \in Req : Spans[r] # {}
    /\ \A r \in Req : Policy[r] \in {"wait", "error"}
    /\ Optimistic \subseteq Req /\ Stuck \subseteq Req /\ OnlyWait \subseteq Req \ Optimistic
    /\ NoReq \notin Req

VARIABLES
    pc,         \* pc[r]: where r is
    readSet,    \* reads that are not in a tree yet
    tree,       \* the interval trees
    done,       \* requests whose done signal was given
    poison,     \* requests whose poison signal was given
    snap,       \* snap[r]: the snapshot of r
    on,         \* on[r]: the request whose latch r is waiting for
    seen,       \* seen[r]: TRUE if r has seen that it is poisoned
    read,       \* read[r]: the spans that an optimistic r really read
    met         \* history: requests that held latches while r evaluated optimistically

trees == <<readSet, tree>>
signals == <<done, poison>>
vars == <<pc, trees, signals, snap, on, seen, read, met>>

Latch(r) == {[req |-> r, span |-> s] : s \in Spans[r]}
AllLatches == UNION {Latch(r) : r \in Req}

\* Every variable stays in its range; the list of reads holds no write.
TypeOK ==
    /\ pc \in [Req -> {"new", "optimistic", "waiting", "holding", "releasing", "removing", "gone"}]
    /\ readSet \subseteq AllLatches /\ tree \subseteq AllLatches
    /\ done \subseteq Req /\ poison \subseteq Req
    /\ snap \in [Req -> SUBSET AllLatches]
    /\ on \in [Req -> Req \cup {NoReq}] /\ seen \in [Req -> BOOLEAN]
    /\ read \in [Req -> SUBSET Span] /\ met \in [Req -> SUBSET Req]
    /\ \A r \in Req : read[r] \subseteq Spans[r]
    /\ \A l \in readSet : ~ l.span.write

Init ==
    /\ pc = [r \in Req |-> "new"] /\ readSet = {} /\ tree = {}
    /\ done = {} /\ poison = {} /\ snap = [r \in Req |-> {}]
    /\ on = [r \in Req |-> NoReq] /\ seen = [r \in Req |-> FALSE]
    /\ read = Spans /\ met = [r \in Req |-> {}]

-----------------------------------------------------------------------------
(* Conflicts.                                                              *)

Holds(r) == pc[r] = "holding"
\* Those that evaluate optimistically meet q, which holds latches now.
MetBy(q) == [r \in Req |-> IF pc[r] = "optimistic" /\ r # q THEN met[r] \cup {q} ELSE met[r]]

Overlap(s, t) == s.scope = t.scope /\ s.key = t.key
\* ignoreLater, ignoreEarlier, ignoreNothing: a read at a lower timestamp than a
\* write does not disturb it, if both have one.
\* Mutant: nor does a read at the write's own timestamp.
IgnoreEqual(s, t) ==
    \/ ~ s.write /\ ~ t.write
    \/ ~ s.write /\ t.write /\ s.ts # 0 /\ s.ts <= t.ts
    \/ s.write /\ ~ t.write /\ t.ts # 0 /\ t.ts <= s.ts
Ignore(s, t) ==
    \/ ~ s.write /\ ~ t.write
    \/ ~ s.write /\ t.write /\ s.ts # 0 /\ s.ts < t.ts
    \/ s.write /\ ~ t.write /\ t.ts # 0 /\ t.ts < s.ts
Conflict(s, t) == Overlap(s, t) /\ ~ Ignore(s, t)

\* The latches of the snapshot that spans S conflict with.
InTheWay(r, S) == {l \in snap[r] : \E s \in S : Conflict(s, l.span)}

-----------------------------------------------------------------------------
(* Acquire, AcquireOptimistic and WaitFor.                                 *)

Reading(r, k) == \E s \in Spans[r] : s.scope = k /\ ~ s.write
Writing(r, k) == \E s \in Spans[r] : s.scope = k /\ s.write
\* snapshotLocked: the reads of a scope are flushed into the tree, and looked at,
\* if r writes there.
Flushed(r) == {l \in readSet : Writing(r, l.span.scope)}
\* Mutant: the latches are inserted before the snapshot is taken.
SnapshotAfterInsert(r) == tree \cup Flushed(r) \cup Latch(r)
Snapshot(r) ==
    {l \in tree \cup Flushed(r) :
        IF l.span.write THEN Reading(r, l.span.scope) \/ Writing(r, l.span.scope)
        ELSE Writing(r, l.span.scope)}

\* insertLocked: reads go to the list.
Listed(r) == {l \in Latch(r) : ~ l.span.write}
\* sequence: snapshotLocked and insertLocked in one critical section.
Sequence(r) ==
    /\ pc[r] = "new" /\ r \notin OnlyWait
    /\ snap' = [snap EXCEPT ![r] = Snapshot(r)]
    /\ readSet' = (readSet \ Flushed(r)) \cup Listed(r)
    /\ tree' = tree \cup Flushed(r) \cup (Latch(r) \ Listed(r))
    /\ pc' = [pc EXCEPT ![r] = IF r \in Optimistic THEN "optimistic" ELSE "waiting"]
    /\ met' = [met EXCEPT ![r] = {q \in Req : r \in Optimistic /\ Holds(q)}]
    /\ UNCHANGED <<signals, on, seen, read>>
\* WaitFor: a snapshot, and no latches.
WaitFor(r) ==
    /\ pc[r] = "new" /\ r \in OnlyWait
    /\ snap' = [snap EXCEPT ![r] = Snapshot(r)]
    /\ readSet' = readSet \ Flushed(r) /\ tree' = tree \cup Flushed(r)
    /\ pc' = [pc EXCEPT ![r] = "waiting"]
    /\ UNCHANGED <<signals, on, seen, read, met>>

\* CheckOptimisticNoConflicts: r has read the spans S; latches of its snapshot
\* count also when they are released by now.
\* Mutant: they do not.
StillInTheWay(r, S) == {l \in InTheWay(r, S) : l.req \notin done}
Blocking(r, S) == InTheWay(r, S)
CheckOptimistic(r, S) ==
    /\ pc[r] = "optimistic"
    /\ \/ /\ Blocking(r, S) = {}
          /\ pc' = [pc EXCEPT ![r] = "holding"] /\ read' = [read EXCEPT ![r] = S]
          /\ met' = MetBy(r)
       \/ /\ Blocking(r, S) # {}
          /\ pc' = [pc EXCEPT ![r] = "waiting"]
          /\ met' = [met EXCEPT ![r] = {}] /\ UNCHANGED read
    /\ UNCHANGED <<trees, signals, snap, on, seen>>

\* iterAndWait: r goes on to a latch that is not released yet.
Pick(r, l) ==
    /\ pc[r] = "waiting" /\ on[r] = NoReq
    /\ l.req \notin done
    /\ on' = [on EXCEPT ![r] = l.req] /\ seen' = [seen EXCEPT ![r] = FALSE]
    /\ UNCHANGED <<pc, trees, signals, snap, read, met>>
Acquired(r) ==
    /\ pc[r] = "waiting" /\ on[r] = NoReq
    /\ \A l \in InTheWay(r, Spans[r]) : l.req \in done
    /\ pc' = [pc EXCEPT ![r] = IF r \in OnlyWait THEN "gone" ELSE "holding"]
    /\ met' = IF r \in OnlyWait THEN met ELSE MetBy(r)
    /\ snap' = [snap EXCEPT ![r] = {}] /\ seen' = [seen EXCEPT ![r] = FALSE]
    /\ UNCHANGED <<trees, signals, on, read>>

\* waitForSignal: the latch is released, ...
SeeDone(r) ==
    /\ pc[r] = "waiting" /\ on[r] \in done
    /\ on' = [on EXCEPT ![r] = NoReq]
    /\ UNCHANGED <<pc, trees, signals, snap, seen, read, met>>
Fail(r) ==
    /\ pc' = [pc EXCEPT ![r] = IF r \in OnlyWait THEN "gone" ELSE "releasing"]
    /\ on' = [on EXCEPT ![r] = NoReq]
\* ... or poisoned, ...
\* Mutant: who waits on does not pass the poison on.
PoisonKept(r) == {}
PoisonPassed(r) == {r}
SeePoison(r) ==
    /\ pc[r] = "waiting" /\ on[r] \in poison /\ ~ seen[r]
    /\ seen' = [seen EXCEPT ![r] = TRUE]
    /\ \/ /\ Policy[r] = "error" /\ Fail(r) /\ UNCHANGED poison
       \/ /\ Policy[r] = "wait" /\ poison' = poison \cup PoisonPassed(r)
          /\ UNCHANGED <<pc, on>>
    /\ UNCHANGED <<trees, done, snap, read, met>>
\* ... or r is cancelled, or the server stops.
CancelWait(r) ==
    /\ pc[r] = "waiting" /\ on[r] # NoReq
    /\ Fail(r)
    /\ UNCHANGED <<trees, signals, snap, seen, read, met>>

\* The request has evaluated; an optimistic one may give up without waiting.
Finish(r) ==
    /\ pc[r] \in {"holding", "optimistic"}
    /\ pc' = [pc EXCEPT ![r] = "releasing"]
    /\ UNCHANGED <<trees, signals, snap, on, seen, read, met>>
Poison(r) ==
    /\ pc[r] = "holding" /\ r \in Stuck \ poison
    /\ poison' = poison \cup {r}
    /\ UNCHANGED <<pc, trees, done, snap, on, seen, read, met>>

\* Release: the signal, then the latches go from the list or the trees.
SignalDone(r) ==
    /\ pc[r] = "releasing"
    /\ done' = done \cup {r} /\ pc' = [pc EXCEPT ![r] = "removing"]
    /\ snap' = [snap EXCEPT ![r] = {}] /\ seen' = [seen EXCEPT ![r] = FALSE]
    /\ UNCHANGED <<trees, poison, on, read, met>>
Removed(r) == [readSet |-> readSet \ Latch(r), tree |-> tree \ Latch(r)]
RemoveLatches(r) ==
    /\ pc[r] = "removing" /\ pc' = [pc EXCEPT ![r] = "gone"]
    /\ readSet' = Removed(r).readSet /\ tree' = Removed(r).tree
    /\ met' = [met EXCEPT ![r] = {}]
    /\ UNCHANGED <<signals, snap, on, seen, read>>

-----------------------------------------------------------------------------
WaitStep(r) ==
    \/ \E l \in InTheWay(r, Spans[r]) : Pick(r, l)
    \/ Acquired(r) \/ SeeDone(r) \/ SeePoison(r)
Next ==
    \E r \in Req :
        \/ Sequence(r) \/ WaitFor(r)
        \/ \E S \in SUBSET Spans[r] : CheckOptimistic(r, S)
        \/ WaitStep(r) \/ CancelWait(r)
        \/ Finish(r) \/ Poison(r) \/ SignalDone(r) \/ RemoveLatches(r)

Spec == Init /\ [][Next]_vars

\* Goroutines run; and a request that has its latches finishes or is poisoned,
\* which is what the circuit breaker of the replica is for.  A poisoned one may
\* hold its latches for ever.
FairSpec ==
    /\ Spec
    /\ \A r \in Req :
        /\ WF_vars(WaitStep(r)) /\ WF_vars(SignalDone(r) \/ RemoveLatches(r))
        /\ WF_vars(r \notin poison /\ (Finish(r) \/ Poison(r)))
        /\ WF_vars(\E S \in SUBSET Spans[r] : CheckOptimistic(r, S))

-----------------------------------------------------------------------------
(* Properties.                                                             *)

\* What one reads or writes changes the other's outcome: a write meets a write, or
\* a read that is not below it in time.
Disturbs(s, t) ==
    /\ s.scope = t.scope /\ s.key = t.key
    /\ \/ s.write /\ t.write
       \/ s.write /\ ~ t.write /\ (t.ts = 0 \/ t.ts >= s.ts)
       \/ ~ s.write /\ t.write /\ (s.ts = 0 \/ s.ts >= t.ts)

\* Requests that hold their latches at the same time do not conflict in what
\* they read and write.
Isolation ==
    \A r, q \in Req : r # q /\ Holds(r) /\ Holds(q) =>
        ~ \E s \in read[r], t \in read[q] : Disturbs(s, t)

\* An optimistic request whose check succeeded never evaluated side by side with
\* one it conflicts with in what it read, also if that one is gone by now.
OptimisticAlone ==
    \A r \in Optimistic, q \in Req : Holds(r) /\ q \in met[r] =>
        ~ \E s \in read[r], t \in read[q] : Disturbs(s, t)

\* Requests wait for earlier ones only: there are never some of them that all
\* wait for each other.
NoWaitingInCircles ==
    ~ \E S \in SUBSET Req : S # {} /\ \A r \in S : on[r] \in S

\* Who wants an error rather than a poisoned latch does not wait for ever, also
\* if a request in between prefers to wait.
FailFast ==
    \A r \in Req : Policy[r] = "error" /\ pc[r] = "waiting" ~> pc[r] # "waiting"
=============================================================================
