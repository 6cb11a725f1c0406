---------------------------- MODULE TxnWaitQueue ----------------------------
(***************************************************************************)
(* txnwait.Queue: where PushTxn requests wait for the transactions they    *)
(* could not push, and where deadlocks between them are found and broken.  *)
(*                                                                         *)
(* The record of every transaction is on a range of its own, with a queue  *)
(* on the leaseholder.  A push evaluates under a latch on the record; if   *)
(* it fails the pushee is entered in the queue before the latch is         *)
(* released, and the push waits there.  EndTxn and successful pushes       *)
(* change the record and then, under the same latch, tell the queue.       *)
(*                                                                         *)
(* While it waits, a push queries its own transaction for those that wait  *)
(* for it, and adds them to its dependents, which are in turn what others  *)
(* learn when they query.  When the pushee is among the dependents there   *)
(* is a cycle, and the push is forced, if it outranks the pushee.          *)
(*                                                                         *)
(* Pushes are PUSH_ABORT at normal priorities, which do not win by         *)
(* priority alone.                                                         *)
(***************************************************************************)
EXTENDS Integers, FiniteSets

CONSTANTS
    Txn,            \* the transactions, as natural numbers: their ids
    Push,           \* the pushes
    Pusher,         \* Pusher[p]: the transaction that pushes, or NoTxn
    Pushee,         \* Pushee[p]
    NoTxn,
    Pri,            \* Pri[t]: the priority t starts with
    MaxPri,         \* bound on priorities
    Mortal,         \* the transactions whose coordinators may die
    Recordless,     \* those that may be found uncommittable without a record
    Cancellable,    \* the pushes whose caller may give up
    Timed,          \* those whose pushee has no regular heartbeats
    Instances       \* which pushes there are, with a bound on disturbances

ASSUME QueueAssumption ==
    /\ Txn \subseteq Nat /\ NoTxn \notin Txn
    /\ \A p \in Push : Pushee[p] \in Txn /\ Pusher[p] \in (Txn \cup {NoTxn}) \ {Pushee[p]}
    /\ Pri \in [Txn -> 1..MaxPri]
    /\ Mortal \subseteq Txn /\ Recordless \subseteq Txn /\ Cancellable \subseteq Push /\ Timed \subseteq Push
    /\ MaxPri \in Nat /\ Instances \subseteq [pushes : SUBSET Push, disturbances : Nat]

VARIABLES
    rec,        \* rec[t]: the status that reading t's record gives
    pri,        \* pri[t]: the priority in it
    latched,    \* records that were changed and whose queue is not told yet
    dead,       \* transactions that have expired
    enabled,    \* enabled[t]: the queue of t's range takes waiters
    left,       \* how many disturbances may still happen
    entry,      \* entry[t]: the pendingTxn, as a set of at most one [st, pri]
    pc,         \* pc[p]: where the push is
    holding,    \* the pushes that failed and still hold the latch on the record
    listed,     \* the pushes in the waitingPushes of a pendingTxn in the queue
    msg,        \* msg[p]: what is in the pending channel of p
    asked,      \* the waiting pushes that have queried the pushee
    view,       \* view[p]: [pusher, pushee], priorities as p knows them
    deps,       \* deps[p]: dependents of the waitingPush
    mon,        \* mon[p]: where the goroutine is that queries the pusher
    known,      \* known[p]: waitingTxns of that goroutine
    ans         \* ans[p]: the answer [st, pri] it got last

record == <<rec, pri, latched, dead>>
queue == <<enabled, left, entry>>
pushes == <<pc, holding, listed, msg, asked, view>>
monitor == <<deps, mon, known, ans>>
vars == <<record, queue, pushes, monitor>>

Status == {"pending", "committed", "aborted"}
Final == {"committed", "aborted"}
Outcome == {"pushed", "failed"}
Known == [st : Status, pri : 0..MaxPri]

\* Every variable stays in its range; there is at most one entry per transaction,
\* and only a push that waits is listed or has a goroutine.
TypeOK ==
    /\ rec \in [Txn -> Status] /\ pri \in [Txn -> 1..MaxPri]
    /\ latched \subseteq Txn /\ dead \subseteq Txn
    /\ enabled \in [Txn -> BOOLEAN] /\ left \in Nat
    /\ entry \in [Txn -> SUBSET Known] /\ \A t \in Txn : \A e, f \in entry[t] : e = f
    /\ pc \in [Push -> {"new", "evaluate", "enqueue", "join", "waiting", "force"} \cup Outcome]
    /\ holding \subseteq Push /\ listed \subseteq Push /\ asked \subseteq Push
    /\ msg \in [Push -> {"none", "nil"} \cup Final]
    /\ view \in [Push -> [pusher : 0..MaxPri, pushee : 0..MaxPri]] /\ ans \in [Push -> Known]
    /\ deps \in [Push -> SUBSET Txn] /\ known \in [Push -> SUBSET Txn]
    /\ mon \in [Push -> {"off", "ask", "parked", "brief", "query", "reply", "answer"}]
    /\ \A p \in Push : p \in listed \/ mon[p] # "off" => pc[p] \in {"waiting", "force"}

\* The transactions that push or are pushed by S.
Involved(S) == {Pushee[p] : p \in S} \cup ({Pusher[p] : p \in S} \ {NoTxn})

Init ==
    /\ \E i \in Instances :
        /\ left = i.disturbances
        /\ pc = [p \in Push |-> IF p \in i.pushes THEN "new" ELSE "failed"]
        /\ rec = [t \in Txn |-> IF t \in Involved(i.pushes) THEN "pending" ELSE "committed"]
    /\ pri = Pri /\ latched = {} /\ dead = {}
    /\ enabled = [t \in Txn |-> TRUE] /\ entry = [t \in Txn |-> {}] /\ holding = {} /\ listed = {} /\ msg = [p \in Push |-> "none"]
    /\ asked = {} /\ view = [p \in Push |-> [pusher |-> 0, pushee |-> 0]]
    /\ deps = [p \in Push |-> {}] /\ mon = [p \in Push |-> "off"]
    /\ known = [p \in Push |-> {}] /\ ans = [p \in Push |-> [st |-> "pending", pri |-> 0]]

-----------------------------------------------------------------------------
(* The queue of a transaction.                                             *)

WaitersOf(t) == {p \in listed : Pushee[p] = t}
\* getDependentsSet, GetDependents
DependentsOf(t) ==
    UNION {{Pusher[p]} \cup deps[p] : p \in {q \in WaitersOf(t) : Pusher[q] # NoTxn}}

\* releaseWaitingQueriesLocked: the queries that wait for news of t go on.
ReleaseQueries(t, m) ==
    [p \in Push |-> IF m[p] \in {"parked", "brief"} /\ Pusher[p] = t THEN "query" ELSE m[p]]

\* takeWaitingPushes, and the sends on the channels of those that wait.
\* Mutant: nobody is told.
TakenNone(t) == {}
Taken(t) == WaitersOf(t)
Notify(t, st) ==
    /\ listed' = listed \ Taken(t)
    /\ msg' = [p \in Push |-> IF p \in Taken(t) THEN st ELSE msg[p]]
    /\ entry' = [entry EXCEPT ![t] = {}]

\* What a push leaves behind when it stops waiting: its element of the list goes,
\* and the goroutine is cancelled.
Left(p) ==
    /\ asked' = asked \ {p} /\ view' = [view EXCEPT ![p] = [pusher |-> 0, pushee |-> 0]]
    /\ deps' = [deps EXCEPT ![p] = {}] /\ known' = [known EXCEPT ![p] = {}]
    /\ ans' = [ans EXCEPT ![p] = [st |-> "pending", pri |-> 0]]
Stopped(p) == [mon EXCEPT ![p] = "off"]
Return(p, l) ==
    /\ pc' = [pc EXCEPT ![p] = l] /\ listed' = listed \ {p}
    /\ msg' = [msg EXCEPT ![p] = "none"] /\ mon' = Stopped(p)
    /\ Left(p) /\ UNCHANGED holding

\* Who can read the record of t now: the latch is free, on the leaseholder.
Readable(t) == enabled[t] /\ t \notin latched /\ \A p \in holding : Pushee[p] # t

\* Cancellations, expirations, lease changes and raised priorities are bounded.
Disturb == left > 0 /\ left' = left - 1

-----------------------------------------------------------------------------
(* PushTxn.                                                                *)

StartPush(p) ==
    /\ pc[p] = "new" /\ \A t \in {Pusher[p]} \cap Txn : rec[t] = "pending"
    /\ pc' = [pc EXCEPT ![p] = "join"]
    /\ UNCHANGED <<record, queue, holding, listed, msg, asked, view, monitor>>

\* A push evaluates.  If it loses the pushee is enqueued, under the latch.
PushSucceeds(p) ==
    /\ pc[p] = "evaluate" /\ Readable(Pushee[p])
    /\ rec[Pushee[p]] \in Final
    /\ pc' = [pc EXCEPT ![p] = "pushed"]
    /\ UNCHANGED <<record, queue, holding, listed, msg, asked, view, monitor>>
PushAborts(p) ==
    LET t == Pushee[p] IN
    /\ pc[p] \in {"evaluate", "force"} /\ Readable(t)
    /\ rec[t] = "pending" /\ (t \in dead \/ pc[p] = "force")
    /\ rec' = [rec EXCEPT ![t] = "aborted"] /\ latched' = latched \cup {t}
    /\ Return(p, "pushed")
    /\ UNCHANGED <<pri, dead, queue>>
\* forcePushAbort finds that somebody else was faster.
ForceTooLate(p) ==
    /\ pc[p] = "force" /\ Readable(Pushee[p]) /\ rec[Pushee[p]] \in Final
    /\ Return(p, "pushed")
    /\ UNCHANGED <<record, queue>>
Latch(p) == {p}
PushFails(p) ==
    LET t == Pushee[p] IN
    /\ pc[p] = "evaluate" /\ Readable(t)
    /\ rec[t] = "pending" /\ t \notin dead
    /\ pc' = [pc EXCEPT ![p] = "enqueue"] /\ holding' = holding \cup Latch(p)
    /\ ans' = [ans EXCEPT ![p] = [st |-> rec[t], pri |-> pri[t]]]
    /\ UNCHANGED <<record, queue, listed, msg, asked, view, deps, mon, known>>
\* HandleTransactionPushError: EnqueueTxn with what the push has read, if the queue
\* is enabled, and then the latch is released.
EnqueueTxn(p) ==
    LET t == Pushee[p] IN
    /\ pc[p] = "enqueue"
    /\ entry' = IF enabled[t] THEN [entry EXCEPT ![t] = {ans[p]}] ELSE entry
    /\ pc' = [pc EXCEPT ![p] = "join"] /\ holding' = holding \ {p}
    /\ ans' = [ans EXCEPT ![p] = [st |-> "pending", pri |-> 0]]
    /\ UNCHANGED <<record, enabled, left, listed, msg, asked, view, deps, mon, known>>

\* MaybeWaitForPush: there is no queue for the pushee, ...
NoQueue(p) ==
    /\ pc[p] = "join" /\ entry[Pushee[p]] = {}
    /\ pc' = [pc EXCEPT ![p] = "evaluate"]
    /\ UNCHANGED <<record, queue, holding, listed, msg, asked, view, monitor>>
\* ... the pushee is known to be finished, ...
AlreadyPushed(p) ==
    /\ pc[p] = "join" /\ \E e \in entry[Pushee[p]] : e.st \in Final
    /\ pc' = [pc EXCEPT ![p] = "pushed"]
    /\ UNCHANGED <<record, queue, holding, listed, msg, asked, view, monitor>>
\* ... or the push waits, and queries for the pushee hear of the new dependent.
Wait(p) ==
    /\ pc[p] = "join" /\ \E e \in entry[Pushee[p]] : e.st = "pending"
    /\ pc' = [pc EXCEPT ![p] = "waiting"] /\ listed' = listed \cup {p}
    /\ view' = [view EXCEPT ![p] = [pusher |-> IF Pusher[p] = NoTxn THEN 0 ELSE Pri[Pusher[p]],
                                    pushee |-> Pri[Pushee[p]]]]
    /\ mon' = ReleaseQueries(Pushee[p],
                  [mon EXCEPT ![p] = IF Pusher[p] = NoTxn THEN "off" ELSE "ask"])
    /\ UNCHANGED <<record, queue, holding, msg, asked, deps, known, ans>>

-----------------------------------------------------------------------------
(* waitForPush.                                                            *)

\* The queue was cleared, or the pushee was updated.
TakeMessage(p) ==
    /\ pc[p] = "waiting" /\ msg[p] # "none"
    /\ Return(p, IF msg[p] \in Final THEN "pushed" ELSE "evaluate")
    /\ UNCHANGED <<record, queue>>
Due(p) == p \notin asked
\* pusheeTxnTimer: at once, and then whenever the pushee may have expired.
QueryPushee(p) ==
    LET t == Pushee[p] IN
    /\ pc[p] = "waiting" /\ Readable(t)
    /\ \/ /\ rec[t] = "aborted"
          /\ pc' = [pc EXCEPT ![p] = "pushed"] /\ Notify(t, "aborted")
          /\ mon' = ReleaseQueries(t, [mon EXCEPT ![p] = "off"]) /\ Left(p)
          /\ UNCHANGED <<enabled, left, holding>>
       \/ /\ rec[t] = "committed" \/ (rec[t] = "pending" /\ t \in dead)
          /\ Return(p, IF rec[t] = "committed" THEN "pushed" ELSE "evaluate")
          /\ entry' = [entry EXCEPT ![t] = IF p \in listed THEN {[st |-> rec[t], pri |-> pri[t]]} ELSE @]
          /\ UNCHANGED <<enabled, left>>
       \/ /\ rec[t] = "pending" /\ t \notin dead
          /\ asked' = asked \cup {p} /\ view' = [view EXCEPT ![p].pushee = pri[t]]
          /\ entry' = [entry EXCEPT ![t] = IF p \in listed THEN {[st |-> rec[t], pri |-> pri[t]]} ELSE @]
          /\ UNCHANGED <<enabled, left, pc, holding, listed, msg, monitor>>
    /\ UNCHANGED record

\* The caller gives up, or the server stops.
Cancel(p) ==
    /\ pc[p] = "waiting" /\ p \in Cancellable /\ Disturb
    /\ Return(p, "failed") /\ UNCHANGED <<record, enabled, entry>>

\* An update of the pusher arrives: it is finished itself, ...
PusherDone(p) ==
    /\ pc[p] = "waiting" /\ mon[p] = "answer" /\ ans[p].st \in Final
    /\ Return(p, "failed") /\ UNCHANGED <<record, queue>>
\* ... or there is a deadlock, which the push breaks or leaves to another one.
\* Mutant: ties are broken by both sides.
OutranksOrTies(p, own) == view[p].pushee <= own
Outranks(p, own) ==
    \/ view[p].pushee < own
    \/ view[p].pushee = own /\ Pushee[p] < Pusher[p]
\* Mutant: those that wait for news of the pushee are not told.
ToldNoOne(p, m) == m
Told(p, m) == ReleaseQueries(Pushee[p], m)
PusherUpdated(p) ==
    LET own == IF ans[p].pri > view[p].pusher THEN ans[p].pri ELSE view[p].pusher IN
    /\ pc[p] = "waiting" /\ mon[p] = "answer" /\ ans[p].st = "pending"
    /\ view' = [view EXCEPT ![p].pusher = own]
    /\ \/ /\ Pushee[p] \in deps[p] /\ Outranks(p, own)
          /\ pc' = [pc EXCEPT ![p] = "force"] /\ mon' = Told(p, [mon EXCEPT ![p] = "off"])
       \/ /\ ~ (Pushee[p] \in deps[p] /\ Outranks(p, own))
          /\ mon' = Told(p, [mon EXCEPT ![p] = "ask"]) /\ UNCHANGED pc
    /\ UNCHANGED <<record, queue, holding, listed, msg, asked, deps, known, ans>>

-----------------------------------------------------------------------------
(* startQueryPusherTxn: QueryTxn requests for the pusher.                  *)

\* isTxnUpdated
News(p, e) ==
    \/ e.st \in Final \/ e.pri > ans[p].pri
    \/ DependentsOf(Pusher[p]) # known[p]
\* MaybeWaitForQuery: there is news, or the query waits for some; if the pusher has
\* no queue it does not wait long.
Ask(p) ==
    LET e == entry[Pusher[p]] IN
    /\ mon[p] = "ask" /\ enabled[Pusher[p]]
    /\ mon' = [mon EXCEPT ![p] = IF e = {} THEN "brief"
                                 ELSE IF \E x \in e : News(p, x) THEN "query" ELSE "parked"]
    /\ UNCHANGED <<record, queue, pushes, deps, known, ans>>
BriefWaitEnds(p) ==
    /\ mon[p] = "brief" /\ mon' = [mon EXCEPT ![p] = "query"]
    /\ UNCHANGED <<record, queue, pushes, deps, known, ans>>
\* QueryTxn
Query(p) ==
    LET t == Pusher[p] IN
    /\ mon[p] = "query" /\ Readable(t)
    /\ ans' = [ans EXCEPT ![p] = [st |-> rec[t], pri |-> pri[t]]]
    /\ known' = [known EXCEPT ![p] = DependentsOf(t)]
    /\ mon' = [mon EXCEPT ![p] = "reply"]
    /\ UNCHANGED <<record, queue, pushes, deps>>
Learnt(p) == known[p]
Reply(p) ==
    /\ mon[p] = "reply"
    /\ deps' = [deps EXCEPT ![p] = @ \cup Learnt(p)]
    /\ mon' = [mon EXCEPT ![p] = "answer"]
    /\ UNCHANGED <<record, queue, pushes, known, ans>>

-----------------------------------------------------------------------------
(* The transactions and their ranges.                                      *)

Blocked(t) == \E p \in Push : Pusher[p] = t /\ pc[p] \notin {"new"} \cup Outcome
\* EndTxn: a transaction commits when all its requests are answered.
EndTxn(t) ==
    /\ Readable(t) /\ rec[t] = "pending" /\ t \notin dead /\ ~ Blocked(t)
    /\ rec' = [rec EXCEPT ![t] = "committed"] /\ latched' = latched \cup {t}
    /\ UNCHANGED <<pri, dead, queue, pushes, monitor>>
\* OnTransactionUpdated and UpdateTxn, then the latch is released.
UpdateTxn(t) ==
    /\ t \in latched /\ latched' = latched \ {t}
    /\ Notify(t, rec[t]) /\ mon' = ReleaseQueries(t, mon)
    /\ UNCHANGED <<rec, pri, dead, enabled, left, pc, holding, asked, view, deps, known, ans>>

\* The priority in the record of t is raised (UpgradePriority).
Bump(t) ==
    /\ rec[t] = "pending" /\ pri[t] < MaxPri /\ Readable(t)
    /\ pri' = [pri EXCEPT ![t] = @ + 1] /\ Disturb
    /\ UNCHANGED <<rec, latched, dead, enabled, entry, pushes, monitor>>
\* The coordinator dies and its heartbeats stop.
Expire(t) ==
    /\ t \in Mortal \ dead /\ rec[t] = "pending"
    /\ dead' = dead \cup {t} /\ Disturb
    /\ UNCHANGED <<rec, pri, latched, enabled, entry, pushes, monitor>>
\* The timestamp cache forgets: t, which has no record, cannot commit any more,
\* and nobody is told.
Uncommittable(t) ==
    /\ t \in Recordless /\ rec[t] = "pending" /\ t \notin latched
    /\ rec' = [rec EXCEPT ![t] = "aborted"] /\ Disturb
    /\ UNCHANGED <<pri, latched, dead, enabled, entry, pushes, monitor>>

\* Clear(disable): the lease goes, or the range is split.  A replica applies what
\* is before it in the log first.  The next leaseholder has latches of its own.
Clear(t, disable) ==
    /\ enabled[t] /\ t \notin latched /\ Disturb
    /\ enabled' = [enabled EXCEPT ![t] = ~ disable]
    /\ Notify(t, "nil") /\ mon' = ReleaseQueries(t, mon)
    /\ holding' = IF disable THEN {p \in holding : Pushee[p] # t} ELSE holding
    /\ UNCHANGED <<record, pc, asked, view, deps, known, ans>>
Enable(t) ==
    /\ ~ enabled[t] /\ enabled' = [enabled EXCEPT ![t] = TRUE]
    /\ UNCHANGED <<record, left, entry, pushes, monitor>>

-----------------------------------------------------------------------------
Evaluate(p) == PushSucceeds(p) \/ PushAborts(p) \/ ForceTooLate(p) \/ PushFails(p)
               \/ EnqueueTxn(p)
Join(p) == NoQueue(p) \/ AlreadyPushed(p) \/ Wait(p)
Receive(p) == PusherDone(p) \/ PusherUpdated(p)
MonitorStep(p) == Ask(p) \/ BriefWaitEnds(p) \/ Query(p) \/ Reply(p)
Next ==
    \/ \E p \in Push : \/ StartPush(p) \/ Evaluate(p) \/ Join(p)
                       \/ TakeMessage(p) \/ Receive(p) \/ QueryPushee(p) \/ Cancel(p)
                       \/ MonitorStep(p)
    \/ \E t \in Txn : \/ EndTxn(t) \/ UpdateTxn(t) \/ Enable(t) \/ Bump(t)
                      \/ Expire(t) \/ Uncommittable(t)
                      \/ \E disable \in BOOLEAN : Clear(t, disable)

Spec == Init /\ [][Next]_vars

\* Goroutines run, a select does not overlook what is ready for ever, the lease is
\* somewhere, and a transaction that waits for nothing ends.  The first query of
\* the pushee is immediate; the later ones wait for its expiration, which a
\* transaction with regular heartbeats keeps putting off.
Fairness ==
    /\ \A p \in Push :
        /\ WF_vars(Evaluate(p) \/ Join(p)) /\ WF_vars(MonitorStep(p))
        /\ WF_vars(TakeMessage(p)) /\ WF_vars(Receive(p))
        /\ WF_vars((Due(p) \/ p \in Timed) /\ QueryPushee(p))
    /\ \A t \in Txn : WF_vars(EndTxn(t)) /\ WF_vars(UpdateTxn(t) \/ Enable(t))
FairSpec == Spec /\ Fairness

-----------------------------------------------------------------------------
(* Properties.                                                             *)

\* No push is forgotten: while it waits it is in the list of a pendingTxn that is
\* in the queue, or there is a message for it.
NoForgottenPush ==
    \A p \in Push : pc[p] = "waiting" /\ msg[p] = "none" => p \in listed /\ entry[Pushee[p]] # {}

\* Deadlocks cost no more than they must: while priorities stay as they are, the
\* transaction that ranks highest is not aborted to break one.
Highest(t) == \A u \in Txn : pri[u] < pri[t] \/ (pri[u] = pri[t] /\ u <= t)
HighestSurvives ==
    pri = Pri => \A t \in Txn \ (Mortal \cup Recordless) : Highest(t) => rec[t] # "aborted"

\* Every push that waits returns, deadlock or not.
PushesReturn == \A p \in Push : pc[p] = "waiting" ~> pc[p] \in Outcome
=============================================================================
