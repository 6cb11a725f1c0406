------------------------- MODULE TxnWaitQueueProofs -------------------------
(***************************************************************************)
(* No push is forgotten in a queue, and breaking a deadlock never costs    *)
(* the transaction that ranks highest, for any transactions, pushes and    *)
(* priorities.  The first is about who is listed, and who was told; the    *)
(* second about priorities that only grow, and are known late but never    *)
(* too high.                                                               *)
(***************************************************************************)
EXTENDS TxnWaitQueue, TLAPS

\* Who is listed is in a queue and was told nothing; who does not wait yet was told
\* nothing either.
Listed == \A p \in listed : msg[p] = "none" /\ entry[Pushee[p]] # {}
NotYet == \A p \in Push : pc[p] \in {"new", "evaluate", "enqueue", "join"} => msg[p] = "none"
\* A queue is told of finished transactions only.
LatchedFinished == \A t \in latched : rec[t] \in Final
QInv == TypeOK /\ Listed /\ NotYet /\ LatchedFinished /\ NoForgottenPush

\* Only pushes by transactions have a goroutine that queries the pusher.
PusherQueried == \A p \in Push : mon[p] # "off" => Pusher[p] \in Txn
OnlyMortalsDie == dead \subseteq Mortal
Grown == \A t \in Txn : Pri[t] <= pri[t]
\* What a push knows of priorities lies between the first and the present ones.
Informed(p) ==
    /\ pc[p] \in {"new", "evaluate", "join"} => ans[p].pri = 0
    /\ pc[p] = "waiting" => Pri[Pushee[p]] <= view[p].pushee /\ view[p].pushee <= pri[Pushee[p]]
    /\ pc[p] = "waiting" /\ Pusher[p] \in Txn =>
            /\ Pri[Pusher[p]] <= view[p].pusher /\ view[p].pusher <= pri[Pusher[p]]
            /\ ans[p].pri <= pri[Pusher[p]]
\* A push that is forced is of a transaction that does not rank highest.
Forced == \A p \in Push : pc[p] = "force" => (pri = Pri => ~ Highest(Pushee[p]))
PInv ==
    /\ PusherQueried /\ OnlyMortalsDie /\ Grown
    /\ (\A p \in Push : Informed(p)) /\ Forced /\ HighestSurvives

IInv == QInv /\ PInv

-----------------------------------------------------------------------------
(* The operators the actions share.                                        *)

Mons == {"off", "ask", "parked", "brief", "query", "reply", "answer"}

LEMMA ReleasedMons ==
    ASSUME NEW t, NEW m \in [Push -> Mons]
    PROVE /\ ReleaseQueries(t, m) \in [Push -> Mons]
          /\ \A p \in Push : ReleaseQueries(t, m)[p] = "off" <=> m[p] = "off"
  BY DEF ReleaseQueries, Mons

LEMMA DependentsAreTxns ==
    ASSUME TypeOK, NEW t PROVE DependentsOf(t) \subseteq Txn
  <1>1. SUFFICES ASSUME NEW p \in listed, Pusher[p] # NoTxn PROVE {Pusher[p]} \cup deps[p] \subseteq Txn
    BY DEF DependentsOf, WaitersOf
  <1> QED
    BY <1>1, QueueAssumption DEF TypeOK

LEMMA Notified ==
    ASSUME QInv, NEW t \in Txn, NEW st \in {"nil"} \cup Final, Notify(t, st)
    PROVE /\ listed' \subseteq Push /\ msg' \in [Push -> {"none", "nil"} \cup Final]
          /\ \A p \in Push : p \in listed' <=> p \in listed /\ Pushee[p] # t
          /\ \A p \in Push : msg'[p] = IF p \in listed /\ Pushee[p] = t THEN st ELSE msg[p]
          /\ entry' \in [Txn -> SUBSET Known] /\ entry'[t] = {}
          /\ \A u \in Txn \ {t} : entry'[u] = entry[u]
  <1> USE DEF QInv
  <1>1. \A p : p \in Taken(t) <=> p \in listed /\ Pushee[p] = t
    BY DEF Taken, WaitersOf
  <1>2. listed' \subseteq Push /\ \A p \in Push : p \in listed' <=> p \in listed /\ Pushee[p] # t
    BY <1>1 DEF Notify, TypeOK
  <1>3. \A p \in Push : msg'[p] = IF p \in listed /\ Pushee[p] = t THEN st ELSE msg[p]
    BY <1>1 DEF Notify
  <1>4. msg' \in [Push -> {"none", "nil"} \cup Final]
    BY DEF Notify, TypeOK, Final
  <1>5. entry' \in [Txn -> SUBSET Known] /\ entry'[t] = {} /\ \A u \in Txn \ {t} : entry'[u] = entry[u]
    BY DEF Notify, TypeOK
  <1> QED
    BY <1>2, <1>3, <1>4, <1>5

\* What reading a record gives.
LEMMA ReadIsKnown ==
    ASSUME QInv, NEW t \in Txn PROVE [st |-> rec[t], pri |-> pri[t]] \in Known
  <1>1. rec[t] \in Status /\ pri[t] \in 1..MaxPri
    BY DEF QInv, TypeOK
  <1>2. pri[t] \in 0..MaxPri
    BY <1>1, QueueAssumption
  <1> QED
    BY <1>1, <1>2 DEF Known

Unknown == [st |-> "pending", pri |-> 0]
NoView == [pusher |-> 0, pushee |-> 0]

LEMMA Unknowns == Unknown \in Known /\ NoView \in [pusher : 0..MaxPri, pushee : 0..MaxPri] /\ NoView.pushee = 0
  BY QueueAssumption DEF Unknown, NoView, Known, Status

LEMMA LeftTypes ==
    ASSUME QInv, NEW p \in Push, Left(p)
    PROVE /\ asked' \subseteq Push /\ view' \in [Push -> [pusher : 0..MaxPri, pushee : 0..MaxPri]]
          /\ deps' \in [Push -> SUBSET Txn] /\ known' \in [Push -> SUBSET Txn] /\ ans' \in [Push -> Known]
          /\ ans'[p] = Unknown /\ \A q \in Push \ {p} : ans'[q] = ans[q] /\ view'[q] = view[q]
  BY Unknowns DEF Left, QInv, TypeOK, Unknown, NoView

\* A push returns from the queue: nobody else notices.
LEMMA ReturnInv ==
    ASSUME QInv, NEW p \in Push, NEW l \in {"evaluate"} \cup Outcome, Return(p, l), pc[p] \in {"waiting", "force", "evaluate"},
           rec' \in [Txn -> Status], pri' = pri, latched' \subseteq Txn, dead' = dead, enabled' = enabled,
           left' \in Nat, LatchedFinished',
           entry' \in [Txn -> SUBSET Known],
           \A t \in Txn : (entry'[t] = {} <=> entry[t] = {}) /\ \A e, f \in entry'[t] : e = f
    PROVE QInv'
  <1> USE QueueAssumption DEF QInv
  <1>1. /\ pc' = [pc EXCEPT ![p] = l] /\ listed' = listed \ {p}
        /\ msg' = [msg EXCEPT ![p] = "none"] /\ mon' = [mon EXCEPT ![p] = "off"] /\ holding' = holding
    BY DEF Return, Stopped
  <1>2. Left(p)
    BY DEF Return
  <1>3. TypeOK'
    BY <1>1, <1>2, LeftTypes DEF TypeOK, Outcome
  <1>4. Listed' /\ NotYet'
    BY <1>1 DEF Listed, NotYet, TypeOK
  <1>5. NoForgottenPush'
    <2>1. pc'[p] # "waiting" /\ \A q \in Push \ {p} : pc'[q] = pc[q] /\ msg'[q] = msg[q]
      BY <1>1 DEF TypeOK, Outcome
    <2> QED
      BY <1>1, <2>1 DEF NoForgottenPush
  <1> QED
    BY <1>3, <1>4, <1>5

\* Steps that only change where a push is, before it waits.
LEMMA BeforeWaiting ==
    ASSUME QInv, NEW p \in Push, NEW c \in {"evaluate", "enqueue", "join"} \cup Outcome,
           pc[p] \in {"new", "evaluate", "enqueue", "join"}, pc' = [pc EXCEPT ![p] = c],
           holding' \subseteq Push, ans' \in [Push -> Known],
           entry' \in [Txn -> SUBSET Known],
           \A t \in Txn : (entry'[t] = {} => entry[t] = {}) /\ \A e, f \in entry'[t] : e = f,
           UNCHANGED <<rec, pri, latched, dead, enabled, left, listed, msg, asked, view, deps, mon, known>>
    PROVE QInv'
  <1> USE QueueAssumption DEF QInv
  <1>1. TypeOK'
    <2>1. p \notin listed /\ mon[p] = "off"
      BY DEF TypeOK
    <2> QED
      BY <2>1 DEF TypeOK, Outcome
  <1>2. Listed' /\ NotYet' /\ LatchedFinished'
    BY DEF Listed, NotYet, LatchedFinished, TypeOK
  <1>3. NoForgottenPush'
    BY DEF NoForgottenPush, TypeOK, Outcome
  <1> QED
    BY <1>1, <1>2, <1>3

-----------------------------------------------------------------------------
(* Every action preserves the first half of the invariant.                 *)

LEMMA InitQ == Init => QInv
  <1> SUFFICES ASSUME Init PROVE QInv
    OBVIOUS
  <1> USE QueueAssumption DEF Init
  <1>1. TypeOK
    <2>1. /\ rec \in [Txn -> Status] /\ left \in Nat
          /\ pc \in [Push -> {"new", "failed"}]
      BY DEF Status
    <2>2. view \in [Push -> [pusher : 0..MaxPri, pushee : 0..MaxPri]] /\ ans \in [Push -> Known]
      BY Unknowns DEF NoView, Unknown
    <2>3. enabled \in [Txn -> BOOLEAN]
      OBVIOUS
    <2> QED
      BY <2>1, <2>2, <2>3 DEF TypeOK, Outcome
  <1>2. Listed /\ NotYet /\ LatchedFinished /\ NoForgottenPush
    BY DEF Listed, NotYet, LatchedFinished, NoForgottenPush
  <1> QED
    BY <1>1, <1>2 DEF QInv

LEMMA EvaluateQ == ASSUME QInv, NEW p \in Push, StartPush(p) \/ Evaluate(p) PROVE QInv'
  <1> USE QueueAssumption
  <1>0. /\ Pushee[p] \in Txn
        /\ \A t \in Txn : \A e, f \in entry[t] : e = f
        /\ holding \subseteq Push /\ ans \in [Push -> Known] /\ entry \in [Txn -> SUBSET Known]
    BY DEF QInv, TypeOK
  <1>1. CASE StartPush(p) \/ PushSucceeds(p)
    BY <1>0, <1>1, BeforeWaiting DEF StartPush, PushSucceeds, record, queue, monitor, Outcome
  <1>2. CASE PushAborts(p)
    <2>1. /\ rec' = [rec EXCEPT ![Pushee[p]] = "aborted"] /\ latched' = latched \cup {Pushee[p]}
          /\ UNCHANGED <<pri, dead, enabled, left, entry>> /\ Return(p, "pushed")
          /\ pc[p] \in {"evaluate", "force"}
      BY <1>2 DEF PushAborts, queue
    <2>2. rec' \in [Txn -> Status] /\ latched' \subseteq Txn /\ LatchedFinished' /\ left' \in Nat
      BY <1>0, <2>1 DEF QInv, TypeOK, LatchedFinished, Status, Final
    <2> QED
      BY <1>0, <2>1, <2>2, ReturnInv DEF Outcome
  <1>3. CASE ForceTooLate(p)
    <2>1. /\ UNCHANGED <<rec, pri, latched, dead, enabled, left, entry>> /\ Return(p, "pushed")
          /\ pc[p] = "force"
      BY <1>3 DEF ForceTooLate, record, queue
    <2>2. rec' \in [Txn -> Status] /\ latched' \subseteq Txn /\ LatchedFinished' /\ left' \in Nat
      BY <2>1 DEF QInv, TypeOK, LatchedFinished
    <2> QED
      BY <1>0, <2>1, <2>2, ReturnInv DEF Outcome
  <1>4. CASE PushFails(p)
    <2>1. [st |-> rec[Pushee[p]], pri |-> pri[Pushee[p]]] \in Known
      BY <1>0, ReadIsKnown
    <2>2. ans' \in [Push -> Known] /\ holding' \subseteq Push
      BY <1>0, <1>4, <2>1 DEF PushFails, Latch
    <2> QED
      BY <1>0, <1>4, <2>2, BeforeWaiting DEF PushFails, record, queue
  <1>5. CASE EnqueueTxn(p)
    <2>1. ans' \in [Push -> Known] /\ holding' \subseteq Push
      BY <1>0, <1>5, Unknowns DEF EnqueueTxn, Unknown
    <2>2. /\ entry' \in [Txn -> SUBSET Known]
          /\ \A t \in Txn : (entry'[t] = {} => entry[t] = {}) /\ \A e, f \in entry'[t] : e = f
      BY <1>0, <1>5 DEF EnqueueTxn
    <2> QED
      BY <1>5, <2>1, <2>2, BeforeWaiting DEF EnqueueTxn, record
  <1> QED
    BY <1>1, <1>2, <1>3, <1>4, <1>5 DEF Evaluate

LEMMA JoinQ == ASSUME QInv, NEW p \in Push, Join(p) PROVE QInv'
  <1> USE QueueAssumption
  <1>0. /\ Pushee[p] \in Txn
        /\ \A t \in Txn : \A e, f \in entry[t] : e = f
        /\ holding \subseteq Push /\ ans \in [Push -> Known] /\ entry \in [Txn -> SUBSET Known]
    BY DEF QInv, TypeOK
  <1>1. CASE NoQueue(p) \/ AlreadyPushed(p)
    <2>1. /\ pc[p] = "join" /\ \E c \in {"evaluate", "pushed"} : pc' = [pc EXCEPT ![p] = c]
          /\ UNCHANGED <<rec, pri, latched, dead, enabled, left, entry, holding, listed, msg, asked, view,
                         deps, mon, known, ans>>
      BY <1>1 DEF NoQueue, AlreadyPushed, record, queue, monitor
    <2> QED
      BY <1>0, <2>1, BeforeWaiting DEF Outcome
  <1>2. CASE Wait(p)
    <2>1. /\ pc[p] = "join" /\ entry[Pushee[p]] # {} /\ pc' = [pc EXCEPT ![p] = "waiting"]
          /\ listed' = listed \cup {p}
          /\ UNCHANGED <<rec, pri, latched, dead, enabled, left, entry, holding, msg, asked, deps, known, ans>>
      BY <1>2 DEF Wait, record, queue
    <2>2. view' \in [Push -> [pusher : 0..MaxPri, pushee : 0..MaxPri]]
      <3>1. [pusher |-> IF Pusher[p] = NoTxn THEN 0 ELSE Pri[Pusher[p]], pushee |-> Pri[Pushee[p]]]
               \in [pusher : 0..MaxPri, pushee : 0..MaxPri]
        <4>1. \A t \in Txn : Pri[t] \in 0..MaxPri
          OBVIOUS
        <4>2. Pusher[p] = NoTxn \/ Pusher[p] \in Txn
          OBVIOUS
        <4>3. 0 \in 0..MaxPri
          OBVIOUS
        <4> QED
          BY <1>0, <4>1, <4>2, <4>3
      <3> QED
        BY <1>2, <3>1 DEF Wait, QInv, TypeOK
    <2>3. mon' \in [Push -> Mons] /\ \A q \in Push \ {p} : mon'[q] = "off" <=> mon[q] = "off"
      <3> DEFINE m == [mon EXCEPT ![p] = IF Pusher[p] = NoTxn THEN "off" ELSE "ask"]
      <3>1. m \in [Push -> Mons] /\ \A q \in Push \ {p} : m[q] = mon[q]
        BY DEF QInv, TypeOK, Mons
      <3>2. mon' = ReleaseQueries(Pushee[p], m)
        BY <1>2 DEF Wait
      <3> HIDE DEF m
      <3> QED
        BY <3>1, <3>2, ReleasedMons
    <2>4. TypeOK'
      BY <2>1, <2>2, <2>3 DEF QInv, TypeOK, Mons
    <2>5. Listed' /\ NotYet' /\ LatchedFinished'
      BY <2>1 DEF QInv, Listed, NotYet, LatchedFinished, TypeOK
    <2>6. NoForgottenPush'
      BY <2>1 DEF QInv, NoForgottenPush, TypeOK
    <2> QED
      BY <2>4, <2>5, <2>6 DEF QInv
  <1> QED
    BY <1>1, <1>2 DEF Join

LEMMA WaitingQ ==
    ASSUME QInv, NEW p \in Push, TakeMessage(p) \/ PusherDone(p) \/ Cancel(p) PROVE QInv'
  <1> USE QueueAssumption
  <1>0. /\ \A t \in Txn : \A e, f \in entry[t] : e = f
        /\ entry \in [Txn -> SUBSET Known] /\ left \in Nat /\ rec \in [Txn -> Status] /\ latched \subseteq Txn
    BY DEF QInv, TypeOK
  <1>1. /\ pc[p] = "waiting" /\ \E l \in {"evaluate"} \cup Outcome : Return(p, l)
        /\ UNCHANGED <<rec, pri, latched, dead, enabled, entry>> /\ left' \in Nat
    <2>1. CASE TakeMessage(p) \/ PusherDone(p)
      BY <1>0, <2>1 DEF TakeMessage, PusherDone, record, queue, Outcome
    <2>2. CASE Cancel(p)
      BY <1>0, <2>2 DEF Cancel, Disturb, record, Outcome
    <2> QED
      BY <2>1, <2>2
  <1>2. LatchedFinished'
    BY <1>1 DEF QInv, LatchedFinished
  <1> QED
    BY <1>0, <1>1, <1>2, ReturnInv

\* The queue of t is emptied, and those that waited there are told.
LEMMA NotifyInv ==
    ASSUME QInv, NEW t \in Txn, NEW st \in {"nil"} \cup Final, Notify(t, st), TypeOK', LatchedFinished',
           \A p \in Push : pc'[p] = pc[p] \/ (pc[p] = "waiting" /\ pc'[p] = "pushed")
    PROVE QInv'
  <1> USE QueueAssumption DEF QInv
  <1>1. st # "none"
    BY DEF Final
  <1>2. listed \subseteq Push /\ listed' \subseteq Push
    BY DEF TypeOK
  <1>3. Listed'
    <2>1. SUFFICES ASSUME NEW p \in listed' PROVE msg'[p] = "none" /\ entry'[Pushee[p]] # {}
      BY DEF Listed
    <2>2. p \in Push /\ p \in listed /\ Pushee[p] \in Txn \ {t}
      BY <1>2, Notified
    <2>3. msg'[p] = msg[p] /\ entry'[Pushee[p]] = entry[Pushee[p]]
      BY <2>2, Notified
    <2> QED
      BY <2>2, <2>3 DEF Listed
  <1>4. \A p \in listed : pc[p] \in {"waiting", "force"}
    BY DEF TypeOK
  <1>5. NotYet'
    BY <1>2, <1>4, Notified DEF NotYet
  <1>6. NoForgottenPush'
    <2>1. SUFFICES ASSUME NEW p \in Push, pc'[p] = "waiting", msg'[p] = "none"
                   PROVE p \in listed' /\ entry'[Pushee[p]] # {}
      BY DEF NoForgottenPush
    <2>2. pc[p] = "waiting" /\ msg[p] = "none" /\ ~ (p \in listed /\ Pushee[p] = t)
      BY <1>1, <2>1, Notified
    <2>3. p \in listed /\ entry[Pushee[p]] # {} /\ Pushee[p] # t /\ Pushee[p] \in Txn
      BY <2>2 DEF NoForgottenPush
    <2> QED
      BY <2>3, Notified
  <1> QED
    BY <1>3, <1>5, <1>6

LEMMA QueryPusheeQ == ASSUME QInv, NEW p \in Push, QueryPushee(p) PROVE QInv'
  <1> USE QueueAssumption
  <1> DEFINE t == Pushee[p]
  <1>0. /\ t \in Txn /\ pc[p] = "waiting" /\ UNCHANGED <<rec, pri, latched, dead>>
        /\ \A u \in Txn : \A e, f \in entry[u] : e = f
        /\ entry \in [Txn -> SUBSET Known] /\ left \in Nat /\ rec \in [Txn -> Status] /\ latched \subseteq Txn
        /\ LatchedFinished'
    BY DEF QInv, TypeOK, LatchedFinished, QueryPushee, record
  <1>r. [st |-> rec[t], pri |-> pri[t]] \in Known
    BY <1>0, ReadIsKnown
  <1> HIDE DEF t
  <1>1. CASE /\ rec[t] = "aborted" /\ pc' = [pc EXCEPT ![p] = "pushed"] /\ Notify(t, "aborted")
             /\ mon' = ReleaseQueries(t, [mon EXCEPT ![p] = "off"]) /\ Left(p)
             /\ UNCHANGED <<enabled, left, holding>>
    <2>1. /\ pc' \in [Push -> {"new", "evaluate", "enqueue", "join", "waiting", "force"} \cup Outcome]
          /\ \A q \in Push : pc'[q] = IF q = p THEN "pushed" ELSE pc[q]
      BY <1>1 DEF QInv, TypeOK, Outcome
    <2>2. mon' \in [Push -> Mons] /\ mon'[p] = "off" /\ \A q \in Push \ {p} : mon'[q] = "off" <=> mon[q] = "off"
      <3> DEFINE m == [mon EXCEPT ![p] = "off"]
      <3>1. m \in [Push -> Mons] /\ m[p] = "off" /\ \A q \in Push \ {p} : m[q] = mon[q]
        BY DEF QInv, TypeOK, Mons
      <3>2. mon' = ReleaseQueries(t, m)
        BY <1>1
      <3> HIDE DEF m
      <3> QED
        BY <3>1, <3>2, ReleasedMons
    <2>3. /\ listed' \subseteq Push /\ msg' \in [Push -> {"none", "nil"} \cup Final]
          /\ \A q \in Push : q \in listed' <=> q \in listed /\ Pushee[q] # t
          /\ entry' \in [Txn -> SUBSET Known] /\ entry'[t] = {}
          /\ \A u \in Txn \ {t} : entry'[u] = entry[u]
      BY <1>0, <1>1, Notified DEF Final
    <2>4. p \notin listed'
      BY <2>3 DEF t
    <2>5. TypeOK'
      <3>1. \A q \in Push : q \in listed' \/ mon'[q] # "off" => pc'[q] \in {"waiting", "force"}
        BY <2>1, <2>2, <2>3, <2>4 DEF QInv, TypeOK
      <3>2. \A u \in Txn : \A e, f \in entry'[u] : e = f
        BY <1>0, <2>3
      <3> QED
        BY <1>0, <1>1, <2>1, <2>2, <2>3, <3>1, <3>2, LeftTypes DEF QInv, TypeOK, Mons
    <2> QED
      BY <1>0, <1>1, <2>1, <2>5, NotifyInv DEF Final
  <1>2. CASE /\ \E l \in {"pushed", "evaluate"} : Return(p, l)
             /\ entry' = [entry EXCEPT ![t] = IF p \in listed THEN {[st |-> rec[t], pri |-> pri[t]]} ELSE @]
             /\ UNCHANGED <<enabled, left>>
    <2>1. /\ entry' \in [Txn -> SUBSET Known]
          /\ \A u \in Txn : \A e, f \in entry'[u] : e = f
      BY <1>0, <1>2, <1>r
    <2>2. p \in listed => entry[t] # {}
      BY DEF QInv, Listed, t
    <2>3. \A u \in Txn : entry'[u] = {} <=> entry[u] = {}
      BY <1>0, <1>2, <2>2
    <2> QED
      BY <1>0, <1>2, <2>1, <2>3, ReturnInv DEF Outcome
  <1>3. CASE /\ asked' = asked \cup {p} /\ view' = [view EXCEPT ![p].pushee = pri[t]]
             /\ entry' = [entry EXCEPT ![t] = IF p \in listed THEN {[st |-> rec[t], pri |-> pri[t]]} ELSE @]
             /\ UNCHANGED <<enabled, left, pc, holding, listed, msg, monitor>>
    <2>1. /\ entry' \in [Txn -> SUBSET Known]
          /\ \A u \in Txn : \A e, f \in entry'[u] : e = f
      BY <1>0, <1>3, <1>r
    <2>2. p \in listed => entry[t] # {}
      BY DEF QInv, Listed, t
    <2>3. \A u \in Txn : entry'[u] = {} <=> entry[u] = {}
      BY <1>0, <1>3, <2>2
    <2>4. view' \in [Push -> [pusher : 0..MaxPri, pushee : 0..MaxPri]]
      <3>1. pri[t] \in 0..MaxPri /\ view \in [Push -> [pusher : 0..MaxPri, pushee : 0..MaxPri]]
        BY <1>0 DEF QInv, TypeOK
      <3> QED
        BY <1>3, <3>1
    <2>5. UNCHANGED <<deps, mon, known, ans, pc, holding, listed, msg, enabled, left>> /\ asked' \subseteq Push
      BY <1>3 DEF monitor, QInv, TypeOK
    <2>6. TypeOK'
      BY <1>0, <2>1, <2>4, <2>5 DEF QInv, TypeOK
    <2>7. Listed' /\ NotYet' /\ NoForgottenPush'
      BY <2>3, <2>5 DEF QInv, TypeOK, Listed, NotYet, NoForgottenPush
    <2> QED
      BY <1>0, <2>6, <2>7 DEF QInv
  <1> QED
    BY <1>1, <1>2, <1>3 DEF QueryPushee, t

\* Steps that leave the queues and the pushes alone, except that a waiting push may
\* go on to be forced.
LEMMA MonitorInv ==
    ASSUME QInv, TypeOK', LatchedFinished', UNCHANGED <<entry, listed, msg>>,
           \A p \in Push : pc'[p] = pc[p] \/ (pc[p] = "waiting" /\ pc'[p] = "force")
    PROVE QInv'
  BY DEF QInv, Listed, NotYet, NoForgottenPush, TypeOK

LEMMA PusherUpdatedQ == ASSUME QInv, NEW p \in Push, PusherUpdated(p) PROVE QInv'
  <1> USE QueueAssumption
  <1>0. /\ pc[p] = "waiting"
        /\ UNCHANGED <<rec, pri, latched, dead, enabled, left, entry, holding, listed, msg, asked, deps, known, ans>>
    BY DEF PusherUpdated, record, queue
  <1>1. view' \in [Push -> [pusher : 0..MaxPri, pushee : 0..MaxPri]]
    <2>1. /\ ans[p] \in Known /\ view[p] \in [pusher : 0..MaxPri, pushee : 0..MaxPri]
          /\ view \in [Push -> [pusher : 0..MaxPri, pushee : 0..MaxPri]]
      BY DEF QInv, TypeOK
    <2>2. ans[p].pri \in 0..MaxPri /\ view[p].pusher \in 0..MaxPri
      BY <2>1 DEF Known
    <2> QED
      BY <2>1, <2>2 DEF PusherUpdated
  <1>2. \E c \in {"off", "ask"} : /\ mon' = ReleaseQueries(Pushee[p], [mon EXCEPT ![p] = c])
                                  /\ pc' = IF c = "off" THEN [pc EXCEPT ![p] = "force"] ELSE pc
    BY DEF PusherUpdated, Told
  <1>3. PICK c \in {"off", "ask"} : /\ mon' = ReleaseQueries(Pushee[p], [mon EXCEPT ![p] = c])
                                    /\ pc' = IF c = "off" THEN [pc EXCEPT ![p] = "force"] ELSE pc
    BY <1>2
  <1>4. mon' \in [Push -> Mons] /\ \A q \in Push \ {p} : mon'[q] = "off" <=> mon[q] = "off"
    <2> DEFINE m == [mon EXCEPT ![p] = c]
    <2>1. m \in [Push -> Mons] /\ \A q \in Push \ {p} : m[q] = mon[q]
      BY DEF QInv, TypeOK, Mons
    <2>2. mon' = ReleaseQueries(Pushee[p], m)
      BY <1>3
    <2> HIDE DEF m
    <2> QED
      BY <2>1, <2>2, ReleasedMons
  <1>5. /\ \A q \in Push : pc'[q] = pc[q] \/ (pc[q] = "waiting" /\ pc'[q] = "force")
        /\ pc' \in [Push -> {"new", "evaluate", "enqueue", "join", "waiting", "force"} \cup Outcome]
    BY <1>0, <1>3 DEF QInv, TypeOK
  <1>6. TypeOK'
    BY <1>0, <1>1, <1>4, <1>5 DEF QInv, TypeOK, Mons
  <1>7. LatchedFinished'
    BY <1>0 DEF QInv, LatchedFinished
  <1> QED
    BY <1>0, <1>5, <1>6, <1>7, MonitorInv

LEMMA MonitorStepQ == ASSUME QInv, NEW p \in Push, MonitorStep(p), Pusher[p] \in Txn PROVE QInv'
  <1> USE QueueAssumption
  <1>0. UNCHANGED <<rec, pri, latched, dead, enabled, left, entry, pc, holding, listed, msg, asked, view>>
    BY DEF MonitorStep, Ask, BriefWaitEnds, Query, Reply, record, queue, pushes
  <1>1. mon[p] # "off" /\ \E c \in Mons : mon' = [mon EXCEPT ![p] = c]
    BY DEF MonitorStep, Ask, BriefWaitEnds, Query, Reply, Mons
  <1>2. deps' \in [Push -> SUBSET Txn] /\ known' \in [Push -> SUBSET Txn] /\ ans' \in [Push -> Known]
    <2>0. deps \in [Push -> SUBSET Txn] /\ known \in [Push -> SUBSET Txn] /\ ans \in [Push -> Known]
      BY DEF QInv, TypeOK
    <2>1. CASE Ask(p) \/ BriefWaitEnds(p)
      BY <2>0, <2>1 DEF Ask, BriefWaitEnds
    <2>2. CASE Query(p)
      <3>1. DependentsOf(Pusher[p]) \subseteq Txn
        BY DependentsAreTxns DEF QInv
      <3>2. [st |-> rec[Pusher[p]], pri |-> pri[Pusher[p]]] \in Known
        BY ReadIsKnown
      <3> QED
        BY <2>0, <2>2, <3>1, <3>2 DEF Query
    <2>3. CASE Reply(p)
      BY <2>0, <2>3 DEF Reply, Learnt
    <2> QED
      BY <2>1, <2>2, <2>3 DEF MonitorStep
  <1>3. TypeOK'
    <2>1. mon' \in [Push -> Mons] /\ \A q \in Push : mon'[q] # "off" => mon[q] # "off"
      BY <1>1 DEF QInv, TypeOK, Mons
    <2> QED
      BY <1>0, <1>2, <2>1 DEF QInv, TypeOK, Mons
  <1>4. LatchedFinished'
    BY <1>0 DEF QInv, LatchedFinished
  <1> QED
    BY <1>0, <1>3, <1>4, MonitorInv

LEMMA RangeQ ==
    ASSUME QInv, NEW t \in Txn,
           \/ EndTxn(t) \/ Enable(t) \/ Bump(t) \/ Expire(t) \/ Uncommittable(t)
    PROVE QInv'
  <1> USE QueueAssumption
  <1>0. UNCHANGED <<entry, pc, holding, listed, msg, asked, view, deps, mon, known, ans>>
    BY DEF EndTxn, Enable, Bump, Expire, Uncommittable, queue, pushes, monitor
  <1>1. /\ rec' \in [Txn -> Status] /\ pri' \in [Txn -> 1..MaxPri] /\ latched' \subseteq Txn
        /\ dead' \subseteq Txn /\ enabled' \in [Txn -> BOOLEAN] /\ left' \in Nat
    <2>0. /\ rec \in [Txn -> Status] /\ pri \in [Txn -> 1..MaxPri] /\ latched \subseteq Txn
          /\ dead \subseteq Txn /\ enabled \in [Txn -> BOOLEAN] /\ left \in Nat
      BY DEF QInv, TypeOK
    <2>1. CASE EndTxn(t)
      BY <2>0, <2>1 DEF EndTxn, queue, Status
    <2>2. CASE Enable(t)
      <3>1. UNCHANGED <<rec, pri, latched, dead, left>>
        BY <2>2 DEF Enable, record
      <3>2. enabled' = [enabled EXCEPT ![t] = TRUE]
        BY <2>2 DEF Enable
      <3>3. enabled' \in [Txn -> BOOLEAN]
        BY <2>0, <3>2
      <3> QED
        BY <2>0, <3>1, <3>3
    <2>3. CASE Bump(t)
      <3>1. pri[t] + 1 \in 1..MaxPri
        BY <2>0, <2>3 DEF Bump
      <3> QED
        BY <2>0, <2>3, <3>1 DEF Bump, Disturb
    <2>4. CASE Expire(t)
      BY <2>0, <2>4 DEF Expire, Disturb
    <2>5. CASE Uncommittable(t)
      BY <2>0, <2>5 DEF Uncommittable, Disturb, Status
    <2> QED
      BY <2>1, <2>2, <2>3, <2>4, <2>5
  <1>2. TypeOK'
    BY <1>0, <1>1 DEF QInv, TypeOK
  <1>3. LatchedFinished'
    <2>1. CASE EndTxn(t) \/ Uncommittable(t)
      <3>1. rec \in [Txn -> Status] /\ latched \subseteq Txn
        BY DEF QInv, TypeOK
      <3>2. \E c \in Final : rec' = [rec EXCEPT ![t] = c]
        BY <2>1 DEF EndTxn, Uncommittable, Final
      <3>3. latched' \subseteq latched \cup {t}
        BY <2>1 DEF EndTxn, Uncommittable
      <3> QED
        BY <3>1, <3>2, <3>3 DEF QInv, LatchedFinished
    <2>2. CASE UNCHANGED <<rec, latched>>
      BY <2>2 DEF QInv, LatchedFinished
    <2> QED
      BY <2>1, <2>2 DEF Enable, Bump, Expire, record
  <1> QED
    BY <1>0, <1>2, <1>3, MonitorInv

LEMMA TellQ ==
    ASSUME QInv, NEW t \in Txn, UpdateTxn(t) \/ \E disable \in BOOLEAN : Clear(t, disable) PROVE QInv'
  <1> USE QueueAssumption
  <1>1. PICK st \in {"nil"} \cup Final : Notify(t, st)
    BY DEF UpdateTxn, Clear, QInv, LatchedFinished
  <1>2. /\ mon' = ReleaseQueries(t, mon) /\ latched' \subseteq latched
        /\ UNCHANGED <<rec, pri, dead, pc, asked, view, deps, known, ans>>
    BY DEF UpdateTxn, Clear, record
  <1>3. enabled' \in [Txn -> BOOLEAN]
    <2>0. enabled \in [Txn -> BOOLEAN]
      BY DEF QInv, TypeOK
    <2>1. CASE UpdateTxn(t)
      BY <2>0, <2>1 DEF UpdateTxn
    <2>2. ASSUME NEW disable \in BOOLEAN, Clear(t, disable) PROVE enabled' \in [Txn -> BOOLEAN]
      <3>1. enabled' = [enabled EXCEPT ![t] = ~ disable]
        BY <2>2 DEF Clear
      <3>2. (~ disable) \in BOOLEAN
        OBVIOUS
      <3> QED
        BY <2>0, <3>1, <3>2
    <2> QED
      BY <2>1, <2>2
  <1>4. left' \in Nat /\ holding' \subseteq Push
    BY DEF UpdateTxn, Clear, Disturb, QInv, TypeOK
  <1>5. mon' \in [Push -> Mons] /\ \A p \in Push : mon'[p] = "off" <=> mon[p] = "off"
    BY <1>2, ReleasedMons DEF QInv, TypeOK, Mons
  <1>6. /\ listed' \subseteq listed /\ listed' \subseteq Push /\ msg' \in [Push -> {"none", "nil"} \cup Final]
        /\ entry' \in [Txn -> SUBSET Known] /\ \A u \in Txn : \A e, f \in entry'[u] : e = f
    <2>1. listed \subseteq Push /\ \A u \in Txn : \A e, f \in entry[u] : e = f
      BY DEF QInv, TypeOK
    <2> QED
      BY <1>1, <2>1, Notified
  <1>7. TypeOK'
    BY <1>2, <1>3, <1>4, <1>5, <1>6 DEF QInv, TypeOK, Mons
  <1>8. LatchedFinished'
    BY <1>2 DEF QInv, LatchedFinished
  <1> QED
    BY <1>1, <1>2, <1>7, <1>8, NotifyInv

-----------------------------------------------------------------------------
(* Priorities.                                                             *)

LEMMA InitP == Init => PInv
  <1> SUFFICES ASSUME Init PROVE PInv
    OBVIOUS
  <1> USE QueueAssumption DEF Init
  <1>1. PusherQueried /\ OnlyMortalsDie /\ Grown
    BY DEF PusherQueried, OnlyMortalsDie, Grown
  <1>2. \A p \in Push : Informed(p)
    BY DEF Informed
  <1>3. Forced /\ HighestSurvives
    BY DEF Forced, HighestSurvives
  <1> QED
    BY <1>1, <1>2, <1>3 DEF PInv

LEMMA PriNat ==
    ASSUME QInv, PInv, NEW t \in Txn PROVE pri[t] \in Nat /\ Pri[t] \in Nat /\ Pri[t] <= pri[t]
  <1>1. pri[t] \in 1..MaxPri /\ Pri[t] \in 1..MaxPri
    BY QueueAssumption DEF QInv, TypeOK
  <1>2. Pri[t] <= pri[t]
    BY DEF PInv, Grown
  <1> QED
    BY <1>1, <1>2, QueueAssumption

\* A step after which priorities are as they were, and nobody is aborted, keeps what
\* was found out about ranks.
LEMMA RanksKept ==
    ASSUME QInv, PInv, pri' = pri, dead' \subseteq Mortal,
           \A t \in Txn : rec'[t] = "aborted" => rec[t] = "aborted" \/ t \in Recordless \cup Mortal
                              \/ (pri = Pri => ~ Highest(t)),
           \A p \in Push : mon'[p] # "off" => Pusher[p] \in Txn,
           \A p \in Push : pc'[p] = "force" => pc[p] = "force" \/ (pri = Pri => ~ Highest(Pushee[p])),
           \A p \in Push : Informed(p)'
    PROVE PInv'
  <1>1. \A t \in Txn : Highest(t)' <=> Highest(t)
    BY DEF Highest
  <1>2. PusherQueried' /\ OnlyMortalsDie' /\ Grown'
    BY DEF PInv, PusherQueried, OnlyMortalsDie, Grown
  <1>3. Forced'
    BY <1>1, QueueAssumption DEF PInv, Forced
  <1>4. HighestSurvives'
    BY <1>1 DEF PInv, HighestSurvives
  <1> QED
    BY <1>2, <1>3, <1>4 DEF PInv

\* A push that returns, or does not wait, has nothing to know.
LEMMA ReturnP ==
    ASSUME QInv, PInv, NEW p \in Push, NEW l \in {"evaluate"} \cup Outcome, Return(p, l),
           pri' = pri, dead' = dead,
           \A t \in Txn : rec'[t] = "aborted" => rec[t] = "aborted" \/ t \in Recordless \cup Mortal
                              \/ (pri = Pri => ~ Highest(t))
    PROVE PInv'
  <1>1. /\ pc' = [pc EXCEPT ![p] = l] /\ mon' = [mon EXCEPT ![p] = "off"] /\ Left(p)
    BY DEF Return, Stopped
  <1>2. /\ pc'[p] = l /\ l # "waiting" /\ l # "force" /\ mon'[p] = "off"
        /\ \A q \in Push \ {p} : pc'[q] = pc[q] /\ mon'[q] = mon[q]
    BY <1>1 DEF QInv, TypeOK, Outcome
  <1>3. ans'[p].pri = 0 /\ \A q \in Push \ {p} : ans'[q] = ans[q] /\ view'[q] = view[q]
    BY <1>1, LeftTypes DEF Unknown
  <1>4. \A q \in Push : Informed(q)'
    BY <1>2, <1>3 DEF PInv, Informed
  <1> QED
    BY <1>2, <1>4, RanksKept DEF PInv, PusherQueried, OnlyMortalsDie

\* A step that leaves the priorities known to pushes alone, and in which no push
\* begins to wait.
LEMMA UnchangedP ==
    ASSUME QInv, PInv, pri' = pri, dead' \subseteq Mortal, UNCHANGED <<view, ans>>,
           \A t \in Txn : rec'[t] = "aborted" => rec[t] = "aborted" \/ t \in Recordless \cup Mortal,
           \A p \in Push : mon'[p] # "off" => mon[p] # "off",
           \A p \in Push : \/ pc'[p] = pc[p]
                           \/ pc'[p] \in Outcome
                           \/ pc[p] \in {"new", "evaluate", "join"} /\ pc'[p] \in {"evaluate", "join"}
    PROVE PInv'
  <1>1. \A p \in Push : Informed(p)'
    BY DEF PInv, Informed, Outcome
  <1>2. \A p \in Push : pc'[p] = "force" => pc[p] = "force"
    BY DEF Outcome
  <1> QED
    BY <1>1, <1>2, RanksKept DEF PInv, PusherQueried

LEMMA EvaluateP == ASSUME QInv, PInv, NEW p \in Push, StartPush(p) \/ Evaluate(p) PROVE PInv'
  <1> USE QueueAssumption
  <1>t. Pushee[p] \in Txn
    OBVIOUS
  <1>d. dead \subseteq Mortal
    BY DEF PInv, OnlyMortalsDie
  <1>1. CASE StartPush(p) \/ PushSucceeds(p)
    <2>1. /\ UNCHANGED <<rec, pri, dead, view, ans, mon>>
          /\ pc[p] \in {"new", "evaluate"} /\ \E c \in {"join", "pushed"} : pc' = [pc EXCEPT ![p] = c]
      BY <1>1 DEF StartPush, PushSucceeds, record, monitor
    <2>2. \A q \in Push : \/ pc'[q] = pc[q]
                          \/ pc'[q] \in Outcome
                          \/ pc[q] \in {"new", "evaluate", "join"} /\ pc'[q] \in {"evaluate", "join"}
      BY <2>1 DEF QInv, TypeOK, Outcome
    <2> QED
      BY <1>d, <2>1, <2>2, UnchangedP
  <1>2. CASE PushAborts(p)
    <2>1. /\ Return(p, "pushed") /\ UNCHANGED <<pri, dead>>
          /\ rec' = [rec EXCEPT ![Pushee[p]] = "aborted"]
          /\ Pushee[p] \in dead \/ pc[p] = "force"
      BY <1>2 DEF PushAborts
    <2>2. \A t \in Txn : rec'[t] = "aborted" => rec[t] = "aborted" \/ t = Pushee[p]
      BY <2>1 DEF QInv, TypeOK
    <2>3. Pushee[p] \in Mortal \/ (pri = Pri => ~ Highest(Pushee[p]))
      BY <1>d, <2>1 DEF PInv, Forced
    <2> QED
      BY <2>1, <2>2, <2>3, ReturnP DEF Outcome
  <1>3. CASE ForceTooLate(p)
    BY <1>3, ReturnP DEF ForceTooLate, record, Outcome
  <1>4. CASE PushFails(p)
    <2>1. /\ UNCHANGED <<rec, pri, dead, view, mon>> /\ pc' = [pc EXCEPT ![p] = "enqueue"]
          /\ ans' = [ans EXCEPT ![p] = [st |-> rec[Pushee[p]], pri |-> pri[Pushee[p]]]]
      BY <1>4 DEF PushFails, record
    <2>2. \A q \in Push : Informed(q)'
      BY <2>1 DEF QInv, TypeOK, PInv, Informed
    <2>3. \A q \in Push : pc'[q] = "force" => pc[q] = "force"
      BY <2>1 DEF QInv, TypeOK
    <2> QED
      BY <1>d, <2>1, <2>2, <2>3, RanksKept DEF PInv, PusherQueried
  <1>5. CASE EnqueueTxn(p)
    <2>1. /\ UNCHANGED <<rec, pri, dead, view, mon>> /\ pc' = [pc EXCEPT ![p] = "join"]
          /\ ans' = [ans EXCEPT ![p] = Unknown]
      BY <1>5 DEF EnqueueTxn, record, Unknown
    <2>2. \A q \in Push : Informed(q)'
      <3>1. ans'[p].pri = 0 /\ pc'[p] = "join" /\ \A q \in Push \ {p} : ans'[q] = ans[q] /\ pc'[q] = pc[q]
        BY <2>1 DEF QInv, TypeOK, Unknown
      <3> QED
        BY <2>1, <3>1 DEF PInv, Informed
    <2>3. \A q \in Push : pc'[q] = "force" => pc[q] = "force"
      BY <2>1 DEF QInv, TypeOK
    <2> QED
      BY <1>d, <2>1, <2>2, <2>3, RanksKept DEF PInv, PusherQueried
  <1> QED
    BY <1>1, <1>2, <1>3, <1>4, <1>5 DEF Evaluate

LEMMA JoinP == ASSUME QInv, PInv, NEW p \in Push, Join(p) PROVE PInv'
  <1> USE QueueAssumption
  <1>d. dead \subseteq Mortal
    BY DEF PInv, OnlyMortalsDie
  <1>1. CASE NoQueue(p) \/ AlreadyPushed(p)
    <2>1. /\ UNCHANGED <<rec, pri, dead, view, ans, mon>>
          /\ pc[p] = "join" /\ \E c \in {"evaluate", "pushed"} : pc' = [pc EXCEPT ![p] = c]
      BY <1>1 DEF NoQueue, AlreadyPushed, record, monitor
    <2>2. \A q \in Push : \/ pc'[q] = pc[q]
                          \/ pc'[q] \in Outcome
                          \/ pc[q] \in {"new", "evaluate", "join"} /\ pc'[q] \in {"evaluate", "join"}
      BY <2>1 DEF QInv, TypeOK, Outcome
    <2> QED
      BY <1>d, <2>1, <2>2, UnchangedP
  <1>2. CASE Wait(p)
    <2>1. /\ UNCHANGED <<rec, pri, dead, ans>> /\ pc[p] = "join" /\ pc' = [pc EXCEPT ![p] = "waiting"]
      BY <1>2 DEF Wait, record
    <2>2. /\ view'[p].pushee = Pri[Pushee[p]] /\ (Pusher[p] \in Txn => view'[p].pusher = Pri[Pusher[p]])
          /\ \A q \in Push \ {p} : view'[q] = view[q]
      BY <1>2 DEF Wait, QInv, TypeOK
    <2>3. pc'[p] = "waiting" /\ \A q \in Push \ {p} : pc'[q] = pc[q]
      BY <2>1 DEF QInv, TypeOK
    <2>4. \A q \in Push : mon'[q] # "off" => Pusher[q] \in Txn
      <3> DEFINE m == [mon EXCEPT ![p] = IF Pusher[p] = NoTxn THEN "off" ELSE "ask"]
      <3>1. m \in [Push -> Mons] /\ \A q \in Push : m[q] # "off" => Pusher[q] \in Txn
        BY DEF QInv, TypeOK, Mons, PInv, PusherQueried
      <3>2. mon' = ReleaseQueries(Pushee[p], m)
        BY <1>2 DEF Wait
      <3> HIDE DEF m
      <3> QED
        BY <3>1, <3>2, ReleasedMons
    <2>5. Informed(p)'
      <3>1. /\ Pushee[p] \in Txn /\ pri[Pushee[p]] \in Nat /\ Pri[Pushee[p]] \in Nat
            /\ Pri[Pushee[p]] <= pri[Pushee[p]]
        BY PriNat
      <3>2. Pusher[p] \in Txn => /\ pri[Pusher[p]] \in Nat /\ Pri[Pusher[p]] \in Nat
                                 /\ Pri[Pusher[p]] <= pri[Pusher[p]]
        BY PriNat
      <3>3. ans[p].pri = 0
        BY <2>1 DEF PInv, Informed
      <3> QED
        BY <2>1, <2>2, <2>3, <3>1, <3>2, <3>3 DEF Informed
    <2>6. \A q \in Push : Informed(q)'
      BY <2>1, <2>2, <2>3, <2>5 DEF PInv, Informed
    <2> QED
      BY <1>d, <2>1, <2>3, <2>4, <2>6, RanksKept
  <1> QED
    BY <1>1, <1>2 DEF Join

LEMMA WaitingP ==
    ASSUME QInv, PInv, NEW p \in Push, TakeMessage(p) \/ PusherDone(p) \/ Cancel(p) PROVE PInv'
  <1>1. /\ \E l \in {"evaluate"} \cup Outcome : Return(p, l)
        /\ UNCHANGED <<rec, pri, dead>>
    BY DEF TakeMessage, PusherDone, Cancel, record, Outcome
  <1> QED
    BY <1>1, ReturnP

LEMMA QueryPusheeP == ASSUME QInv, PInv, NEW p \in Push, QueryPushee(p) PROVE PInv'
  <1> USE QueueAssumption
  <1> DEFINE t == Pushee[p]
  <1>0. t \in Txn /\ pc[p] = "waiting" /\ UNCHANGED <<rec, pri, dead>> /\ dead \subseteq Mortal
    BY DEF QueryPushee, record, PInv, OnlyMortalsDie
  <1>1. CASE /\ pc' = [pc EXCEPT ![p] = "pushed"]
             /\ mon' = ReleaseQueries(t, [mon EXCEPT ![p] = "off"]) /\ Left(p)
    <2>1. pc'[p] = "pushed" /\ \A q \in Push \ {p} : pc'[q] = pc[q]
      BY <1>1 DEF QInv, TypeOK
    <2>2. \A q \in Push : mon'[q] # "off" => mon[q] # "off"
      <3> DEFINE m == [mon EXCEPT ![p] = "off"]
      <3>1. m \in [Push -> Mons] /\ \A q \in Push : m[q] # "off" => mon[q] # "off"
        BY DEF QInv, TypeOK, Mons
      <3>2. mon' = ReleaseQueries(t, m)
        BY <1>1
      <3> HIDE DEF m
      <3> QED
        BY <3>1, <3>2, ReleasedMons
    <2>3. \A q \in Push \ {p} : ans'[q] = ans[q] /\ view'[q] = view[q]
      BY <1>1, LeftTypes
    <2>4. \A q \in Push : Informed(q)'
      BY <1>0, <2>1, <2>3 DEF PInv, Informed
    <2> QED
      BY <1>0, <2>1, <2>2, <2>4, RanksKept DEF PInv, PusherQueried
  <1>2. CASE \E l \in {"pushed", "evaluate"} : Return(p, l)
    BY <1>0, <1>2, ReturnP DEF Outcome
  <1>3. CASE view' = [view EXCEPT ![p].pushee = pri[t]] /\ UNCHANGED <<pc, mon, ans>>
    <2>1. /\ view'[p].pushee = pri[t] /\ view'[p].pusher = view[p].pusher
          /\ \A q \in Push \ {p} : view'[q] = view[q]
      BY <1>3 DEF QInv, TypeOK
    <2>2. pri[t] \in Nat /\ Pri[t] \in Nat /\ Pri[t] <= pri[t]
      BY <1>0, PriNat
    <2>3. \A q \in Push : Informed(q)'
      BY <1>0, <1>3, <2>1, <2>2 DEF PInv, Informed
    <2> QED
      BY <1>0, <1>3, <2>3, RanksKept DEF PInv, PusherQueried
  <1> QED
    BY <1>1, <1>2, <1>3 DEF QueryPushee, monitor

\* A push is forced only if, as long as priorities stand still, the pusher really
\* ranks higher than the pushee.
LEMMA PusherUpdatedP == ASSUME QInv, PInv, NEW p \in Push, PusherUpdated(p) PROVE PInv'
  <1> USE QueueAssumption
  <1> DEFINE own == IF ans[p].pri > view[p].pusher THEN ans[p].pri ELSE view[p].pusher
  <1>0. /\ pc[p] = "waiting" /\ mon[p] = "answer" /\ UNCHANGED <<rec, pri, dead, ans>>
        /\ view' = [view EXCEPT ![p].pusher = own] /\ dead \subseteq Mortal
    BY DEF PusherUpdated, record, PInv, OnlyMortalsDie
  <1>t. Pushee[p] \in Txn /\ Pusher[p] \in Txn
    BY <1>0 DEF PInv, PusherQueried
  <1>a. /\ pri[Pushee[p]] \in Nat /\ Pri[Pushee[p]] \in Nat /\ Pri[Pushee[p]] <= pri[Pushee[p]]
        /\ pri[Pusher[p]] \in Nat /\ Pri[Pusher[p]] \in Nat /\ Pri[Pusher[p]] <= pri[Pusher[p]]
    BY <1>t, PriNat
  <1>b. ans[p].pri \in Int /\ view[p].pusher \in Int /\ view[p].pushee \in Int
    <2>1. ans[p] \in Known /\ view[p] \in [pusher : 0..MaxPri, pushee : 0..MaxPri]
      BY DEF QInv, TypeOK
    <2> QED
      BY <2>1 DEF Known
  <1>c. /\ Pri[Pushee[p]] <= view[p].pushee /\ view[p].pushee <= pri[Pushee[p]]
        /\ Pri[Pusher[p]] <= own /\ own <= pri[Pusher[p]] /\ own \in Int
    BY <1>0, <1>t, <1>a, <1>b DEF PInv, Informed
  <1>d. /\ view'[p].pusher = own /\ view'[p].pushee = view[p].pushee
        /\ \A q \in Push \ {p} : view'[q] = view[q]
    BY <1>0 DEF QInv, TypeOK
  <1>e. \/ pc' = pc
        \/ pc' = [pc EXCEPT ![p] = "force"] /\ Outranks(p, own)
    BY DEF PusherUpdated
  <1>f. \A q \in Push : mon'[q] # "off" => Pusher[q] \in Txn
    <2>1. PICK c \in {"off", "ask"} : mon' = ReleaseQueries(Pushee[p], [mon EXCEPT ![p] = c])
      BY DEF PusherUpdated, Told
    <2> DEFINE m == [mon EXCEPT ![p] = c]
    <2>2. m \in [Push -> Mons] /\ \A q \in Push : m[q] # "off" => Pusher[q] \in Txn
      BY <1>t DEF QInv, TypeOK, Mons, PInv, PusherQueried
    <2>3. mon' = ReleaseQueries(Pushee[p], m)
      BY <2>1
    <2> HIDE DEF m
    <2> QED
      BY <2>2, <2>3, ReleasedMons
  <1> HIDE DEF own
  <1>1. \A q \in Push : Informed(q)'
    <2>1. Informed(p)'
      <3>1. pc'[p] \in {"waiting", "force"}
        BY <1>0, <1>e DEF QInv, TypeOK
      <3>2. ans[p].pri <= pri[Pusher[p]]
        BY <1>0, <1>t DEF PInv, Informed
      <3> QED
        BY <1>0, <1>c, <1>d, <3>1, <3>2 DEF Informed
    <2>2. \A q \in Push \ {p} : pc'[q] = pc[q]
      BY <1>e DEF QInv, TypeOK
    <2> QED
      BY <1>0, <1>d, <2>1, <2>2 DEF PInv, Informed
  <1>2. ASSUME Outranks(p, own), pri = Pri PROVE ~ Highest(Pushee[p])
    <2>1. view[p].pushee = pri[Pushee[p]] /\ own = pri[Pusher[p]]
      BY <1>a, <1>c, <1>b, <1>2
    <2>2. \/ pri[Pushee[p]] < pri[Pusher[p]]
          \/ pri[Pushee[p]] = pri[Pusher[p]] /\ Pushee[p] < Pusher[p]
      BY <1>2, <2>1 DEF Outranks
    <2>3. Pusher[p] \in Nat /\ Pushee[p] \in Nat
      BY <1>t
    <2>4. ~ (pri[Pusher[p]] < pri[Pushee[p]] \/ (pri[Pusher[p]] = pri[Pushee[p]] /\ Pusher[p] <= Pushee[p]))
      BY <1>a, <2>2, <2>3
    <2> QED
      BY <1>t, <2>4 DEF Highest
  <1>3. \A q \in Push : pc'[q] = "force" => pc[q] = "force" \/ (pri = Pri => ~ Highest(Pushee[q]))
    BY <1>e, <1>2 DEF QInv, TypeOK
  <1> QED
    BY <1>0, <1>1, <1>3, <1>f, RanksKept

LEMMA MonitorStepP == ASSUME QInv, PInv, NEW p \in Push, MonitorStep(p) PROVE PInv'
  <1> USE QueueAssumption
  <1>0. UNCHANGED <<rec, pri, dead, pc, view>> /\ dead \subseteq Mortal
    BY DEF MonitorStep, Ask, BriefWaitEnds, Query, Reply, record, pushes, PInv, OnlyMortalsDie
  <1>1. mon[p] # "off" /\ \E c \in Mons : mon' = [mon EXCEPT ![p] = c]
    BY DEF MonitorStep, Ask, BriefWaitEnds, Query, Reply, Mons
  <1>2. Pusher[p] \in Txn /\ pc[p] \in {"waiting", "force"}
    BY <1>1 DEF PInv, PusherQueried, QInv, TypeOK
  <1>3. \A q \in Push : mon'[q] # "off" => mon[q] # "off"
    BY <1>1 DEF QInv, TypeOK
  <1>4. CASE ans' = ans
    BY <1>0, <1>3, <1>4, UnchangedP
  <1>5. CASE ans' = [ans EXCEPT ![p] = [st |-> rec[Pusher[p]], pri |-> pri[Pusher[p]]]]
    <2>1. ans'[p].pri = pri[Pusher[p]] /\ \A q \in Push \ {p} : ans'[q] = ans[q]
      BY <1>5 DEF QInv, TypeOK
    <2>2. pri[Pusher[p]] \in Nat
      BY <1>2, PriNat
    <2>3. \A q \in Push : Informed(q)'
      BY <1>0, <1>2, <2>1, <2>2 DEF PInv, Informed
    <2> QED
      BY <1>0, <1>3, <2>3, RanksKept DEF PInv, PusherQueried
  <1> QED
    BY <1>4, <1>5 DEF MonitorStep, Ask, BriefWaitEnds, Query, Reply

LEMMA RangeP ==
    ASSUME QInv, PInv, NEW t \in Txn,
           \/ EndTxn(t) \/ Enable(t) \/ Expire(t) \/ Uncommittable(t)
           \/ UpdateTxn(t) \/ \E disable \in BOOLEAN : Clear(t, disable)
    PROVE PInv'
  <1>0. UNCHANGED <<pri, pc, view, ans>>
    BY DEF EndTxn, Enable, Expire, Uncommittable, UpdateTxn, Clear, record, pushes, monitor
  <1>1. dead' \subseteq Mortal
    BY DEF EndTxn, Enable, Expire, Uncommittable, UpdateTxn, Clear, record, PInv, OnlyMortalsDie
  <1>2. \A u \in Txn : rec'[u] = "aborted" => rec[u] = "aborted" \/ u \in Recordless
    <2>1. CASE EndTxn(t) \/ Uncommittable(t)
      BY <2>1 DEF EndTxn, Uncommittable, QInv, TypeOK
    <2>2. CASE rec' = rec
      BY <2>2
    <2> QED
      BY <2>1, <2>2 DEF Enable, Expire, UpdateTxn, Clear, record
  <1>3. \A p \in Push : mon'[p] # "off" => mon[p] # "off"
    <2>1. mon' = mon \/ mon' = ReleaseQueries(t, mon)
      BY DEF EndTxn, Enable, Expire, Uncommittable, UpdateTxn, Clear, monitor
    <2>2. mon \in [Push -> Mons]
      BY DEF QInv, TypeOK, Mons
    <2> QED
      BY <2>1, <2>2, ReleasedMons
  <1> QED
    BY <1>0, <1>1, <1>2, <1>3, UnchangedP

\* Once a priority was raised, HighestSurvives promises nothing more.
LEMMA BumpP == ASSUME QInv, PInv, NEW t \in Txn, Bump(t) PROVE PInv'
  <1> USE QueueAssumption
  <1>0. /\ pri' = [pri EXCEPT ![t] = @ + 1] /\ UNCHANGED <<rec, dead, pc, view, mon, ans>>
    BY DEF Bump, pushes, monitor
  <1>1. \A u \in Txn : pri[u] \in Nat /\ Pri[u] \in Nat /\ Pri[u] <= pri[u]
    BY PriNat
  <1>2. /\ \A u \in Txn : pri'[u] = IF u = t THEN pri[u] + 1 ELSE pri[u]
    BY <1>0 DEF QInv, TypeOK
  <1>3. pri' # Pri
    BY <1>1, <1>2
  <1>4. PusherQueried' /\ OnlyMortalsDie'
    BY <1>0 DEF PInv, PusherQueried, OnlyMortalsDie
  <1>5. Grown'
    BY <1>1, <1>2 DEF Grown
  <1>6. ASSUME NEW p \in Push PROVE Informed(p)'
    <2>1. ans[p].pri \in Int /\ view[p].pusher \in Int /\ view[p].pushee \in Int
      <3>1. ans[p] \in Known /\ view[p] \in [pusher : 0..MaxPri, pushee : 0..MaxPri]
        BY DEF QInv, TypeOK
      <3> QED
        BY <3>1 DEF Known
    <2>2. \A u \in Txn : pri'[u] \in Nat /\ pri[u] <= pri'[u]
      BY <1>1, <1>2
    <2>3. Pushee[p] \in Txn
      OBVIOUS
    <2> QED
      BY <1>0, <1>1, <2>1, <2>2, <2>3 DEF PInv, Informed
  <1>7. Forced' /\ HighestSurvives'
    BY <1>3 DEF Forced, HighestSurvives
  <1> QED
    BY <1>4, <1>5, <1>6, <1>7 DEF PInv

-----------------------------------------------------------------------------
LEMMA NextInv == IInv /\ [Next]_vars => IInv'
  <1> SUFFICES ASSUME QInv, PInv, [Next]_vars PROVE QInv' /\ PInv'
    BY DEF IInv
  <1>1. ASSUME NEW p \in Push, StartPush(p) \/ Evaluate(p) PROVE QInv' /\ PInv'
    BY <1>1, EvaluateQ, EvaluateP
  <1>2. ASSUME NEW p \in Push, Join(p) PROVE QInv' /\ PInv'
    BY <1>2, JoinQ, JoinP
  <1>3. ASSUME NEW p \in Push, TakeMessage(p) \/ PusherDone(p) \/ Cancel(p) PROVE QInv' /\ PInv'
    BY <1>3, WaitingQ, WaitingP
  <1>4. ASSUME NEW p \in Push, QueryPushee(p) PROVE QInv' /\ PInv'
    BY <1>4, QueryPusheeQ, QueryPusheeP
  <1>5. ASSUME NEW p \in Push, PusherUpdated(p) PROVE QInv' /\ PInv'
    BY <1>5, PusherUpdatedQ, PusherUpdatedP
  <1>6. ASSUME NEW p \in Push, MonitorStep(p) PROVE QInv' /\ PInv'
    <2>1. mon[p] # "off"
      BY <1>6 DEF MonitorStep, Ask, BriefWaitEnds, Query, Reply
    <2>2. Pusher[p] \in Txn
      BY <2>1 DEF PInv, PusherQueried
    <2> QED
      BY <1>6, <2>2, MonitorStepQ, MonitorStepP
  <1>7. ASSUME NEW t \in Txn,
               \/ EndTxn(t) \/ Enable(t) \/ Expire(t) \/ Uncommittable(t)
               \/ UpdateTxn(t) \/ \E disable \in BOOLEAN : Clear(t, disable)
        PROVE QInv' /\ PInv'
    BY <1>7, RangeQ, TellQ, RangeP
  <1>8. ASSUME NEW t \in Txn, Bump(t) PROVE QInv' /\ PInv'
    BY <1>8, RangeQ, BumpP
  <1>9. CASE UNCHANGED vars
    <2>1. /\ UNCHANGED <<rec, pri, latched, dead, enabled, left, entry>>
          /\ UNCHANGED <<pc, holding, listed, msg, asked, view, deps, mon, known, ans>>
      BY <1>9 DEF vars, record, queue, pushes, monitor
    <2>2. TypeOK' /\ LatchedFinished'
      BY <2>1 DEF QInv, TypeOK, LatchedFinished
    <2>3. QInv'
      BY <2>1, <2>2, MonitorInv
    <2>4. PInv'
      BY <2>1, UnchangedP DEF PInv, OnlyMortalsDie
    <2> QED
      BY <2>3, <2>4
  <1> QED
    BY <1>1, <1>2, <1>3, <1>4, <1>5, <1>6, <1>7, <1>8, <1>9 DEF Next, Receive

-----------------------------------------------------------------------------
(* What follows.                                                           *)

\* Who waits, who was told and what is known of priorities fit in every state.
THEOREM Inductive == Spec => []IInv
  <1>1. Init => IInv
    BY InitQ, InitP DEF IInv
  <1> QED
    BY <1>1, NextInv, PTL DEF Spec

\* Every variable of the queues stays in its range; there is at most one pendingTxn
\* for a transaction.
THEOREM TypeCorrect == Spec => []TypeOK
  <1>1. IInv => TypeOK
    BY DEF IInv, QInv
  <1> QED
    BY <1>1, Inductive, PTL

\* UpdateTxn, Clear and the query that finds an aborted pushee leave no waiting push
\* behind, however they are interleaved with EnqueueTxn and MaybeWaitForPush.
THEOREM NoForgottenPushHolds == Spec => []NoForgottenPush
  <1>1. IInv => NoForgottenPush
    BY DEF IInv, QInv
  <1> QED
    BY <1>1, Inductive, PTL

\* Deadlock detection, in which every push decides by itself and from what it last
\* heard, spares the transaction that ranks highest: in cycles of any length.
THEOREM HighestSurvivesHolds == Spec => []HighestSurvives
  <1>1. IInv => HighestSurvives
    BY DEF IInv, PInv
  <1> QED
    BY <1>1, Inductive, PTL
=============================================================================
