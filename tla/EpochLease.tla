----------------------------- MODULE EpochLease -----------------------------
(***************************************************************************)
(* Who may serve a range, and when: range leases, the liveness records     *)
(* that epoch-based leases depend on, and the clocks both are judged by.   *)
(*                                                                         *)
(* A replica judges its lease by its own clock and by its cached copy of   *)
(* the holder's liveness record.  Records change by conditional puts: the  *)
(* holder's heartbeats extend the expiration, others increment the epoch   *)
(* of a node whose record has expired.  A new lease is requested by a      *)
(* replica that found the old one expired, evaluated there, and takes      *)
(* effect at its place in the log, which replicas apply at different       *)
(* times: the old holder may be the last one to hear of it.                *)
(*                                                                         *)
(* Time is counted in ticks of the hybrid logical clocks.  Two readings of *)
(* one clock never agree; where the code depends on it, the second reading *)
(* waits for the next tick.                                                *)
(***************************************************************************)
EXTENDS Integers, Sequences, FiniteSets, SequencesExt

CONSTANTS
    Node,           \* one store and one replica of the range on each
    First,          \* the first leaseholder
    MaxOffset,      \* the clocks' maximum offset
    Instances,      \* the settings to start from
    MaxLag,         \* bound on the versions of a record gossip is behind
    MaxEpoch, MaxFlying     \* bounds

Kind == {"epoch", "expiration"}
Instance == [
    firstKind : Kind,           \* the type of the first lease
    firstTime : Nat,            \* the time it was taken, or transferred, at
    steady : SUBSET Node,       \* nodes whose every heartbeat is in time and heard at once
    duration : Nat,             \* RangeLeaseDuration, which is also the liveness threshold
    lead : Nat,                 \* how far in the future a request's timestamp may be
    kind : Kind,                \* the lease type the range should have
    mayTransfer : BOOLEAN,      \* leases may be transferred
    otherRanges : BOOLEAN,      \* requests of other ranges may increment epochs
    maxTime : Nat, maxLeases : Nat \ {0}, maxRestarts : Nat]      \* bounds

ASSUME LeaseAssumption ==
    /\ First \in Node
    /\ {MaxOffset, MaxLag, MaxEpoch, MaxFlying} \subseteq Nat
    /\ \A i \in Instances : i \in Instance /\ MaxOffset < i.duration

VARIABLES
    inst,           \* the setting, one of Instances
    clock,          \* clock[n]: the node's hybrid logical clock
    record,         \* record[n]: n's liveness record in the key-value store
    published,      \* published[n]: the versions of it that gossip may still deliver
    cache,          \* cache[n][m]: m's record as n knows it
    booting,        \* booting[n]: the next heartbeat increments the epoch
    asleep,         \* asleep[n]: 0, or the time before which the node does not start
    log,            \* the leases of the range, in the order they took effect
    applied,        \* applied[n]: how many of them the replica has applied
    minProposed,    \* minProposed[n]: minLeaseProposedTS of the replica
    req,            \* req[n]: the replica's pendingLeaseRequest
    flying,         \* lease commands between their evaluation and the log
    tscache,        \* tscache[n]: the highest timestamp the replica protects
    reads,          \* reads[s]: the highest timestamp read under lease sequence s
    retired,        \* lease sequences their holder stopped using
    hasty,          \* leases that were requested too early, by <<holder, time>>; see Hasty
    restarts        \* how many restarts there were

liveness == <<record, published, cache, booting>>
leases == <<log, applied, minProposed, flying>>
history == <<inst, tscache, reads, retired, hasty, restarts>>
vars == <<clock, asleep, liveness, leases, req, history>>

NoRecord == [epoch |-> 0, exp |-> 0]
Idle == [pc |-> "idle"]
Latest(a, b) == IF a > b THEN a ELSE b
Earliest(a, b) == IF a < b THEN a ELSE b
LeaseOf(n) == log[applied[n]]

Init ==
    /\ inst \in Instances
    /\ clock = [n \in Node |-> inst.firstTime]
    /\ record = [n \in Node |-> [epoch |-> 1,
                               exp |-> inst.duration + IF n \in inst.steady THEN inst.firstTime ELSE 0]]
    /\ published = [n \in Node |-> <<record[n]>>]
    /\ cache = [n \in Node |-> record]
    /\ booting = [n \in Node |-> FALSE]
    /\ asleep = [n \in Node |-> 0]
    /\ log = <<[holder |-> First, seq |-> 1, start |-> inst.firstTime, prop |-> inst.firstTime,
                sum |-> inst.firstTime, epoch |-> IF inst.firstKind = "epoch" THEN 1 ELSE 0,
                exp |-> IF inst.firstKind = "epoch" THEN 0 ELSE inst.firstTime + inst.duration]>>
    /\ applied = [n \in Node |-> 1]
    /\ minProposed = [n \in Node |-> 0]
    /\ req = [n \in Node |-> Idle]
    /\ flying = {}
    /\ tscache = [n \in Node |-> inst.firstTime]
    /\ reads = [s \in 1..inst.maxLeases |-> 0]
    /\ retired = {}
    /\ hasty = {}
    /\ restarts = 0

-----------------------------------------------------------------------------
(* Clocks, which stay within MaxOffset of each other, and liveness records. *)

IsLive(v, now) == now < v.exp
Newer(v, w) == v.epoch > w.epoch \/ (v.epoch = w.epoch /\ v.exp > w.exp)
Updated(n, m, v) == IF Newer(v, cache[n][m]) THEN [cache EXCEPT ![n][m] = v] ELSE cache

Tick(n) ==
    LET now == clock[n] + 1
        new == [record[n] EXCEPT !.exp = now + inst.duration]
    IN
    /\ now <= inst.maxTime /\ \A m \in Node : now <= clock[m] + MaxOffset
    /\ clock' = [clock EXCEPT ![n] = now]
    /\ IF n \in inst.steady
       THEN /\ record' = [record EXCEPT ![n] = new]
            /\ published' = [published EXCEPT ![n] = <<new>>]
            /\ cache' = [m \in Node |-> IF asleep[m] = 0 THEN [cache[m] EXCEPT ![n] = new]
                                       ELSE cache[m]]
       ELSE UNCHANGED <<record, published, cache>>
    /\ UNCHANGED <<asleep, booting, leases, req, history>>

Gossip(n, m) ==
    /\ \E v \in ToSet(published[m]) :
          /\ Newer(v, cache[n][m])
          /\ cache' = Updated(n, m, v)
    /\ UNCHANGED <<clock, asleep, record, published, booting, leases, req, history>>

(* updateLiveness: the put at n of m's record, if the cache and the store  *)
(* still hold the version the caller started from.  Found is the version   *)
(* that is met.                                                            *)
Found(n, m, old) == IF cache[n][m] # old THEN cache[n][m] ELSE record[m]
Put(n, m, new) ==
    /\ new.epoch <= MaxEpoch
    /\ record' = [record EXCEPT ![m] = new]
    /\ published' = [published EXCEPT ![m] =
          IF Len(@) <= MaxLag THEN Append(@, new) ELSE Append(Tail(@), new)]
    /\ cache' = Updated(n, m, new)
Missed(n, m, old) ==
    /\ cache' = Updated(n, m, Found(n, m, old))
    /\ UNCHANGED <<record, published>>

Extended(n, v) == [v EXCEPT !.exp = clock[n] + inst.duration]
Incremented(v) == [v EXCEPT !.epoch = @ + 1]

\* The loop of NodeLiveness.Start: the first heartbeat of a process
\* increments the epoch.
Heartbeat(n) ==
    LET old == IF cache[n][n] = NoRecord THEN record[n] ELSE cache[n][n]
        new == IF booting[n] THEN Incremented(Extended(n, old)) ELSE Extended(n, old)
    IN
    /\ n \notin inst.steady
    /\ new.exp >= old.exp /\ new # old
    /\ IF record[n] = old
       THEN Put(n, n, new) /\ booting' = [booting EXCEPT ![n] = FALSE]
       ELSE cache' = Updated(n, n, record[n]) /\ UNCHANGED <<record, published, booting>>
    /\ UNCHANGED <<clock, asleep, leases, req, history>>

Incrementable(n, v) == v # NoRecord /\ ~ IsLive(v, clock[n])

\* Another range's lease request increments the epoch of m.
IncrementElsewhere(n, m) ==
    /\ inst.otherRanges /\ n # m /\ m \notin inst.steady
    /\ Incrementable(n, cache[n][m]) /\ IsLive(cache[n][n], clock[n])
    /\ IF Found(n, m, cache[n][m]) = cache[n][m]
       THEN Put(n, m, Incremented(cache[n][m]))
       ELSE Missed(n, m, cache[n][m])
    /\ UNCHANGED <<clock, asleep, booting, leases, req, history>>

-----------------------------------------------------------------------------
(* The status of a lease, as replica n sees it.                            *)

\* Mutant: no stasis period.
StasisNone(exp) == exp
Stasis(exp) == exp - MaxOffset
Proscribed(n, l) == l.holder = n /\ l.prop < minProposed[n]
Expiration(n, l) == IF l.epoch = 0 THEN l.exp ELSE cache[n][l.holder].exp
Unknown(n, l) == l.epoch # 0 /\ cache[n][l.holder].epoch < l.epoch
Expired(n, l) ==
    \/ l.epoch # 0 /\ cache[n][l.holder].epoch > l.epoch
    \/ Expiration(n, l) <= clock[n]

LeaseStatus(n, l, ts) ==
    CASE Unknown(n, l) -> "ERROR"
      [] ~ Unknown(n, l) /\ Expired(n, l) -> "EXPIRED"
      [] ~ Unknown(n, l) /\ ~ Expired(n, l) /\ Proscribed(n, l) -> "PROSCRIBED"
      [] OTHER -> IF Stasis(Expiration(n, l)) <= ts THEN "UNUSABLE" ELSE "VALID"

\* leaseGoodToGo
CanServe(n, ts) ==
    /\ asleep[n] = 0
    /\ ts <= clock[n] + inst.lead
    /\ LeaseOf(n).holder = n
    /\ LeaseStatus(n, LeaseOf(n), ts) = "VALID"

Read(n) ==
    \E ts \in {clock[n], clock[n] + inst.lead} :
        /\ CanServe(n, ts)
        /\ reads[LeaseOf(n).seq] < ts
        /\ reads' = [reads EXCEPT ![LeaseOf(n).seq] = ts]
        /\ tscache' = [tscache EXCEPT ![n] = Latest(@, ts)]
        /\ UNCHANGED <<clock, asleep, liveness, leases, req, inst, retired, hasty, restarts>>

-----------------------------------------------------------------------------
(* Requests for leases: pendingLeaseRequest.                               *)

\* A reading of n's clock is later than those its requests were made at, and
\* than the start of its lease, to which its clock was forwarded.
NewReading(n) ==
    /\ LeaseOf(n).holder = n => LeaseOf(n).start < clock[n]
    /\ \A l \in ToSet(log) \cup {c.lease : c \in flying} : l.holder = n => l.prop < clock[n]

LongEnough(v, l) == v.exp >= l.exp

\* InitOrJoinRequest: n requests a lease for `to`, as the successor of the
\* lease whose status it has just determined.
InitRequest(n, to, st, kind) ==
    LET l == LeaseOf(n)
        own == cache[n][to]
    IN
    /\ req[n] = Idle /\ Len(log) < inst.maxLeases
    /\ kind = "epoch" => own.epoch # 0
    /\ NewReading(n)
    /\ LET pc == IF l.epoch = 0 /\ l.holder = to /\ kind = "epoch" /\ ~ LongEnough(own, l)
                 THEN "promote"
                 ELSE IF l.epoch # 0 /\ st = "EXPIRED" THEN "expired" ELSE "send"
       IN  req' = [req EXCEPT ![n] =
              [pc |-> pc, to |-> to, prev |-> l, now |-> clock[n],
               rec |-> IF pc = "send" THEN NoRecord ELSE cache[n][l.holder],
               epoch |-> IF kind = "epoch" THEN own.epoch ELSE 0,
               exp |-> IF kind = "epoch" THEN 0 ELSE clock[n] + inst.duration]]
    /\ hasty' = IF kind = "epoch" /\ booting[n] THEN hasty \cup {<<n, clock[n]>>} ELSE hasty
    /\ UNCHANGED <<clock, asleep, liveness, leases, inst, tscache, reads, retired, restarts>>

WrongType(l) == (l.epoch = 0) # (inst.kind = "expiration")

\* redirectOnOrAcquireLease, maybeExtendLeaseAsync, maybeSwitchLeaseType
RequestLease(n) ==
    \E ts \in {clock[n], clock[n] + inst.lead} :
        LET l == LeaseOf(n)
            st == LeaseStatus(n, l, ts)
        IN
        /\ \/ st = "EXPIRED"
           \/ l.holder = n /\ st \in {"UNUSABLE", "PROSCRIBED"}
           \/ l.holder = n /\ st = "VALID" /\ (l.epoch = 0 \/ WrongType(l))
        /\ InitRequest(n, n, st, inst.kind)

\* AdminTransferLease: transferred leases are expiration-based at first.
TransferLease(n) ==
    /\ inst.mayTransfer
    /\ LeaseOf(n).holder = n
    /\ \E to \in Node \ {n} :
          InitRequest(n, to, LeaseStatus(n, LeaseOf(n), clock[n]), "expiration")

GiveUp(n) == req' = [req EXCEPT ![n] = Idle]
Proceed(n) == req' = [req EXCEPT ![n].pc = "send", ![n].rec = NoRecord]

\* The task is cancelled, or a request fails for a reason of its own.
Cancel(n) ==
    /\ req[n] # Idle
    /\ GiveUp(n)
    /\ UNCHANGED <<clock, asleep, liveness, leases, history>>

\* NodeLiveness.Heartbeat on behalf of a request, which goes on if the node
\* is live afterwards, whoever made it so.
HeartbeatFor(n, old) ==
    LET new == Extended(n, old) IN
    /\ IF Found(n, n, old) = old
       THEN new.exp >= old.exp /\ Put(n, n, new)
       ELSE Missed(n, n, old)
    /\ UNCHANGED <<clock, asleep, booting, leases, history>>
LiveAfter(n, old) ==
    LET found == Found(n, n, old) IN found = old \/ IsLive(found, clock[n])

\* An expiration-based lease is promoted: the record must not expire before
\* the lease did.
Promote(n) ==
    /\ req[n].pc = "promote" /\ HeartbeatFor(n, req[n].rec)
    /\ IF ~ LiveAfter(n, req[n].rec) THEN GiveUp(n)
       ELSE IF LongEnough(cache'[n][n], req[n].prev) THEN Proceed(n)
       ELSE req' = [req EXCEPT ![n].rec = cache'[n][n]]

\* The node's own lease expired.
Revive(n) ==
    /\ req[n].pc = "expired" /\ req[n].prev.holder = req[n].to
    /\ HeartbeatFor(n, req[n].rec)
    /\ IF LiveAfter(n, req[n].rec) THEN Proceed(n) ELSE GiveUp(n)

AfterMissed(n) == GiveUp(n)

\* IncrementEpoch of the previous holder.  An update whose answer is lost is
\* tried again and finds the epoch incremented.
Invalidate(n) ==
    LET m == req[n].prev.holder
        v == req[n].rec
    IN
    /\ req[n].pc = "expired" /\ m # req[n].to
    /\ IF v.epoch # req[n].prev.epoch
       THEN Proceed(n) /\ UNCHANGED <<record, published, cache>>
       ELSE IF ~ (IsLive(cache[n][req[n].to], clock[n]) /\ Incrementable(n, v))
       THEN GiveUp(n) /\ UNCHANGED <<record, published, cache>>
       ELSE IF Found(n, m, v) = v
       THEN Put(n, m, Incremented(v)) /\ (Proceed(n) \/ AfterMissed(n))
       ELSE Missed(n, m, v) /\ AfterMissed(n)
    /\ UNCHANGED <<clock, asleep, booting, leases, history>>

-----------------------------------------------------------------------------
(* Evaluation of RequestLease and TransferLease.                           *)

Equivalent(l, k) ==
    /\ l.holder = k.holder /\ l.start = k.start
    /\ IF l.epoch # 0 THEN k.epoch = l.epoch ELSE k.epoch = 0 /\ l.exp <= k.exp

\* evalNewLease: the lease gets its sequence number.
Sequenced(l, k) == [k EXCEPT !.seq = IF Equivalent(l, k) THEN l.seq ELSE l.seq + 1]
Propose(n, kind, l, k) ==
    /\ Cardinality(flying) < MaxFlying
    /\ flying' = flying \cup {[kind |-> kind, lease |-> Sequenced(l, k),
                              prev |-> req[n].prev.seq, prop |-> l.prop]}

\* Mutant: an extension keeps its start after a restart or a revocation.
ExtensionStartKept(n, l, now) == Earliest(now, l.start)
ExtensionStart(n, l, now) == Latest(Earliest(now, l.start), minProposed[n])
AcquisitionStart(l, now) == IF l.epoch = 0 THEN Earliest(now, l.exp) ELSE now

\* The holder's lease becomes expiration-based, or epoch-based with an epoch that is over.
ChangesType(n, l, epoch) ==
    IF l.epoch # 0 THEN epoch = 0 ELSE epoch # 0 /\ epoch < record[n].epoch

SendRequest(n) ==
    LET l == LeaseOf(n)
        r == req[n]
        extension == l.holder = n
        start == IF extension THEN ExtensionStart(n, l, r.now) ELSE AcquisitionStart(l, r.now)
        exp == IF extension /\ r.epoch = 0 THEN Latest(r.exp, l.exp) ELSE r.exp
        rejected == \/ l.seq # r.prev.seq \/ l.prop # r.prev.prop
                    \/ extension /\ start < l.start
                    \/ ~ extension /\ l.epoch = 0 /\ start < l.exp
                    \/ r.epoch = 0 /\ exp <= start
    IN
    /\ r.pc = "send" /\ r.to = n
    /\ IF rejected THEN UNCHANGED flying
       ELSE Propose(n, "request", l,
                 [holder |-> n, seq |-> 0, start |-> start, prop |-> r.now,
                  sum |-> start, epoch |-> r.epoch, exp |-> exp])
    /\ GiveUp(n)
    /\ hasty' = IF extension /\ ChangesType(n, l, r.epoch) THEN hasty \cup {<<n, r.now>>} ELSE hasty
    /\ UNCHANGED <<clock, asleep, liveness, log, applied, minProposed,
                   inst, tscache, reads, retired, restarts>>

Revoked(n, seq) == IF LeaseOf(n).seq = seq THEN clock[n] ELSE minProposed[n]
ReadSummary(n) == tscache[n]

SendTransfer(n) ==
    LET l == LeaseOf(n)
        r == req[n]
        start == Latest(r.now, clock[n])
    IN
    /\ r.pc = "send" /\ r.to # n
    /\ NewReading(n)
    /\ minProposed' = [minProposed EXCEPT ![n] = Revoked(n, r.prev.seq)]
    /\ retired' = retired \cup {r.prev.seq}
    /\ IF r.exp <= start THEN UNCHANGED flying
       ELSE Propose(n, "transfer", l,
                 [holder |-> r.to, seq |-> 0, start |-> start, prop |-> r.now,
                  sum |-> Latest(start, ReadSummary(n)), epoch |-> 0, exp |-> r.exp])
    /\ GiveUp(n)
    /\ UNCHANGED <<clock, asleep, liveness, log, applied, inst, tscache, reads, hasty, restarts>>

-----------------------------------------------------------------------------
(* Below Raft.                                                             *)

\* CheckForcedErr: a request must find the very lease it was evaluated with.
Mismatch(l, c) ==
    \/ c.prev # l.seq
    \/ c.kind = "request" /\ l.seq = c.lease.seq /\ ~ Equivalent(l, c.lease)
    \/ c.kind = "request" /\ c.prop # l.prop

Commit(c) ==
    /\ Len(log) < inst.maxLeases
    /\ flying' = flying \ {c}
    /\ log' = IF Mismatch(Last(log), c) THEN log ELSE Append(log, c.lease)
    /\ UNCHANGED <<clock, asleep, liveness, applied, minProposed, req, history>>

Drop(c) ==
    /\ flying' = flying \ {c}
    /\ UNCHANGED <<clock, asleep, liveness, log, applied, minProposed, req, history>>

\* leasePostApply
Apply(n) ==
    LET l == log[applied[n] + 1]
        taken == l.holder = n /\ l.seq # LeaseOf(n).seq
    IN
    /\ applied[n] < Len(log)
    /\ applied' = [applied EXCEPT ![n] = @ + 1]
    /\ tscache' = [tscache EXCEPT ![n] = IF taken THEN Latest(@, l.sum) ELSE @]
    /\ clock' = [clock EXCEPT ![n] = IF taken THEN Latest(@, l.start) ELSE @]
    /\ UNCHANGED <<asleep, liveness, log, minProposed, req, flying, inst, reads, retired, hasty,
                   restarts>>

\* Mutant: the node does not wait before it starts.
WakeAtOnce(n) == clock[n]
\* ensureClockMonotonicity
Wake(n) == clock[n] + MaxOffset + 1

Crash(n) ==
    /\ restarts < inst.maxRestarts /\ n \notin inst.steady
    /\ restarts' = restarts + 1
    /\ asleep' = [asleep EXCEPT ![n] = Wake(n)]
    /\ tscache' = [tscache EXCEPT ![n] = 0]
    /\ cache' = [cache EXCEPT ![n] = [m \in Node |-> NoRecord]]
    /\ GiveUp(n)
    /\ retired' = retired \cup {s \in {LeaseOf(n).seq} : LeaseOf(n).holder = n}
    /\ UNCHANGED <<clock, record, published, booting, leases, inst, reads, hasty>>

Start(n) ==
    /\ asleep[n] # 0 /\ asleep[n] <= clock[n] /\ NewReading(n)
    /\ asleep' = [asleep EXCEPT ![n] = 0]
    /\ booting' = [booting EXCEPT ![n] = TRUE]
    /\ minProposed' = [minProposed EXCEPT ![n] = clock[n]]
    /\ tscache' = [tscache EXCEPT ![n] = clock[n]]
    /\ UNCHANGED <<clock, record, published, cache, log, applied, flying, req, inst, reads, retired,
                   hasty, restarts>>

Up == {n \in Node : asleep[n] = 0}

Next ==
    \/ \E n \in Node : Tick(n) \/ Start(n)
    \/ \E n \in Up :
          \/ Heartbeat(n) \/ Read(n)
          \/ RequestLease(n) \/ TransferLease(n) \/ Cancel(n)
          \/ Promote(n) \/ Revive(n) \/ Invalidate(n)
          \/ SendRequest(n) \/ SendTransfer(n)
          \/ Apply(n) \/ Crash(n)
          \/ \E m \in Node : Gossip(n, m) \/ IncrementElsewhere(n, m)
    \/ \E c \in flying : Commit(c) \/ Drop(c)

Spec == Init /\ [][Next]_vars

-----------------------------------------------------------------------------
(* What should hold.                                                       *)

Record == [epoch : Nat, exp : Nat]
Lease == [holder : Node, seq : Nat, start : Nat, prop : Nat, sum : Nat, epoch : Nat, exp : Nat]
Request == [pc : {"promote", "expired", "send"}, to : Node, prev : Lease, now : Nat,
            rec : Record, epoch : Nat, exp : Nat]
Command == [kind : {"request", "transfer"}, lease : Lease, prev : Nat, prop : Nat]

\* Every variable stays in its range.
TypeOK ==
    /\ inst \in Instances
    /\ clock \in [Node -> Nat] /\ asleep \in [Node -> Nat] /\ booting \in [Node -> BOOLEAN]
    /\ record \in [Node -> Record] /\ cache \in [Node -> [Node -> Record]]
    /\ published \in [Node -> Seq(Record)] /\ \A n \in Node : Len(published[n]) > 0
    /\ log \in Seq(Lease) /\ applied \in [Node -> Nat] /\ minProposed \in [Node -> Nat]
    /\ \A n \in Node : applied[n] \in 1..Len(log)
    /\ req \in [Node -> Request \cup {Idle}] /\ flying \subseteq Command
    /\ tscache \in [Node -> Nat] /\ reads \in [1..inst.maxLeases -> Nat]
    /\ Len(log) <= inst.maxLeases /\ retired \subseteq Nat /\ restarts \in Nat
    /\ hasty \subseteq Node \X Nat

\* At no moment can two replicas both serve requests at the timestamps that
\* present clocks give, the clocks of other coordinators included: what one
\* has acknowledged, a read at the other does not miss (the violation that
\* the comment on leaseStatus describes).
BothServe(n, m) == \E c, d \in Node : CanServe(n, clock[c]) /\ CanServe(m, clock[d])
OneServer == \A n, m \in Node : n # m => ~ BothServe(n, m)

\* A replica that may serve protects every read that was ever served under
\* its lease or an earlier one, by whichever replica and however late: no
\* write slips under a read of a previous leaseholder.
MayServe(n) ==
    /\ asleep[n] = 0 /\ LeaseOf(n).holder = n
    /\ LeaseStatus(n, LeaseOf(n), 0 - MaxOffset) = "VALID"
ReadsCovered ==
    \A n \in Node : MayServe(n) => \A s \in 1..LeaseOf(n).seq : reads[s] <= tscache[n]

\* A lease was requested too early if it is epoch-based and its holder had not
\* heartbeat since it restarted, if it promotes an expiration-based lease with an
\* epoch that is over, or if it replaces the holder's own epoch-based lease by an
\* expiration-based one.
Hasty(l) == <<l.holder, l.prop>> \in hasty
NoneHasty(s, t) == \A i \in 1..Len(log) : log[i].seq \in s..t => ~ Hasty(log[i])

\* Two replicas can serve at once only if one of their leases or a lease between
\* them was requested too early.
OneServerUnlessHasty ==
    \A n, m \in Node :
        (n # m /\ LeaseOf(n).seq <= LeaseOf(m).seq /\ NoneHasty(LeaseOf(n).seq, LeaseOf(m).seq))
        => ~ BothServe(n, m)

\* A replica that may serve protects every read that was ever served under its lease
\* or an earlier one, unless that lease, its own or one between them was requested
\* too early.
ReadsCoveredUnlessHasty ==
    \A n \in Node : MayServe(n) =>
        \A s \in 1..LeaseOf(n).seq : NoneHasty(s, LeaseOf(n).seq) => reads[s] <= tscache[n]

\* A lease its holder gave up by a transfer, whether or not the transfer
\* happened, or held before a restart, is never used again under the same
\* sequence number: commands of that time cannot apply among those of today.
RetiredStaysRetired ==
    \A n \in Node : (\E c \in Node : CanServe(n, clock[c])) => LeaseOf(n).seq \notin retired

\* No replica is stopped by the assertions of leasePostApplyLocked: the next
\* lease has the sequence number of the present one, and is then equivalent to
\* it, or the number after it.
SequencesAdvance ==
    \A n \in Node : applied[n] < Len(log) =>
        LET k == LeaseOf(n)
            l == log[applied[n] + 1]
        IN  /\ l.seq \in {k.seq, k.seq + 1}
            /\ l.seq = k.seq => Equivalent(k, l)

=============================================================================
