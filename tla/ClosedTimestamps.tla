-------------------------- MODULE ClosedTimestamps --------------------------
(***************************************************************************)
(* The path of a write through one range: evaluation under a lease, the    *)
(* proposal buffer that gives it a lease applied index (LAI) and a closed  *)
(* timestamp, Raft, the check below Raft, and the reproposals; and the     *)
(* second road closed timestamps take, the side transport.                 *)
(*                                                                         *)
(* A closed timestamp is a promise that no write at or below it will ever  *)
(* apply, and followers serve reads on the strength of it.  An LAI makes a *)
(* command apply at most once although the proposer hands it to Raft again *)
(* and again.  Both promises are kept by bookkeeping spread over the       *)
(* proposer, the command and every replica's applied state, while leases   *)
(* change hands, entries are lost, reordered and duplicated, and replicas  *)
(* lag behind, restart or catch up with a snapshot.                        *)
(*                                                                         *)
(* What applying a log prefix does is a function of the prefix, so a       *)
(* replica is the length of the prefix it applied plus its volatile state. *)
(* Clocks are left out: a lease may be requested whenever its interval     *)
(* allows it, whatever the time, and an expired lease may still be used,   *)
(* as by a replica with a slow clock.  ProposedTS of a lease is a version  *)
(* number, unique per proposed lease.                                      *)
(***************************************************************************)
EXTENDS Integers, Sequences, FiniteSets, SequencesExt

CONSTANTS
    Replica,        \* the replicas of the range
    First,          \* the first leaseholder
    Cmd,            \* the writes
    Instances       \* the settings to start from

Instance == [
    firstExp : Nat \ {0},      \* when the first lease ends
    maxTs : Nat,               \* bound on timestamps
    maxLog : Nat,              \* bound on the length of the log
    maxCmds : Nat,             \* bound on writes
    maxLeases : Nat,           \* bound on proposed leases
    maxTicks : Nat,            \* bound on refreshes (reproposals with the same LAI)
    maxBatch : Nat \ {0},      \* bound on the entries handled by one Ready
    maxFaults : Nat,           \* bound on snapshots, restarts and failed Steps
    leaderChange : BOOLEAN,    \* a snapshot may bring news of a new Raft leader
    stepFails : BOOLEAN]       \* Raft may refuse a proposal

ASSUME ClosedTimestampsAssumption == First \in Replica /\ Instances \subseteq Instance

VARIABLES
    inst,       \* the setting, one of Instances
    net,        \* entries handed to Raft and not in the log (yet)
    log,        \* the committed Raft log
    st,         \* st[n+1]: the replicated state its first n entries make
    ap,         \* ap[r]: how much of it r has applied
    batch,      \* batch[r]: the committed entries r is working on
    cmd,        \* cmd[c]: the ProposalData of the write, and its answer
    assigned,   \* assigned[r]: assignedLAI and assignedClosedTimestamp
    minVer,     \* minVer[r]: leases older than this are PROSCRIBED at r
    ver,        \* how many leases were proposed
    low,        \* low[r]: low water mark of r's timestamp cache
    side,       \* side[r]: closed timestamps r has from the side transport
    pub,        \* what leaseholders published on the side transport
    ticks, faults

proposer == <<cmd, assigned>>
leases   == <<minVer, ver, low>>
transport == <<side, pub>>
bounds   == <<inst, ticks, faults>>
raft == <<log, st>>
vars == <<net, raft, ap, batch, proposer, leases, transport, bounds>>

Ts  == 1 .. inst.maxTs
Ts0 == 0 .. inst.maxTs

Larger(a, b)  == IF a >= b THEN a ELSE b
Smaller(a, b) == IF a <= b THEN a ELSE b

\* roachpb.Lease: sum is the prior read summary proposed with it.
Lease(h, q, v, s, x, m) ==
    [holder |-> h, seq |-> q, ver |-> v, start |-> s, exp |-> x, sum |-> m]
FirstLease == Lease(First, 1, 0, 0, inst.firstExp, 0)

\* A Raft entry.  Only lease requests have LAI 0 and no closed timestamp.
Write(c) ==
    [kind |-> "write", id |-> c, seq |-> cmd[c].seq, mli |-> cmd[c].mli,
     ct |-> cmd[c].ct, wts |-> cmd[c].wts, prev |-> 0, lease |-> FirstLease]
LeaseEntry(k, old, new, lai, ct) ==
    [kind |-> k, id |-> k, seq |-> old.seq, mli |-> lai,
     ct |-> ct, wts |-> 0, prev |-> old.ver, lease |-> new]

Idle == [to |-> 0, bound |-> {}, fx |-> 0]
NewCmd ==
    [phase |-> "new", home |-> First, seq |-> 0, ub |-> 0, wts |-> 0, trk |-> 0,
     buf |-> 0, inMap |-> FALSE, mli |-> 0, ct |-> 0, applied |-> FALSE, told |-> "nothing"]
NoClosed == [ts |-> 0, lai |-> 0]

LeaseRecord ==
    [holder : Replica, seq : Nat, ver : Nat, start : Nat, exp : Nat \ {0}, sum : Nat]
Entry ==
    {e \in [kind : {"write", "request", "transfer"}, id : Cmd \cup {"request", "transfer"},
            seq : Nat, mli : Nat, ct : Nat, wts : Nat, prev : Nat, lease : LeaseRecord] :
        e.kind = "write" => e.id \in Cmd}
AppliedState == [lai : Nat, ct : Nat, lease : LeaseRecord]
Command ==
    [phase : {"new", "admitted", "proposed"}, home : Replica, seq : Nat, ub : Nat, wts : Nat,
     trk : Nat, buf : Nat, inMap : BOOLEAN, mli : Nat, ct : Nat, applied : BOOLEAN,
     told : {"nothing", "ok", "rejected", "ambiguous"}]
Promise == [ts : Nat, lai : Nat]

\* Every variable stays in its range, and there is a state for every prefix of the log.
TypeOK ==
    /\ inst \in Instance
    /\ net \subseteq Entry /\ log \in Seq(Entry)
    /\ st \in Seq(AppliedState) /\ Len(st) = Len(log) + 1
    /\ ap \in [Replica -> Nat]
    /\ batch \in [Replica -> [to : Nat, bound : SUBSET Nat, fx : Nat]]
    /\ cmd \in [Cmd -> Command]
    /\ assigned \in [Replica -> [lai : Nat, ct : Nat]]
    /\ minVer \in [Replica -> Nat] /\ ver \in Nat /\ low \in [Replica -> Nat]
    /\ side \in [Replica -> [cur : Promise, next : Promise]]
    /\ pub \subseteq [from : Replica, seq : Nat, ts : Ts0, lai : Nat]
    /\ ticks \in Nat /\ faults \in Nat

Init ==
    /\ inst \in Instances
    /\ net = {} /\ log = <<>> /\ st = <<[lai |-> 1, ct |-> 0, lease |-> FirstLease]>>
    /\ ap = [r \in Replica |-> 0]
    /\ batch = [r \in Replica |-> Idle]
    /\ cmd = [c \in Cmd |-> NewCmd]
    /\ assigned = [r \in Replica |-> [lai |-> IF r = First THEN 1 ELSE 0, ct |-> 0]]
    /\ minVer = [r \in Replica |-> 0] /\ ver = 0
    /\ low = [r \in Replica |-> 0]
    /\ side = [r \in Replica |-> [cur |-> NoClosed, next |-> NoClosed]]
    /\ pub = {} /\ ticks = 0 /\ faults = 0

-----------------------------------------------------------------------------
(* Below Raft: CheckForcedErr and what an accepted entry changes.          *)

\* Mutant: lease requests are compared by sequence number only.
LeaseMismatchSeqOnly(s, e) == e.seq # s.lease.seq
LeaseMismatch(s, e) ==
    e.seq # s.lease.seq \/ (e.kind = "request" /\ e.prev # s.lease.ver)
\* Mutant: an index that was used already is accepted again.
StaleOffByOne(s, e) == e.kind # "request" /\ e.mli < s.lai
StaleIndex(s, e) == e.kind # "request" /\ e.mli <= s.lai
Verdict(s, e) ==
    IF LeaseMismatch(s, e) THEN "mismatch"
    ELSE IF StaleIndex(s, e) THEN "stale" ELSE "ok"
ApplyEntry(s, e) ==
    LET ok == Verdict(s, e) = "ok" IN
    [lai   |-> IF ok /\ e.kind # "request" THEN e.mli ELSE s.lai,
     ct    |-> IF ok /\ e.ct # 0 THEN e.ct ELSE s.ct,
     lease |-> IF ok /\ e.kind # "write" THEN e.lease ELSE s.lease]
StateAt(n) == st[n + 1]

VerdictAt(i) == Verdict(StateAt(i - 1), log[i])
Effective(i) == VerdictAt(i) = "ok"

State(r) == StateAt(ap[r])
\* r.mu.state.Lease: installed with the side effects of the entry.
LeaseOf(r) == StateAt(IF batch[r] = Idle THEN ap[r] ELSE batch[r].fx).lease
Proscribed(r) == LeaseOf(r).ver < minVer[r]
OwnsLease(r) == LeaseOf(r).holder = r /\ ~ Proscribed(r)

-----------------------------------------------------------------------------
(* Evaluation and the proposal buffer.                                     *)

Mine(r)       == {c \in Cmd : cmd[c].phase # "new" /\ cmd[c].home = r}
TrackedAt(r)  == {cmd[c].trk : c \in {d \in Mine(r) : cmd[d].trk # 0}}

\* checkExecutionCanProceed: the request sees the lease it will propose under.
Admit(r, c) ==
    /\ cmd[c].phase = "new" /\ OwnsLease(r)
    /\ Cardinality({d \in Cmd : cmd[d].phase # "new"}) < inst.maxCmds
    /\ cmd' = [cmd EXCEPT ![c].phase = "admitted", ![c].home = r,
                          ![c].seq = LeaseOf(r).seq, ![c].ub = LeaseOf(r).exp - 1]
    /\ UNCHANGED <<net, raft, ap, batch, assigned, leases, transport, bounds>>

\* TrackEvaluatingRequest, applyTimestampCache, evaluation and Insert.
MinTs(r) == assigned[r].ct + 1
Track(c, w) ==
    LET r == cmd[c].home
        t == Larger(w, MinTs(r))
        bumped == Larger(t, low[r] + 1)
    IN  /\ cmd[c].phase = "admitted" /\ bumped <= inst.maxTs
        /\ cmd' = [cmd EXCEPT ![c].phase = "proposed", ![c].trk = t,
                              ![c].wts = bumped, ![c].buf = 1]
        /\ UNCHANGED <<net, raft, ap, batch, assigned, leases, transport, bounds>>

\* allocateLAIAndClosedTimestampLocked, with the request untracked already.
Closable(r, target, ub, tracked) ==
    Larger(assigned[r].ct, Min({t - 1 : t \in tracked} \cup {target, ub}))

\* A proposal that comes out of the buffer for the first time is untracked and
\* given an index and a closed timestamp; it is in the proposals map from now on.
FlushNew(c, target) ==
    LET r == cmd[c].home
        others == {cmd[d].trk : d \in {d \in Mine(r) \ {c} : cmd[d].trk # 0}}
        ct == Closable(r, target, cmd[c].ub, others)
        lai == assigned[r].lai + 1
    IN  /\ cmd[c].buf > 0 /\ cmd[c].trk # 0
        /\ assigned' = [assigned EXCEPT ![r] = [lai |-> lai, ct |-> ct]]
        /\ cmd' = [cmd EXCEPT ![c].buf = @ - 1, ![c].trk = 0, ![c].inMap = TRUE,
                              ![c].mli = lai, ![c].ct = ct]
        /\ net' = net \cup {[Write(c) EXCEPT !.mli = lai, !.ct = ct]}
        /\ UNCHANGED <<raft, ap, batch, leases, transport, bounds>>
\* A proposal whose token is used up is proposed again as it is.
FlushReproposal(c) ==
    /\ cmd[c].buf > 0 /\ cmd[c].trk = 0
    /\ cmd' = [cmd EXCEPT ![c].buf = @ - 1, ![c].inMap = TRUE]
    /\ net' = net \cup {Write(c)}
    /\ UNCHANGED <<raft, ap, batch, assigned, leases, transport, bounds>>
\* Raft refused an earlier proposal of the flush: this one is registered and
\* untracked, but has no index and is not proposed.
FlushAfterError(c) ==
    /\ inst.stepFails /\ cmd[c].buf > 0
    /\ faults < inst.maxFaults /\ faults' = faults + 1
    /\ cmd' = [cmd EXCEPT ![c].buf = @ - 1, ![c].trk = 0, ![c].inMap = TRUE]
    /\ UNCHANGED <<net, raft, ap, batch, assigned, leases, transport, inst, ticks>>

\* Raft appends what it was handed, in any order, or never.
AppendEntry(e) ==
    /\ Len(log) < inst.maxLog
    /\ log' = Append(log, e) /\ st' = Append(st, ApplyEntry(StateAt(Len(log)), e))
    /\ net' = net \ {e}
    /\ UNCHANGED <<ap, batch, proposer, leases, transport, bounds>>

\* refreshProposalsLocked, for ticks or a new leader: what is pending goes back
\* into the buffer.
Pending(r) == {c \in Mine(r) : cmd[c].inMap}
Refreshed(C) == [c \in Cmd |-> IF c \in C THEN [cmd[c] EXCEPT !.buf = @ + 1] ELSE cmd[c]]
\* raftMu is held by Ready from the flush to the end, and by a tick: reproposals
\* do not stay in the buffer while entries are applied.
NoReproposalsBuffered(r) == \A c \in Mine(r) : cmd[c].buf > 0 => cmd[c].trk # 0
Refresh(r) ==
    /\ batch[r] = Idle
    /\ ticks < inst.maxTicks /\ ticks' = ticks + 1
    /\ Pending(r) # {}
    /\ cmd' = Refreshed(Pending(r))
    /\ UNCHANGED <<net, raft, ap, batch, assigned, leases, transport, inst, faults>>

-----------------------------------------------------------------------------
(* Applying committed entries.                                             *)

\* The bindings of retrieveLocalProposals: the proposals map, by command id.
BoundBy(r, n) ==
    {i \in ap[r] + 1 .. n : log[i].kind = "write" /\ log[i].id \in Pending(r)}
Removed(r, n) == {log[i].id : i \in {j \in BoundBy(r, n) : log[j].mli = cmd[log[j].id].mli}}
\* AckCommittedEntriesBeforeApplication: entries before the first lease change.
\* Mutant: whatever is bound to a local proposal is acknowledged.
EarlyAcksUnchecked(r, n) == {log[i].id : i \in BoundBy(r, n)}
EarlyAcks(r, n) ==
    {log[i].id : i \in {j \in BoundBy(r, n) :
        Effective(j) /\ \A k \in ap[r] + 1 .. j : log[k].kind = "write"}}

\* Ready hands r its next committed entries; they are bound to local proposals,
\* and those that will apply are acknowledged before they do.
Decode(r, n) ==
    /\ batch[r] = Idle /\ NoReproposalsBuffered(r)
    /\ n \in ap[r] + 1 .. Smaller(Len(log), ap[r] + inst.maxBatch)
    /\ batch' = [batch EXCEPT ![r] = [to |-> n, bound |-> BoundBy(r, n), fx |-> ap[r]]]
    /\ cmd' = [c \in Cmd |->
                 [cmd[c] EXCEPT !.inMap = @ /\ c \notin Removed(r, n),
                                !.told = IF c \in EarlyAcks(r, n) THEN "ok" ELSE @]]
    /\ UNCHANGED <<net, raft, ap, assigned, leases, transport, bounds>>

\* One batch: entries that are not lease changes together, a lease change alone.
ApplyBatch(r, n) ==
    /\ batch[r] # Idle /\ batch[r].fx = ap[r]
    /\ n \in ap[r] + 1 .. batch[r].to
    /\ n > ap[r] + 1 => \A i \in ap[r] + 1 .. n : log[i].kind = "write"
    /\ ap' = [ap EXCEPT ![r] = n]
    /\ UNCHANGED <<net, raft, batch, proposer, leases, transport, bounds>>

Answer(told, a) == IF told = "nothing" THEN a ELSE told
\* prepareLocalResult and the end of ApplySideEffects for a local command.
Finish(c, e, a) ==
    /\ cmd' = [cmd EXCEPT ![c].told = Answer(@, a), ![c].applied = TRUE,
                          ![c].inMap = @ /\ e.mli = cmd[c].mli]
    /\ UNCHANGED assigned
Superseded(c, e) == cmd[c].applied \/ e.mli # cmd[c].mli
TryReproposeWithNewLeaseIndex(r, c, e) ==
    \/ Superseded(c, e) /\ UNCHANGED proposer
    \/ /\ ~ Superseded(c, e) /\ cmd[c].wts <= MinTs(r)
       /\ Finish(c, e, "rejected")
    \/ /\ ~ Superseded(c, e) /\ cmd[c].wts > MinTs(r)
       /\ cmd' = [cmd EXCEPT ![c].trk = cmd[c].wts, ![c].buf = @ + 1, ![c].mli = 0]
       /\ UNCHANGED assigned
\* leasePostApplyLocked and OnLeaseChangeLocked.
OnLeaseChange(r, s) ==
    IF s.lease.holder = r
    THEN [lai |-> Larger(assigned[r].lai, s.lai), ct |-> Larger(assigned[r].ct, s.ct)]
    ELSE [lai |-> 0, ct |-> 0]
LowWater(r, old, new) ==
    IF new.holder = r /\ new.seq # old.seq THEN Larger(low[r], new.sum) ELSE low[r]
InstallLease(r, old, s) ==
    /\ assigned' = [assigned EXCEPT ![r] = OnLeaseChange(r, s)]
    /\ low' = [low EXCEPT ![r] = LowWater(r, old, s.lease)]

NextBatch(r) ==
    IF batch[r].fx + 1 = batch[r].to THEN Idle ELSE [batch[r] EXCEPT !.fx = @ + 1]
SideEffects(r) ==
    LET i == batch[r].fx + 1
        e == log[i]
    IN  /\ batch[r] # Idle /\ batch[r].fx < ap[r]
        /\ batch' = [batch EXCEPT ![r] = NextBatch(r)]
        /\ \/ /\ i \in batch[r].bound /\ VerdictAt(i) = "ok"
              /\ Finish(e.id, e, "ok") /\ UNCHANGED low
           \/ /\ i \in batch[r].bound /\ VerdictAt(i) = "mismatch"
              /\ Finish(e.id, e, "rejected") /\ UNCHANGED low
           \/ /\ i \in batch[r].bound /\ VerdictAt(i) = "stale"
              /\ TryReproposeWithNewLeaseIndex(r, e.id, e) /\ UNCHANGED low
           \/ /\ e.kind # "write" /\ Effective(i)
              /\ InstallLease(r, LeaseOf(r), StateAt(i)) /\ UNCHANGED cmd
           \/ /\ i \notin batch[r].bound /\ ~ (e.kind # "write" /\ Effective(i))
              /\ UNCHANGED <<proposer, low>>
        /\ UNCHANGED <<net, raft, ap, minVer, ver, transport, bounds>>

\* r is so far behind that it receives the state of q.  The pending proposals
\* whose index is used up are given up as ambiguous; but when the same Ready
\* brings a new leader, they are refreshed instead.
\* Mutant: the error says that the write did not happen.
GiveUpRejected(r, lai) ==
    [c \in Cmd |-> IF c \in Pending(r) /\ cmd[c].mli <= lai
                   THEN [cmd[c] EXCEPT !.inMap = FALSE, !.told = Answer(@, "rejected")]
                   ELSE cmd[c]]
GiveUp(r, lai) ==
    [c \in Cmd |-> IF c \in Pending(r) /\ cmd[c].mli <= lai
                   THEN [cmd[c] EXCEPT !.inMap = FALSE, !.told = Answer(@, "ambiguous")]
                   ELSE cmd[c]]
ApplySnapshot(r, q) ==
    LET s == State(q) IN
    /\ ap[q] > ap[r] /\ batch[r] = Idle /\ NoReproposalsBuffered(r)
    /\ faults < inst.maxFaults /\ faults' = faults + 1
    /\ ap' = [ap EXCEPT ![r] = ap[q]]
    /\ InstallLease(r, LeaseOf(r), s)
    /\ \/ cmd' = GiveUp(r, s.lai)
       \/ inst.leaderChange /\ cmd' = Refreshed(Pending(r))
    /\ UNCHANGED <<net, raft, batch, minVer, ver, transport, inst, ticks>>

\* The process of r ends and starts again: what is not in the log or in the
\* applied state is lost, its lease must be requested anew, and the timestamp
\* cache starts at the clock, which has passed what anybody published: targets are
\* further behind the clocks than these are apart.
Restart(r) ==
    /\ faults < inst.maxFaults /\ faults' = faults + 1
    /\ batch' = [batch EXCEPT ![r] = Idle]
    /\ cmd' = [c \in Cmd |->
                 IF c \in Mine(r)
                 THEN [cmd[c] EXCEPT !.phase = "proposed", !.trk = 0, !.buf = 0,
                                     !.inMap = FALSE, !.applied = TRUE,
                                     !.told = Answer(@, "ambiguous")]
                 ELSE cmd[c]]
    /\ assigned' = [assigned EXCEPT ![r] = [lai |-> 0, ct |-> 0]]
    /\ minVer' = [minVer EXCEPT ![r] = ver + 1]
    /\ low' = [low EXCEPT ![r] = Max({@} \cup {m.ts : m \in pub})]
    /\ side' = [side EXCEPT ![r] = [cur |-> NoClosed, next |-> NoClosed]]
    /\ UNCHANGED <<net, raft, ap, ver, pub, inst, ticks>>

-----------------------------------------------------------------------------
(* Leases.                                                                 *)

Closed(r) == Larger(State(r).ct, side[r].cur.ts)

ProposeLease(e) ==
    /\ ver' = ver + 1
    /\ net' = net \cup {e}
\* RequestLease: an extension keeps the sequence number; a holder that revoked
\* its lease starts over; anybody else starts where the last lease ends.
NewLease(r, l, s, x) ==
    \/ /\ l.holder = r /\ ~ Proscribed(r)
       /\ s = l.start /\ x > l.exp
    \/ /\ l.holder = r /\ Proscribed(r)
       /\ s > l.start /\ x >= l.exp
    \/ /\ l.holder # r
       /\ s \in l.exp .. l.exp + 1
RequestLease(r) ==
    LET l == LeaseOf(r)
        Same(s) == l.holder = r /\ s = l.start
    IN  /\ ver < inst.maxLeases
        /\ \E s \in Ts0, x \in Ts :
              /\ NewLease(r, l, s, x) /\ x > s
              /\ ProposeLease(LeaseEntry("request", l,
                    Lease(r, IF Same(s) THEN l.seq ELSE l.seq + 1, ver + 1, s, x,
                          IF Same(s) THEN l.sum ELSE s), 0, 0))
        /\ UNCHANGED <<raft, ap, batch, proposer, minVer, low, transport, bounds>>

Finished(c) == cmd[c].applied \/ cmd[c].told = "ambiguous"
\* TransferLease holds latches on the whole range: nothing else is in flight.
\* It revokes r's lease before it reads the closed timestamp r has published;
\* the flush of its proposal is part of the step.  The new lease, which is counted
\* from the present, does not end before the old one.
ReadSummary(r, s) == Larger(s, Larger(low[r], Closed(r)))
TransferLease(r, q) ==
    LET l == LeaseOf(r)
        lai == assigned[r].lai + 1
        ClosedBy(target) == Closable(r, target, l.exp - 1, TrackedAt(r))
    IN  /\ ver < inst.maxLeases
        /\ q # r /\ OwnsLease(r) /\ \A c \in Mine(r) : Finished(c)
        /\ minVer' = [minVer EXCEPT ![r] = ver + 1]
        /\ \E s, x \in Ts, ct \in {ClosedBy(target) : target \in Ts0} :
              /\ s > l.start /\ x > s /\ x >= l.exp
              /\ ProposeLease(LeaseEntry("transfer", l,
                    Lease(q, l.seq + 1, ver + 1, s, x, ReadSummary(r, s)), lai, ct))
              /\ assigned' = [assigned EXCEPT ![r] = [lai |-> lai, ct |-> ct]]
        /\ UNCHANGED <<raft, ap, batch, cmd, low, transport, bounds>>

-----------------------------------------------------------------------------
(* The side transport.                                                     *)

Merge(a, b) ==
    IF a.lai = b.lai THEN [a EXCEPT !.ts = Larger(@, b.ts)]
    ELSE IF a.lai < b.lai THEN b ELSE a
\* sidetransportAccess.forward
Forward(sd, up, applied) ==
    LET reached == up.lai >= sd.next.lai IN
    IF applied \/ up.lai <= sd.cur.lai
    THEN [cur  |-> Merge(sd.cur, IF reached THEN Merge(up, sd.next) ELSE up),
          next |-> IF reached THEN NoClosed ELSE sd.next]
    ELSE [sd EXCEPT !.next = Merge(@, up)]

\* Targets follow the publisher's clock at a fixed distance, and its clock has passed
\* the time at which a lease before its own was last valid.
FollowsClock(r, target) ==
    \A m \in pub : /\ m.seq < LeaseOf(r).seq => m.ts <= target
                   /\ m.seq > LeaseOf(r).seq => target <= m.ts
\* BumpSideTransportClosed
NothingInFlight(r) == Pending(r) = {} /\ batch[r] = Idle
MayPublish(r) == OwnsLease(r)
\* Mutant: an older target is published.
AdvancesAlways(r, target) == TRUE
Advances(r, target) == target > assigned[r].ct
BumpSideTransportClosed(r, target) ==
    LET closed == [ts |-> target, lai |-> State(r).lai] IN
    /\ MayPublish(r) /\ target < LeaseOf(r).exp /\ FollowsClock(r, target)
    /\ NothingInFlight(r)
    /\ \A t \in TrackedAt(r) : t > target
    /\ Advances(r, target)
    /\ assigned' = [assigned EXCEPT ![r].ct = target]
    /\ side' = [side EXCEPT ![r] = Forward(@, closed, TRUE)]
    /\ pub' = pub \cup {[from |-> r, seq |-> LeaseOf(r).seq, ts |-> target, lai |-> closed.lai]}
    /\ UNCHANGED <<net, raft, ap, batch, cmd, leases, bounds>>

\* sidetransportAccess.get: what is known to be applied is used, then the latest
\* that arrived from the leaseholder r knows of.
KnownApplied(r, m) == m.lai <= State(r).lai
GetClosedTimestamp(r, m) ==
    LET promoted == IF side[r].next.lai # 0
                    THEN Forward(side[r], side[r].next, TRUE) ELSE side[r]
        up == [ts |-> m.ts, lai |-> m.lai]
    IN  /\ side[r].next.lai <= State(r).lai
        /\ m.from = LeaseOf(r).holder /\ m.from # r
        /\ side' = [side EXCEPT ![r] =
                       IF m.ts <= promoted.cur.ts THEN promoted
                       ELSE Forward(promoted, up, KnownApplied(r, m))]
        /\ UNCHANGED <<net, raft, ap, batch, proposer, leases, pub, bounds>>

-----------------------------------------------------------------------------
Next ==
    \/ \E r \in Replica, c \in Cmd : Admit(r, c)
    \/ \E c \in Cmd, w \in Ts : Track(c, w)
    \/ \E c \in Cmd, target \in Ts0 : FlushNew(c, target)
    \/ \E c \in Cmd : FlushReproposal(c)
    \/ \E c \in Cmd : FlushAfterError(c)
    \/ \E e \in net : AppendEntry(e)
    \/ \E r \in Replica : Refresh(r)
    \/ \E r \in Replica, n \in 1 .. inst.maxLog : Decode(r, n)
    \/ \E r \in Replica, n \in 1 .. inst.maxLog : ApplyBatch(r, n)
    \/ \E r \in Replica : SideEffects(r)
    \/ \E r, q \in Replica : ApplySnapshot(r, q)
    \/ \E r \in Replica : Restart(r)
    \/ \E r \in Replica : RequestLease(r)
    \/ \E r, q \in Replica : TransferLease(r, q)
    \/ \E r \in Replica, target \in Ts : BumpSideTransportClosed(r, target)
    \/ \E r \in Replica, m \in pub : GetClosedTimestamp(r, m)

Spec == Init /\ [][Next]_vars

-----------------------------------------------------------------------------
(* Properties.                                                             *)

\* No replica ever applies a write at or below a timestamp it holds closed, by
\* Raft or by the side transport: nothing in the log beyond what r applied will.
NoWriteBelowClosed ==
    \A r \in Replica : \A i \in ap[r] + 1 .. Len(log) :
        log[i].kind = "write" /\ Effective(i) => log[i].wts > Closed(r)

\* A write takes effect at most once, however often it is proposed.
AppliedAtMostOnce ==
    \A i, j \in 1 .. Len(log) :
        /\ log[i].kind = "write" /\ log[j].kind = "write" /\ log[i].id = log[j].id
        /\ Effective(i) /\ Effective(j)
        => i = j

\* An acknowledged write is in the log and takes effect, also one acknowledged
\* before it was applied.
AcknowledgedTakesEffect ==
    \A c \in Cmd : cmd[c].told = "ok" =>
        \E i \in 1 .. Len(log) : log[i].kind = "write" /\ log[i].id = c /\ Effective(i)

HasNoEffect(c) ==
    \A i \in 1 .. Len(log) : log[i].kind = "write" /\ log[i].id = c => ~ Effective(i)
\* What tryReproposeWithNewLeaseIndex says of the error it answers with: a write whose
\* proposer answered with an error that is not ambiguous (and that makes the client
\* send it again elsewhere) has not taken effect and never will.
RejectedHasNoEffect == \A c \in Cmd : cmd[c].told = "rejected" => HasNoEffect(c)

\* A copy without an index was handed to Raft: FlushAfterError registered the
\* proposal and a refresh proposed it.  Copies stay in net or in the log.
Unindexed(c) ==
    \/ \E e \in net : e.kind = "write" /\ e.id = c /\ e.mli = 0
    \/ \E i \in 1 .. Len(log) : log[i].kind = "write" /\ log[i].id = c /\ log[i].mli = 0
\* The code keeps that for every write that was never proposed without an index: it
\* takes the indexes of two copies to tell which of them was superseded.
RejectedUnlessUnindexed ==
    \A c \in Cmd : cmd[c].told = "rejected" /\ ~ Unindexed(c) => HasNoEffect(c)

\* A pair from the side transport never has a higher timestamp and a lower index
\* than one the replica has already: what assertNoRegression crashes the node for.
Regression(a, b) ==
    (a.lai < b.lai /\ b.ts < a.ts) \/ (a.lai > b.lai /\ a.ts < b.ts)
NoSideTransportRegression ==
    \A r \in Replica : \A m \in pub :
        m.from = LeaseOf(r).holder /\ m.from # r /\ m.ts > side[r].cur.ts
        /\ side[r].next.lai <= State(r).lai
            => /\ side[r].cur.lai # 0 => ~ Regression(side[r].cur, m)
               /\ side[r].next.lai # 0 => ~ Regression(side[r].next, m)
=============================================================================
