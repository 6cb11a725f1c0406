----------------------- MODULE ClosedTimestampsProofs -----------------------
(***************************************************************************)
(* For any replicas, writes, leases and reproposals: a write applies at    *)
(* most once, its answer is true, and no write applies at or below a       *)
(* timestamp that was closed.                                              *)
(***************************************************************************)
EXTENDS ClosedTimestampsInv, WellFoundedInduction, TLAPS

-----------------------------------------------------------------------------
(* Least and greatest elements.                                            *)

LEMMA LeastNat ==
    ASSUME NEW S \in SUBSET Nat, S # {}
    PROVE Min(S) \in S /\ \A x \in S : Min(S) <= x
  <1> DEFINE R == {p \in Nat \X Nat : p[1] < p[2]}
  <1>1. R = OpToRel(<, Nat)
    BY Zenon DEF OpToRel
  <1>2. IsWellFoundedOn(R, Nat)
    BY <1>1, NatLessThanWellFounded, Zenon
  <1>3. PICK x \in S : \A y \in S : ~ (<<y, x>> \in R)
    <2> HIDE DEF R
    <2> QED BY <1>2, WFMin, Zenon
  <1>4. \A y, z \in Nat : y < z => <<y, z>> \in R
    BY Zenon
  <1>5. \A y \in S : x <= y
    <2> HIDE DEF R
    <2> TAKE y \in S
    <2>1. y \in Nat /\ x \in Nat
      OBVIOUS
    <2>2. ~ (y < x)
      BY <1>3, <1>4, <2>1, Zenon
    <2> QED BY <2>1, <2>2
  <1> QED BY <1>5, Zenon DEF Min

LEMMA GreatestNat ==
    ASSUME NEW S \in SUBSET Nat, S # {}, NEW b \in Nat, \A x \in S : x <= b
    PROVE Max(S) \in S /\ \A x \in S : x <= Max(S)
  <1> DEFINE T == {b - x : x \in S}
  <1>1. T \in SUBSET Nat /\ T # {}
    <2>1. \A x \in S : x \in Nat /\ b - x \in Nat
      OBVIOUS
    <2> QED BY <2>1, Zenon
  <1>2. Min(T) \in T /\ \A y \in T : Min(T) <= y
    BY <1>1, LeastNat, Zenon
  <1>3. PICK x \in S : Min(T) = b - x
    BY <1>2, Zenon
  <1>4. \A y \in S : y <= x
    <2> TAKE y \in S
    <2>1. b - x <= b - y
      BY <1>2, <1>3, Zenon
    <2> QED BY <2>1
  <1> QED BY <1>4, Zenon DEF Max

-----------------------------------------------------------------------------
(* What the actions read.                                                  *)

LEMMA StateType ==
    ASSUME TypeOK, NEW n \in 0 .. Len(log)
    PROVE /\ StateAt(n) \in AppliedState /\ StateAt(n).lease \in LeaseRecord
          /\ StateAt(n).lai \in Nat /\ StateAt(n).ct \in Nat
          /\ StateAt(n).lease.seq \in Nat /\ StateAt(n).lease.holder \in Replica
          /\ StateAt(n).lease.exp \in Nat \ {0} /\ StateAt(n).lease.ver \in Nat
          /\ StateAt(n).lease.start \in Nat /\ StateAt(n).lease.sum \in Nat
  <1>1. n + 1 \in 1 .. Len(st) /\ st \in Seq(AppliedState)
    BY DEF TypeOK
  <1>2. st[n + 1] \in AppliedState
    BY <1>1
  <1>3. StateAt(n).lease \in LeaseRecord /\ StateAt(n) \in AppliedState
    BY <1>2 DEF StateAt, AppliedState
  <1> QED BY <1>3 DEF AppliedState, LeaseRecord

LEMMA FxType ==
    ASSUME TypeOK, BatchesOK, NEW r \in Replica
    PROVE /\ Fx(r) \in 0 .. Len(log) /\ ap[r] \in 0 .. Len(log) /\ Fx(r) <= ap[r]
          /\ LeaseOf(r) = StateAt(Fx(r)).lease /\ State(r) = StateAt(ap[r])
  BY DEF TypeOK, BatchesOK, BatchOK, Fx, LeaseOf, State

LEMMA LeaseType ==
    ASSUME TypeOK, BatchesOK, NEW r \in Replica
    PROVE /\ LeaseOf(r) \in LeaseRecord /\ State(r) \in AppliedState
          /\ LeaseOf(r).seq \in Nat /\ LeaseOf(r).holder \in Replica
          /\ LeaseOf(r).exp \in Nat \ {0} /\ LeaseOf(r).ver \in Nat
          /\ LeaseOf(r).start \in Nat /\ LeaseOf(r).sum \in Nat
          /\ State(r).lai \in Nat /\ State(r).ct \in Nat /\ State(r).lease \in LeaseRecord
  <1>1. Fx(r) \in 0 .. Len(log) /\ ap[r] \in 0 .. Len(log)
    BY FxType
  <1>2. LeaseOf(r) = StateAt(Fx(r)).lease /\ State(r) = StateAt(ap[r])
    BY FxType
  <1> QED BY <1>1, <1>2, StateType

LEMMA CmdType ==
    ASSUME TypeOK, NEW c \in Cmd
    PROVE /\ cmd[c] \in Command /\ cmd[c].home \in Replica /\ cmd[c].seq \in Nat
          /\ cmd[c].ub \in Nat /\ cmd[c].wts \in Nat /\ cmd[c].trk \in Nat /\ cmd[c].buf \in Nat
          /\ cmd[c].mli \in Nat /\ cmd[c].ct \in Nat
          /\ cmd[c].inMap \in BOOLEAN /\ cmd[c].applied \in BOOLEAN
          /\ cmd[c].phase \in {"new", "admitted", "proposed"}
          /\ cmd[c].told \in {"nothing", "ok", "rejected", "ambiguous"}
  BY Zenon DEF TypeOK, Command

LEMMA ReplicaType ==
    ASSUME TypeOK, NEW r \in Replica
    PROVE /\ assigned[r].lai \in Nat /\ assigned[r].ct \in Nat /\ low[r] \in Nat
          /\ minVer[r] \in Nat /\ batch[r].to \in Nat /\ batch[r].fx \in Nat
          /\ batch[r].bound \subseteq Nat /\ ap[r] \in Nat
          /\ side[r].cur \in Promise /\ side[r].next \in Promise
  BY Zenon DEF TypeOK

LEMMA ClosableType ==
    ASSUME TypeOK, NEW r \in Replica, NEW target \in Nat, NEW ub \in Nat,
           NEW tracked \in SUBSET (Nat \ {0})
    PROVE Closable(r, target, ub, tracked) \in Nat
  <1> DEFINE S == {t - 1 : t \in tracked} \cup {target, ub}
  <1>1. S \in SUBSET Nat /\ S # {}
    OBVIOUS
  <1>2. Min(S) \in Nat
    BY <1>1, LeastNat
  <1>3. Closable(r, target, ub, tracked) = Larger(assigned[r].ct, Min(S))
    BY DEF Closable
  <1> HIDE DEF S
  <1> QED BY <1>2, <1>3, ReplicaType DEF Larger

LEMMA TrackedType ==
    ASSUME TypeOK, NEW r \in Replica
    PROVE TrackedAt(r) \in SUBSET (Nat \ {0})
  BY CmdType DEF TrackedAt, Mine

LEMMA FirstLeaseType == ASSUME TypeOK PROVE FirstLease \in LeaseRecord
  BY ClosedTimestampsAssumption DEF TypeOK, FirstLease, Lease, LeaseRecord, Instance

LEMMA WriteType ==
    ASSUME TypeOK, NEW c \in Cmd
    PROVE Write(c) \in Entry /\ Write(c).kind = "write" /\ Write(c).id = c
          /\ Write(c).seq = cmd[c].seq /\ Write(c).mli = cmd[c].mli
  BY CmdType, FirstLeaseType DEF Write, Entry

LEMMA SameLog ==
    ASSUME UNCHANGED raft, NEW n
    PROVE /\ StateAt(n)' = StateAt(n) /\ VerdictAt(n)' = VerdictAt(n)
          /\ Effective(n)' = Effective(n) /\ log'[n] = log[n] /\ Len(log') = Len(log)
          /\ LastState' = LastState
  BY DEF raft, StateAt, VerdictAt, Effective, LastState, Verdict, LeaseMismatch, StaleIndex

LEMMA SameStates == ASSUME StatesOK, UNCHANGED raft PROVE StatesOK'
  BY DEF StatesOK, raft, StateAt, ApplyEntry, Verdict, LeaseMismatch, StaleIndex

-----------------------------------------------------------------------------
(* The base of the invariant: types, the order of states, what entries,    *)
(* batches and commands are.                                               *)

\* A command keeps what its entries say of it.
Kept(d) ==
    cmd[d].phase = "proposed" =>
        cmd'[d].phase = "proposed" /\ cmd'[d].home = cmd[d].home /\ cmd'[d].seq = cmd[d].seq

LEMMA EntriesKept ==
    ASSUME TypeOK, EntriesOK, UNCHANGED raft, \A d \in Cmd : Kept(d),
           \A e \in net' : e \in net \/ EntryOK(e)'
    PROVE EntriesOK'
  <1>1. ASSUME NEW e \in Entry, EntryOK(e) PROVE EntryOK(e)'
    BY <1>1 DEF EntryOK, Kept, Entry
  <1>2. \A e \in net : EntryOK(e)'
    BY <1>1 DEF EntriesOK, TypeOK
  <1>3. \A i \in 1 .. Len(log) : log[i] \in Entry
    BY DEF TypeOK
  <1>4. \A i \in 1 .. Len(log) : EntryOK(log[i])'
    <2> TAKE i \in 1 .. Len(log)
    <2>1. log[i] \in Entry /\ EntryOK(log[i]) /\ log'[i] = log[i]
      BY <1>3 DEF EntriesOK, raft
    <2> QED BY <2>1 DEF EntryOK, Kept, Entry
  <1> QED BY <1>2, <1>4 DEF EntriesOK, raft

LEMMA BatchesKept ==
    ASSUME TypeOK, EntriesOK, BatchesOK, UNCHANGED <<raft, ap, batch>>, \A d \in Cmd : Kept(d)
    PROVE BatchesOK'
  <1> SUFFICES ASSUME NEW r \in Replica PROVE BatchOK(r)'
    BY DEF BatchesOK
  <1>1. \A i \in 1 .. Len(log) : log[i] \in Entry /\ EntryOK(log[i])
    BY DEF TypeOK, EntriesOK
  <1>2. BatchOK(r)
    BY DEF BatchesOK
  <1>3. ap'[r] = ap[r] /\ batch'[r] = batch[r] /\ log' = log
    BY DEF raft
  <1>4. batch[r].to \in Nat
    BY DEF TypeOK
  <1> QED BY <1>1, <1>2, <1>3, <1>4 DEF BatchOK, EntryOK, Kept, Entry

LEMMA BaseKept ==
    ASSUME BaseInv, TypeOK', UNCHANGED <<raft, ap, batch>>, \A d \in Cmd : Kept(d),
           \A e \in net' : e \in net \/ EntryOK(e)', CmdsOK'
    PROVE BaseInv'
  <1>1. UNCHANGED raft
    OBVIOUS
  <1> QED BY <1>1, EntriesKept, BatchesKept, SameStates DEF BaseInv

LEMMA CmdKept ==
    ASSUME UNCHANGED <<raft, ap, batch>>, NEW d \in Cmd, CmdOK(d), cmd'[d] = cmd[d]
    PROVE CmdOK(d)'
  BY DEF CmdOK, Fx, StateAt, raft

LEMMA AdmitBase ==
    ASSUME BaseInv, NEW r \in Replica, NEW c \in Cmd, Admit(r, c) PROVE BaseInv'
  <1>0. TypeOK /\ BatchesOK /\ CmdsOK
    BY DEF BaseInv
  <1>1. cmd[c] \in Command /\ cmd \in [Cmd -> Command] /\ LeaseOf(r) \in LeaseRecord
    BY <1>0, LeaseType, Zenon DEF TypeOK
  <1>2. LeaseOf(r).seq \in Nat /\ LeaseOf(r).exp - 1 \in Nat
    BY <1>0, LeaseType
  <1>3. cmd' = [cmd EXCEPT ![c] = [cmd[c] EXCEPT !.phase = "admitted", !.home = r,
                                       !.seq = LeaseOf(r).seq, !.ub = LeaseOf(r).exp - 1]]
    BY Zenon DEF Admit
  <1>4. /\ UNCHANGED <<net, raft, ap, batch, assigned, leases, transport, bounds>>
        /\ cmd[c].phase = "new"
    BY DEF Admit
  <1>5. TypeOK'
    <2>1. cmd' \in [Cmd -> Command]
      BY <1>1, <1>2, <1>3, Zenon DEF Command
    <2> QED BY <1>0, <1>4, <2>1, Zenon DEF TypeOK, raft, leases, transport, bounds, Ts0
  <1>6. /\ \A d \in Cmd \ {c} : cmd'[d] = cmd[d]
        /\ cmd'[c] = [cmd[c] EXCEPT !.phase = "admitted", !.home = r,
                                    !.seq = LeaseOf(r).seq, !.ub = LeaseOf(r).exp - 1]
    BY <1>1, <1>3
  <1>7. CmdOK(c)'
    <2>1. StateAt(Fx(r))' = StateAt(Fx(r)) /\ LeaseOf(r) = StateAt(Fx(r)).lease
      BY <1>0, <1>4, FxType DEF Fx, StateAt, raft
    <2>2. CmdOK(c)
      BY <1>0 DEF CmdsOK
    <2> QED BY <1>1, <1>2, <1>4, <1>6, <2>1, <2>2 DEF CmdOK, Command
  <1>8. CmdsOK'
    BY <1>0, <1>4, <1>6, <1>7, CmdKept DEF CmdsOK
  <1>9. \A d \in Cmd : Kept(d)
    BY <1>4, <1>6 DEF Kept
  <1> QED BY <1>4, <1>5, <1>8, <1>9, BaseKept

LEMMA ProposedKept ==
    ASSUME UNCHANGED <<raft, ap, batch>>, NEW d \in Cmd, CmdOK(d), Kept(d),
           cmd[d].phase = "proposed",
           cmd'[d].trk # 0 => cmd'[d].mli = 0, cmd'[d].applied => cmd'[d].told # "nothing"
    PROVE CmdOK(d)'
  <1>1. cmd'[d].home = cmd[d].home /\ cmd'[d].seq = cmd[d].seq /\ cmd'[d].phase = "proposed"
    BY DEF Kept
  <1>2. StateAt(Fx(cmd[d].home))' = st[Fx(cmd'[d].home) + 1]
    BY DEF Fx, StateAt, raft
  <1> QED BY <1>1, <1>2 DEF CmdOK, StateAt

LEMMA TrackBase ==
    ASSUME BaseInv, NEW c \in Cmd, NEW w \in Ts, Track(c, w) PROVE BaseInv'
  <1> DEFINE r == cmd[c].home
             t == Larger(w, MinTs(r))
             bumped == Larger(t, low[r] + 1)
  <1>0. TypeOK /\ BatchesOK /\ CmdsOK /\ inst.maxTs \in Nat
    BY Zenon DEF BaseInv, TypeOK, Instance
  <1>1. cmd[c] \in Command /\ cmd \in [Cmd -> Command] /\ r \in Replica
    BY <1>0, CmdType, Zenon DEF TypeOK
  <1>2. t \in Nat \ {0} /\ bumped \in Nat
    BY <1>0, <1>1, ReplicaType DEF Larger, MinTs, Ts
  <1>3. cmd' = [cmd EXCEPT ![c] = [cmd[c] EXCEPT !.phase = "proposed", !.trk = t,
                                                 !.wts = bumped, !.buf = 1]]
    BY Zenon DEF Track
  <1>4. /\ UNCHANGED <<net, raft, ap, batch, assigned, leases, transport, bounds>>
        /\ cmd[c].phase = "admitted"
    BY DEF Track
  <1> HIDE DEF t, bumped
  <1>5. TypeOK'
    <2>1. cmd' \in [Cmd -> Command]
      BY <1>1, <1>2, <1>3, Zenon DEF Command
    <2> QED BY <1>0, <1>4, <2>1, Zenon DEF TypeOK, raft, leases, transport, bounds, Ts0
  <1>6. /\ \A d \in Cmd \ {c} : cmd'[d] = cmd[d]
        /\ cmd'[c] = [cmd[c] EXCEPT !.phase = "proposed", !.trk = t, !.wts = bumped, !.buf = 1]
    BY <1>1, <1>3
  <1>7. CmdOK(c)'
    <2>1. CmdOK(c)
      BY <1>0 DEF CmdsOK
    <2> QED BY <1>1, <1>2, <1>4, <1>6, <2>1 DEF CmdOK, Command, Fx, StateAt, raft
  <1>8. CmdsOK'
    BY <1>0, <1>4, <1>6, <1>7, CmdKept DEF CmdsOK
  <1>9. \A d \in Cmd : Kept(d)
    BY <1>4, <1>6 DEF Kept
  <1> QED BY <1>4, <1>5, <1>8, <1>9, BaseKept

\* What is in the map, in the buffer or tracked has been proposed.
LEMMA BusyIsProposed ==
    ASSUME CmdsOK, TypeOK, NEW c \in Cmd, cmd[c].buf > 0 \/ cmd[c].inMap \/ cmd[c].trk # 0
    PROVE cmd[c].phase = "proposed"
  BY CmdType DEF CmdsOK, CmdOK

\* A step leaves a command's past alone.
Constant(c) ==
    /\ cmd'[c].phase = cmd[c].phase /\ cmd'[c].home = cmd[c].home /\ cmd'[c].seq = cmd[c].seq
    /\ cmd'[c].wts = cmd[c].wts

LEMMA FlushNewFacts ==
    ASSUME BaseInv, NEW c \in Cmd, NEW target \in Ts0, FlushNew(c, target)
    PROVE /\ cmd[c].buf > 0 /\ cmd[c].trk # 0 /\ cmd[c].phase = "proposed" /\ Constant(c)
          /\ cmd'[c].buf = cmd[c].buf - 1 /\ cmd'[c].trk = 0 /\ cmd'[c].inMap = TRUE
          /\ cmd'[c].mli = assigned[cmd[c].home].lai + 1
          /\ cmd'[c].applied = cmd[c].applied /\ cmd'[c].told = cmd[c].told
          /\ \A d \in Cmd \ {c} : cmd'[d] = cmd[d]
          /\ cmd' \in [Cmd -> Command]
          /\ assigned' \in [Replica -> [lai : Nat, ct : Nat]]
          /\ \E e \in Entry : /\ net' = net \cup {e} /\ Of(e, c) /\ e.seq = cmd[c].seq
                              /\ e.mli = cmd'[c].mli
          /\ UNCHANGED <<raft, ap, batch, leases, transport, bounds>>
  <1> DEFINE r == cmd[c].home
             others == {cmd[d].trk : d \in {d \in Mine(r) \ {c} : cmd[d].trk # 0}}
             ct == Closable(r, target, cmd[c].ub, others)
             lai == assigned[r].lai + 1
             e == [Write(c) EXCEPT !.mli = lai, !.ct = ct]
  <1>0. TypeOK /\ CmdsOK /\ inst.maxTs \in Nat
    BY Zenon DEF BaseInv, TypeOK, Instance
  <1>1. cmd[c] \in Command /\ cmd \in [Cmd -> Command] /\ r \in Replica /\ cmd[c].ub \in Nat
        /\ cmd[c].buf \in Nat /\ assigned[r].lai \in Nat
    BY <1>0, CmdType, ReplicaType, Zenon DEF TypeOK
  <1>2. others \in SUBSET (Nat \ {0})
    BY <1>0, CmdType DEF Mine
  <1>3. ct \in Nat
    <2>1. target \in Nat
      BY <1>0 DEF Ts0
    <2> QED BY <1>0, <1>1, <1>2, <2>1, ClosableType
  <1>4. /\ cmd[c].buf > 0 /\ cmd[c].trk # 0
        /\ assigned' = [assigned EXCEPT ![r] = [lai |-> lai, ct |-> ct]]
        /\ cmd' = [cmd EXCEPT ![c] = [cmd[c] EXCEPT !.buf = @ - 1, !.trk = 0, !.inMap = TRUE,
                                                    !.mli = lai, !.ct = ct]]
        /\ net' = net \cup {e}
        /\ UNCHANGED <<raft, ap, batch, leases, transport, bounds>>
    BY Zenon DEF FlushNew
  <1>5. lai \in Nat /\ cmd[c].buf - 1 \in Nat
    <2>1. cmd[c].buf > 0
      BY <1>4, Zenon
    <2> QED BY <1>1, <2>1
  <1> HIDE DEF ct
  <1>6. /\ e.kind = "write" /\ e.id = c /\ e.seq = cmd[c].seq /\ e.mli = lai
        /\ e \in Entry
    <2>1. Write(c) \in Entry /\ Write(c).kind = "write" /\ Write(c).id = c /\ Write(c).seq = cmd[c].seq
      BY <1>0, WriteType
    <2> QED BY <1>3, <1>5, <2>1, Zenon DEF Entry
  <1> HIDE DEF e, lai
  <1>7. /\ cmd'[c] = [cmd[c] EXCEPT !.buf = @ - 1, !.trk = 0, !.inMap = TRUE, !.mli = lai, !.ct = ct]
        /\ \A d \in Cmd \ {c} : cmd'[d] = cmd[d]
    BY <1>1, <1>4
  <1>8. cmd' \in [Cmd -> Command]
    BY <1>1, <1>3, <1>4, <1>5, Zenon DEF Command
  <1>9. /\ Constant(c) /\ cmd'[c].buf = cmd[c].buf - 1 /\ cmd'[c].trk = 0 /\ cmd'[c].inMap = TRUE
        /\ cmd'[c].mli = lai /\ cmd'[c].applied = cmd[c].applied /\ cmd'[c].told = cmd[c].told
    BY <1>1, <1>7 DEF Command, Constant
  <1>10. assigned' \in [Replica -> [lai : Nat, ct : Nat]]
    BY <1>0, <1>3, <1>4, <1>5, Zenon DEF TypeOK
  <1>11. cmd[c].phase = "proposed"
    BY <1>0, <1>4, BusyIsProposed
  <1>12. \E f \in Entry : net' = net \cup {f} /\ Of(f, c) /\ f.seq = cmd[c].seq /\ f.mli = cmd'[c].mli
    BY <1>4, <1>6, <1>9 DEF Of
  <1>13. lai = assigned[cmd[c].home].lai + 1
    BY DEF lai
  <1> QED BY <1>4, <1>7, <1>8, <1>9, <1>10, <1>11, <1>12, <1>13

LEMMA FlushNewBase ==
    ASSUME BaseInv, NEW c \in Cmd, NEW target \in Ts0, FlushNew(c, target) PROVE BaseInv'
  <1>0. TypeOK /\ CmdsOK
    BY DEF BaseInv
  <1>1. /\ cmd[c].phase = "proposed" /\ Constant(c) /\ cmd'[c].trk = 0
        /\ cmd'[c].applied = cmd[c].applied /\ cmd'[c].told = cmd[c].told
        /\ \A d \in Cmd \ {c} : cmd'[d] = cmd[d]
        /\ cmd' \in [Cmd -> Command] /\ assigned' \in [Replica -> [lai : Nat, ct : Nat]]
        /\ UNCHANGED <<raft, ap, batch, leases, transport, bounds>>
    BY FlushNewFacts, Zenon
  <1>2. PICK e \in Entry : net' = net \cup {e} /\ Of(e, c) /\ e.seq = cmd[c].seq
    BY FlushNewFacts, Zenon
  <1>3. TypeOK'
    BY <1>0, <1>1, <1>2, Zenon DEF TypeOK, raft, leases, transport, bounds, Ts0
  <1>4. \A d \in Cmd : Kept(d)
    BY <1>1 DEF Kept, Constant
  <1>5. CmdOK(c)'
    <2>1. CmdOK(c) /\ Kept(c)
      BY <1>0, <1>4 DEF CmdsOK
    <2>2. cmd'[c].applied => cmd'[c].told # "nothing"
      BY <1>1, <2>1 DEF CmdOK
    <2> QED BY <1>1, <2>1, <2>2, ProposedKept
  <1>6. CmdsOK'
    BY <1>0, <1>1, <1>5, CmdKept DEF CmdsOK
  <1>7. EntryOK(e)'
    BY <1>1, <1>2 DEF EntryOK, Of, Constant
  <1> QED BY <1>1, <1>2, <1>3, <1>4, <1>6, <1>7, BaseKept

LEMMA FlushReproposalFacts ==
    ASSUME BaseInv, NEW c \in Cmd, FlushReproposal(c) \/ FlushAfterError(c)
    PROVE /\ cmd[c].buf > 0 /\ cmd[c].phase = "proposed" /\ Constant(c)
          /\ cmd'[c].buf = cmd[c].buf - 1 /\ cmd'[c].trk = 0 /\ cmd'[c].inMap = TRUE
          /\ cmd'[c].mli = cmd[c].mli
          /\ cmd'[c].applied = cmd[c].applied /\ cmd'[c].told = cmd[c].told
          /\ \A d \in Cmd \ {c} : cmd'[d] = cmd[d]
          /\ cmd' \in [Cmd -> Command]
          /\ UNCHANGED <<raft, ap, batch, leases, transport, assigned, inst, ticks>>
          /\ faults' \in Nat
          /\ FlushReproposal(c) => cmd[c].trk = 0
          /\ \A e \in net' : e \in net \/ (e = Write(c) /\ FlushReproposal(c))
  <1>0. TypeOK /\ CmdsOK
    BY DEF BaseInv
  <1>1. cmd[c] \in Command /\ cmd \in [Cmd -> Command] /\ cmd[c].buf \in Nat
    BY <1>0, CmdType, Zenon DEF TypeOK
  <1>2. /\ cmd[c].buf > 0
        /\ cmd' = [cmd EXCEPT ![c] = [cmd[c] EXCEPT !.buf = @ - 1, !.trk = 0, !.inMap = TRUE]]
        /\ FlushReproposal(c) => cmd[c].trk = 0
        /\ UNCHANGED <<raft, ap, batch, leases, transport, assigned, inst, ticks>>
        /\ \A e \in net' : e \in net \/ (e = Write(c) /\ FlushReproposal(c))
    <2>1. CASE FlushReproposal(c)
      <3>1. cmd' = [cmd EXCEPT ![c] = [cmd[c] EXCEPT !.buf = @ - 1, !.inMap = TRUE]] /\ cmd[c].trk = 0
        BY <2>1, Zenon DEF FlushReproposal
      <3>2. [cmd[c] EXCEPT !.buf = @ - 1, !.inMap = TRUE]
              = [cmd[c] EXCEPT !.buf = @ - 1, !.trk = 0, !.inMap = TRUE]
        BY <1>1, <3>1, Zenon DEF Command
      <3> QED BY <2>1, <3>1, <3>2, Zenon DEF FlushReproposal, bounds
    <2>2. CASE FlushAfterError(c)
      <3>1. cmd' = [cmd EXCEPT ![c] = [cmd[c] EXCEPT !.buf = @ - 1, !.trk = 0, !.inMap = TRUE]]
        BY <2>2, Zenon DEF FlushAfterError
      <3>2. ~ FlushReproposal(c) \/ cmd[c].trk = 0
        BY DEF FlushReproposal
      <3> QED BY <2>2, <3>1, <3>2, Zenon DEF FlushAfterError
    <2> QED BY <2>1, <2>2
  <1>3. cmd[c].buf - 1 \in Nat
    BY <1>1, <1>2
  <1>4. /\ cmd'[c] = [cmd[c] EXCEPT !.buf = @ - 1, !.trk = 0, !.inMap = TRUE]
        /\ \A d \in Cmd \ {c} : cmd'[d] = cmd[d]
        /\ cmd' \in [Cmd -> Command]
    BY <1>1, <1>2, <1>3, Zenon DEF Command
  <1>5. /\ Constant(c) /\ cmd'[c].buf = cmd[c].buf - 1 /\ cmd'[c].trk = 0 /\ cmd'[c].inMap = TRUE
        /\ cmd'[c].mli = cmd[c].mli
        /\ cmd'[c].applied = cmd[c].applied /\ cmd'[c].told = cmd[c].told
    BY <1>1, <1>4 DEF Command, Constant
  <1>6. cmd[c].phase = "proposed"
    BY <1>0, <1>2, BusyIsProposed
  <1>7. faults' \in Nat
    <2>1. faults \in Nat /\ (faults' = faults \/ faults' = faults + 1)
      BY <1>0 DEF FlushReproposal, FlushAfterError, bounds, TypeOK
    <2> QED BY <2>1
  <1> QED BY <1>2, <1>4, <1>5, <1>6, <1>7

LEMMA FlushReproposalBase ==
    ASSUME BaseInv, NEW c \in Cmd, FlushReproposal(c) \/ FlushAfterError(c) PROVE BaseInv'
  <1>0. TypeOK /\ CmdsOK
    BY DEF BaseInv
  <1>1. /\ cmd[c].phase = "proposed" /\ Constant(c) /\ cmd'[c].trk = 0
        /\ cmd'[c].applied = cmd[c].applied /\ cmd'[c].told = cmd[c].told
        /\ \A d \in Cmd \ {c} : cmd'[d] = cmd[d]
        /\ cmd' \in [Cmd -> Command] /\ faults' \in Nat
        /\ UNCHANGED <<raft, ap, batch, leases, transport, assigned, inst, ticks>>
        /\ \A e \in net' : e \in net \/ e = Write(c)
    BY FlushReproposalFacts, Zenon
  <1>2. Write(c) \in Entry /\ Of(Write(c), c) /\ Write(c).seq = cmd[c].seq
    BY <1>0, WriteType DEF Of
  <1>3. TypeOK'
    BY <1>0, <1>1, <1>2, Zenon DEF TypeOK, raft, leases, transport, Ts0
  <1>4. \A d \in Cmd : Kept(d)
    BY <1>1 DEF Kept, Constant
  <1>5. CmdOK(c)'
    <2>1. CmdOK(c) /\ Kept(c)
      BY <1>0, <1>4 DEF CmdsOK
    <2>2. cmd'[c].applied => cmd'[c].told # "nothing"
      BY <1>1, <2>1 DEF CmdOK
    <2> QED BY <1>1, <2>1, <2>2, ProposedKept
  <1>6. CmdsOK'
    BY <1>0, <1>1, <1>5, CmdKept DEF CmdsOK
  <1>7. \A e \in net' : e \in net \/ EntryOK(e)'
    <2> SUFFICES ASSUME NEW e \in net', e = Write(c) PROVE EntryOK(e)'
      BY <1>1
    <2>1. e.kind = "write" /\ e.id = c /\ e.seq = cmd[c].seq
      BY <1>2 DEF Of
    <2> QED BY <1>1, <2>1 DEF EntryOK, Constant
  <1> QED BY <1>1, <1>3, <1>4, <1>6, <1>7, BaseKept

\* The replicas have got further, and the commands stay what they are.
Settled(d) ==
    /\ cmd'[d].home = cmd[d].home /\ cmd'[d].seq = cmd[d].seq
    /\ cmd[d].phase # "new" \/ cmd'[d] = cmd[d]
    /\ cmd'[d].phase = "proposed" \/ cmd'[d] = cmd[d]
    /\ cmd'[d].trk # 0 => cmd'[d].mli = 0
    /\ cmd'[d].applied => cmd'[d].told # "nothing"

LEMMA CmdsSettled ==
    ASSUME BaseInv, TypeOK', UNCHANGED raft, \A r \in Replica : Fx(r)' \in Fx(r) .. Len(log),
           \A d \in Cmd : Settled(d)
    PROVE CmdsOK' /\ \A d \in Cmd : Kept(d)
  <1>0. TypeOK /\ BatchesOK /\ StatesOK /\ CmdsOK
    BY DEF BaseInv
  <1>1. ASSUME NEW d \in Cmd PROVE CmdOK(d)'
    <2>1. CmdOK(d) /\ Settled(d) /\ cmd[d].home \in Replica /\ cmd'[d] \in Command /\ cmd[d] \in Command
      BY <1>0, CmdType, Zenon DEF CmdsOK, TypeOK
    <2>0. PICK r \in Replica : r = cmd[d].home
      BY <2>1
    <2> DEFINE m == Fx(r)
               n == Fx(r)'
    <2>2. m \in 0 .. Len(log) /\ n \in m .. Len(log)
      BY <1>0, <2>1, FxType
    <2>3. n \in 0 .. Len(log) /\ m <= n
      BY <2>2
    <2>4. StateAt(m).lease.seq <= StateAt(n).lease.seq
      <3> HIDE DEF m, n
      <3> QED BY <1>0, <2>2, <2>3 DEF StatesOK
    <2>5. st' = st
      BY DEF raft
    <2>6. Fx(cmd[d].home)' = n
      BY <2>0, <2>1 DEF Settled, Fx
    <2>7. StateAt(Fx(cmd[d].home))' = StateAt(n)
      BY <2>5, <2>6 DEF StateAt
    <2>8. StateAt(m).lease.seq \in Nat /\ StateAt(n).lease.seq \in Nat /\ cmd[d].seq \in Nat
      BY <1>0, <2>2, <2>3, StateType, CmdType
    <2>9. cmd[d].phase # "new" => cmd[d].seq <= StateAt(n).lease.seq
      <3>1. cmd[d].phase # "new" => cmd[d].seq <= StateAt(m).lease.seq
        BY <2>0, <2>1 DEF CmdOK
      <3> HIDE DEF m, n
      <3> QED BY <2>4, <2>8, <3>1
    <2> HIDE DEF m, n
    <2>10. cmd'[d].phase # "new" => cmd'[d].seq <= StateAt(n).lease.seq
      BY <2>1, <2>9, Zenon DEF Settled, CmdOK, Command
    <2> QED BY <2>1, <2>7, <2>10 DEF CmdOK, Settled
  <1> QED BY <1>1 DEF CmdsOK, Settled, Kept

LEMMA BaseSettled ==
    ASSUME BaseInv, TypeOK', UNCHANGED <<net, raft>>, \A r \in Replica : Fx(r)' \in Fx(r) .. Len(log),
           \A d \in Cmd : Settled(d), BatchesOK'
    PROVE BaseInv'
  <1>1. CmdsOK' /\ \A d \in Cmd : Kept(d)
    BY CmdsSettled
  <1> QED BY <1>1, EntriesKept, SameStates DEF BaseInv

LEMMA RefreshedFacts ==
    ASSUME TypeOK, NEW C, cmd' = Refreshed(C)
    PROVE /\ cmd' \in [Cmd -> Command]
          /\ \A d \in Cmd :
                /\ Constant(d) /\ cmd'[d].trk = cmd[d].trk /\ cmd'[d].mli = cmd[d].mli
                /\ cmd'[d].inMap = cmd[d].inMap /\ cmd'[d].applied = cmd[d].applied
                /\ cmd'[d].told = cmd[d].told
                /\ cmd'[d].buf = IF d \in C THEN cmd[d].buf + 1 ELSE cmd[d].buf
                /\ d \notin C => cmd'[d] = cmd[d]
  <1>1. \A d \in Cmd : cmd[d] \in Command /\ cmd[d].buf + 1 \in Nat
    BY CmdType
  <1>2. \A d \in Cmd : cmd'[d] = IF d \in C THEN [cmd[d] EXCEPT !.buf = @ + 1] ELSE cmd[d]
    BY DEF Refreshed
  <1>3. cmd' \in [Cmd -> Command]
    BY <1>1 DEF Refreshed, Command
  <1> QED BY <1>1, <1>2, <1>3 DEF Command, Constant

LEMMA RefreshBase ==
    ASSUME BaseInv, NEW r \in Replica, Refresh(r) PROVE BaseInv'
  <1>0. TypeOK /\ CmdsOK /\ BatchesOK /\ EntriesOK
    BY DEF BaseInv
  <1>1. /\ cmd' = Refreshed(Pending(r))
        /\ UNCHANGED <<net, raft, ap, batch, assigned, leases, transport, inst, faults>>
        /\ ticks' = ticks + 1
    BY DEF Refresh
  <1>2. TypeOK'
    <2>1. cmd' \in [Cmd -> Command]
      BY <1>0, <1>1, RefreshedFacts
    <2>2. ticks' \in Nat
      BY <1>0, <1>1 DEF TypeOK
    <2> QED BY <1>0, <1>1, <2>1, <2>2, Zenon DEF TypeOK, raft, leases, transport, Ts0
  <1>3. \A d \in Cmd : Settled(d)
    <2> TAKE d \in Cmd
    <2>1. CmdOK(d)
      BY <1>0 DEF CmdsOK
    <2>2. d \in Pending(r) => cmd[d].phase = "proposed"
      BY <1>0, BusyIsProposed DEF Pending, Mine
    <2> QED BY <1>0, <1>1, <2>1, <2>2, RefreshedFacts DEF Settled, CmdOK, Constant
  <1>4. \A q \in Replica : Fx(q)' \in Fx(q) .. Len(log)
    BY <1>0, <1>1, FxType DEF Fx
  <1>5. BatchesOK'
    BY <1>0, <1>1, <1>2, <1>3, <1>4, CmdsSettled, BatchesKept
  <1> QED BY <1>1, <1>2, <1>3, <1>4, <1>5, BaseSettled

LEMMA DecodeFacts ==
    ASSUME BaseInv, NEW r \in Replica, NEW n, Decode(r, n)
    PROVE /\ n \in ap[r] + 1 .. Len(log) /\ n \in Nat
          /\ batch[r] = Idle /\ NoReproposalsBuffered(r)
          /\ batch' = [batch EXCEPT ![r] = [to |-> n, bound |-> BoundBy(r, n), fx |-> ap[r]]]
          /\ batch' \in [Replica -> [to : Nat, bound : SUBSET Nat, fx : Nat]]
          /\ cmd' \in [Cmd -> Command]
          /\ \A d \in Cmd :
                /\ Constant(d) /\ cmd'[d].trk = cmd[d].trk /\ cmd'[d].mli = cmd[d].mli
                /\ cmd'[d].buf = cmd[d].buf /\ cmd'[d].applied = cmd[d].applied
                /\ cmd'[d].inMap = (cmd[d].inMap /\ d \notin Removed(r, n))
                /\ cmd'[d].told = IF d \in EarlyAcks(r, n) THEN "ok" ELSE cmd[d].told
          /\ UNCHANGED <<net, raft, ap, assigned, leases, transport, bounds>>
          /\ \A q \in Replica : Fx(q)' = Fx(q)
  <1>0. TypeOK /\ BatchesOK
    BY DEF BaseInv
  <1>1. ap[r] \in Nat /\ ap[r] <= Len(log) /\ Len(log) \in Nat /\ inst.maxBatch \in Nat
    <2>1. ap[r] \in 0 .. Len(log)
      BY <1>0, FxType
    <2>2. Len(log) \in Nat /\ inst.maxBatch \in Nat
      BY <1>0 DEF TypeOK, Instance
    <2> QED BY <2>1, <2>2
  <1>2. n \in ap[r] + 1 .. Len(log) /\ n \in Nat
    <2>1. n \in ap[r] + 1 .. Smaller(Len(log), ap[r] + inst.maxBatch)
      BY Zenon DEF Decode
    <2> QED BY <1>1, <2>1 DEF Smaller
  <1>3. BoundBy(r, n) \subseteq Nat
    BY <1>1, <1>2 DEF BoundBy
  <1>4. /\ batch[r] = Idle /\ NoReproposalsBuffered(r)
        /\ batch' = [batch EXCEPT ![r] = [to |-> n, bound |-> BoundBy(r, n), fx |-> ap[r]]]
        /\ UNCHANGED <<net, raft, ap, assigned, leases, transport, bounds>>
    BY Zenon DEF Decode
  <1>5. batch' \in [Replica -> [to : Nat, bound : SUBSET Nat, fx : Nat]]
    BY <1>0, <1>1, <1>2, <1>3, <1>4, Zenon DEF TypeOK
  <1>6. \A d \in Cmd : cmd'[d] =
            [cmd[d] EXCEPT !.inMap = cmd[d].inMap /\ d \notin Removed(r, n),
                           !.told = IF d \in EarlyAcks(r, n) THEN "ok" ELSE cmd[d].told]
    BY Zenon DEF Decode
  <1>7. \A d \in Cmd : cmd[d] \in Command
    BY <1>0, CmdType
  <1>8. cmd' \in [Cmd -> Command]
    <2>1. \A d \in Cmd : cmd'[d] \in Command
      <3> TAKE d \in Cmd
      <3> DEFINE b == cmd[d].inMap /\ d \notin Removed(r, n)
                 a == IF d \in EarlyAcks(r, n) THEN "ok" ELSE cmd[d].told
      <3>1. cmd'[d] = [cmd[d] EXCEPT !.inMap = b, !.told = a] /\ cmd[d] \in Command
        BY <1>6, <1>7, Zenon
      <3>2. b \in BOOLEAN
        BY Zenon
      <3>3. a = "ok" \/ a = cmd[d].told
        BY Zenon
      <3> HIDE DEF a, b
      <3> QED BY <3>1, <3>2, <3>3, Zenon DEF Command
    <2> DEFINE f(c) == [cmd[c] EXCEPT !.inMap = @ /\ c \notin Removed(r, n),
                                     !.told = IF c \in EarlyAcks(r, n) THEN "ok" ELSE @]
    <2>2. cmd' = [c \in Cmd |-> f(c)]
      BY Zenon DEF Decode
    <2> HIDE DEF f
    <2> QED BY <2>1, <2>2
  <1>9. \A d \in Cmd :
                /\ Constant(d) /\ cmd'[d].trk = cmd[d].trk /\ cmd'[d].mli = cmd[d].mli
                /\ cmd'[d].buf = cmd[d].buf /\ cmd'[d].applied = cmd[d].applied
                /\ cmd'[d].inMap = (cmd[d].inMap /\ d \notin Removed(r, n))
                /\ cmd'[d].told = IF d \in EarlyAcks(r, n) THEN "ok" ELSE cmd[d].told
    <2> TAKE d \in Cmd
    <2> DEFINE b == cmd[d].inMap /\ d \notin Removed(r, n)
               a == IF d \in EarlyAcks(r, n) THEN "ok" ELSE cmd[d].told
    <2>1. cmd'[d] = [cmd[d] EXCEPT !.inMap = b, !.told = a] /\ cmd[d] \in Command
      BY <1>6, <1>7, Zenon
    <2> HIDE DEF a, b
    <2>2. /\ Constant(d) /\ cmd'[d].trk = cmd[d].trk /\ cmd'[d].mli = cmd[d].mli
          /\ cmd'[d].buf = cmd[d].buf /\ cmd'[d].applied = cmd[d].applied
          /\ cmd'[d].inMap = b /\ cmd'[d].told = a
      BY <2>1 DEF Command, Constant
    <2> QED BY <2>2, Zenon DEF a, b
  <1>10. \A q \in Replica : Fx(q)' = Fx(q)
    <2> TAKE q \in Replica
    <2>1. CASE q = r
      <3>1. batch'[r] = [to |-> n, bound |-> BoundBy(r, n), fx |-> ap[r]]
        BY <1>0, <1>4 DEF TypeOK
      <3>2. batch'[r].to # 0
        BY <1>1, <1>2, <3>1
      <3>3. batch'[r] # Idle
        BY <3>2 DEF Idle
      <3> QED BY <1>4, <2>1, <3>1, <3>3 DEF Fx
    <2>2. CASE q # r
      BY <1>0, <1>4, <2>2 DEF Fx, TypeOK
    <2> QED BY <2>1, <2>2
  <1> QED BY <1>2, <1>4, <1>5, <1>8, <1>9, <1>10

LEMMA DecodeBase ==
    ASSUME BaseInv, NEW r \in Replica, NEW n, Decode(r, n) PROVE BaseInv'
  <1>0. TypeOK /\ CmdsOK /\ BatchesOK /\ EntriesOK
    BY DEF BaseInv
  <1>1. TypeOK'
    BY <1>0, DecodeFacts, Zenon DEF TypeOK, raft, leases, transport, bounds, Ts0
  <1>2. \A d \in Cmd : Settled(d)
    <2> TAKE d \in Cmd
    <2>1. CmdOK(d) /\ cmd[d] \in Command
      BY <1>0, CmdType DEF CmdsOK
    <2>2. d \in EarlyAcks(r, n) \cup Removed(r, n) => d \in Pending(r)
      BY DEF EarlyAcks, BoundBy, Removed
    <2>3. d \in Pending(r) => cmd[d].phase = "proposed"
      BY <1>0, BusyIsProposed DEF Pending, Mine
    <2>4. /\ Constant(d) /\ cmd'[d].trk = cmd[d].trk /\ cmd'[d].mli = cmd[d].mli
          /\ cmd'[d].applied = cmd[d].applied
          /\ cmd'[d].told = IF d \in EarlyAcks(r, n) THEN "ok" ELSE cmd[d].told
      BY DecodeFacts
    <2>5. d \notin Pending(r) => cmd'[d] = cmd[d]
      <3> SUFFICES ASSUME d \notin Pending(r) PROVE cmd'[d] = cmd[d]
        OBVIOUS
      <3>1. d \notin Removed(r, n) /\ d \notin EarlyAcks(r, n)
        BY <2>2
      <3> DEFINE b == cmd[d].inMap /\ d \notin Removed(r, n)
                 a == IF d \in EarlyAcks(r, n) THEN "ok" ELSE cmd[d].told
      <3>2. cmd'[d] = [cmd[d] EXCEPT !.inMap = b, !.told = a]
        BY Zenon DEF Decode
      <3>3. b = cmd[d].inMap /\ a = cmd[d].told
        BY <2>1, <3>1 DEF Command
      <3> HIDE DEF a, b
      <3> QED BY <2>1, <3>2, <3>3, Zenon DEF Command
    <2> QED BY <2>1, <2>3, <2>4, <2>5 DEF Settled, CmdOK, Constant
  <1>3. \A q \in Replica : Fx(q)' \in Fx(q) .. Len(log)
    BY <1>0, DecodeFacts, FxType
  <1>4. /\ \A d \in Cmd : Kept(d)
        /\ UNCHANGED <<net, raft, ap>>
    BY <1>1, <1>2, <1>3, CmdsSettled, DecodeFacts
  <1>5. BatchesOK'
    <2> SUFFICES ASSUME NEW q \in Replica PROVE BatchOK(q)'
      BY DEF BatchesOK
    <2>1. \A i \in 1 .. Len(log) : log[i] \in Entry /\ EntryOK(log[i])
      BY <1>0, SMTT(30) DEF TypeOK, EntriesOK
    <2>2. BatchOK(q) /\ ap'[q] = ap[q] /\ log' = log /\ ap[q] \in Nat /\ batch[q].to \in Nat
      BY <1>0, <1>4 DEF BatchesOK, raft, TypeOK
    <2>3. CASE q # r
      <3>1. batch'[q] = batch[q]
        BY <1>0, <2>3, DecodeFacts DEF TypeOK
      <3> QED BY <1>4, <2>1, <2>2, <3>1, SMTT(30) DEF BatchOK, EntryOK, Kept, Entry
    <2>4. CASE q = r
      <3>1. batch'[r] = [to |-> n, bound |-> BoundBy(r, n), fx |-> ap[r]] /\ n \in ap[r] + 1 .. Len(log)
        BY <1>0, DecodeFacts DEF TypeOK
      <3>2. \A i \in BoundBy(r, n) : i \in 1 .. n /\ log[i].kind = "write" /\ cmd'[log[i].id].home = r
        <4> TAKE i \in BoundBy(r, n)
        <4>1. i \in ap[r] + 1 .. n /\ log[i].kind = "write" /\ log[i].id \in Pending(r)
          BY DEF BoundBy
        <4>2. i \in 1 .. n
          BY <2>2, <2>4, <3>1, <4>1
        <4>3. log[i].id \in Cmd /\ cmd[log[i].id].home = r
          BY <4>1 DEF Pending, Mine
        <4>4. Constant(log[i].id)
          BY <4>3, DecodeFacts
        <4> QED BY <4>1, <4>2, <4>3, <4>4 DEF Constant
      <3> QED BY <2>2, <2>4, <3>1, <3>2 DEF BatchOK
    <2> QED BY <2>3, <2>4
  <1> QED BY <1>1, <1>2, <1>3, <1>4, <1>5, BaseSettled

LEMMA ApplyBatchBase ==
    ASSUME BaseInv, NEW r \in Replica, NEW n, ApplyBatch(r, n) PROVE BaseInv'
  <1>0. TypeOK /\ CmdsOK /\ BatchesOK /\ EntriesOK
    BY DEF BaseInv
  <1>1. /\ batch[r] # Idle /\ batch[r].fx = ap[r] /\ n \in ap[r] + 1 .. batch[r].to
        /\ ap' = [ap EXCEPT ![r] = n]
        /\ UNCHANGED <<net, raft, batch, proposer, leases, transport, bounds>>
    BY DEF ApplyBatch
  <1>2. ap[r] \in Nat /\ batch[r].to \in Nat
    BY <1>0, ReplicaType
  <1>3. n \in Nat
    BY <1>1, <1>2
  <1>4. TypeOK'
    BY <1>0, <1>1, <1>3, Zenon DEF TypeOK, raft, proposer, leases, transport, bounds, Ts0
  <1>5. cmd' = cmd /\ \A d \in Cmd : Settled(d)
    BY <1>0, <1>1 DEF proposer, CmdsOK, CmdOK, Settled
  <1>6. \A q \in Replica : Fx(q)' = Fx(q)
    BY <1>0, <1>1 DEF Fx, TypeOK
  <1>7. \A q \in Replica : Fx(q)' \in Fx(q) .. Len(log)
    BY <1>0, <1>6, FxType
  <1>8. BatchesOK'
    <2> SUFFICES ASSUME NEW q \in Replica PROVE BatchOK(q)'
      BY DEF BatchesOK
    <2>1. BatchOK(q) /\ log' = log /\ batch' = batch /\ Len(log) \in Nat
      BY <1>0, <1>1 DEF BatchesOK, raft, TypeOK
    <2>2. ap'[q] = IF q = r THEN n ELSE ap[q]
      BY <1>0, <1>1 DEF TypeOK
    <2> QED BY <1>1, <1>2, <1>5, <2>1, <2>2 DEF BatchOK
  <1> QED BY <1>1, <1>4, <1>5, <1>7, <1>8, BaseSettled

\* The three things that side effects do to a command: it is finished, proposed anew,
\* or left alone.
FinishedStep(i, c, a) ==
    /\ a = "ok" <=> VerdictAt(i) = "ok"
    /\ VerdictAt(i) = "stale" => ~ Superseded(c, log[i])
    /\ Constant(c) /\ cmd'[c].applied = TRUE /\ cmd'[c].told = Answer(cmd[c].told, a)
    /\ cmd'[c].trk = cmd[c].trk /\ cmd'[c].mli = cmd[c].mli /\ cmd'[c].buf = cmd[c].buf
    /\ cmd'[c].inMap => cmd[c].inMap
ReproposedStep(i, c) ==
    /\ VerdictAt(i) = "stale" /\ ~ Superseded(c, log[i])
    /\ Constant(c) /\ cmd'[c].applied = cmd[c].applied /\ cmd'[c].told = cmd[c].told
    /\ cmd'[c].trk # 0 /\ cmd'[c].mli = 0 /\ cmd'[c].inMap = cmd[c].inMap
LeftStep(r, i) ==
    /\ cmd' = cmd
    /\ i \in batch[r].bound => VerdictAt(i) = "stale" /\ Superseded(log[i].id, log[i])

LEMMA FinishFacts ==
    ASSUME TypeOK, NEW c \in Cmd, NEW e \in Entry, NEW a \in {"ok", "rejected"}, Finish(c, e, a)
    PROVE /\ cmd' \in [Cmd -> Command] /\ \A d \in Cmd \ {c} : cmd'[d] = cmd[d]
          /\ Constant(c) /\ cmd'[c].applied = TRUE /\ cmd'[c].told = Answer(cmd[c].told, a)
          /\ cmd'[c].trk = cmd[c].trk /\ cmd'[c].mli = cmd[c].mli /\ cmd'[c].buf = cmd[c].buf
          /\ cmd'[c].inMap => cmd[c].inMap
          /\ assigned' = assigned
  <1> DEFINE t == Answer(cmd[c].told, a)
             b == cmd[c].inMap /\ e.mli = cmd[c].mli
  <1>1. cmd[c] \in Command /\ cmd \in [Cmd -> Command]
    BY CmdType DEF TypeOK
  <1>2. cmd' = [cmd EXCEPT ![c] = [cmd[c] EXCEPT !.told = t, !.applied = TRUE, !.inMap = b]]
    BY Zenon DEF Finish
  <1>3. t \in {"nothing", "ok", "rejected", "ambiguous"} /\ b \in BOOLEAN /\ (b => cmd[c].inMap)
    BY <1>1 DEF Answer, Command
  <1>4. assigned' = assigned
    BY DEF Finish
  <1> HIDE DEF b
  <1>5. cmd'[c] = [cmd[c] EXCEPT !.told = t, !.applied = TRUE, !.inMap = b]
        /\ \A d \in Cmd \ {c} : cmd'[d] = cmd[d]
    BY <1>1, <1>2
  <1> HIDE DEF t
  <1>6. cmd' \in [Cmd -> Command]
    BY <1>1, <1>2, <1>3, Zenon DEF Command
  <1>7. /\ Constant(c) /\ cmd'[c].applied = TRUE /\ cmd'[c].told = t
        /\ cmd'[c].trk = cmd[c].trk /\ cmd'[c].mli = cmd[c].mli /\ cmd'[c].buf = cmd[c].buf
        /\ cmd'[c].inMap = b
    BY <1>1, <1>5 DEF Command, Constant
  <1> QED BY <1>3, <1>4, <1>5, <1>6, <1>7 DEF t

LEMMA ReproposeFacts ==
    ASSUME TypeOK, NEW r \in Replica, NEW c \in Cmd, cmd[c].wts > MinTs(r),
           cmd' = [cmd EXCEPT ![c].trk = cmd[c].wts, ![c].buf = @ + 1, ![c].mli = 0]
    PROVE /\ cmd' \in [Cmd -> Command] /\ \A d \in Cmd \ {c} : cmd'[d] = cmd[d]
          /\ Constant(c) /\ cmd'[c].applied = cmd[c].applied /\ cmd'[c].told = cmd[c].told
          /\ cmd'[c].trk # 0 /\ cmd'[c].mli = 0 /\ cmd'[c].inMap = cmd[c].inMap
  <1>1. cmd[c] \in Command /\ cmd \in [Cmd -> Command] /\ cmd[c].buf + 1 \in Nat /\ cmd[c].wts \in Nat
    <2>1. cmd[c].buf \in Nat /\ cmd[c].wts \in Nat /\ cmd[c] \in Command
      BY CmdType
    <2> QED BY <2>1, SMTT(30) DEF TypeOK
  <1>2. cmd[c].wts # 0
    <2>1. assigned[r].ct \in Nat
      BY ReplicaType
    <2> QED BY <1>1, <2>1 DEF MinTs
  <1>3. cmd' = [cmd EXCEPT ![c] = [cmd[c] EXCEPT !.trk = cmd[c].wts, !.buf = @ + 1, !.mli = 0]]
    BY Zenon
  <1>4. cmd'[c] = [cmd[c] EXCEPT !.trk = cmd[c].wts, !.buf = @ + 1, !.mli = 0]
        /\ \A d \in Cmd \ {c} : cmd'[d] = cmd[d]
    BY <1>1, <1>3
  <1>5. cmd' \in [Cmd -> Command]
    BY <1>1, <1>3 DEF Command
  <1> QED BY <1>1, <1>2, <1>4, <1>5 DEF Command, Constant

LEMMA InstallType ==
    ASSUME TypeOK, NEW r \in Replica, NEW old \in LeaseRecord, NEW s \in AppliedState,
           InstallLease(r, old, s)
    PROVE /\ assigned' \in [Replica -> [lai : Nat, ct : Nat]] /\ low' \in [Replica -> Nat]
  <1>1. s.lai \in Nat /\ s.ct \in Nat /\ s.lease.sum \in Nat
    BY DEF AppliedState, LeaseRecord
  <1>2. OnLeaseChange(r, s) \in [lai : Nat, ct : Nat]
    BY <1>1, ReplicaType DEF OnLeaseChange, Larger
  <1>3. LowWater(r, old, s.lease) \in Nat
    BY <1>1, ReplicaType DEF LowWater, Larger
  <1> QED BY <1>2, <1>3, Zenon DEF InstallLease, TypeOK

LEMMA SideEffectsFacts ==
    ASSUME BaseInv, NEW r \in Replica, SideEffects(r)
    PROVE \E i \in 1 .. Len(log) :
          /\ i = batch[r].fx + 1 /\ Fx(r) = batch[r].fx /\ Fx(r)' = i
          /\ batch[r] # Idle /\ batch[r].fx < ap[r] /\ i <= batch[r].to
          /\ batch' = [batch EXCEPT ![r] = NextBatch(r)]
          /\ \/ NextBatch(r) = Idle /\ i = batch[r].to
             \/ NextBatch(r) # Idle /\ NextBatch(r) = [batch[r] EXCEPT !.fx = i] /\ i < batch[r].to
          /\ NextBatch(r) \in [to : Nat, bound : SUBSET Nat, fx : Nat]
          /\ \A q \in Replica \ {r} : batch'[q] = batch[q] /\ Fx(q)' = Fx(q)
          /\ cmd' \in [Cmd -> Command]
          /\ assigned' \in [Replica -> [lai : Nat, ct : Nat]] /\ low' \in [Replica -> Nat]
          /\ i \in batch[r].bound => log[i].id \in Cmd /\ cmd[log[i].id].phase = "proposed"
                                     /\ cmd[log[i].id].home = r /\ log[i].kind = "write"
          /\ \/ LeftStep(r, i)
             \/ /\ i \in batch[r].bound /\ \A d \in Cmd \ {log[i].id} : cmd'[d] = cmd[d]
                /\ \/ \E a \in {"ok", "rejected"} : FinishedStep(i, log[i].id, a)
                   \/ ReproposedStep(i, log[i].id)
          /\ UNCHANGED <<net, raft, ap, minVer, ver, transport, bounds>>
  <1> DEFINE i == batch[r].fx + 1
             e == log[i]
             c == log[i].id
  <1>0. TypeOK /\ BatchesOK /\ EntriesOK
    BY DEF BaseInv
  <1>1. /\ batch[r] # Idle /\ batch[r].fx < ap[r] /\ batch' = [batch EXCEPT ![r] = NextBatch(r)]
        /\ UNCHANGED <<net, raft, ap, minVer, ver, transport, bounds>>
    BY DEF SideEffects
  <1>2. /\ batch[r].fx \in Nat /\ batch[r].to \in Nat /\ ap[r] \in Nat /\ batch[r].bound \subseteq Nat
        /\ batch[r] \in [to : Nat, bound : SUBSET Nat, fx : Nat]
        /\ Len(log) \in Nat
    <2>1. Len(log) \in Nat /\ batch[r] \in [to : Nat, bound : SUBSET Nat, fx : Nat]
      BY <1>0 DEF TypeOK
    <2> QED BY <1>0, <2>1, ReplicaType
  <1>3. /\ ap[r] <= batch[r].to /\ batch[r].to <= Len(log)
        /\ \A j \in batch[r].bound : log[j].kind = "write" /\ cmd[log[j].id].home = r
    BY <1>0, <1>1 DEF BatchesOK, BatchOK
  <1>4. i \in 1 .. Len(log) /\ i <= batch[r].to /\ i \in Nat
    BY <1>1, <1>2, <1>3
  <1>5. e \in Entry /\ EntryOK(e)
    BY <1>0, <1>4 DEF TypeOK, EntriesOK
  <1>6. /\ NextBatch(r) \in [to : Nat, bound : SUBSET Nat, fx : Nat]
        /\ \/ NextBatch(r) = Idle /\ i = batch[r].to
           \/ NextBatch(r) # Idle /\ NextBatch(r) = [batch[r] EXCEPT !.fx = i] /\ i < batch[r].to
    BY <1>2, <1>4 DEF NextBatch, Idle
  <1>7. Fx(r) = batch[r].fx /\ Fx(r)' = i
    <2>1. batch'[r] = NextBatch(r) /\ ap'[r] = ap[r]
      BY <1>0, <1>1 DEF TypeOK
    <2>2. CASE NextBatch(r) = Idle /\ i = batch[r].to
      <3>1. ap[r] = i
        BY <1>1, <1>2, <1>3, <2>2
      <3> QED BY <1>1, <2>1, <2>2, <3>1 DEF Fx
    <2>3. CASE NextBatch(r) # Idle /\ NextBatch(r) = [batch[r] EXCEPT !.fx = i]
      <3>1. NextBatch(r).fx = i
        BY <1>2, <2>3
      <3> QED BY <1>1, <2>1, <2>3, <3>1, Zenon DEF Fx
    <2> QED BY <1>6, <2>2, <2>3
  <1>8. \A q \in Replica \ {r} : batch'[q] = batch[q] /\ Fx(q)' = Fx(q)
    BY <1>0, <1>1 DEF TypeOK, Fx
  <1>9. i \in batch[r].bound => c \in Cmd /\ cmd[c].phase = "proposed" /\ cmd[c].home = r /\ e.kind = "write"
    BY <1>3, <1>5, Zenon DEF Entry, EntryOK
  <1>10. \/ /\ i \in batch[r].bound /\ VerdictAt(i) = "ok"
            /\ Finish(c, e, "ok") /\ UNCHANGED low
         \/ /\ i \in batch[r].bound /\ VerdictAt(i) = "mismatch"
            /\ Finish(c, e, "rejected") /\ UNCHANGED low
         \/ /\ i \in batch[r].bound /\ VerdictAt(i) = "stale"
            /\ TryReproposeWithNewLeaseIndex(r, c, e) /\ UNCHANGED low
         \/ /\ e.kind # "write" /\ InstallLease(r, LeaseOf(r), StateAt(i)) /\ UNCHANGED cmd
         \/ i \notin batch[r].bound /\ UNCHANGED <<proposer, low>>
    BY DEF SideEffects
  <1> HIDE DEF i, e, c
  <1> DEFINE Step ==
         /\ cmd' \in [Cmd -> Command]
         /\ assigned' \in [Replica -> [lai : Nat, ct : Nat]] /\ low' \in [Replica -> Nat]
         /\ \/ LeftStep(r, i)
            \/ /\ i \in batch[r].bound /\ \A d \in Cmd \ {c} : cmd'[d] = cmd[d]
               /\ \/ \E a \in {"ok", "rejected"} : FinishedStep(i, c, a)
                  \/ ReproposedStep(i, c)
  <1>20. Step
    <2>0. /\ cmd \in [Cmd -> Command] /\ low \in [Replica -> Nat]
          /\ assigned \in [Replica -> [lai : Nat, ct : Nat]] /\ e = log[i] /\ c = log[i].id
      BY <1>0 DEF TypeOK, e, c
    <2>1. ASSUME i \in batch[r].bound, NEW a \in {"ok", "rejected"}, Finish(c, e, a), UNCHANGED low,
                 a = "ok" <=> VerdictAt(i) = "ok",
                 VerdictAt(i) = "stale" => ~ Superseded(c, e)
          PROVE Step
      <3>1. c \in Cmd
        BY <1>9, <2>1
      <3>2. /\ cmd' \in [Cmd -> Command] /\ \A d \in Cmd \ {c} : cmd'[d] = cmd[d]
            /\ Constant(c) /\ cmd'[c].applied = TRUE /\ cmd'[c].told = Answer(cmd[c].told, a)
            /\ cmd'[c].trk = cmd[c].trk /\ cmd'[c].mli = cmd[c].mli /\ cmd'[c].buf = cmd[c].buf
            /\ cmd'[c].inMap => cmd[c].inMap
            /\ assigned' = assigned
        BY <1>0, <1>5, <2>1, <3>1, FinishFacts, Zenon
      <3>3. FinishedStep(i, c, a)
        BY <2>0, <2>1, <3>2 DEF FinishedStep
      <3> QED BY <2>0, <2>1, <3>2, <3>3
    <2>2. CASE i \in batch[r].bound /\ VerdictAt(i) = "ok" /\ Finish(c, e, "ok") /\ UNCHANGED low
      BY <2>1, <2>2
    <2>3. CASE i \in batch[r].bound /\ VerdictAt(i) = "mismatch" /\ Finish(c, e, "rejected") /\ UNCHANGED low
      BY <2>1, <2>3
    <2>4. CASE i \in batch[r].bound /\ VerdictAt(i) = "stale" /\ TryReproposeWithNewLeaseIndex(r, c, e)
               /\ UNCHANGED low
      <3>1. CASE Superseded(c, e) /\ UNCHANGED proposer
        BY <2>0, <2>4, <3>1 DEF LeftStep, proposer
      <3>2. CASE ~ Superseded(c, e) /\ Finish(c, e, "rejected")
        BY <2>1, <2>4, <3>2
      <3>3. CASE /\ ~ Superseded(c, e) /\ cmd[c].wts > MinTs(r)
                 /\ cmd' = [cmd EXCEPT ![c].trk = cmd[c].wts, ![c].buf = @ + 1, ![c].mli = 0]
                 /\ UNCHANGED assigned
        <4>1. c \in Cmd
          BY <1>9, <2>4
        <4>2. /\ cmd' \in [Cmd -> Command] /\ \A d \in Cmd \ {c} : cmd'[d] = cmd[d]
              /\ Constant(c) /\ cmd'[c].applied = cmd[c].applied /\ cmd'[c].told = cmd[c].told
              /\ cmd'[c].trk # 0 /\ cmd'[c].mli = 0 /\ cmd'[c].inMap = cmd[c].inMap
          BY <1>0, <3>3, <4>1, ReproposeFacts, Zenon
        <4>3. ReproposedStep(i, c)
          BY <2>0, <2>4, <3>3, <4>2, Zenon DEF ReproposedStep
        <4> QED BY <2>0, <2>4, <3>3, <4>2, <4>3, Zenon
      <3> QED BY <2>4, <3>1, <3>2, <3>3 DEF TryReproposeWithNewLeaseIndex
    <2>5. CASE e.kind # "write" /\ InstallLease(r, LeaseOf(r), StateAt(i)) /\ UNCHANGED cmd
      <3>1. LeaseOf(r) \in LeaseRecord /\ StateAt(i) \in AppliedState
        BY <1>0, <1>4, LeaseType, StateType
      <3>2. i \notin batch[r].bound
        BY <1>9, <2>5
      <3> QED BY <1>0, <2>0, <2>5, <3>1, <3>2, InstallType DEF LeftStep
    <2>6. CASE i \notin batch[r].bound /\ UNCHANGED <<proposer, low>>
      BY <2>0, <2>6 DEF LeftStep, proposer
    <2> QED BY <1>10, <2>2, <2>3, <2>4, <2>5, <2>6
  <1>21. c = log[i].id /\ e = log[i] /\ i = batch[r].fx + 1
    BY DEF c, e, i
  <1> QED BY <1>1, <1>4, <1>6, <1>7, <1>8, <1>9, <1>20, <1>21, Zenon

LEMMA SideEffectsBase ==
    ASSUME BaseInv, NEW r \in Replica, SideEffects(r) PROVE BaseInv'
  <1>0. TypeOK /\ CmdsOK /\ BatchesOK /\ EntriesOK
    BY DEF BaseInv
  <1>1. PICK i \in 1 .. Len(log) :
          /\ i = batch[r].fx + 1 /\ Fx(r) = batch[r].fx /\ Fx(r)' = i
          /\ batch[r] # Idle /\ batch[r].fx < ap[r] /\ i <= batch[r].to
          /\ batch' = [batch EXCEPT ![r] = NextBatch(r)]
          /\ \/ NextBatch(r) = Idle /\ i = batch[r].to
             \/ NextBatch(r) # Idle /\ NextBatch(r) = [batch[r] EXCEPT !.fx = i] /\ i < batch[r].to
          /\ NextBatch(r) \in [to : Nat, bound : SUBSET Nat, fx : Nat]
          /\ \A q \in Replica \ {r} : batch'[q] = batch[q] /\ Fx(q)' = Fx(q)
          /\ cmd' \in [Cmd -> Command]
          /\ assigned' \in [Replica -> [lai : Nat, ct : Nat]] /\ low' \in [Replica -> Nat]
          /\ i \in batch[r].bound => log[i].id \in Cmd /\ cmd[log[i].id].phase = "proposed"
          /\ \/ LeftStep(r, i)
             \/ /\ i \in batch[r].bound /\ \A d \in Cmd \ {log[i].id} : cmd'[d] = cmd[d]
                /\ \/ \E a \in {"ok", "rejected"} : FinishedStep(i, log[i].id, a)
                   \/ ReproposedStep(i, log[i].id)
          /\ UNCHANGED <<net, raft, ap, minVer, ver, transport, bounds>>
    BY SideEffectsFacts
  <1>2. TypeOK'
    BY <1>0, <1>1, Zenon DEF TypeOK, raft, transport, bounds, Ts0
  <1>3. \A d \in Cmd : Settled(d)
    <2> TAKE d \in Cmd
    <2>1. CmdOK(d)
      BY <1>0 DEF CmdsOK
    <2>2. CASE cmd'[d] = cmd[d]
      BY <2>1, <2>2 DEF CmdOK, Settled
    <2>3. CASE cmd'[d] # cmd[d]
      <3>1. d = log[i].id /\ i \in batch[r].bound /\ cmd[d].phase = "proposed"
        BY <1>1, <2>3, Zenon DEF LeftStep
      <3>2. CASE \E a \in {"ok", "rejected"} : FinishedStep(i, d, a)
        BY <2>1, <3>1, <3>2 DEF FinishedStep, Settled, CmdOK, Constant, Answer
      <3>3. CASE ReproposedStep(i, d)
        BY <2>1, <3>1, <3>3 DEF ReproposedStep, Settled, CmdOK, Constant
      <3> QED BY <1>1, <2>3, <3>1, <3>2, <3>3, Zenon DEF LeftStep
    <2> QED BY <2>2, <2>3
  <1>4. \A q \in Replica : Fx(q)' \in Fx(q) .. Len(log)
    <2> TAKE q \in Replica
    <2>1. Fx(q) \in 0 .. Len(log) /\ Fx(r) \in 0 .. Len(log)
      BY <1>0, FxType
    <2> QED BY <1>1, <2>1
  <1>5. /\ \A d \in Cmd : Kept(d)
        /\ UNCHANGED <<net, raft, ap>>
    BY <1>1, <1>2, <1>3, <1>4, CmdsSettled
  <1>6. BatchesOK'
    <2> SUFFICES ASSUME NEW q \in Replica PROVE BatchOK(q)'
      BY DEF BatchesOK
    <2>1. \A j \in 1 .. Len(log) : log[j] \in Entry /\ EntryOK(log[j])
      BY <1>0, SMTT(30) DEF TypeOK, EntriesOK
    <2>2. /\ BatchOK(q) /\ ap'[q] = ap[q] /\ log' = log /\ ap[q] \in Nat /\ batch[q].to \in Nat
          /\ batch[q].fx \in Nat /\ batch[q] \in [to : Nat, bound : SUBSET Nat, fx : Nat]
      BY <1>0, <1>5, Zenon DEF BatchesOK, raft, TypeOK
    <2>3. \/ batch'[q] = batch[q]
          \/ batch'[q] = Idle
          \/ /\ batch[q] # Idle /\ batch'[q].to = batch[q].to /\ batch'[q].bound = batch[q].bound
             /\ batch'[q].fx = batch[q].fx + 1
             /\ batch[q].fx < ap[q] /\ batch'[q].fx < batch[q].to
      <3>1. CASE q # r
        BY <1>1, <3>1
      <3>2. CASE q = r
        <4>1. batch'[r] = NextBatch(r)
          BY <1>0, <1>1 DEF TypeOK
        <4> QED BY <1>1, <2>2, <3>2, <4>1
      <3> QED BY <3>1, <3>2
    <2>4. batch[q] # Idle => \A j \in batch[q].bound :
              j \in 1 .. batch[q].to /\ log[j].kind = "write" /\ cmd'[log[j].id].home = q
      <3> SUFFICES ASSUME batch[q] # Idle, NEW j \in batch[q].bound
                   PROVE j \in 1 .. batch[q].to /\ log[j].kind = "write" /\ cmd'[log[j].id].home = q
        OBVIOUS
      <3>1. /\ j \in 1 .. batch[q].to /\ batch[q].to <= Len(log) /\ log[j].kind = "write"
            /\ cmd[log[j].id].home = q
        BY <2>2 DEF BatchOK
      <3>2. j \in 1 .. Len(log)
        BY <2>2, <3>1
      <3> QED BY <1>5, <2>1, <3>1, <3>2 DEF EntryOK, Kept, Entry
    <2>5. CASE batch'[q] = batch[q]
      BY <2>2, <2>4, <2>5 DEF BatchOK
    <2>6. CASE batch'[q] = Idle
      BY <2>2, <2>6 DEF BatchOK
    <2>7. CASE /\ batch[q] # Idle /\ batch'[q].to = batch[q].to /\ batch'[q].bound = batch[q].bound
               /\ batch'[q].fx = batch[q].fx + 1
               /\ batch[q].fx < ap[q] /\ batch'[q].fx < batch[q].to
      BY <2>2, <2>4, <2>7 DEF BatchOK
    <2> QED BY <2>3, <2>5, <2>6, <2>7
  <1> QED BY <1>1, <1>2, <1>3, <1>4, <1>6, BaseSettled

LEMMA SnapshotFacts ==
    ASSUME BaseInv, NEW r \in Replica, NEW q \in Replica, ApplySnapshot(r, q)
    PROVE /\ batch[r] = Idle /\ NoReproposalsBuffered(r)
          /\ ap' = [ap EXCEPT ![r] = ap[q]] /\ ap[q] > ap[r]
          /\ Fx(r)' = ap[q] /\ \A p \in Replica \ {r} : Fx(p)' = Fx(p)
          /\ \A p \in Replica : Fx(p)' \in Fx(p) .. Len(log)
          /\ \A d \in Cmd :
                /\ Constant(d) /\ cmd'[d].trk = cmd[d].trk /\ cmd'[d].mli = cmd[d].mli
                /\ cmd'[d].applied = cmd[d].applied
                /\ ~ inst.leaderChange => cmd'[d].buf = cmd[d].buf
                /\ cmd'[d].inMap => cmd[d].inMap
                /\ ~ inst.leaderChange /\ cmd'[d].inMap /\ d \in Mine(r) => cmd[d].mli > State(q).lai
                /\ cmd'[d].told = cmd[d].told \/ (cmd[d].told = "nothing" /\ cmd'[d].told = "ambiguous")
                /\ d \notin Pending(r) => cmd'[d] = cmd[d]
          /\ UNCHANGED <<net, raft, batch, minVer, ver, transport, inst, ticks>>
          /\ TypeOK'
  <1>0. TypeOK /\ BatchesOK
    BY DEF BaseInv
  <1>1. /\ batch[r] = Idle /\ NoReproposalsBuffered(r) /\ ap[q] > ap[r]
        /\ ap' = [ap EXCEPT ![r] = ap[q]] /\ faults' = faults + 1
        /\ InstallLease(r, LeaseOf(r), State(q))
        /\ \/ cmd' = GiveUp(r, State(q).lai)
           \/ inst.leaderChange /\ cmd' = Refreshed(Pending(r))
        /\ UNCHANGED <<net, raft, batch, minVer, ver, transport, inst, ticks>>
    BY DEF ApplySnapshot
  <1>2. ap[q] \in 0 .. Len(log) /\ ap[r] \in 0 .. Len(log) /\ State(q).lai \in Nat
    BY <1>0, FxType, LeaseType
  <1>3. Fx(r)' = ap[q] /\ Fx(r) = ap[r] /\ \A p \in Replica \ {r} : Fx(p)' = Fx(p)
    BY <1>0, <1>1 DEF Fx, TypeOK
  <1>4. \A p \in Replica : Fx(p)' \in Fx(p) .. Len(log)
    <2> TAKE p \in Replica
    <2>1. Fx(p) \in 0 .. Len(log)
      BY <1>0, FxType
    <2> QED BY <1>1, <1>2, <1>3, <2>1
  <1> DEFINE Goal ==
          /\ cmd' \in [Cmd -> Command]
          /\ \A d \in Cmd :
                /\ Constant(d) /\ cmd'[d].trk = cmd[d].trk /\ cmd'[d].mli = cmd[d].mli
                /\ cmd'[d].applied = cmd[d].applied
                /\ ~ inst.leaderChange => cmd'[d].buf = cmd[d].buf
                /\ cmd'[d].inMap => cmd[d].inMap
                /\ ~ inst.leaderChange /\ cmd'[d].inMap /\ d \in Mine(r) => cmd[d].mli > State(q).lai
                /\ cmd'[d].told = cmd[d].told \/ (cmd[d].told = "nothing" /\ cmd'[d].told = "ambiguous")
                /\ d \notin Pending(r) => cmd'[d] = cmd[d]
  <1>5. ASSUME cmd' = GiveUp(r, State(q).lai) PROVE Goal
    <2>1. \A d \in Cmd : cmd[d] \in Command /\ cmd[d].mli \in Nat
      BY <1>0, CmdType
    <2>2. cmd' \in [Cmd -> Command]
      <3> DEFINE f(d) == IF d \in Pending(r) /\ cmd[d].mli <= State(q).lai
                         THEN [cmd[d] EXCEPT !.inMap = FALSE, !.told = Answer(@, "ambiguous")]
                         ELSE cmd[d]
      <3>1. ASSUME NEW d \in Cmd PROVE f(d) \in Command
        <4>1. cmd[d] \in Command
          BY <2>1
        <4>2. [cmd[d] EXCEPT !.inMap = FALSE, !.told = Answer(@, "ambiguous")] \in Command
          BY <4>1, Zenon DEF Command, Answer
        <4> QED BY <4>1, <4>2
      <3>2. cmd' = [d \in Cmd |-> f(d)]
        BY <1>5, Zenon DEF GiveUp
      <3> HIDE DEF f
      <3> QED BY <3>1, <3>2
    <2>3. ASSUME NEW d \in Cmd, d \in Pending(r), cmd[d].mli <= State(q).lai
          PROVE cmd'[d] = [cmd[d] EXCEPT !.inMap = FALSE, !.told = Answer(@, "ambiguous")]
      BY <1>5, <2>3, Zenon DEF GiveUp
    <2>4. ASSUME NEW d \in Cmd, ~ (d \in Pending(r) /\ cmd[d].mli <= State(q).lai)
          PROVE cmd'[d] = cmd[d]
      BY <1>5, <2>4, Zenon DEF GiveUp
    <2>5. ASSUME NEW d \in Cmd
          PROVE /\ Constant(d) /\ cmd'[d].trk = cmd[d].trk /\ cmd'[d].mli = cmd[d].mli
                /\ cmd'[d].applied = cmd[d].applied
                /\ cmd'[d].buf = cmd[d].buf
                /\ cmd'[d].inMap => cmd[d].inMap
                /\ cmd'[d].inMap /\ d \in Mine(r) => cmd[d].mli > State(q).lai
                /\ cmd'[d].told = cmd[d].told \/ (cmd[d].told = "nothing" /\ cmd'[d].told = "ambiguous")
                /\ d \notin Pending(r) => cmd'[d] = cmd[d]
      <3>1. CASE d \in Pending(r) /\ cmd[d].mli <= State(q).lai
        <4> DEFINE a == Answer(cmd[d].told, "ambiguous")
        <4>1. cmd'[d] = [cmd[d] EXCEPT !.inMap = FALSE, !.told = a] /\ cmd[d] \in Command
          BY <2>1, <2>3, <3>1, Zenon
        <4>2. a = cmd[d].told \/ (cmd[d].told = "nothing" /\ a = "ambiguous")
          BY DEF Answer
        <4> HIDE DEF a
        <4>3. /\ Constant(d) /\ cmd'[d].trk = cmd[d].trk /\ cmd'[d].mli = cmd[d].mli
              /\ cmd'[d].applied = cmd[d].applied /\ cmd'[d].buf = cmd[d].buf
              /\ cmd'[d].inMap = FALSE /\ cmd'[d].told = a
          BY <4>1 DEF Command, Constant
        <4> QED BY <3>1, <4>2, <4>3
      <3>2. CASE ~ (d \in Pending(r) /\ cmd[d].mli <= State(q).lai)
        <4>1. cmd'[d] = cmd[d]
          BY <2>4, <3>2
        <4>2. cmd[d].inMap /\ d \in Mine(r) => ~ (cmd[d].mli <= State(q).lai)
          BY <3>2 DEF Pending
        <4>3. cmd[d].inMap /\ d \in Mine(r) => cmd[d].mli > State(q).lai
          BY <1>2, <2>1, <4>2
        <4> QED BY <4>1, <4>3 DEF Constant
      <3> QED BY <3>1, <3>2
    <2> QED BY <2>2, <2>5
  <1>6. ASSUME inst.leaderChange, cmd' = Refreshed(Pending(r)) PROVE Goal
    BY <1>0, <1>6, RefreshedFacts
  <1>7. Goal
    BY <1>1, <1>5, <1>6
  <1>8. TypeOK'
    <2>1. assigned' \in [Replica -> [lai : Nat, ct : Nat]] /\ low' \in [Replica -> Nat]
      BY <1>0, <1>1, InstallType, LeaseType
    <2>2. ap' \in [Replica -> Nat] /\ faults' \in Nat
      BY <1>0, <1>1, <1>2 DEF TypeOK
    <2> QED BY <1>0, <1>1, <1>7, <2>1, <2>2, Zenon DEF TypeOK, raft, transport, Ts0
  <1> QED BY <1>1, <1>3, <1>4, <1>7, <1>8

\* The batches of the other replicas, and of one that has none, are all right.
LEMMA BatchesElsewhere ==
    ASSUME BaseInv, UNCHANGED raft, \A d \in Cmd : Kept(d), NEW r \in Replica,
           \A q \in Replica \ {r} : ap'[q] = ap[q] /\ batch'[q] = batch[q],
           batch'[r] = Idle, ap'[r] <= Len(log)
    PROVE BatchesOK'
  <1>0. TypeOK /\ BatchesOK /\ EntriesOK
    BY DEF BaseInv
  <1> SUFFICES ASSUME NEW q \in Replica PROVE BatchOK(q)'
    BY DEF BatchesOK
  <1>1. log' = log /\ Len(log) \in Nat
    BY <1>0 DEF raft, TypeOK
  <1>2. CASE q = r
    BY <1>1, <1>2 DEF BatchOK
  <1>3. CASE q # r
    <2>1. BatchOK(q) /\ batch[q].to \in Nat /\ ap'[q] = ap[q] /\ batch'[q] = batch[q]
      BY <1>0, <1>3, ReplicaType DEF BatchesOK
    <2>2. batch[q] # Idle => \A j \in batch[q].bound :
              j \in 1 .. batch[q].to /\ log[j].kind = "write" /\ cmd'[log[j].id].home = q
      <3> SUFFICES ASSUME batch[q] # Idle, NEW j \in batch[q].bound
                   PROVE j \in 1 .. batch[q].to /\ log[j].kind = "write" /\ cmd'[log[j].id].home = q
        OBVIOUS
      <3>1. /\ j \in 1 .. batch[q].to /\ batch[q].to <= Len(log) /\ log[j].kind = "write"
            /\ cmd[log[j].id].home = q
        BY <2>1 DEF BatchOK
      <3>2. j \in 1 .. Len(log)
        BY <1>1, <2>1, <3>1
      <3>3. log[j] \in Entry /\ EntryOK(log[j])
        BY <1>0, <3>2, SMTT(30) DEF TypeOK, EntriesOK
      <3> QED BY <3>1, <3>3 DEF EntryOK, Kept, Entry
    <2> QED BY <1>1, <2>1, <2>2 DEF BatchOK
  <1> QED BY <1>2, <1>3

LEMMA SnapshotBase ==
    ASSUME BaseInv, NEW r \in Replica, NEW q \in Replica, ApplySnapshot(r, q) PROVE BaseInv'
  <1>0. TypeOK /\ BatchesOK /\ CmdsOK
    BY DEF BaseInv
  <1>1. \A d \in Cmd : Settled(d)
    <2> TAKE d \in Cmd
    <2>1. CmdOK(d)
      BY <1>0 DEF CmdsOK
    <2>2. d \in Pending(r) => cmd[d].phase = "proposed"
      BY <1>0, BusyIsProposed DEF Pending, Mine
    <2>3. /\ Constant(d) /\ cmd'[d].trk = cmd[d].trk /\ cmd'[d].mli = cmd[d].mli
          /\ cmd'[d].applied = cmd[d].applied
          /\ cmd'[d].told = cmd[d].told \/ (cmd[d].told = "nothing" /\ cmd'[d].told = "ambiguous")
          /\ d \notin Pending(r) => cmd'[d] = cmd[d]
      BY SnapshotFacts
    <2> QED BY <2>1, <2>2, <2>3 DEF Settled, CmdOK, Constant
  <1>2. /\ \A p \in Replica : Fx(p)' \in Fx(p) .. Len(log)
        /\ UNCHANGED <<net, raft, batch>> /\ batch[r] = Idle /\ ap' = [ap EXCEPT ![r] = ap[q]] /\ TypeOK'
    BY SnapshotFacts
  <1>3. \A d \in Cmd : Kept(d)
    BY <1>1, <1>2, CmdsSettled
  <1>4. BatchesOK'
    <2>0. Len(log) \in Nat
      BY <1>0 DEF TypeOK
    <2>1. ap[q] \in 0 .. Len(log)
      BY <1>0, FxType
    <2>2. /\ \A p \in Replica \ {r} : ap'[p] = ap[p] /\ batch'[p] = batch[p]
          /\ batch'[r] = Idle /\ ap'[r] <= Len(log)
      BY <1>0, <1>2, <2>0, <2>1 DEF TypeOK 
    <2> QED BY <1>2, <1>3, <2>2, BatchesElsewhere
  <1> QED BY <1>1, <1>2, <1>4, BaseSettled

LEMMA RestartFacts ==
    ASSUME BaseInv, NEW r \in Replica, Restart(r)
    PROVE /\ batch' = [batch EXCEPT ![r] = Idle] /\ ap' = ap
          /\ Fx(r)' = ap[r] /\ \A p \in Replica \ {r} : Fx(p)' = Fx(p)
          /\ \A p \in Replica : Fx(p)' \in Fx(p) .. Len(log)
          /\ \A d \in Cmd :
                /\ d \notin Mine(r) => cmd'[d] = cmd[d]
                /\ d \in Mine(r) =>
                      /\ cmd'[d].phase = "proposed" /\ cmd'[d].home = cmd[d].home
                      /\ cmd'[d].seq = cmd[d].seq /\ cmd'[d].wts = cmd[d].wts
                      /\ cmd'[d].mli = cmd[d].mli
                      /\ cmd'[d].trk = 0 /\ cmd'[d].buf = 0 /\ cmd'[d].inMap = FALSE
                      /\ cmd'[d].applied = TRUE /\ cmd'[d].told = Answer(cmd[d].told, "ambiguous")
          /\ UNCHANGED <<net, raft, ver, pub, inst, ticks>>
          /\ TypeOK'
  <1>0. TypeOK /\ BatchesOK
    BY DEF BaseInv
  <1>1. /\ batch' = [batch EXCEPT ![r] = Idle] /\ faults' = faults + 1
        /\ cmd' = [c \in Cmd |->
                     IF c \in Mine(r)
                     THEN [cmd[c] EXCEPT !.phase = "proposed", !.trk = 0, !.buf = 0,
                                         !.inMap = FALSE, !.applied = TRUE,
                                         !.told = Answer(@, "ambiguous")]
                     ELSE cmd[c]]
        /\ assigned' = [assigned EXCEPT ![r] = [lai |-> 0, ct |-> 0]]
        /\ minVer' = [minVer EXCEPT ![r] = ver + 1]
        /\ low' = [low EXCEPT ![r] = Max({low[r]} \cup {m.ts : m \in pub})]
        /\ side' = [side EXCEPT ![r] = [cur |-> NoClosed, next |-> NoClosed]]
        /\ UNCHANGED <<net, raft, ap, ver, pub, inst, ticks>>
    BY Zenon DEF Restart
  <1>2. \A d \in Cmd : cmd[d] \in Command
    BY <1>0, CmdType
  <1>3. cmd' \in [Cmd -> Command]
    <2> SUFFICES ASSUME NEW d \in Cmd
                 PROVE [cmd[d] EXCEPT !.phase = "proposed", !.trk = 0, !.buf = 0,
                                      !.inMap = FALSE, !.applied = TRUE,
                                      !.told = Answer(@, "ambiguous")] \in Command
      BY <1>1, <1>2, Zenon
    <2> DEFINE a == Answer(cmd[d].told, "ambiguous")
    <2>1. a \in {"nothing", "ok", "rejected", "ambiguous"} /\ cmd[d] \in Command
      BY <1>2 DEF Answer, Command
    <2> HIDE DEF a
    <2>2. [cmd[d] EXCEPT !.phase = "proposed", !.trk = 0, !.buf = 0,
                         !.inMap = FALSE, !.applied = TRUE, !.told = a] \in Command
      BY <2>1, Zenon DEF Command
    <2> QED BY <2>2 DEF a
  <1>4. ASSUME NEW d \in Cmd
        PROVE   /\ d \notin Mine(r) => cmd'[d] = cmd[d]
                /\ d \in Mine(r) =>
                      /\ cmd'[d].phase = "proposed" /\ cmd'[d].home = cmd[d].home
                      /\ cmd'[d].seq = cmd[d].seq /\ cmd'[d].wts = cmd[d].wts
                      /\ cmd'[d].mli = cmd[d].mli
                      /\ cmd'[d].trk = 0 /\ cmd'[d].buf = 0 /\ cmd'[d].inMap = FALSE
                      /\ cmd'[d].applied = TRUE /\ cmd'[d].told = Answer(cmd[d].told, "ambiguous")
    BY <1>1, <1>2, Zenon DEF Command
  <1>5. Fx(r)' = ap[r] /\ \A p \in Replica \ {r} : Fx(p)' = Fx(p)
    BY <1>0, <1>1, Zenon DEF Fx, TypeOK
  <1>6. \A p \in Replica : Fx(p)' \in Fx(p) .. Len(log)
    <2> TAKE p \in Replica
    <2>1. Fx(p) \in 0 .. Len(log) /\ ap[p] \in 0 .. Len(log) /\ Fx(p) <= ap[p]
      BY <1>0, FxType
    <2> QED BY <1>5, <2>1
  <1>7. TypeOK'
    <2> DEFINE S == {low[r]} \cup {m.ts : m \in pub}
    <2>1. low[r] \in Nat /\ inst.maxTs \in Nat
      BY <1>0, ReplicaType DEF TypeOK, Instance
    <2>2. \A m \in pub : m.ts \in 0 .. inst.maxTs
      BY <1>0, Zenon DEF TypeOK, Ts0
    <2>3. S \in SUBSET Nat /\ S # {} /\ \A x \in S : x <= low[r] + inst.maxTs
      BY <2>1, <2>2
    <2>4. low[r] + inst.maxTs \in Nat
      BY <2>1
    <2>5. Max(S) \in Nat
      <3> HIDE DEF S
      <3> QED BY <2>3, <2>4, GreatestNat, Zenon
    <2>6. low' = [low EXCEPT ![r] = Max(S)]
      BY <1>1, Zenon
    <2> HIDE DEF S
    <2>7. low' \in [Replica -> Nat]
      BY <1>0, <2>5, <2>6 DEF TypeOK
    <2>8. /\ assigned' \in [Replica -> [lai : Nat, ct : Nat]] /\ minVer' \in [Replica -> Nat]
          /\ faults' \in Nat
      <3>1. ver + 1 \in Nat /\ faults + 1 \in Nat
        BY <1>0 DEF TypeOK
      <3> QED BY <1>0, <1>1, <3>1, Zenon DEF TypeOK
    <2>9. side' \in [Replica -> [cur : Promise, next : Promise]]
      BY <1>0, <1>1, Zenon DEF TypeOK, NoClosed, Promise
    <2>10. batch' \in [Replica -> [to : Nat, bound : SUBSET Nat, fx : Nat]]
      BY <1>0, <1>1, Zenon DEF TypeOK, Idle
    <2> QED BY <1>0, <1>1, <1>3, <2>7, <2>8, <2>9, <2>10, Zenon DEF TypeOK, raft, Ts0
  <1> QED BY <1>1, <1>4, <1>5, <1>6, <1>7, Zenon

LEMMA RestartBase ==
    ASSUME BaseInv, NEW r \in Replica, Restart(r) PROVE BaseInv'
  <1>0. TypeOK /\ BatchesOK /\ CmdsOK
    BY DEF BaseInv
  <1>1. \A d \in Cmd : Settled(d)
    <2> TAKE d \in Cmd
    <2>1. CmdOK(d)
      BY <1>0 DEF CmdsOK
    <2>2. CASE d \notin Mine(r)
      BY <2>1, <2>2, RestartFacts, Zenon DEF Settled, CmdOK
    <2>3. CASE d \in Mine(r)
      <3>1. cmd[d].phase # "new"
        BY <2>3 DEF Mine
      <3>2. /\ cmd'[d].phase = "proposed" /\ cmd'[d].home = cmd[d].home /\ cmd'[d].seq = cmd[d].seq
            /\ cmd'[d].trk = 0 /\ cmd'[d].told = Answer(cmd[d].told, "ambiguous")
        BY <2>3, RestartFacts, Zenon
      <3> QED BY <3>1, <3>2 DEF Settled, Answer
    <2> QED BY <2>2, <2>3
  <1>2. /\ \A p \in Replica : Fx(p)' \in Fx(p) .. Len(log)
        /\ UNCHANGED <<net, raft, ap>> /\ batch' = [batch EXCEPT ![r] = Idle] /\ TypeOK'
    BY RestartFacts, Zenon
  <1>3. \A d \in Cmd : Kept(d)
    BY <1>1, <1>2, CmdsSettled
  <1>4. BatchesOK'
    <2>0. Len(log) \in Nat
      BY <1>0 DEF TypeOK
    <2>1. ap[r] \in 0 .. Len(log)
      BY <1>0, FxType
    <2>2. /\ \A p \in Replica \ {r} : ap'[p] = ap[p] /\ batch'[p] = batch[p]
          /\ batch'[r] = Idle /\ ap'[r] <= Len(log)
      BY <1>0, <1>2, <2>0, <2>1 DEF TypeOK 
    <2> QED BY <1>2, <1>3, <2>2, BatchesElsewhere
  <1> QED BY <1>1, <1>2, <1>4, BaseSettled

\* A lease entry follows the lease it was proposed under.
LEMMA LeaseEntryType ==
    ASSUME NEW k \in {"request", "transfer"}, NEW old \in LeaseRecord, NEW new \in LeaseRecord,
           NEW lai \in Nat, NEW ct \in Nat, new.seq \in {old.seq, old.seq + 1}
    PROVE /\ LeaseEntry(k, old, new, lai, ct) \in Entry
          /\ LeaseEntry(k, old, new, lai, ct).kind # "write"
          /\ LeaseEntry(k, old, new, lai, ct).lease.seq
               \in {LeaseEntry(k, old, new, lai, ct).seq, LeaseEntry(k, old, new, lai, ct).seq + 1}
  <1>1. old.seq \in Nat /\ old.ver \in Nat
    BY DEF LeaseRecord
  <1> QED BY <1>1 DEF LeaseEntry, Entry

\* A step that proposes a lease and leaves the commands alone.
LEMMA ProposeBase ==
    ASSUME BaseInv, TypeOK', UNCHANGED <<raft, ap, batch, cmd>>, NEW f \in Entry,
           net' = net \cup {f}, f.kind # "write", f.lease.seq \in {f.seq, f.seq + 1}
    PROVE BaseInv'
  <1>1. \A d \in Cmd : Kept(d) /\ CmdOK(d)
    BY DEF Kept, BaseInv, CmdsOK
  <1>2. CmdsOK'
    BY <1>1, CmdKept DEF CmdsOK
  <1>3. EntryOK(f)'
    BY DEF EntryOK
  <1> QED BY <1>1, <1>2, <1>3, BaseKept

LEMMA RequestLeaseFacts ==
    ASSUME BaseInv, NEW r \in Replica, RequestLease(r)
    PROVE /\ ver' = ver + 1
          /\ \E f \in Entry : net' = net \cup {f} /\ f.kind # "write" /\ f.lease.seq \in {f.seq, f.seq + 1}
          /\ UNCHANGED <<raft, ap, batch, proposer, minVer, low, transport, bounds>>
  <1> DEFINE l == LeaseOf(r)
             Same(s) == l.holder = r /\ s = l.start
             L(s, x) == Lease(r, IF Same(s) THEN l.seq ELSE l.seq + 1, ver + 1, s, x,
                              IF Same(s) THEN l.sum ELSE s)
             E(s, x) == LeaseEntry("request", l, L(s, x), 0, 0)
  <1>0. TypeOK /\ BatchesOK
    BY DEF BaseInv
  <1>1. l \in LeaseRecord /\ l.seq \in Nat /\ l.sum \in Nat
    BY <1>0, LeaseType
  <1>2. ver + 1 \in Nat /\ inst.maxTs \in Nat
    BY <1>0 DEF TypeOK, Instance
  <1>3. PICK s \in Ts0, x \in Ts : ver' = ver + 1 /\ net' = net \cup {E(s, x)}
    BY DEF RequestLease, ProposeLease
  <1>4. s \in Nat /\ x \in Nat \ {0}
    BY <1>2 DEF Ts, Ts0
  <1>5. L(s, x) \in LeaseRecord /\ L(s, x).seq \in {l.seq, l.seq + 1}
    <2> DEFINE n == IF Same(s) THEN l.seq ELSE l.seq + 1
               m == IF Same(s) THEN l.sum ELSE s
    <2>1. n \in Nat /\ m \in Nat /\ n \in {l.seq, l.seq + 1}
      BY <1>1, <1>4
    <2>2. L(s, x) = [holder |-> r, seq |-> n, ver |-> ver + 1, start |-> s, exp |-> x, sum |-> m]
      BY DEF Lease
    <2> HIDE DEF n, m, L
    <2> QED BY <1>2, <1>4, <2>1, <2>2 DEF LeaseRecord
  <1> HIDE DEF L
  <1>6. /\ E(s, x) \in Entry /\ E(s, x).kind # "write"
        /\ E(s, x).lease.seq \in {E(s, x).seq, E(s, x).seq + 1}
    <2>1. PICK new \in LeaseRecord : new = L(s, x) /\ new.seq \in {l.seq, l.seq + 1}
      BY <1>5
    <2>2. /\ LeaseEntry("request", l, new, 0, 0) \in Entry
          /\ LeaseEntry("request", l, new, 0, 0).kind # "write"
          /\ LeaseEntry("request", l, new, 0, 0).lease.seq
               \in {LeaseEntry("request", l, new, 0, 0).seq, LeaseEntry("request", l, new, 0, 0).seq + 1}
      <3> HIDE DEF l
      <3> QED BY <1>1, <2>1, LeaseEntryType
    <2>3. E(s, x) = LeaseEntry("request", l, new, 0, 0)
      BY <2>1
    <2> HIDE DEF E
    <2> QED BY <2>2, <2>3
  <1> HIDE DEF E
  <1>7. UNCHANGED <<raft, ap, batch, proposer, minVer, low, transport, bounds>>
    BY DEF RequestLease
  <1> QED BY <1>3, <1>6, <1>7

LEMMA RequestLeaseBase ==
    ASSUME BaseInv, NEW r \in Replica, RequestLease(r) PROVE BaseInv'
  <1>0. TypeOK
    BY DEF BaseInv
  <1>1. PICK f \in Entry : net' = net \cup {f} /\ f.kind # "write" /\ f.lease.seq \in {f.seq, f.seq + 1}
    BY RequestLeaseFacts
  <1>2. ver' = ver + 1 /\ UNCHANGED <<raft, ap, batch, proposer, minVer, low, transport, bounds>>
    BY RequestLeaseFacts
  <1>3. ver' \in Nat
    BY <1>0, <1>2 DEF TypeOK
  <1>4. TypeOK'
    BY <1>0, <1>1, <1>2, <1>3, Zenon DEF TypeOK, raft, proposer, transport, bounds, Ts0
  <1> QED BY <1>1, <1>2, <1>4, ProposeBase DEF proposer

LEMMA ClosedType ==
    ASSUME TypeOK, BatchesOK, NEW r \in Replica
    PROVE Closed(r) \in Nat
  <1>1. State(r).ct \in Nat /\ side[r].cur \in Promise
    BY LeaseType, ReplicaType
  <1>2. side[r].cur.ts \in Nat
    BY <1>1 DEF Promise
  <1> QED BY <1>1, <1>2 DEF Closed, Larger

LEMMA TransferLeaseFacts ==
    ASSUME BaseInv, NEW r \in Replica, NEW q \in Replica, TransferLease(r, q)
    PROVE /\ ver' = ver + 1 /\ minVer' = [minVer EXCEPT ![r] = ver + 1]
          /\ \E f \in Entry : net' = net \cup {f} /\ f.kind # "write" /\ f.lease.seq \in {f.seq, f.seq + 1}
          /\ assigned' \in [Replica -> [lai : Nat, ct : Nat]]
          /\ UNCHANGED <<raft, ap, batch, cmd, low, transport, bounds>>
  <1> DEFINE l == LeaseOf(r)
             lai == assigned[r].lai + 1
             ClosedBy(target) == Closable(r, target, l.exp - 1, TrackedAt(r))
             L(s, x) == Lease(q, l.seq + 1, ver + 1, s, x, ReadSummary(r, s))
             E(s, x, ct) == LeaseEntry("transfer", l, L(s, x), lai, ct)
  <1>0. TypeOK /\ BatchesOK
    BY DEF BaseInv
  <1>1. l \in LeaseRecord /\ l.seq \in Nat /\ l.exp - 1 \in Nat
    BY <1>0, LeaseType
  <1>2. ver + 1 \in Nat /\ inst.maxTs \in Nat
    BY <1>0 DEF TypeOK, Instance
  <1>3. lai \in Nat /\ low[r] \in Nat /\ Closed(r) \in Nat
    <2>1. assigned[r].lai \in Nat /\ low[r] \in Nat
      BY <1>0, ReplicaType
    <2> QED BY <1>0, <2>1, ClosedType
  <1>4. PICK s \in Ts, x \in Ts, ct \in {ClosedBy(target) : target \in Ts0} :
          /\ ver' = ver + 1 /\ net' = net \cup {E(s, x, ct)}
          /\ assigned' = [assigned EXCEPT ![r] = [lai |-> lai, ct |-> ct]]
    BY Zenon DEF TransferLease, ProposeLease
  <1>5. s \in Nat /\ x \in Nat \ {0}
    BY <1>2 DEF Ts
  <1>6. ct \in Nat
    <2>1. PICK target \in Ts0 : ct = ClosedBy(target)
      BY <1>4
    <2>2. target \in Nat
      BY <1>2 DEF Ts0
    <2>3. TrackedAt(r) \in SUBSET (Nat \ {0})
      BY <1>0, TrackedType
    <2> QED BY <1>0, <1>1, <2>1, <2>2, <2>3, ClosableType
  <1>7. L(s, x) \in LeaseRecord /\ L(s, x).seq = l.seq + 1
    <2> DEFINE m == ReadSummary(r, s)
    <2>1. m \in Nat
      BY <1>3, <1>5 DEF ReadSummary, Larger
    <2>2. L(s, x) = [holder |-> q, seq |-> l.seq + 1, ver |-> ver + 1, start |-> s, exp |-> x, sum |-> m]
      BY DEF Lease
    <2> HIDE DEF m, L
    <2> QED BY <1>1, <1>2, <1>5, <2>1, <2>2 DEF LeaseRecord
  <1> HIDE DEF L
  <1>8. /\ E(s, x, ct) \in Entry /\ E(s, x, ct).kind # "write"
        /\ E(s, x, ct).lease.seq \in {E(s, x, ct).seq, E(s, x, ct).seq + 1}
    <2>1. PICK new \in LeaseRecord : new = L(s, x) /\ new.seq \in {l.seq, l.seq + 1}
      BY <1>7
    <2> HIDE DEF lai, l
    <2>2. /\ LeaseEntry("transfer", l, new, lai, ct) \in Entry
          /\ LeaseEntry("transfer", l, new, lai, ct).kind # "write"
          /\ LeaseEntry("transfer", l, new, lai, ct).lease.seq
               \in {LeaseEntry("transfer", l, new, lai, ct).seq,
                    LeaseEntry("transfer", l, new, lai, ct).seq + 1}
      <3>1. lai \in Nat /\ ct \in Nat /\ l \in LeaseRecord /\ new.seq \in {l.seq, l.seq + 1}
        BY <1>1, <1>3, <1>6, <2>1
      <3> QED BY <3>1, LeaseEntryType
    <2>3. E(s, x, ct) = LeaseEntry("transfer", l, new, lai, ct)
      BY <2>1
    <2> HIDE DEF E
    <2> QED BY <2>2, <2>3
  <1> HIDE DEF E
  <1>9. assigned' \in [Replica -> [lai : Nat, ct : Nat]]
    <2> HIDE DEF lai
    <2> QED BY <1>0, <1>3, <1>4, <1>6 DEF TypeOK
  <1>10. /\ UNCHANGED <<raft, ap, batch, cmd, low, transport, bounds>>
         /\ minVer' = [minVer EXCEPT ![r] = ver + 1]
    BY DEF TransferLease
  <1> QED BY <1>4, <1>8, <1>9, <1>10

LEMMA TransferLeaseBase ==
    ASSUME BaseInv, NEW r \in Replica, NEW q \in Replica, TransferLease(r, q) PROVE BaseInv'
  <1>0. TypeOK
    BY DEF BaseInv
  <1>1. PICK f \in Entry : net' = net \cup {f} /\ f.kind # "write" /\ f.lease.seq \in {f.seq, f.seq + 1}
    BY TransferLeaseFacts
  <1>2. /\ ver' = ver + 1 /\ UNCHANGED <<raft, ap, batch, cmd, low, transport, bounds>>
        /\ minVer' = [minVer EXCEPT ![r] = ver + 1] /\ assigned' \in [Replica -> [lai : Nat, ct : Nat]]
    BY TransferLeaseFacts
  <1>3. ver + 1 \in Nat
    BY <1>0 DEF TypeOK
  <1>4. ver' \in Nat /\ minVer' \in [Replica -> Nat]
    BY <1>0, <1>2, <1>3 DEF TypeOK
  <1>5. TypeOK'
    BY <1>0, <1>1, <1>2, <1>4, Zenon DEF TypeOK, raft, transport, bounds, Ts0
  <1> QED BY <1>1, <1>2, <1>5, ProposeBase

LEMMA ForwardType ==
    ASSUME NEW sd \in [cur : Promise, next : Promise], NEW up \in Promise, NEW b \in BOOLEAN
    PROVE Forward(sd, up, b) \in [cur : Promise, next : Promise]
  <1>1. \A x, y \in Promise : Merge(x, y) \in Promise
    BY DEF Promise, Merge, Larger
  <1>2. NoClosed \in Promise /\ sd.cur \in Promise /\ sd.next \in Promise
    BY DEF NoClosed, Promise
  <1> DEFINE reached == up.lai >= sd.next.lai
             a == Merge(sd.cur, IF reached THEN Merge(up, sd.next) ELSE up)
             n == IF reached THEN NoClosed ELSE sd.next
             m == Merge(sd.next, up)
  <1>3. a \in Promise /\ n \in Promise /\ m \in Promise
    BY <1>1, <1>2
  <1>4. Forward(sd, up, b) \in {[cur |-> a, next |-> n], [sd EXCEPT !.next = m]}
    BY DEF Forward
  <1> HIDE DEF a, n, m
  <1> QED BY <1>3, <1>4

\* A step of the side transport.
LEMMA TransportBase ==
    ASSUME BaseInv, TypeOK', UNCHANGED <<net, raft, ap, batch, cmd>> PROVE BaseInv'
  <1>1. \A d \in Cmd : Kept(d) /\ CmdOK(d)
    BY DEF Kept, BaseInv, CmdsOK
  <1>2. CmdsOK'
    BY <1>1, CmdKept DEF CmdsOK
  <1> QED BY <1>1, <1>2, BaseKept

LEMMA BumpBase ==
    ASSUME BaseInv, NEW r \in Replica, NEW target \in Ts, BumpSideTransportClosed(r, target)
    PROVE BaseInv'
  <1> DEFINE closed == [ts |-> target, lai |-> State(r).lai]
             m == [from |-> r, seq |-> LeaseOf(r).seq, ts |-> target, lai |-> closed.lai]
  <1>0. TypeOK /\ BatchesOK
    BY DEF BaseInv
  <1>1. /\ assigned' = [assigned EXCEPT ![r].ct = target]
        /\ side' = [side EXCEPT ![r] = Forward(side[r], closed, TRUE)]
        /\ pub' = pub \cup {m}
        /\ UNCHANGED <<net, raft, ap, batch, cmd, leases, bounds>>
    BY DEF BumpSideTransportClosed
  <1>2. inst.maxTs \in Nat
    BY <1>0 DEF TypeOK, Instance
  <1>3. target \in Nat /\ target \in Ts0
    BY <1>2 DEF Ts, Ts0
  <1>4. State(r).lai \in Nat /\ LeaseOf(r).seq \in Nat
    BY <1>0, LeaseType
  <1>5. closed \in Promise /\ m \in [from : Replica, seq : Nat, ts : Ts0, lai : Nat]
    BY <1>3, <1>4 DEF Promise
  <1> HIDE DEF closed, m
  <1>6. Forward(side[r], closed, TRUE) \in [cur : Promise, next : Promise]
    <2>1. side[r] \in [cur : Promise, next : Promise]
      BY <1>0 DEF TypeOK
    <2> QED BY <1>5, <2>1, ForwardType, Zenon
  <1>7. assigned' \in [Replica -> [lai : Nat, ct : Nat]]
    BY <1>0, <1>1, <1>3, Zenon DEF TypeOK
  <1>8. side' \in [Replica -> [cur : Promise, next : Promise]]
    BY <1>0, <1>1, <1>6, Zenon DEF TypeOK
  <1>9. TypeOK'
    BY <1>0, <1>1, <1>5, <1>7, <1>8, Zenon DEF TypeOK, raft, leases, bounds, Ts0
  <1> QED BY <1>1, <1>9, TransportBase

LEMMA GetClosedBase ==
    ASSUME BaseInv, NEW r \in Replica, NEW m \in pub, GetClosedTimestamp(r, m) PROVE BaseInv'
  <1> DEFINE promoted == IF side[r].next.lai # 0 THEN Forward(side[r], side[r].next, TRUE) ELSE side[r]
             up == [ts |-> m.ts, lai |-> m.lai]
             S == [cur : Promise, next : Promise]
  <1>0. TypeOK /\ BatchesOK
    BY DEF BaseInv
  <1>1. /\ side' = [side EXCEPT ![r] = IF m.ts <= promoted.cur.ts THEN promoted
                                       ELSE Forward(promoted, up, KnownApplied(r, m))]
        /\ UNCHANGED <<net, raft, ap, batch, proposer, leases, pub, bounds>>
    BY DEF GetClosedTimestamp
  <1>2. up \in Promise
    <2>1. inst.maxTs \in Nat /\ m.ts \in Ts0 /\ m.lai \in Nat
      BY <1>0, Zenon DEF TypeOK, Instance
    <2> QED BY <2>1 DEF Promise, Ts0
  <1>3. side[r] \in S /\ side[r].next \in Promise
    BY <1>0 DEF TypeOK
  <1> HIDE DEF up
  <1>4. promoted \in S
    BY <1>3, ForwardType, Zenon
  <1> HIDE DEF promoted
  <1>5. Forward(promoted, up, KnownApplied(r, m)) \in S
    <2>1. KnownApplied(r, m) \in BOOLEAN
      BY DEF KnownApplied
    <2> QED BY <1>2, <1>4, <2>1, ForwardType
  <1>6. side' \in [Replica -> S]
    BY <1>0, <1>1, <1>4, <1>5 DEF TypeOK
  <1>7. TypeOK'
    BY <1>0, <1>1, <1>6, Zenon DEF TypeOK, raft, proposer, leases, bounds, Ts0
  <1> QED BY <1>1, <1>7, TransportBase DEF proposer

\* An entry moves indexes and lease sequences forward only.
LEMMA ApplyEntryFacts ==
    ASSUME NEW s \in AppliedState, NEW e \in Entry,
           e.kind # "write" => e.lease.seq \in {e.seq, e.seq + 1}
    PROVE /\ ApplyEntry(s, e) \in AppliedState
          /\ ApplyEntry(s, e).lai >= s.lai /\ ApplyEntry(s, e).lease.seq >= s.lease.seq
          /\ e.kind = "write" /\ Verdict(s, e) = "ok" =>
                /\ ApplyEntry(s, e).lai = e.mli /\ s.lai < e.mli /\ e.seq = s.lease.seq
          /\ e.kind = "write" /\ Verdict(s, e) # "ok" =>
                e.seq # s.lease.seq \/ e.mli <= s.lai
          /\ Verdict(s, e) # "ok" => ApplyEntry(s, e) = s
  <1>1. /\ s.lai \in Nat /\ s.ct \in Nat /\ s.lease \in LeaseRecord /\ s.lease.seq \in Nat
        /\ e.mli \in Nat /\ e.ct \in Nat /\ e.lease \in LeaseRecord /\ e.seq \in Nat
    BY DEF AppliedState, Entry, LeaseRecord
  <1> DEFINE ok == Verdict(s, e) = "ok"
             a == IF ok /\ e.kind # "request" THEN e.mli ELSE s.lai
             b == IF ok /\ e.ct # 0 THEN e.ct ELSE s.ct
             l == IF ok /\ e.kind # "write" THEN e.lease ELSE s.lease
  <1>2. ApplyEntry(s, e) = [lai |-> a, ct |-> b, lease |-> l]
    BY DEF ApplyEntry
  <1>3. ok => e.seq = s.lease.seq /\ (e.kind # "request" => ~ (e.mli <= s.lai))
    BY DEF Verdict, LeaseMismatch, StaleIndex
  <1>4. a \in Nat /\ b \in Nat /\ l \in LeaseRecord /\ a >= s.lai
    BY <1>1, <1>3
  <1>5. l.seq >= s.lease.seq
    <2>1. CASE ok /\ e.kind # "write"
      BY <1>1, <1>3, <2>1
    <2>2. CASE ~ (ok /\ e.kind # "write")
      BY <1>1, <2>2
    <2> QED BY <2>1, <2>2
  <1>6. e.kind = "write" /\ ok => a = e.mli /\ s.lai < e.mli /\ e.seq = s.lease.seq
    BY <1>1, <1>3
  <1>7. e.kind = "write" /\ ~ ok => e.seq # s.lease.seq \/ e.mli <= s.lai
    BY DEF Verdict, LeaseMismatch, StaleIndex
  <1>8. ~ ok => a = s.lai /\ b = s.ct /\ l = s.lease
    OBVIOUS
  <1>9. s = [lai |-> s.lai, ct |-> s.ct, lease |-> s.lease]
    BY DEF AppliedState
  <1> HIDE DEF a, b, l
  <1>10. ~ ok => ApplyEntry(s, e) = s
    BY <1>2, <1>8, <1>9
  <1> HIDE DEF ok
  <1>11. /\ ApplyEntry(s, e) \in AppliedState /\ ApplyEntry(s, e).lai = a
         /\ ApplyEntry(s, e).lease = l
    BY <1>2, <1>4 DEF AppliedState
  <1>12. ok <=> Verdict(s, e) = "ok"
    BY DEF ok
  <1> QED BY <1>4, <1>5, <1>6, <1>7, <1>10, <1>11, <1>12

LEMMA AppendFacts ==
    ASSUME BaseInv, NEW e \in net, AppendEntry(e)
    PROVE \E k \in Nat :
          /\ k = Len(log) /\ Len(log') = k + 1
          /\ e \in Entry /\ EntryOK(e)
          /\ log'[k + 1] = e
          /\ \A i \in 1 .. k : log'[i] = log[i] /\ VerdictAt(i)' = VerdictAt(i)
                               /\ Effective(i)' = Effective(i)
          /\ \A n \in 0 .. k : StateAt(n)' = StateAt(n)
          /\ StateAt(k + 1)' = ApplyEntry(LastState, e) /\ LastState' = ApplyEntry(LastState, e)
          /\ VerdictAt(k + 1)' = Verdict(LastState, e)
          /\ log' \in Seq(Entry) /\ st' \in Seq(AppliedState) /\ Len(st') = Len(log') + 1
          /\ net' = net \ {e}
          /\ UNCHANGED <<ap, batch, proposer, leases, transport, bounds>>
  <1>0. TypeOK /\ EntriesOK
    BY DEF BaseInv
  <1>1. e \in Entry /\ EntryOK(e)
    BY <1>0 DEF TypeOK, EntriesOK
  <1>2. /\ log' = Append(log, e) /\ st' = Append(st, ApplyEntry(StateAt(Len(log)), e))
        /\ net' = net \ {e}
        /\ UNCHANGED <<ap, batch, proposer, leases, transport, bounds>>
    BY DEF AppendEntry
  <1>3. PICK k \in Nat : k = Len(log)
    BY <1>0 DEF TypeOK
  <1>4. log \in Seq(Entry) /\ st \in Seq(AppliedState) /\ Len(st) = k + 1
    BY <1>0, <1>3 DEF TypeOK
  <1> DEFINE s == ApplyEntry(LastState, e)
  <1>5. LastState = StateAt(k) /\ s \in AppliedState
    <2>1. LastState = StateAt(k)
      BY <1>3 DEF LastState
    <2>2. StateAt(k) \in AppliedState
      BY <1>0, <1>3, StateType
    <2> QED BY <1>1, <2>1, <2>2, ApplyEntryFacts DEF EntryOK
  <1>6. st' = Append(st, s)
    BY <1>2 DEF LastState
  <1> HIDE DEF s
  <1>7. /\ log' \in Seq(Entry) /\ Len(log') = k + 1 /\ log'[k + 1] = e
        /\ \A i \in 1 .. k : log'[i] = log[i]
    BY <1>1, <1>2, <1>3, <1>4
  <1>8. /\ st' \in Seq(AppliedState) /\ Len(st') = k + 2 /\ st'[k + 2] = s
        /\ \A i \in 1 .. k + 1 : st'[i] = st[i]
    BY <1>4, <1>5, <1>6
  <1>9. \A n \in 0 .. k : StateAt(n)' = StateAt(n)
    BY <1>8 DEF StateAt
  <1>10. \A i \in 1 .. k : VerdictAt(i)' = VerdictAt(i) /\ Effective(i)' = Effective(i)
    <2> TAKE i \in 1 .. k
    <2>1. StateAt(i - 1)' = StateAt(i - 1) /\ log'[i] = log[i]
      BY <1>7, <1>9
    <2>2. VerdictAt(i)' = VerdictAt(i)
      BY <2>1 DEF VerdictAt, Verdict, LeaseMismatch, StaleIndex
    <2> QED BY <2>2 DEF Effective
  <1>11. StateAt(k + 1)' = s
    <2>1. k + 1 + 1 = k + 2
      OBVIOUS
    <2> QED BY <1>8, <2>1 DEF StateAt
  <1>12. LastState' = s
    <2>1. LastState' = st'[Len(log') + 1]
      BY DEF LastState, StateAt
    <2> QED BY <1>7, <1>8, <2>1
  <1>13. VerdictAt(k + 1)' = Verdict(LastState, e)
    <2>1. k + 1 - 1 = k
      OBVIOUS
    <2>2. StateAt(k + 1 - 1)' = LastState /\ log'[k + 1] = e
      BY <1>5, <1>7, <1>9, <2>1
    <2> QED BY <2>2 DEF VerdictAt, Verdict, LeaseMismatch, StaleIndex
  <1> QED BY <1>1, <1>2, <1>3, <1>7, <1>8, <1>9, <1>10, <1>11, <1>12, <1>13 DEF s

LEMMA AppendBase ==
    ASSUME BaseInv, NEW e \in net, AppendEntry(e) PROVE BaseInv'
  <1>0. TypeOK /\ EntriesOK /\ StatesOK /\ BatchesOK /\ CmdsOK
    BY DEF BaseInv
  <1>1. PICK k \in Nat :
          /\ k = Len(log) /\ Len(log') = k + 1
          /\ e \in Entry /\ EntryOK(e)
          /\ log'[k + 1] = e
          /\ \A i \in 1 .. k : log'[i] = log[i]
          /\ \A n \in 0 .. k : StateAt(n)' = StateAt(n)
          /\ StateAt(k + 1)' = ApplyEntry(LastState, e)
          /\ log' \in Seq(Entry) /\ st' \in Seq(AppliedState) /\ Len(st') = Len(log') + 1
          /\ net' = net \ {e}
          /\ UNCHANGED <<ap, batch, proposer, leases, transport, bounds>>
    BY AppendFacts, Zenon
  <1>2. TypeOK'
    BY <1>0, <1>1, Zenon DEF TypeOK, proposer, leases, transport, bounds, Ts0
  <1>3. LastState = StateAt(k) /\ LastState \in AppliedState
    BY <1>0, <1>1, StateType DEF LastState
  <1>4. /\ StateAt(k + 1)'.lai >= StateAt(k).lai
        /\ StateAt(k + 1)'.lease.seq >= StateAt(k).lease.seq
    BY <1>1, <1>3, ApplyEntryFacts DEF EntryOK
  <1>5. StatesOK'
    <2>1. \A n \in 1 .. k + 1 : StateAt(n)' = ApplyEntry(StateAt(n - 1)', log'[n])
      <3> TAKE n \in 1 .. k + 1
      <3>1. CASE n \in 1 .. k
        <4>1. StateAt(n)' = StateAt(n) /\ StateAt(n - 1)' = StateAt(n - 1) /\ log'[n] = log[n]
          BY <1>1, <3>1
        <4>2. StateAt(n) = ApplyEntry(StateAt(n - 1), log[n])
          BY <1>0, <1>1, <3>1 DEF StatesOK
        <4> QED BY <4>1, <4>2
      <3>2. CASE n = k + 1
        <4>1. n - 1 = k
          BY <3>2
        <4> QED BY <1>1, <1>3, <3>2, <4>1
      <3> QED BY <3>1, <3>2
    <2>2. \A n \in 1 .. k + 1 : (StateAt(n) = ApplyEntry(StateAt(n - 1), log[n]))'
      BY <2>1 DEF ApplyEntry, Verdict, LeaseMismatch, StaleIndex
    <2>3. \A m, n \in 0 .. k + 1 : m <= n =>
              StateAt(m)'.lai <= StateAt(n)'.lai /\ StateAt(m)'.lease.seq <= StateAt(n)'.lease.seq
      <3> SUFFICES ASSUME NEW m \in 0 .. k + 1, NEW n \in 0 .. k + 1, m <= n
                   PROVE StateAt(m)'.lai <= StateAt(n)'.lai
                         /\ StateAt(m)'.lease.seq <= StateAt(n)'.lease.seq
        OBVIOUS
      <3>1. CASE n \in 0 .. k
        <4>1. m \in 0 .. k
          BY <3>1
        <4>2. StateAt(m).lai <= StateAt(n).lai /\ StateAt(m).lease.seq <= StateAt(n).lease.seq
          BY <1>0, <1>1, <3>1, <4>1 DEF StatesOK
        <4> QED BY <1>1, <3>1, <4>1, <4>2
      <3>2. CASE n = k + 1 /\ m \in 0 .. k
        <4>1. StateAt(m).lai <= StateAt(k).lai /\ StateAt(m).lease.seq <= StateAt(k).lease.seq
          BY <1>0, <1>1, <3>2 DEF StatesOK
        <4>2. /\ StateAt(m).lai \in Nat /\ StateAt(k).lai \in Nat /\ StateAt(m).lease.seq \in Nat
              /\ StateAt(k).lease.seq \in Nat
          BY <1>0, <1>1, <3>2, StateType
        <4>3. StateAt(k + 1)'.lai \in Nat /\ StateAt(k + 1)'.lease.seq \in Nat
          <5>1. StateAt(k + 1)' \in AppliedState
            BY <1>1, <1>3, ApplyEntryFacts DEF EntryOK
          <5> QED BY <5>1 DEF AppliedState, LeaseRecord
        <4>4. StateAt(m)' = StateAt(m)
          BY <1>1, <3>2
        <4> QED BY <1>4, <3>2, <4>1, <4>2, <4>3, <4>4
      <3>3. CASE n = k + 1 /\ m = k + 1
        <4>1. StateAt(k + 1)' \in AppliedState
          BY <1>1, <1>3, ApplyEntryFacts DEF EntryOK
        <4>2. StateAt(k + 1)'.lai \in Nat /\ StateAt(k + 1)'.lease.seq \in Nat
          BY <4>1 DEF AppliedState, LeaseRecord
        <4> QED BY <3>3, <4>2
      <3> QED BY <3>1, <3>2, <3>3
    <2> QED BY <1>1, <2>2, <2>3 DEF StatesOK
  <1>6. EntriesOK'
    <2>1. ASSUME NEW f, EntryOK(f) PROVE EntryOK(f)'
      BY <1>1, <2>1 DEF EntryOK, proposer
    <2>2. \A f \in net' : EntryOK(f)'
      BY <1>0, <1>1, <2>1 DEF EntriesOK
    <2>3. ASSUME NEW i \in 1 .. k + 1 PROVE EntryOK(log[i])'
      <3>1. \E f : log'[i] = f /\ EntryOK(f)
        BY <1>0, <1>1 DEF EntriesOK
      <3> QED BY <1>1, <3>1 DEF EntryOK, proposer
    <2> QED BY <1>1, <2>2, <2>3 DEF EntriesOK
  <1>7. BatchesOK'
    <2> SUFFICES ASSUME NEW r \in Replica PROVE BatchOK(r)'
      BY DEF BatchesOK
    <2>1. BatchOK(r) /\ batch'[r] = batch[r] /\ ap'[r] = ap[r] /\ cmd' = cmd
      BY <1>0, <1>1 DEF BatchesOK, proposer
    <2>2. ap[r] \in Nat /\ batch[r].to \in Nat
      BY <1>0, ReplicaType
    <2>3. ap[r] <= k + 1
      BY <1>1, <2>1, <2>2 DEF BatchOK
    <2>4. ASSUME batch[r] # Idle
          PROVE /\ batch[r].fx <= ap[r] /\ ap[r] <= batch[r].to
                /\ batch[r].fx < batch[r].to /\ batch[r].to <= k + 1
                /\ \A i \in batch[r].bound :
                      i \in 1 .. batch[r].to /\ log'[i].kind = "write" /\ cmd[log'[i].id].home = r
      <3>1. batch[r].to <= k
        BY <1>1, <2>1, <2>4 DEF BatchOK
      <3>2. ASSUME NEW i \in batch[r].bound
            PROVE i \in 1 .. batch[r].to /\ log'[i].kind = "write" /\ cmd[log'[i].id].home = r
        <4>1. i \in 1 .. batch[r].to /\ log[i].kind = "write" /\ cmd[log[i].id].home = r
          BY <2>1, <2>4 DEF BatchOK
        <4>2. i \in 1 .. k
          BY <2>2, <3>1, <4>1
        <4> QED BY <1>1, <4>1, <4>2
      <3> QED BY <2>1, <2>2, <2>4, <3>1, <3>2 DEF BatchOK
    <2> QED BY <1>1, <2>1, <2>3, <2>4 DEF BatchOK
  <1>8. CmdsOK'
    <2> SUFFICES ASSUME NEW d \in Cmd PROVE CmdOK(d)'
      BY DEF CmdsOK
    <2>1. CmdOK(d) /\ cmd' = cmd /\ cmd[d].home \in Replica
      BY <1>0, <1>1, CmdType DEF CmdsOK, proposer
    <2>2. PICK r \in Replica : r = cmd[d].home
      BY <2>1
    <2>3. PICK n \in 0 .. k : n = Fx(r)
      BY <1>0, <1>1, FxType
    <2>4. Fx(cmd[d].home)' = n
      BY <1>1, <2>1, <2>2, <2>3 DEF Fx
    <2>5. StateAt(Fx(cmd[d].home))' = StateAt(n)
      BY <1>1, <2>4 DEF StateAt
    <2> QED BY <2>1, <2>2, <2>3, <2>5 DEF CmdOK
  <1> QED BY <1>2, <1>5, <1>6, <1>7, <1>8 DEF BaseInv

LEMMA InitBase == Init => BaseInv
  <1> SUFFICES ASSUME Init PROVE BaseInv
    OBVIOUS
  <1>1. inst \in Instance
    BY ClosedTimestampsAssumption DEF Init
  <1>2. FirstLease \in LeaseRecord
    BY <1>1, ClosedTimestampsAssumption DEF FirstLease, Lease, LeaseRecord, Instance
  <1>3. /\ net = {} /\ log = <<>> /\ st = <<[lai |-> 1, ct |-> 0, lease |-> FirstLease]>>
        /\ ap = [r \in Replica |-> 0] /\ batch = [r \in Replica |-> Idle]
        /\ cmd = [c \in Cmd |-> NewCmd]
        /\ assigned = [r \in Replica |-> [lai |-> IF r = First THEN 1 ELSE 0, ct |-> 0]]
        /\ minVer = [r \in Replica |-> 0] /\ ver = 0 /\ low = [r \in Replica |-> 0]
        /\ side = [r \in Replica |-> [cur |-> NoClosed, next |-> NoClosed]]
        /\ pub = {} /\ ticks = 0 /\ faults = 0
    BY DEF Init
  <1>4. Len(log) = 0 /\ Len(st) = 1 /\ log \in Seq(Entry) /\ st \in Seq(AppliedState)
    <2>1. [lai |-> 1, ct |-> 0, lease |-> FirstLease] \in AppliedState
      BY <1>2 DEF AppliedState
    <2> QED BY <1>3, <2>1
  <1>5. NewCmd \in Command /\ NoClosed \in Promise /\ Idle \in [to : Nat, bound : SUBSET Nat, fx : Nat]
    BY ClosedTimestampsAssumption DEF NewCmd, Command, NoClosed, Promise, Idle
  <1>6. TypeOK
    <2>1. cmd \in [Cmd -> Command] /\ side \in [Replica -> [cur : Promise, next : Promise]]
          /\ batch \in [Replica -> [to : Nat, bound : SUBSET Nat, fx : Nat]]
      BY <1>3, <1>5
    <2> QED BY <1>1, <1>3, <1>4, <2>1 DEF TypeOK
  <1>7. StatesOK
    <2>1. \A m, n \in 0 .. 0 : m = n
      OBVIOUS
    <2>2. StateAt(0).lai \in Nat /\ StateAt(0).lease.seq \in Nat
      BY <1>4, <1>6, StateType
    <2>3. \A m, n \in 0 .. 0 : StateAt(m).lai <= StateAt(n).lai
                               /\ StateAt(m).lease.seq <= StateAt(n).lease.seq
      BY <2>1, <2>2
    <2> QED BY <1>4, <2>3 DEF StatesOK
  <1>8. EntriesOK
    BY <1>3, <1>4 DEF EntriesOK
  <1>9. BatchesOK
    BY <1>3, <1>4 DEF BatchesOK, BatchOK
  <1>10. CmdsOK
    BY <1>3 DEF CmdsOK, CmdOK, NewCmd
  <1> QED BY <1>6, <1>7, <1>8, <1>9, <1>10 DEF BaseInv

LEMMA BaseStep == BaseInv /\ [Next]_vars => BaseInv'
  <1> SUFFICES ASSUME BaseInv, [Next]_vars PROVE BaseInv'
    OBVIOUS
  <1>1. CASE UNCHANGED vars
    <2>1. UNCHANGED <<net, raft, ap, batch, cmd>> /\ TypeOK'
      BY <1>1, Zenon DEF vars, BaseInv, TypeOK, raft, proposer, leases, transport, bounds, Ts0
    <2> QED BY <2>1, TransportBase
  <1>2. CASE Next
    BY <1>2, AdmitBase, TrackBase, FlushNewBase, FlushReproposalBase, AppendBase, RefreshBase,
       DecodeBase, ApplyBatchBase, SideEffectsBase, SnapshotBase, RestartBase, RequestLeaseBase,
       TransferLeaseBase, BumpBase, GetClosedBase DEF Next
  <1> QED BY <1>1, <1>2

LEMMA BaseInvariant == Spec => []BaseInv
  BY InitBase, BaseStep, PTL DEF Spec

\* Every variable stays in its range, and there is a state for every prefix of the log.
THEOREM TypeCorrect == Spec => []TypeOK
  <1>1. BaseInv => TypeOK
    BY DEF BaseInv
  <1> QED BY <1>1, BaseInvariant, PTL

-----------------------------------------------------------------------------
(* An acknowledged write takes effect.                                     *)

\* What evaluation does to the command; no entry of it exists yet.
LEMMA EvaluationFacts ==
    ASSUME BaseInv, NEW c \in Cmd,
           (\E r \in Replica : Admit(r, c)) \/ (\E w \in Ts : Track(c, w))
    PROVE /\ cmd[c].phase # "proposed" /\ \A d \in Cmd \ {c} : cmd'[d] = cmd[d]
          /\ cmd'[c].inMap = cmd[c].inMap /\ cmd'[c].mli = cmd[c].mli
          /\ cmd'[c].applied = cmd[c].applied /\ cmd'[c].told = cmd[c].told
          /\ cmd'[c].trk # 0 \/ (cmd'[c].trk = cmd[c].trk /\ cmd'[c].buf = cmd[c].buf)
          /\ UNCHANGED <<net, raft, ap, batch, assigned, leases, transport, bounds>>
  <1>0. TypeOK /\ BatchesOK
    BY DEF BaseInv
  <1>1. cmd[c] \in Command /\ cmd \in [Cmd -> Command]
    BY <1>0, CmdType DEF TypeOK
  <1>2. CASE \E r \in Replica : Admit(r, c)
    <2>1. PICK r \in Replica : Admit(r, c)
      BY <1>2
    <2>2. cmd' = [cmd EXCEPT ![c] = [cmd[c] EXCEPT !.phase = "admitted", !.home = r,
                                       !.seq = LeaseOf(r).seq, !.ub = LeaseOf(r).exp - 1]]
      BY <2>1, Zenon DEF Admit
    <2>3. /\ \A d \in Cmd \ {c} : cmd'[d] = cmd[d]
          /\ cmd'[c] = [cmd[c] EXCEPT !.phase = "admitted", !.home = r,
                                      !.seq = LeaseOf(r).seq, !.ub = LeaseOf(r).exp - 1]
      BY <1>1, <2>2
    <2>4. /\ UNCHANGED <<net, raft, ap, batch, assigned, leases, transport, bounds>>
          /\ cmd[c].phase # "proposed"
      BY <2>1, Zenon DEF Admit
    <2> QED BY <1>1, <2>3, <2>4 DEF Command
  <1>3. CASE \E w \in Ts : Track(c, w)
    <2>1. PICK w \in Ts : Track(c, w)
      BY <1>3
    <2> DEFINE r == cmd[c].home
               t == Larger(w, MinTs(r))
               bumped == Larger(t, low[r] + 1)
    <2>2. cmd' = [cmd EXCEPT ![c] = [cmd[c] EXCEPT !.phase = "proposed", !.trk = t,
                                                   !.wts = bumped, !.buf = 1]]
      BY <2>1, Zenon DEF Track
    <2>3. t # 0
      <3>1. r \in Replica /\ inst.maxTs \in Nat
        BY <1>0, CmdType, Zenon DEF TypeOK, Instance
      <3>2. assigned[r].ct \in Nat
        BY <1>0, <3>1, ReplicaType
      <3> QED BY <3>1, <3>2 DEF Larger, MinTs, Ts
    <2> HIDE DEF t, bumped
    <2>4. /\ \A d \in Cmd \ {c} : cmd'[d] = cmd[d]
          /\ cmd'[c] = [cmd[c] EXCEPT !.phase = "proposed", !.trk = t, !.wts = bumped, !.buf = 1]
      BY <1>1, <2>2
    <2>5. /\ UNCHANGED <<net, raft, ap, batch, assigned, leases, transport, bounds>>
          /\ cmd[c].phase # "proposed"
      BY <2>1, Zenon DEF Track
    <2> QED BY <1>1, <2>3, <2>4, <2>5 DEF Command
  <1> QED BY <1>2, <1>3

InEffect(c) == \E i \in 1 .. Len(log) : log[i].kind = "write" /\ log[i].id = c /\ Effective(i)

\* The log only grows, and what its entries do stays the same.
LEMMA LogGrows ==
    ASSUME BaseInv, UNCHANGED raft \/ \E e \in net : AppendEntry(e), NEW c \in Cmd, InEffect(c)
    PROVE InEffect(c)'
  <1>1. PICK i \in 1 .. Len(log) : log[i].kind = "write" /\ log[i].id = c /\ Effective(i)
    BY DEF InEffect
  <1>2. CASE UNCHANGED raft
    BY <1>1, <1>2, SameLog DEF InEffect
  <1>3. CASE \E e \in net : AppendEntry(e)
    <2>1. PICK e \in net : AppendEntry(e)
      BY <1>3
    <2>2. PICK k \in Nat :
            /\ k = Len(log) /\ Len(log') = k + 1
            /\ \A j \in 1 .. k : log'[j] = log[j] /\ Effective(j)' = Effective(j)
      BY <2>1, AppendFacts, Zenon
    <2>3. i \in 1 .. Len(log') /\ log'[i] = log[i] /\ Effective(i)'
      BY <1>1, <2>2
    <2> QED BY <1>1, <2>3 DEF InEffect
  <1> QED BY <1>2, <1>3

\* Who is told "ok" by a step that answers.
LEMMA DecodeTells ==
    ASSUME BaseInv, NEW r \in Replica, NEW n, Decode(r, n), NEW c \in Cmd,
           cmd'[c].told = "ok", cmd[c].told # "ok"
    PROVE InEffect(c)
  <1>0. ap[r] \in 0 .. Len(log)
    BY FxType DEF BaseInv
  <1>1. c \in EarlyAcks(r, n) /\ n \in ap[r] + 1 .. Len(log)
    BY DecodeFacts
  <1>2. PICK j \in BoundBy(r, n) : log[j].id = c /\ Effective(j)
    BY <1>1 DEF EarlyAcks
  <1>3. j \in ap[r] + 1 .. n /\ log[j].kind = "write"
    BY DEF BoundBy
  <1>4. j \in 1 .. Len(log)
    BY <1>0, <1>1, <1>3
  <1> QED BY <1>2, <1>3, <1>4 DEF InEffect

LEMMA SideEffectsTell ==
    ASSUME BaseInv, NEW r \in Replica, SideEffects(r), NEW c \in Cmd,
           cmd'[c].told = "ok", cmd[c].told # "ok"
    PROVE InEffect(c)
  <1>1. PICK i \in 1 .. Len(log) :
          /\ i \in batch[r].bound => log[i].id \in Cmd /\ log[i].kind = "write"
          /\ \/ LeftStep(r, i)
             \/ /\ i \in batch[r].bound /\ \A d \in Cmd \ {log[i].id} : cmd'[d] = cmd[d]
                /\ \/ \E a \in {"ok", "rejected"} : FinishedStep(i, log[i].id, a)
                   \/ ReproposedStep(i, log[i].id)
    BY SideEffectsFacts
  <1>2. c = log[i].id /\ i \in batch[r].bound /\ log[i].kind = "write"
    BY <1>1 DEF LeftStep
  <1>3. VerdictAt(i) = "ok"
    BY <1>1, <1>2 DEF LeftStep, FinishedStep, ReproposedStep, Answer
  <1> QED BY <1>2, <1>3 DEF InEffect, Effective

LEMMA Tells ==
    ASSUME BaseInv, Next, NEW c \in Cmd, cmd'[c].told = "ok", cmd[c].told # "ok"
    PROVE InEffect(c) /\ UNCHANGED raft
  <1>0. TypeOK
    BY DEF BaseInv
  <1>1. ASSUME NEW d \in Cmd, (\E r \in Replica : Admit(r, d)) \/ (\E w \in Ts : Track(d, w))
        PROVE FALSE
    BY <1>1, EvaluationFacts
  <1>2. ASSUME NEW d \in Cmd, NEW target \in Ts0, FlushNew(d, target) PROVE FALSE
    BY <1>2, FlushNewFacts, Zenon
  <1>3. ASSUME NEW d \in Cmd, FlushReproposal(d) \/ FlushAfterError(d) PROVE FALSE
    BY <1>3, FlushReproposalFacts, Zenon
  <1>4. ASSUME NEW e \in net, AppendEntry(e) PROVE FALSE
    BY <1>4 DEF AppendEntry, proposer
  <1>5. ASSUME NEW r \in Replica, Refresh(r) PROVE FALSE
    <2>1. cmd' = Refreshed(Pending(r))
      BY <1>5 DEF Refresh
    <2> QED BY <1>0, <2>1, RefreshedFacts
  <1>6. ASSUME NEW r \in Replica, NEW n, Decode(r, n) PROVE InEffect(c) /\ UNCHANGED raft
    BY <1>6, DecodeTells, DecodeFacts
  <1>7. ASSUME NEW r \in Replica, NEW n, ApplyBatch(r, n) PROVE FALSE
    BY <1>7 DEF ApplyBatch, proposer
  <1>8. ASSUME NEW r \in Replica, SideEffects(r) PROVE InEffect(c) /\ UNCHANGED raft
    BY <1>8, SideEffectsTell, Zenon DEF SideEffects
  <1>9. ASSUME NEW r \in Replica, NEW q \in Replica, ApplySnapshot(r, q) PROVE FALSE
    <2>1. cmd'[c].told = cmd[c].told \/ cmd'[c].told = "ambiguous"
      BY <1>9, SnapshotFacts
    <2> QED BY <2>1
  <1>10. ASSUME NEW r \in Replica, Restart(r) PROVE FALSE
    <2>1. cmd'[c] = cmd[c] \/ cmd'[c].told = Answer(cmd[c].told, "ambiguous")
      BY <1>10, RestartFacts, Zenon
    <2> QED BY <2>1 DEF Answer
  <1>11. ASSUME NEW r \in Replica, RequestLease(r) PROVE FALSE
    BY <1>11 DEF RequestLease, proposer
  <1>12. ASSUME NEW r \in Replica, NEW q \in Replica, TransferLease(r, q) PROVE FALSE
    BY <1>12 DEF TransferLease
  <1>13. ASSUME NEW r \in Replica, NEW target \in Ts, BumpSideTransportClosed(r, target) PROVE FALSE
    BY <1>13 DEF BumpSideTransportClosed
  <1>14. ASSUME NEW r \in Replica, NEW m \in pub, GetClosedTimestamp(r, m) PROVE FALSE
    BY <1>14 DEF GetClosedTimestamp, proposer
  <1> QED
    BY <1>1, <1>2, <1>3, <1>4, <1>5, <1>6, <1>7, <1>8, <1>9, <1>10, <1>11, <1>12, <1>13, <1>14
    DEF Next

\* What a step does to the log.
LEMMA LogStep ==
    ASSUME BaseInv, [Next]_vars
    PROVE UNCHANGED raft \/ \E e \in net : AppendEntry(e)
  <1>1. ASSUME NEW r \in Replica, NEW n, Decode(r, n) \/ ApplyBatch(r, n) PROVE UNCHANGED raft
    BY <1>1, Zenon DEF Decode, ApplyBatch
  <1>2. ASSUME NEW r \in Replica, NEW q \in Replica, ApplySnapshot(r, q) \/ TransferLease(r, q)
        PROVE UNCHANGED raft
    BY <1>2 DEF ApplySnapshot, TransferLease
  <1>3. ASSUME NEW r \in Replica, Restart(r) \/ RequestLease(r) \/ Refresh(r) \/ SideEffects(r)
        PROVE UNCHANGED raft
    BY <1>3, Zenon DEF Restart, RequestLease, Refresh, SideEffects
  <1>4. ASSUME NEW r \in Replica, NEW x, BumpSideTransportClosed(r, x) \/ GetClosedTimestamp(r, x)
        PROVE UNCHANGED raft
    BY <1>4, Zenon DEF BumpSideTransportClosed, GetClosedTimestamp
  <1>5. ASSUME NEW c \in Cmd, NEW x,
               Admit(x, c) \/ Track(c, x) \/ FlushNew(c, x) \/ FlushReproposal(c) \/ FlushAfterError(c)
        PROVE UNCHANGED raft
    BY <1>5, Zenon DEF Admit, Track, FlushNew, FlushReproposal, FlushAfterError
  <1>6. CASE UNCHANGED vars
    BY <1>6 DEF vars
  <1> QED BY <1>1, <1>2, <1>3, <1>4, <1>5, <1>6 DEF Next

LEMMA AcknowledgedStep ==
    BaseInv /\ AcknowledgedTakesEffect /\ [Next]_vars => AcknowledgedTakesEffect'
  <1> SUFFICES ASSUME BaseInv, AcknowledgedTakesEffect, [Next]_vars,
                      NEW c \in Cmd, cmd'[c].told = "ok"
               PROVE InEffect(c)'
    BY DEF AcknowledgedTakesEffect, InEffect
  <1>1. CASE cmd[c].told = "ok"
    <2>1. InEffect(c)
      BY <1>1 DEF AcknowledgedTakesEffect, InEffect
    <2> QED BY <2>1, LogStep, LogGrows
  <1>2. CASE cmd[c].told # "ok"
    <2>1. Next
      BY <1>2 DEF vars, proposer
    <2>2. InEffect(c) /\ UNCHANGED raft
      BY <1>2, <2>1, Tells
    <2> QED BY <2>2, LogGrows
  <1> QED BY <1>1, <1>2

\* A write that was acknowledged, also before it was applied, is in the log and takes
\* effect there, whatever leases change, replicas fail or proposals are refused.
THEOREM AcknowledgedWritesTakeEffect == Spec => []AcknowledgedTakesEffect
  <1>1. Init => AcknowledgedTakesEffect
    BY DEF Init, AcknowledgedTakesEffect, NewCmd
  <1> QED BY <1>1, BaseInvariant, AcknowledgedStep, PTL DEF Spec

-----------------------------------------------------------------------------
(* A write takes effect at most once.                                      *)

\* What an effective write does to the applied index, and when an entry has no effect.
LEMMA EffectFacts ==
    ASSUME BaseInv, NEW i \in 1 .. Len(log), log[i].kind = "write"
    PROVE /\ log[i] \in Entry /\ log[i].mli \in Nat /\ log[i].seq \in Nat /\ log[i].id \in Cmd
          /\ i - 1 \in 0 .. Len(log)
          /\ Effective(i) => /\ StateAt(i).lai = log[i].mli /\ StateAt(i - 1).lai < log[i].mli
                             /\ log[i].seq = StateAt(i - 1).lease.seq
          /\ VerdictAt(i) = "stale" => log[i].mli <= StateAt(i - 1).lai
          /\ VerdictAt(i) = "mismatch" => log[i].seq # StateAt(i - 1).lease.seq
  <1>0. TypeOK /\ StatesOK /\ EntriesOK
    BY DEF BaseInv
  <1>1. log[i] \in Entry /\ EntryOK(log[i]) /\ Len(log) \in Nat
    BY <1>0 DEF TypeOK, EntriesOK
  <1>2. i - 1 \in 0 .. Len(log)
    BY <1>1
  <1>3. StateAt(i - 1) \in AppliedState
    BY <1>0, <1>2, StateType
  <1>4. StateAt(i) = ApplyEntry(StateAt(i - 1), log[i])
    BY <1>0 DEF StatesOK
  <1>5. Effective(i) => /\ StateAt(i).lai = log[i].mli /\ StateAt(i - 1).lai < log[i].mli
                        /\ log[i].seq = StateAt(i - 1).lease.seq
    <2>1. /\ log[i].kind = "write" /\ Verdict(StateAt(i - 1), log[i]) = "ok" =>
                /\ ApplyEntry(StateAt(i - 1), log[i]).lai = log[i].mli
                /\ StateAt(i - 1).lai < log[i].mli /\ log[i].seq = StateAt(i - 1).lease.seq
      BY <1>1, <1>3, ApplyEntryFacts DEF EntryOK
    <2> QED BY <1>4, <2>1 DEF Effective, VerdictAt
  <1>6. /\ VerdictAt(i) = "stale" => log[i].mli <= StateAt(i - 1).lai
        /\ VerdictAt(i) = "mismatch" => log[i].seq # StateAt(i - 1).lease.seq
    BY DEF VerdictAt, Verdict, LeaseMismatch, StaleIndex
  <1>7. log[i].mli \in Nat /\ log[i].seq \in Nat /\ log[i].id \in Cmd
    BY <1>1 DEF Entry
  <1> QED BY <1>1, <1>2, <1>5, <1>6, <1>7

\* States are ordered.
LEMMA Ordered ==
    ASSUME BaseInv, NEW m \in 0 .. Len(log), NEW n \in 0 .. Len(log), m <= n
    PROVE /\ StateAt(m).lai <= StateAt(n).lai /\ StateAt(m).lease.seq <= StateAt(n).lease.seq
          /\ StateAt(m).lai \in Nat /\ StateAt(n).lai \in Nat
          /\ StateAt(m).lease.seq \in Nat /\ StateAt(n).lease.seq \in Nat
  <1>0. TypeOK /\ StatesOK
    BY DEF BaseInv
  <1>1. StateAt(m).lai <= StateAt(n).lai /\ StateAt(m).lease.seq <= StateAt(n).lease.seq
    BY <1>0 DEF StatesOK
  <1> QED BY <1>0, <1>1, StateType

LEMMA NotAfterLast ==
    ASSUME BaseInv, NEW n \in 0 .. Len(log)
    PROVE /\ StateAt(n).lai <= LastState.lai /\ StateAt(n).lease.seq <= LastState.lease.seq
          /\ LastState.lai \in Nat /\ LastState.lease.seq \in Nat /\ LastState \in AppliedState
  <1>1. Len(log) \in Nat
    BY DEF BaseInv, TypeOK
  <1>2. Len(log) \in 0 .. Len(log) /\ n <= Len(log)
    BY <1>1
  <1>3. LastState \in AppliedState
    BY <1>2, StateType DEF LastState, BaseInv
  <1> QED BY <1>2, <1>3, Ordered DEF LastState

\* The entries of c.
Entryless(c) == (\A e \in net' : ~ Of(e, c)) /\ (\A i \in 1 .. Len(log) : ~ Of(log[i], c))

LEMMA UnproposedIsEntryless ==
    ASSUME BaseInv, NEW c \in Cmd, cmd[c].phase # "proposed", net' = net
    PROVE Entryless(c)
  BY DEF BaseInv, EntriesOK, EntryOK, Of, Entryless

\* A step that lets no entry of c become outdated and does not bring c back to life.
Still(c) ==
    /\ cmd'[c].home = cmd[c].home
    /\ cmd[c].applied => cmd'[c].applied
    /\ Live(c)' => Live(c)
    /\ \A e \in net' : Outdated(e, c)' => (e \in net /\ Outdated(e, c))
    /\ \A i \in 1 .. Len(log) : Outdated(log[i], c)' => Outdated(log[i], c) \/ ~ Effective(i)

\* What OnceInv says of one command.
CopiesOK(c) ==
    /\ \A e \in net : Outdated(e, c) => Dead(e)
    /\ \A i \in 1 .. Len(log) : Outdated(log[i], c) => ~ Effective(i)
UnappliedOK(c) ==
    ~ cmd[c].applied /\ Live(c) =>
        \A i \in 1 .. Fx(cmd[c].home) : Of(log[i], c) => ~ Effective(i)
RecognisedOK(c) ==
    ~ cmd[c].applied /\ Live(c) /\ batch[cmd[c].home] # Idle =>
        \A i \in batch[cmd[c].home].fx + 1 .. batch[cmd[c].home].to :
            Of(log[i], c) /\ Effective(i) => i \in batch[cmd[c].home].bound
CommandOnce(c) == CopiesOK(c) /\ UnappliedOK(c) /\ RecognisedOK(c)

LEMMA OnceParts ==
    /\ OnceInv <=> BaseInv /\ ~ inst.leaderChange /\ \A c \in Cmd : CommandOnce(c)
    /\ OnceInv' <=> BaseInv' /\ ~ inst'.leaderChange /\ \A c \in Cmd : CommandOnce(c)'
  BY DEF OnceInv, CommandOnce, OldCopiesDead, Unapplied, Recognised, CopiesOK, UnappliedOK, RecognisedOK

LEMMA EntrylessOnce ==
    ASSUME BaseInv, BaseInv', UNCHANGED raft, NEW c \in Cmd, Entryless(c)
    PROVE CommandOnce(c)'
  <1>1. \A i \in 1 .. Len(log) : log'[i] = log[i]
    BY DEF raft
  <1>2. Len(log') = Len(log) /\ Len(log) \in Nat
    BY DEF raft, BaseInv, TypeOK
  <1>3. CopiesOK(c)'
    BY <1>1, <1>2 DEF CopiesOK, Entryless, Outdated, Of
  <1>4. PICK r \in Replica : r = cmd'[c].home
    BY Zenon DEF BaseInv, TypeOK, Command
  <1>5. Fx(r)' \in 0 .. Len(log) /\ (batch'[r] # Idle => batch'[r].to <= Len(log) /\ batch'[r].to \in Nat
                                                       /\ batch'[r].fx \in Nat)
    <2>1. TypeOK' /\ BatchesOK'
      BY DEF BaseInv
    <2>2. Fx(r)' \in 0 .. Len(log')
      BY <2>1 DEF TypeOK, BatchesOK, BatchOK, Fx
    <2>3. batch'[r] # Idle => batch'[r].to <= Len(log') /\ batch'[r].to \in Nat /\ batch'[r].fx \in Nat
      BY <2>1 DEF TypeOK, BatchesOK, BatchOK
    <2> QED BY <1>2, <2>2, <2>3
  <1>6. UnappliedOK(c)'
    <2>1. Fx(cmd[c].home)' = Fx(r)'
      BY <1>4 DEF Fx
    <2>2. \A i \in 1 .. Fx(r)' : ~ Of(log'[i], c)
      BY <1>1, <1>2, <1>5 DEF Entryless
    <2> QED BY <2>1, <2>2 DEF UnappliedOK, Of
  <1>7. RecognisedOK(c)'
    <2>1. batch'[r] # Idle => \A i \in batch'[r].fx + 1 .. batch'[r].to : ~ Of(log'[i], c)
      BY <1>1, <1>2, <1>5 DEF Entryless
    <2> QED BY <1>4, <2>1 DEF RecognisedOK, Of
  <1> QED BY <1>3, <1>6, <1>7 DEF CommandOnce

LEMMA CopiesStill ==
    ASSUME BaseInv, UNCHANGED raft, NEW c \in Cmd, CopiesOK(c), Still(c)
    PROVE CopiesOK(c)'
  <1>1. \A e \in net' : Outdated(e, c)' => Dead(e)'
    <2>1. ASSUME NEW e, Dead(e) PROVE Dead(e)'
      BY <2>1, SameLog DEF Dead
    <2> QED BY <2>1 DEF Still, CopiesOK
  <1>2. \A i \in 1 .. Len(log) : Outdated(log[i], c)' => ~ Effective(i)'
    <2> TAKE i \in 1 .. Len(log)
    <2>1. Effective(i)' = Effective(i)
      BY SameLog
    <2> QED BY <2>1 DEF Still, CopiesOK
  <1> QED BY <1>1, <1>2 DEF CopiesOK, raft

LEMMA StillOnce ==
    ASSUME BaseInv, UNCHANGED <<raft, batch>>, \A r \in Replica : Fx(r)' = Fx(r),
           NEW c \in Cmd, CommandOnce(c), Still(c)
    PROVE CommandOnce(c)'
  <1>0. UNCHANGED raft
    OBVIOUS
  <1>1. CopiesOK(c)'
    BY <1>0, CopiesStill DEF CommandOnce
  <1>2. PICK r \in Replica : r = cmd[c].home
    BY CmdType DEF BaseInv
  <1>3. r = cmd'[c].home
    BY <1>2 DEF Still
  <1>4. UnappliedOK(c)'
    <2>1. Fx(cmd[c].home)' = Fx(r)
      BY <1>2, <1>3 DEF Fx, Still
    <2>2. \A i : log'[i] = log[i] /\ Effective(i)' = Effective(i)
      BY <1>0, SameLog
    <2>3. UnappliedOK(c)
      BY DEF CommandOnce
    <2> QED BY <1>2, <1>3, <2>1, <2>2, <2>3 DEF UnappliedOK, Still, Of
  <1>5. RecognisedOK(c)'
    <2>1. \A i : log'[i] = log[i] /\ Effective(i)' = Effective(i)
      BY <1>0, SameLog
    <2>2. RecognisedOK(c)
      BY DEF CommandOnce
    <2> QED BY <1>2, <1>3, <2>1, <2>2 DEF RecognisedOK, Still, Of
  <1> QED BY <1>1, <1>4, <1>5 DEF CommandOnce

\* A command the step does not touch.
LEMMA UntouchedIsStill ==
    ASSUME BaseInv, UNCHANGED raft, NEW c \in Cmd, cmd'[c] = cmd[c],
           batch'[cmd[c].home] = batch[cmd[c].home],
           \A e \in net' : e \in net \/ ~ Of(e, c)
    PROVE Still(c)
  <1>1. Live(c)' => Live(c)
    BY DEF Live, raft
  <1>2. \A e \in net' : Outdated(e, c)' => (e \in net /\ Outdated(e, c))
    BY DEF Outdated, Of
  <1>3. \A i \in 1 .. Len(log) : Outdated(log[i], c)' => Outdated(log[i], c)
    BY DEF Outdated, Of, raft
  <1> QED BY <1>1, <1>2, <1>3 DEF Still

LEMMA EvaluationOnce ==
    ASSUME OnceInv, BaseInv', NEW c \in Cmd,
           (\E r \in Replica : Admit(r, c)) \/ (\E w \in Ts : Track(c, w))
    PROVE OnceInv'
  <1>0. BaseInv /\ ~ inst.leaderChange /\ \A d \in Cmd : CommandOnce(d)
    BY OnceParts
  <1>1. /\ cmd[c].phase # "proposed" /\ \A d \in Cmd \ {c} : cmd'[d] = cmd[d]
        /\ UNCHANGED <<net, raft, ap, batch, bounds>>
    BY <1>0, EvaluationFacts
  <1>2. UNCHANGED raft /\ \A r \in Replica : Fx(r)' = Fx(r)
    BY <1>1 DEF Fx
  <1>3. ASSUME NEW d \in Cmd PROVE CommandOnce(d)'
    <2>1. CASE d = c
      <3>1. Entryless(c)
        BY <1>0, <1>1, UnproposedIsEntryless
      <3> QED BY <1>0, <1>2, <2>1, <3>1, EntrylessOnce
    <2>2. CASE d # c
      <3>1. Still(d)
        BY <1>0, <1>1, <2>2, UntouchedIsStill
      <3> QED BY <1>0, <1>1, <1>2, <3>1, StillOnce
    <2> QED BY <2>1, <2>2
  <1> QED BY <1>0, <1>1, <1>3, OnceParts DEF bounds

\* Flushing a proposal, and refreshing it.
LEMMA FlushOnce ==
    ASSUME OnceInv, BaseInv', NEW c \in Cmd,
           (\E target \in Ts0 : FlushNew(c, target)) \/ FlushReproposal(c) \/ FlushAfterError(c)
    PROVE OnceInv'
  <1>0. BaseInv /\ TypeOK /\ ~ inst.leaderChange /\ \A d \in Cmd : CommandOnce(d)
    BY OnceParts DEF BaseInv
  <1>1. /\ cmd[c].buf > 0 /\ Constant(c) /\ cmd'[c].trk = 0 /\ cmd'[c].applied = cmd[c].applied
        /\ cmd[c].trk # 0 \/ cmd'[c].mli = cmd[c].mli
        /\ \A d \in Cmd \ {c} : cmd'[d] = cmd[d]
        /\ UNCHANGED <<raft, ap, batch, inst>>
        /\ \A e \in net' : e \in net \/ (Of(e, c) /\ e.mli = cmd'[c].mli)
    <2>1. CASE \E target \in Ts0 : FlushNew(c, target)
      <3>1. PICK target \in Ts0 : FlushNew(c, target)
        BY <2>1
      <3>2. /\ cmd[c].buf > 0 /\ cmd[c].trk # 0 /\ Constant(c) /\ cmd'[c].trk = 0
            /\ cmd'[c].applied = cmd[c].applied
            /\ \A d \in Cmd \ {c} : cmd'[d] = cmd[d]
            /\ UNCHANGED <<raft, ap, batch, bounds>>
        BY <1>0, <3>1, FlushNewFacts, Zenon
      <3>3. \E e \in Entry : net' = net \cup {e} /\ Of(e, c) /\ e.mli = cmd'[c].mli
        BY <1>0, <3>1, FlushNewFacts, Zenon
      <3> QED BY <3>2, <3>3 DEF bounds
    <2>2. CASE FlushReproposal(c) \/ FlushAfterError(c)
      <3>1. /\ cmd[c].buf > 0 /\ Constant(c) /\ cmd'[c].trk = 0 /\ cmd'[c].applied = cmd[c].applied
            /\ cmd'[c].mli = cmd[c].mli
            /\ \A d \in Cmd \ {c} : cmd'[d] = cmd[d]
            /\ UNCHANGED <<raft, ap, batch, inst>>
            /\ \A e \in net' : e \in net \/ e = Write(c)
        BY <1>0, <2>2, FlushReproposalFacts, Zenon
      <3>2. Of(Write(c), c) /\ Write(c).mli = cmd[c].mli
        BY <1>0, WriteType DEF Of
      <3> QED BY <3>1, <3>2
    <2> QED BY <2>1, <2>2
  <1>2. UNCHANGED raft /\ \A r \in Replica : Fx(r)' = Fx(r)
    BY <1>1 DEF Fx
  <1>3. Still(c)
    <2>1. Live(c)
      BY <1>1 DEF Live
    <2>2. \A e \in net' : Outdated(e, c)' => (e \in net /\ Outdated(e, c))
      BY <1>1 DEF Outdated, Of
    <2>3. \A i \in 1 .. Len(log) : Outdated(log[i], c)' => Outdated(log[i], c)
      BY <1>1 DEF Outdated, Of, raft
    <2> QED BY <1>1, <2>1, <2>2, <2>3 DEF Still, Constant
  <1>4. ASSUME NEW d \in Cmd PROVE Still(d)
    <2>1. CASE d = c
      BY <1>3, <2>1
    <2>2. CASE d # c
      <3>1. cmd'[d] = cmd[d] /\ batch'[cmd[d].home] = batch[cmd[d].home]
            /\ \A e \in net' : e \in net \/ ~ Of(e, d)
        BY <1>1, <2>2 DEF Of
      <3> QED BY <1>0, <1>2, <3>1, UntouchedIsStill
    <2> QED BY <2>1, <2>2
  <1>5. \A d \in Cmd : CommandOnce(d)'
    BY <1>0, <1>1, <1>2, <1>4, StillOnce
  <1> QED BY <1>0, <1>1, <1>5, OnceParts

LEMMA RefreshOnce ==
    ASSUME OnceInv, BaseInv', NEW r \in Replica, Refresh(r) PROVE OnceInv'
  <1>0. BaseInv /\ TypeOK /\ ~ inst.leaderChange /\ \A d \in Cmd : CommandOnce(d)
    BY OnceParts DEF BaseInv
  <1>1. cmd' = Refreshed(Pending(r)) /\ UNCHANGED <<net, raft, ap, batch, inst>>
    BY DEF Refresh
  <1>2. UNCHANGED raft /\ \A q \in Replica : Fx(q)' = Fx(q)
    BY <1>1 DEF Fx
  <1>3. ASSUME NEW d \in Cmd PROVE Still(d)
    <2>1. /\ Constant(d) /\ cmd'[d].trk = cmd[d].trk /\ cmd'[d].mli = cmd[d].mli
          /\ cmd'[d].inMap = cmd[d].inMap /\ cmd'[d].applied = cmd[d].applied
          /\ d \notin Pending(r) => cmd'[d] = cmd[d]
      BY <1>0, <1>1, RefreshedFacts
    <2>2. CASE d \notin Pending(r)
      BY <1>0, <1>1, <2>1, <2>2, UntouchedIsStill
    <2>3. CASE d \in Pending(r)
      <3>1. Live(d)
        BY <2>3 DEF Live, Pending
      <3>2. \A e \in net' : Outdated(e, d)' => (e \in net /\ Outdated(e, d))
        BY <1>1, <2>1 DEF Outdated, Of
      <3>3. \A i \in 1 .. Len(log) : Outdated(log[i], d)' => Outdated(log[i], d)
        BY <1>2, <2>1 DEF Outdated, Of, raft
      <3> QED BY <2>1, <3>1, <3>2, <3>3 DEF Still, Constant
    <2> QED BY <2>2, <2>3
  <1>4. \A d \in Cmd : CommandOnce(d)'
    BY <1>0, <1>1, <1>2, <1>3, StillOnce
  <1> QED BY <1>0, <1>1, <1>4, OnceParts

\* Steps that leave the commands alone and propose no write.
LEMMA IdleOnce ==
    ASSUME OnceInv, BaseInv', UNCHANGED <<raft, batch, cmd, inst>>,
           \A r \in Replica : Fx(r)' = Fx(r),
           \A e \in net' : e \in net \/ e.kind # "write"
    PROVE OnceInv'
  <1>0. BaseInv /\ ~ inst.leaderChange /\ \A d \in Cmd : CommandOnce(d)
    BY OnceParts
  <1>1. UNCHANGED raft
    OBVIOUS
  <1>2. ASSUME NEW d \in Cmd PROVE Still(d)
    <2>1. \A e \in net' : e \in net \/ ~ Of(e, d)
      BY DEF Of
    <2> QED BY <1>0, <1>1, <2>1, UntouchedIsStill
  <1>3. \A d \in Cmd : CommandOnce(d)'
    BY <1>0, <1>1, <1>2, StillOnce
  <1> QED BY <1>0, <1>3, OnceParts

LEMMA ApplyBatchOnce ==
    ASSUME OnceInv, BaseInv', NEW r \in Replica, NEW n, ApplyBatch(r, n) PROVE OnceInv'
  <1>0. TypeOK
    BY DEF OnceInv, BaseInv
  <1>1. /\ batch[r] # Idle /\ ap' = [ap EXCEPT ![r] = n]
        /\ UNCHANGED <<net, raft, batch, cmd, inst>>
    BY DEF ApplyBatch, proposer, bounds
  <1>2. \A q \in Replica : Fx(q)' = Fx(q)
    BY <1>0, <1>1 DEF Fx, TypeOK
  <1> QED BY <1>1, <1>2, IdleOnce

LEMMA LeaseOnce ==
    ASSUME OnceInv, BaseInv', NEW r \in Replica,
           RequestLease(r) \/ \E q \in Replica : TransferLease(r, q)
    PROVE OnceInv'
  <1>0. BaseInv
    BY DEF OnceInv
  <1>1. \E f \in Entry : net' = net \cup {f} /\ f.kind # "write"
    BY <1>0, RequestLeaseFacts, TransferLeaseFacts
  <1>2. UNCHANGED <<raft, ap, batch, cmd, inst>>
    BY DEF RequestLease, TransferLease, proposer, bounds
  <1>3. \A q \in Replica : Fx(q)' = Fx(q)
    BY <1>2 DEF Fx
  <1> QED BY <1>1, <1>2, <1>3, IdleOnce

LEMMA TransportOnce ==
    ASSUME OnceInv, BaseInv', UNCHANGED <<net, raft, ap, batch, cmd, inst>> PROVE OnceInv'
  <1>1. \A q \in Replica : Fx(q)' = Fx(q)
    BY DEF Fx
  <1> QED BY <1>1, IdleOnce

\* An entry that is dead has no effect when it comes.
LEMMA AppendOnce ==
    ASSUME OnceInv, BaseInv', NEW e \in net, AppendEntry(e) PROVE OnceInv'
  <1>0. BaseInv /\ ~ inst.leaderChange /\ \A d \in Cmd : CommandOnce(d)
    BY OnceParts
  <1>1. PICK k \in Nat :
          /\ k = Len(log) /\ Len(log') = k + 1
          /\ e \in Entry /\ EntryOK(e)
          /\ log'[k + 1] = e
          /\ \A i \in 1 .. k : log'[i] = log[i] /\ Effective(i)' = Effective(i)
          /\ LastState' = ApplyEntry(LastState, e)
          /\ VerdictAt(k + 1)' = Verdict(LastState, e)
          /\ net' = net \ {e}
          /\ UNCHANGED <<ap, batch, proposer, leases, transport, bounds>>
    BY <1>0, AppendFacts, Zenon
  <1>2. cmd' = cmd /\ batch' = batch /\ ap' = ap /\ inst' = inst
    BY <1>1 DEF proposer, bounds
  <1>3. LastState \in AppliedState /\ LastState.lai \in Nat /\ LastState.lease.seq \in Nat
        /\ LastState'.lai >= LastState.lai /\ LastState'.lease.seq >= LastState.lease.seq
        /\ LastState'.lai \in Nat /\ LastState'.lease.seq \in Nat
    <2>1. 0 \in 0 .. Len(log)
      BY <1>1
    <2>2. LastState \in AppliedState /\ LastState.lai \in Nat /\ LastState.lease.seq \in Nat
      BY <1>0, <2>1, NotAfterLast
    <2>3. LastState'.lai >= LastState.lai /\ LastState'.lease.seq >= LastState.lease.seq
          /\ LastState' \in AppliedState
      BY <1>1, <2>2, ApplyEntryFacts DEF EntryOK
    <2>4. LastState'.lai \in Nat /\ LastState'.lease.seq \in Nat
      BY <2>3 DEF AppliedState, LeaseRecord
    <2> QED BY <2>2, <2>3, <2>4
  <1>4. \A f \in Entry : Dead(f) => Dead(f)'
    BY <1>3 DEF Dead, Entry
  <1>5. ASSUME NEW c \in Cmd, Of(e, c), Dead(e) PROVE ~ Effective(k + 1)'
    <2>1. e.kind = "write" /\ e.seq \in Nat /\ e.mli \in Nat
      BY <1>1, <1>5 DEF Of, Entry
    <2>2. Verdict(LastState, e) # "ok"
      BY <1>3, <1>5, <2>1 DEF Verdict, LeaseMismatch, StaleIndex, Dead
    <2> QED BY <1>1, <2>2 DEF Effective
  <1>6. ASSUME NEW c \in Cmd PROVE CommandOnce(c)'
    <2>0. CopiesOK(c) /\ UnappliedOK(c) /\ RecognisedOK(c)
      BY <1>0 DEF CommandOnce
    <2>1. CopiesOK(c)'
      <3>1. \A f \in net' : Outdated(f, c)' => Dead(f)'
        <4> SUFFICES ASSUME NEW f \in net', Outdated(f, c)' PROVE Dead(f)'
          OBVIOUS
        <4>1. f \in net /\ Outdated(f, c) /\ f \in Entry
          BY <1>0, <1>1, <1>2 DEF Outdated, Of, BaseInv, TypeOK
        <4> QED BY <1>4, <2>0, <4>1 DEF CopiesOK
      <3>2. ASSUME NEW i \in 1 .. k + 1, Outdated(log[i], c)' PROVE ~ Effective(i)'
        <4>1. CASE i \in 1 .. k
          <5>1. Outdated(log[i], c)
            BY <1>1, <1>2, <3>2, <4>1 DEF Outdated, Of
          <5> QED BY <1>1, <2>0, <4>1, <5>1 DEF CopiesOK
        <4>2. CASE i = k + 1
          <5>1. Outdated(e, c)
            BY <1>1, <1>2, <3>2, <4>2 DEF Outdated, Of
          <5> QED BY <1>5, <2>0, <4>2, <5>1 DEF CopiesOK, Outdated
        <4> QED BY <4>1, <4>2
      <3> QED BY <1>1, <3>1, <3>2 DEF CopiesOK
    <2>2. PICK r \in Replica : r = cmd[c].home
      BY <1>0, CmdType DEF BaseInv
    <2>3. Fx(r) \in 0 .. k /\ (batch[r] # Idle => batch[r].to \in 0 .. k)
          /\ batch[r].fx \in Nat /\ (batch[r] # Idle => batch[r].bound \subseteq 1 .. batch[r].to)
          /\ batch[r].bound \subseteq 1 .. k
      <3>1. TypeOK /\ BatchesOK /\ BatchOK(r)
        BY <1>0 DEF BaseInv, BatchesOK
      <3>2. Fx(r) \in 0 .. k
        BY <1>1, <3>1, FxType
      <3>3. batch[r].fx \in Nat /\ batch[r].to \in Nat
        BY <3>1, ReplicaType
      <3>4. batch[r] # Idle => batch[r].to \in 0 .. k /\ batch[r].bound \subseteq 1 .. batch[r].to
        BY <1>1, <3>1, <3>3 DEF BatchOK
      <3>5. batch[r] = Idle => batch[r].bound = {}
        BY DEF Idle
      <3> QED BY <3>2, <3>3, <3>4, <3>5
    <2>4. Live(c)' => Live(c)
      <3>1. \A i \in batch[r].bound : log'[i] = log[i]
        BY <1>1, <2>3
      <3> QED BY <1>2, <2>2, <3>1 DEF Live
    <2>5. UnappliedOK(c)'
      <3>1. Fx(cmd[c].home)' = Fx(r)
        BY <1>2, <2>2 DEF Fx
      <3>2. \A i \in 1 .. Fx(r) : log'[i] = log[i] /\ Effective(i)' = Effective(i)
        BY <1>1, <2>3
      <3> QED BY <1>2, <2>0, <2>2, <2>4, <3>1, <3>2 DEF UnappliedOK, Of
    <2>6. RecognisedOK(c)'
      <3>1. batch[r] # Idle => \A i \in batch[r].fx + 1 .. batch[r].to :
                log'[i] = log[i] /\ Effective(i)' = Effective(i)
        BY <1>1, <2>3
      <3> QED BY <1>2, <2>0, <2>2, <2>4, <3>1 DEF RecognisedOK, Of
    <2> QED BY <2>1, <2>5, <2>6 DEF CommandOnce
  <1> QED BY <1>0, <1>2, <1>6, OnceParts

\* While nothing but first proposals is buffered, what can take effect is in the map.
LEMMA LiveIsPending ==
    ASSUME OnceInv, NEW c \in Cmd, Live(c), batch[cmd[c].home] = Idle,
           NoReproposalsBuffered(cmd[c].home)
    PROVE cmd[c].trk # 0 \/ c \in Pending(cmd[c].home)
  <1>0. TypeOK /\ CmdsOK
    BY DEF OnceInv, BaseInv
  <1>1. cmd[c].inMap \/ cmd[c].buf > 0 \/ cmd[c].trk # 0
    BY DEF Live, Idle
  <1>2. cmd[c].phase = "proposed"
    BY <1>0, <1>1, BusyIsProposed
  <1>3. c \in Mine(cmd[c].home)
    BY <1>2 DEF Mine
  <1> QED BY <1>1, <1>3 DEF NoReproposalsBuffered, Pending

LEMMA DecodeOnce ==
    ASSUME OnceInv, BaseInv', NEW r \in Replica, NEW n, Decode(r, n) PROVE OnceInv'
  <1>0. BaseInv /\ TypeOK /\ ~ inst.leaderChange /\ \A d \in Cmd : CommandOnce(d)
    BY OnceParts DEF BaseInv
  <1>1. /\ n \in ap[r] + 1 .. Len(log)
        /\ batch[r] = Idle /\ NoReproposalsBuffered(r)
        /\ batch' = [batch EXCEPT ![r] = [to |-> n, bound |-> BoundBy(r, n), fx |-> ap[r]]]
        /\ UNCHANGED <<net, raft, ap, assigned, leases, transport, bounds>>
        /\ \A q \in Replica : Fx(q)' = Fx(q)
    BY <1>0, DecodeFacts
  <1>2. UNCHANGED raft /\ inst' = inst /\ net' = net
    BY <1>1 DEF bounds
  <1>3. \A i : log'[i] = log[i] /\ Effective(i)' = Effective(i)
    BY <1>2, SameLog
  <1>4. ASSUME NEW c \in Cmd PROVE CommandOnce(c)'
    <2>0. CopiesOK(c) /\ UnappliedOK(c) /\ RecognisedOK(c)
      BY <1>0 DEF CommandOnce
    <2>1. PICK q \in Replica : q = cmd[c].home
      BY <1>0, CmdType
    <2>2. /\ Constant(c) /\ cmd'[c].trk = cmd[c].trk /\ cmd'[c].mli = cmd[c].mli
          /\ cmd'[c].buf = cmd[c].buf /\ cmd'[c].applied = cmd[c].applied
          /\ cmd'[c].inMap => cmd[c].inMap
      BY <1>0, DecodeFacts, Zenon
    <2>3. cmd'[c].home = q
      BY <2>1, <2>2 DEF Constant
    <2>4. batch'[q] = IF q = r THEN [to |-> n, bound |-> BoundBy(r, n), fx |-> ap[r]] ELSE batch[q]
      BY <1>0, <1>1 DEF TypeOK
    <2>5. Live(c)' => Live(c)
      <3>1. CASE q = r
        <4>1. \A i \in BoundBy(r, n) : log[i].id = c => cmd[c].inMap
          BY DEF BoundBy, Pending
        <4>2. batch'[q].bound = BoundBy(r, n)
          BY <2>4, <3>1
        <4> QED BY <1>3, <2>1, <2>2, <2>3, <4>1, <4>2 DEF Live
      <3>2. CASE q # r
        BY <1>3, <2>1, <2>2, <2>3, <2>4, <3>2 DEF Live
      <3> QED BY <3>1, <3>2
    <2>6. Still(c)
      <3>1. \A e \in net' : Outdated(e, c)' => (e \in net /\ Outdated(e, c))
        BY <1>2, <2>2 DEF Outdated, Of
      <3>2. \A i \in 1 .. Len(log) : Outdated(log[i], c)' => Outdated(log[i], c)
        BY <1>3, <2>2 DEF Outdated, Of
      <3> QED BY <2>2, <2>5, <3>1, <3>2 DEF Still, Constant
    <2>7. CopiesOK(c)'
      BY <1>0, <1>2, <2>0, <2>6, CopiesStill
    <2>8. UnappliedOK(c)'
      <3>1. Fx(cmd[c].home)' = Fx(q)
        BY <1>1, <2>3 DEF Fx
      <3> QED BY <1>3, <2>0, <2>1, <2>2, <2>3, <2>5, <3>1 DEF UnappliedOK, Of
    <2>9. RecognisedOK(c)'
      <3>1. CASE q # r
        BY <1>3, <2>0, <2>1, <2>2, <2>3, <2>4, <2>5, <3>1 DEF RecognisedOK, Of
      <3>2. CASE q = r
        <4> SUFFICES ASSUME Live(c)', NEW i \in ap[r] + 1 .. n, Of(log[i], c), Effective(i)
                     PROVE i \in BoundBy(r, n)
          BY <1>3, <2>3, <2>4, <3>2 DEF RecognisedOK, Of
        <4>1. cmd[c].trk # 0 \/ c \in Pending(r)
          BY <1>1, <2>1, <2>5, <3>2, LiveIsPending, Zenon
        <4>2. i \in 1 .. Len(log)
          <5>1. ap[r] \in Nat
            BY <1>0, ReplicaType
          <5>2. Len(log) \in Nat
            BY <1>0 DEF TypeOK
          <5> QED BY <1>1, <5>1, <5>2
        <4>3. cmd[c].trk = 0
          BY <2>0, <4>2 DEF CopiesOK, Outdated
        <4> QED BY <4>1, <4>3 DEF BoundBy, Of
      <3> QED BY <3>1, <3>2
    <2> QED BY <2>7, <2>8, <2>9 DEF CommandOnce
  <1> QED BY <1>0, <1>2, <1>4, OnceParts

\* A copy with an index that was passed at i has no effect after i.
LEMMA PassedIsDead ==
    ASSUME BaseInv, NEW i \in 1 .. Len(log), NEW x \in Nat, x <= StateAt(i - 1).lai
    PROVE /\ x <= LastState.lai
          /\ \A j \in i .. Len(log) : log[j].kind = "write" /\ log[j].mli = x => ~ Effective(j)
  <1>1. Len(log) \in Nat
    BY DEF BaseInv, TypeOK
  <1>2. i - 1 \in 0 .. Len(log)
    BY <1>1
  <1>3. x <= LastState.lai
    <2>1. StateAt(i - 1).lai <= LastState.lai /\ LastState.lai \in Nat
      BY <1>2, NotAfterLast
    <2>2. StateAt(i - 1).lai \in Nat
      BY <1>2, StateType DEF BaseInv
    <2> QED BY <2>1, <2>2
  <1>4. ASSUME NEW j \in i .. Len(log), log[j].kind = "write", log[j].mli = x, Effective(j)
        PROVE FALSE
    <2>1. j \in 1 .. Len(log) /\ j - 1 \in 0 .. Len(log) /\ i - 1 <= j - 1
      BY <1>1
    <2>2. StateAt(i - 1).lai <= StateAt(j - 1).lai /\ StateAt(i - 1).lai \in Nat /\ StateAt(j - 1).lai \in Nat
      BY <1>2, <2>1, Ordered
    <2>3. StateAt(j - 1).lai < x
      BY <1>4, <2>1, EffectFacts
    <2> QED BY <2>2, <2>3
  <1> QED BY <1>3, <1>4

\* An index that is used up and was not the command's own is not used again by it.
LEMMA SideEffectsOnce ==
    ASSUME OnceInv, BaseInv', NEW r \in Replica, SideEffects(r) PROVE OnceInv'
  <1>0. BaseInv /\ TypeOK /\ ~ inst.leaderChange /\ \A d \in Cmd : CommandOnce(d)
    BY OnceParts DEF BaseInv
  <1>1. PICK i \in 1 .. Len(log) :
          /\ i = batch[r].fx + 1 /\ Fx(r) = batch[r].fx /\ Fx(r)' = i
          /\ batch[r] # Idle /\ i <= batch[r].to
          /\ batch' = [batch EXCEPT ![r] = NextBatch(r)]
          /\ \/ NextBatch(r) = Idle /\ i = batch[r].to
             \/ NextBatch(r) # Idle /\ NextBatch(r) = [batch[r] EXCEPT !.fx = i] /\ i < batch[r].to
          /\ \A q \in Replica \ {r} : batch'[q] = batch[q] /\ Fx(q)' = Fx(q)
          /\ i \in batch[r].bound => log[i].id \in Cmd /\ cmd[log[i].id].phase = "proposed"
                                     /\ cmd[log[i].id].home = r /\ log[i].kind = "write"
          /\ \/ LeftStep(r, i)
             \/ /\ i \in batch[r].bound /\ \A d \in Cmd \ {log[i].id} : cmd'[d] = cmd[d]
                /\ \/ \E a \in {"ok", "rejected"} : FinishedStep(i, log[i].id, a)
                   \/ ReproposedStep(i, log[i].id)
          /\ UNCHANGED <<net, raft, ap, minVer, ver, transport, bounds>>
    BY <1>0, SideEffectsFacts
  <1>2. UNCHANGED raft /\ inst' = inst /\ net' = net
    BY <1>1 DEF bounds
  <1>3. \A j : log'[j] = log[j] /\ Effective(j)' = Effective(j)
    BY <1>2, SameLog
  <1>4. batch[r].fx \in Nat /\ batch[r].to \in Nat /\ batch[r] \in [to : Nat, bound : SUBSET Nat, fx : Nat]
    BY <1>0, Zenon DEF TypeOK
  <1>5. batch'[r].bound \subseteq batch[r].bound
        /\ (batch'[r] = Idle \/ (batch'[r].bound = batch[r].bound /\ batch'[r].fx = i
                                 /\ batch'[r].to = batch[r].to))
    <2>1. batch'[r] = NextBatch(r)
      BY <1>0, <1>1 DEF TypeOK
    <2>2. CASE NextBatch(r) = Idle
      <3>1. Idle.bound = {}
        BY DEF Idle
      <3> QED BY <2>1, <2>2, <3>1
    <2>3. CASE NextBatch(r) = [batch[r] EXCEPT !.fx = i]
      BY <1>4, <2>1, <2>3
    <2> QED BY <1>1, <2>2, <2>3
  <1>6. ASSUME NEW c \in Cmd PROVE CommandOnce(c)'
    <2>0. CopiesOK(c) /\ UnappliedOK(c) /\ RecognisedOK(c)
      BY <1>0 DEF CommandOnce
    <2>1. PICK q \in Replica : q = cmd[c].home
      BY <1>0, CmdType
    <2>2. \/ cmd'[c] = cmd[c] /\ (c = log[i].id /\ i \in batch[r].bound => VerdictAt(i) = "stale")
          \/ /\ c = log[i].id /\ i \in batch[r].bound /\ q = r /\ Constant(c)
             /\ cmd'[c].applied = TRUE
             /\ cmd'[c].trk = cmd[c].trk /\ cmd'[c].mli = cmd[c].mli
          \/ /\ c = log[i].id /\ i \in batch[r].bound /\ q = r /\ ReproposedStep(i, c)
      BY <1>1, <2>1, Zenon DEF LeftStep, FinishedStep
    <2>3. cmd'[c].home = q /\ (cmd[c].applied => cmd'[c].applied)
      BY <2>1, <2>2 DEF Constant, ReproposedStep
    <2>4. c = log[i].id /\ i \in batch[r].bound /\ q = r => Live(c)
      <3> SUFFICES ASSUME c = log[i].id, i \in batch[r].bound, q = r PROVE Live(c)
        OBVIOUS
      <3>1. i > batch[r].fx
        BY <1>1, <1>4
      <3> QED BY <2>1, <3>1 DEF Live
    <2>5. Live(c)' => Live(c)
      <3>1. CASE cmd'[c] = cmd[c] /\ q = r
        <4>1. \A j \in batch'[r].bound : j > batch'[r].fx => j \in batch[r].bound /\ j > batch[r].fx
          <5>1. CASE batch'[r] = Idle
            BY <5>1 DEF Idle
          <5>2. CASE batch'[r].bound = batch[r].bound /\ batch'[r].fx = i
            <6>1. batch[r].bound \subseteq Nat
              BY <1>4
            <6> QED BY <1>1, <1>4, <5>2, <6>1
          <5> QED BY <1>5, <5>1, <5>2
        <4> QED BY <1>3, <2>1, <2>3, <3>1, <4>1 DEF Live
      <3>2. CASE cmd'[c] = cmd[c] /\ q # r
        <4>1. batch'[q] = batch[q]
          BY <1>1, <3>2
        <4> QED BY <1>3, <2>1, <2>3, <3>2, <4>1 DEF Live
      <3>3. CASE cmd'[c] # cmd[c]
        BY <2>2, <2>4, <3>3
      <3> QED BY <3>1, <3>2, <3>3
    <2>6. CASE ReproposedStep(i, c) /\ c = log[i].id /\ i \in batch[r].bound /\ q = r
      <3>1. VerdictAt(i) = "stale" /\ ~ cmd[c].applied /\ log[i].mli = cmd[c].mli
            /\ cmd'[c].applied = cmd[c].applied
        BY <2>6 DEF ReproposedStep, Superseded
      <3>2. cmd[c].mli \in Nat /\ cmd[c].mli <= StateAt(i - 1).lai
        BY <1>0, <1>1, <2>6, <3>1, EffectFacts, Zenon
      <3>3. /\ cmd[c].mli <= LastState.lai
            /\ \A j \in i .. Len(log) : log[j].kind = "write" /\ log[j].mli = cmd[c].mli => ~ Effective(j)
        BY <1>0, <3>2, PassedIsDead
      <3>4. Live(c) /\ Fx(cmd[c].home) = i - 1
        BY <1>1, <1>4, <2>1, <2>4, <2>6
      <3>5. \A j \in 1 .. Len(log) : Of(log[j], c) => ~ Effective(j)
        <4> SUFFICES ASSUME NEW j \in 1 .. Len(log), Of(log[j], c), Effective(j) PROVE FALSE
          OBVIOUS
        <4>1. log[j].mli = cmd[c].mli
          BY <2>0 DEF CopiesOK, Outdated
        <4>2. j \in i .. Len(log) \/ j \in 1 .. i - 1
          OBVIOUS
        <4> QED BY <2>0, <3>1, <3>3, <3>4, <4>1, <4>2 DEF UnappliedOK, Of
      <3>6. \A e \in net : Of(e, c) => Dead(e)
        BY <2>0, <3>3 DEF CopiesOK, Outdated, Dead
      <3>7. CopiesOK(c)'
        <4>1. \A e : Dead(e) => Dead(e)'
          BY <1>2, SameLog DEF Dead
        <4> QED BY <1>2, <1>3, <3>5, <3>6, <4>1 DEF CopiesOK, Outdated, Of, raft
      <3>8. UnappliedOK(c)'
        <4>1. Fx(cmd[c].home)' = i
          BY <1>1, <2>3, <2>6 DEF Fx
        <4>2. \A j \in 1 .. i : Of(log[j], c) => ~ Effective(j)
          BY <3>5
        <4> QED BY <1>3, <4>1, <4>2 DEF UnappliedOK, Of
      <3>9. RecognisedOK(c)'
        <4>1. batch'[r] # Idle => \A j \in batch'[r].fx + 1 .. batch'[r].to : j \in 1 .. Len(log)
          <5>1. batch[r].to <= Len(log) /\ Len(log) \in Nat
            BY <1>0, <1>1 DEF BaseInv, BatchesOK, BatchOK, TypeOK
          <5> QED BY <1>1, <1>4, <1>5, <5>1
        <4> QED BY <1>3, <2>3, <2>6, <3>5, <4>1 DEF RecognisedOK, Of
      <3> QED BY <3>7, <3>8, <3>9 DEF CommandOnce
    <2>7. CASE cmd'[c].trk = cmd[c].trk /\ cmd'[c].mli = cmd[c].mli
      <3>1. Still(c)
        <4>1. \A e \in net' : Outdated(e, c)' => (e \in net /\ Outdated(e, c))
          BY <1>2, <2>7 DEF Outdated, Of
        <4>2. \A j \in 1 .. Len(log) : Outdated(log[j], c)' => Outdated(log[j], c)
          BY <1>3, <2>7 DEF Outdated, Of
        <4> QED BY <2>1, <2>3, <2>5, <4>1, <4>2 DEF Still
      <3>2. CopiesOK(c)'
        BY <1>0, <1>2, <2>0, <3>1, CopiesStill
      <3>3. UnappliedOK(c)'
        <4> SUFFICES ASSUME ~ cmd'[c].applied, Live(c)',
                            NEW j \in 1 .. Fx(cmd[c].home)', Of(log[j], c), Effective(j)
                     PROVE FALSE
          BY <1>3 DEF UnappliedOK, Of
        <4>1. Fx(cmd[c].home)' = Fx(q)'
          BY <2>3 DEF Fx
        <4>2. j \notin 1 .. Fx(q)
          BY <2>0, <2>1, <2>3, <2>5 DEF UnappliedOK
        <4>3. q = r /\ j = i
          <5>1. q = r
            BY <1>1, <4>1, <4>2
          <5> QED BY <1>1, <1>4, <4>1, <4>2, <5>1
        <4>4. i \in batch[r].fx + 1 .. batch[r].to
          BY <1>1, <1>4
        <4>5. i \in batch[r].bound
          BY <1>1, <2>0, <2>1, <2>3, <2>5, <4>3, <4>4 DEF RecognisedOK
        <4>6. c = log[i].id /\ VerdictAt(i) = "ok"
          BY <4>3 DEF Of, Effective
        <4> QED BY <2>2, <4>5, <4>6 DEF ReproposedStep
      <3>4. RecognisedOK(c)'
        <4>1. CASE q # r
          <5>1. batch'[q] = batch[q]
            BY <1>1, <4>1
          <5> QED BY <1>3, <2>0, <2>1, <2>3, <2>5, <5>1 DEF RecognisedOK, Of
        <4>2. CASE q = r /\ batch'[r] = Idle
          BY <2>3, <4>2 DEF RecognisedOK
        <4>3. CASE q = r /\ batch'[r].bound = batch[r].bound /\ batch'[r].fx = i /\ batch'[r].to = batch[r].to
          <5>1. \A j \in i + 1 .. batch[r].to : j \in batch[r].fx + 1 .. batch[r].to
            BY <1>1, <1>4
          <5> QED BY <1>1, <1>3, <2>0, <2>1, <2>3, <2>5, <4>3, <5>1 DEF RecognisedOK, Of
        <4> QED BY <1>5, <4>1, <4>2, <4>3
      <3> QED BY <3>2, <3>3, <3>4 DEF CommandOnce
    <2> QED BY <2>2, <2>6, <2>7
  <1> QED BY <1>0, <1>2, <1>6, OnceParts

\* A snapshot that passes the index of a pending proposal takes it out of the map.
LEMMA SnapshotOnce ==
    ASSUME OnceInv, BaseInv', NEW r \in Replica, NEW s \in Replica, ApplySnapshot(r, s)
    PROVE OnceInv'
  <1>0. BaseInv /\ TypeOK /\ ~ inst.leaderChange /\ \A d \in Cmd : CommandOnce(d)
    BY OnceParts DEF BaseInv
  <1>1. /\ batch[r] = Idle /\ NoReproposalsBuffered(r)
        /\ Fx(r)' = ap[s] /\ \A p \in Replica \ {r} : Fx(p)' = Fx(p)
        /\ UNCHANGED <<net, raft, batch, minVer, ver, transport, inst, ticks>>
    BY <1>0, SnapshotFacts
  <1>2. UNCHANGED raft
    BY <1>1
  <1>3. \A i : log'[i] = log[i] /\ Effective(i)' = Effective(i)
    BY <1>2, SameLog
  <1>4. ASSUME NEW c \in Cmd PROVE CommandOnce(c)'
    <2>0. CopiesOK(c) /\ UnappliedOK(c) /\ RecognisedOK(c)
      BY <1>0 DEF CommandOnce
    <2>1. PICK q \in Replica : q = cmd[c].home
      BY <1>0, CmdType
    <2>2. /\ Constant(c) /\ cmd'[c].trk = cmd[c].trk /\ cmd'[c].mli = cmd[c].mli
          /\ cmd'[c].applied = cmd[c].applied /\ cmd'[c].buf = cmd[c].buf
          /\ cmd'[c].inMap => cmd[c].inMap
          /\ cmd'[c].inMap /\ c \in Mine(r) => cmd[c].mli > State(s).lai
      BY <1>0, SnapshotFacts
    <2>3. cmd'[c].home = q
      BY <2>1, <2>2 DEF Constant
    <2>4. Live(c)' => Live(c)
      BY <1>1, <1>3, <2>1, <2>2, <2>3 DEF Live
    <2>5. Still(c)
      <3>1. \A e \in net' : Outdated(e, c)' => (e \in net /\ Outdated(e, c))
        BY <1>1, <2>2 DEF Outdated, Of
      <3>2. \A i \in 1 .. Len(log) : Outdated(log[i], c)' => Outdated(log[i], c)
        BY <1>3, <2>2 DEF Outdated, Of
      <3> QED BY <2>2, <2>4, <3>1, <3>2 DEF Still, Constant
    <2>6. CopiesOK(c)'
      BY <1>0, <1>2, <2>0, <2>5, CopiesStill
    <2>7. RecognisedOK(c)'
      BY <1>1, <1>3, <2>0, <2>1, <2>2, <2>3, <2>4 DEF RecognisedOK, Of
    <2>8. UnappliedOK(c)'
      <3> SUFFICES ASSUME ~ cmd'[c].applied, Live(c)',
                          NEW j \in 1 .. Fx(cmd[c].home)', Of(log[j], c), Effective(j)
                   PROVE FALSE
        BY <1>3 DEF UnappliedOK, Of
      <3>1. Fx(cmd[c].home)' = Fx(q)'
        BY <2>3 DEF Fx
      <3>2. CASE q # r
        BY <1>1, <2>0, <2>1, <2>2, <2>4, <3>1, <3>2 DEF UnappliedOK
      <3>3. CASE q = r
        <4>1. ap[s] \in 0 .. Len(log) /\ State(s) = StateAt(ap[s])
          BY <1>0, FxType DEF BaseInv
        <4>2. j \in 1 .. Len(log) /\ j \in 0 .. Len(log) /\ j <= ap[s]
          BY <1>1, <3>1, <3>3, <4>1
        <4>3. cmd[c].trk = 0 /\ log[j].mli = cmd[c].mli
          BY <2>0, <4>2 DEF CopiesOK, Outdated
        <4>4. cmd'[c].inMap /\ c \in Mine(r)
          <5>1. cmd[c].trk # 0 \/ c \in Pending(r)
            BY <1>1, <2>1, <2>4, <3>3, LiveIsPending, Zenon
          <5>2. c \in Mine(r)
            BY <4>3, <5>1 DEF Pending
          <5>3. cmd'[c].inMap \/ cmd'[c].buf > 0 \/ cmd'[c].trk # 0
            <6>1. batch'[r].bound = {}
              BY <1>1 DEF Idle
            <6> QED BY <2>3, <3>3, <6>1 DEF Live
          <5> QED BY <1>1, <2>2, <4>3, <5>2, <5>3 DEF NoReproposalsBuffered
        <4>5. cmd[c].mli > StateAt(ap[s]).lai
          BY <2>2, <4>1, <4>4
        <4>6. StateAt(j).lai = cmd[c].mli
          BY <1>0, <4>2, <4>3, EffectFacts DEF Of
        <4>7. StateAt(j).lai <= StateAt(ap[s]).lai /\ StateAt(j).lai \in Nat /\ StateAt(ap[s]).lai \in Nat
          BY <1>0, <4>1, <4>2, Ordered
        <4> QED BY <4>5, <4>6, <4>7
      <3> QED BY <3>2, <3>3
    <2> QED BY <2>6, <2>7, <2>8 DEF CommandOnce
  <1> QED BY <1>0, <1>1, <1>4, OnceParts

LEMMA RestartOnce ==
    ASSUME OnceInv, BaseInv', NEW r \in Replica, Restart(r) PROVE OnceInv'
  <1>0. BaseInv /\ TypeOK /\ ~ inst.leaderChange /\ \A d \in Cmd : CommandOnce(d)
    BY OnceParts DEF BaseInv
  <1>1. /\ batch' = [batch EXCEPT ![r] = Idle]
        /\ \A p \in Replica \ {r} : Fx(p)' = Fx(p)
        /\ UNCHANGED <<net, raft, ver, pub, inst, ticks>>
    BY <1>0, RestartFacts, Zenon
  <1>2. UNCHANGED raft
    BY <1>1
  <1>3. \A i : log'[i] = log[i] /\ Effective(i)' = Effective(i)
    BY <1>2, SameLog
  <1>4. ASSUME NEW c \in Cmd PROVE CommandOnce(c)'
    <2>0. CopiesOK(c) /\ UnappliedOK(c) /\ RecognisedOK(c)
      BY <1>0 DEF CommandOnce
    <2>1. PICK q \in Replica : q = cmd[c].home
      BY <1>0, CmdType
    <2>2. CASE cmd[c].phase # "proposed" /\ c \notin Mine(r)
      <3>1. Entryless(c)
        BY <1>0, <1>1, <2>2, UnproposedIsEntryless
      <3> QED BY <1>0, <1>2, <3>1, EntrylessOnce
    <2>3. CASE c \in Mine(r)
      <3>1. cmd'[c].home = q /\ cmd'[c].applied /\ cmd'[c].trk = 0 /\ cmd'[c].mli = cmd[c].mli
        BY <1>0, <2>1, <2>3, RestartFacts, Zenon
      <3>2. \A e \in net' : Outdated(e, c)' => (e \in net /\ Outdated(e, c))
        BY <1>1, <3>1 DEF Outdated, Of
      <3>3. \A i \in 1 .. Len(log) : Outdated(log[i], c)' => Outdated(log[i], c)
        BY <1>3, <3>1 DEF Outdated, Of
      <3>4. CopiesOK(c)'
        <4>1. \A e : Dead(e) => Dead(e)'
          BY <1>2, SameLog DEF Dead
        <4> QED BY <1>2, <1>3, <2>0, <3>2, <3>3, <4>1 DEF CopiesOK, raft
      <3> QED BY <3>1, <3>4 DEF CommandOnce, UnappliedOK, RecognisedOK
    <2>4. CASE cmd[c].phase = "proposed" /\ c \notin Mine(r)
      <3>1. q # r /\ cmd'[c] = cmd[c]
        <4>1. q # r
          BY <2>1, <2>4 DEF Mine
        <4> QED BY <1>0, <2>4, <4>1, RestartFacts, Zenon
      <3>2. batch'[q] = batch[q] /\ Fx(q)' = Fx(q)
        BY <1>0, <1>1, <3>1 DEF TypeOK
      <3>3. Still(c)
        BY <1>0, <1>1, <1>2, <2>1, <3>1, <3>2, UntouchedIsStill
      <3>4. CopiesOK(c)'
        BY <1>0, <1>2, <2>0, <3>3, CopiesStill
      <3>5. UnappliedOK(c)'
        <4>1. Fx(cmd[c].home)' = Fx(q)
          BY <2>1, <3>1, <3>2 DEF Fx
        <4> QED BY <1>3, <2>0, <2>1, <3>1, <3>3, <4>1 DEF UnappliedOK, Of, Still
      <3>6. RecognisedOK(c)'
        BY <1>3, <2>0, <2>1, <3>1, <3>2, <3>3 DEF RecognisedOK, Of, Still
      <3> QED BY <3>4, <3>5, <3>6 DEF CommandOnce
    <2> QED BY <2>2, <2>3, <2>4
  <1> QED BY <1>0, <1>1, <1>4, OnceParts

LEMMA OnceStep == OnceInv /\ [Next]_vars => OnceInv'
  <1> SUFFICES ASSUME OnceInv, [Next]_vars PROVE OnceInv'
    OBVIOUS
  <1>1. BaseInv'
    BY BaseStep DEF OnceInv
  <1>2. CASE UNCHANGED vars
    BY <1>1, <1>2, TransportOnce DEF vars, proposer, bounds
  <1>3. ASSUME NEW r \in Replica, NEW target \in Ts, BumpSideTransportClosed(r, target) PROVE OnceInv'
    BY <1>1, <1>3, TransportOnce DEF BumpSideTransportClosed, bounds
  <1>4. ASSUME NEW r \in Replica, NEW m \in pub, GetClosedTimestamp(r, m) PROVE OnceInv'
    BY <1>1, <1>4, TransportOnce DEF GetClosedTimestamp, proposer, bounds
  <1>5. CASE Next
    BY <1>1, <1>3, <1>4, <1>5, EvaluationOnce, FlushOnce, AppendOnce, RefreshOnce, DecodeOnce,
       ApplyBatchOnce, SideEffectsOnce, SnapshotOnce, RestartOnce, LeaseOnce DEF Next
  <1> QED BY <1>2, <1>5

LEMMA InitOnce == Init /\ ~ inst.leaderChange => OnceInv
  <1> SUFFICES ASSUME Init, ~ inst.leaderChange PROVE OnceInv
    OBVIOUS
  <1>1. BaseInv /\ net = {} /\ log = <<>> /\ cmd = [c \in Cmd |-> NewCmd]
    BY InitBase DEF Init
  <1>2. Len(log) = 0
    BY <1>1
  <1>3. OldCopiesDead
    BY <1>1, <1>2 DEF OldCopiesDead
  <1>4. \A c \in Cmd : ~ Live(c)
    <2> TAKE c \in Cmd
    <2>1. cmd[c] = NewCmd /\ NewCmd.home = First /\ First \in Replica
      BY <1>1, ClosedTimestampsAssumption DEF NewCmd
    <2>2. batch[First] = Idle /\ Idle.bound = {}
      BY <2>1 DEF Init, Idle
    <2> QED BY <2>1, <2>2 DEF Live, NewCmd
  <1> QED BY <1>1, <1>3, <1>4 DEF OnceInv, Unapplied, Recognised

LEMMA OnceInvariant == Spec /\ ~ inst.leaderChange => []OnceInv
  BY InitOnce, OnceStep, PTL DEF Spec

\* Of two entries of a command that both take effect the second comes too late.
LEMMA OnceIsOnce == OnceInv => AppliedAtMostOnce
  <1>0. ASSUME OnceInv, NEW i \in 1 .. Len(log), NEW j \in 1 .. Len(log), i < j,
               log[i].kind = "write", log[j].kind = "write", Effective(i), Effective(j),
               log[i].id = log[j].id
        PROVE FALSE
    <2>0. BaseInv /\ Len(log) \in Nat
      BY <1>0, SMTT(30) DEF OnceInv, BaseInv, TypeOK
    <2>1. PICK c \in Cmd : c = log[i].id
      BY <1>0, <2>0, EffectFacts
    <2>2. CopiesOK(c)
      BY <1>0, OnceParts DEF CommandOnce
    <2>3. log[i].mli = cmd[c].mli /\ log[j].mli = cmd[c].mli
      BY <1>0, <2>1, <2>2 DEF CopiesOK, Outdated, Of
    <2>4. StateAt(i).lai = log[i].mli /\ StateAt(j - 1).lai < log[j].mli
      BY <1>0, <2>0, EffectFacts
    <2>5. i \in 0 .. Len(log) /\ j - 1 \in 0 .. Len(log) /\ i <= j - 1
      BY <1>0, <2>0
    <2>6. StateAt(i).lai <= StateAt(j - 1).lai /\ StateAt(i).lai \in Nat /\ StateAt(j - 1).lai \in Nat
      BY <2>0, <2>5, Ordered
    <2> QED BY <2>3, <2>4, <2>6
  <1> SUFFICES ASSUME OnceInv, NEW i \in 1 .. Len(log), NEW j \in 1 .. Len(log),
                      log[i].kind = "write", log[j].kind = "write", Effective(i), Effective(j),
                      log[i].id = log[j].id
               PROVE i = j
    BY DEF AppliedAtMostOnce
  <1>1. ~ (i < j) /\ ~ (j < i)
    BY <1>0
  <1>2. Len(log) \in Nat
    BY DEF OnceInv, BaseInv, TypeOK
  <1> QED BY <1>1, <1>2

\* However often a write is proposed, with the same index or a new one, and whatever
\* becomes of leases, leaseholders and replicas, it takes effect at most once, as long
\* as no snapshot comes in one Ready with a new leader.
THEOREM WritesApplyOnce == Spec /\ ~ inst.leaderChange => []AppliedAtMostOnce
  BY OnceInvariant, OnceIsOnce, PTL

-----------------------------------------------------------------------------
(* A rejected write has no effect.                                         *)

\* What RejectInv says of one command.
Ineffective(c) == \A i \in 1 .. Len(log) : Of(log[i], c) => ~ Effective(i)
RejectedOK(c) == cmd[c].told = "rejected" /\ ~ Unindexed(c) => Over(c) /\ Ineffective(c)

LEMMA RejectParts ==
    /\ RejectInv <=> OnceInv /\ \A c \in Cmd : RejectedOK(c)
    /\ RejectInv' <=> OnceInv' /\ \A c \in Cmd : RejectedOK(c)'
  BY DEF RejectInv, RejectedIsOver, RejectedUnlessUnindexed, HasNoEffect, RejectedOK,
         Ineffective, Of

\* What was proposed without an index stays in flight or in the log.
LEMMA StaysUnindexed ==
    ASSUME UNCHANGED raft, net \subseteq net', NEW c \in Cmd, Unindexed(c)
    PROVE Unindexed(c)'
  BY DEF Unindexed, raft

\* A step that rejects nothing and does not take a rejected command up again.
Unrejected(c) ==
    cmd'[c].told = "rejected" =>
        /\ cmd[c].told = "rejected" /\ cmd'[c].seq = cmd[c].seq
        /\ cmd[c].applied => cmd'[c].applied
        /\ cmd[c].applied /\ cmd[c].trk = 0 => cmd'[c].trk = 0 /\ cmd'[c].mli = cmd[c].mli

LEMMA RejectKept ==
    ASSUME BaseInv, UNCHANGED raft, net \subseteq net', NEW c \in Cmd, RejectedOK(c), Unrejected(c)
    PROVE RejectedOK(c)'
  <1>1. \A i : log'[i] = log[i] /\ Effective(i)' = Effective(i)
    BY SameLog
  <1>2. Len(log') = Len(log) /\ LastState' = LastState
    BY SameLog
  <1>3. ASSUME cmd'[c].told = "rejected", ~ Unindexed(c)' PROVE Over(c)' /\ Ineffective(c)'
    <2>1. Over(c) /\ Ineffective(c)
      BY <1>3, StaysUnindexed DEF Unrejected, RejectedOK
    <2>2. Ineffective(c)'
      BY <1>1, <1>2, <2>1 DEF Ineffective, Of
    <2>3. Over(c)'
      BY <1>2, <1>3, <2>1 DEF Over, Unrejected
    <2> QED BY <2>2, <2>3
  <1> QED BY <1>3 DEF RejectedOK

LEMMA RejectStill ==
    ASSUME RejectInv, OnceInv', UNCHANGED raft, net \subseteq net', \A c \in Cmd : Unrejected(c)
    PROVE RejectInv'
  <1>0. BaseInv /\ \A c \in Cmd : RejectedOK(c)
    BY RejectParts DEF OnceInv
  <1>1. \A c \in Cmd : RejectedOK(c)'
    BY <1>0, RejectKept
  <1> QED BY <1>1, RejectParts

\* A command the step does not touch.
LEMMA UntouchedIsUnrejected == ASSUME NEW c \in Cmd, cmd'[c] = cmd[c] PROVE Unrejected(c)
  BY DEF Unrejected

LEMMA EvaluationReject ==
    ASSUME RejectInv, OnceInv', NEW c \in Cmd,
           (\E r \in Replica : Admit(r, c)) \/ (\E w \in Ts : Track(c, w))
    PROVE RejectInv'
  <1>0. BaseInv /\ CmdsOK
    BY DEF RejectInv, OnceInv, BaseInv
  <1>1. /\ cmd[c].phase # "proposed" /\ \A d \in Cmd \ {c} : cmd'[d] = cmd[d]
        /\ cmd'[c].inMap = cmd[c].inMap /\ cmd'[c].mli = cmd[c].mli
        /\ cmd'[c].applied = cmd[c].applied /\ cmd'[c].told = cmd[c].told
        /\ UNCHANGED <<net, raft, bounds>>
    BY <1>0, EvaluationFacts
  <1>2. Unrejected(c)
    <2>1. cmd[c].told = "nothing"
      BY <1>0, <1>1 DEF CmdsOK, CmdOK
    <2> QED BY <1>1, <2>1 DEF Unrejected
  <1>3. \A d \in Cmd : Unrejected(d)
    BY <1>1, <1>2, UntouchedIsUnrejected
  <1> QED BY <1>1, <1>3, RejectStill

LEMMA FlushReject ==
    ASSUME RejectInv, OnceInv', NEW c \in Cmd,
           (\E target \in Ts0 : FlushNew(c, target)) \/ FlushReproposal(c) \/ FlushAfterError(c)
    PROVE RejectInv'
  <1>0. BaseInv
    BY DEF RejectInv, OnceInv
  <1>1. CASE \E target \in Ts0 : FlushNew(c, target)
    <2>1. /\ cmd[c].trk # 0 /\ Constant(c)
          /\ cmd'[c].applied = cmd[c].applied /\ cmd'[c].told = cmd[c].told
          /\ \A d \in Cmd \ {c} : cmd'[d] = cmd[d]
          /\ \E e \in Entry : net' = net \cup {e}
          /\ UNCHANGED raft
      BY <1>0, <1>1, FlushNewFacts, Zenon
    <2>2. Unrejected(c)
      BY <2>1 DEF Unrejected, Constant
    <2>3. \A d \in Cmd : Unrejected(d)
      BY <2>1, <2>2, UntouchedIsUnrejected
    <2> QED BY <2>1, <2>3, RejectStill
  <1>2. CASE FlushReproposal(c) \/ FlushAfterError(c)
    <2>1. /\ Constant(c) /\ cmd'[c].mli = cmd[c].mli /\ cmd'[c].trk = 0
          /\ cmd'[c].applied = cmd[c].applied /\ cmd'[c].told = cmd[c].told
          /\ \A d \in Cmd \ {c} : cmd'[d] = cmd[d]
          /\ UNCHANGED raft
      BY <1>0, <1>2, FlushReproposalFacts, Zenon
    <2>2. net \subseteq net'
      BY <1>2 DEF FlushReproposal, FlushAfterError
    <2>3. Unrejected(c)
      BY <2>1 DEF Unrejected, Constant
    <2>4. \A d \in Cmd : Unrejected(d)
      BY <2>1, <2>3, UntouchedIsUnrejected
    <2> QED BY <2>1, <2>2, <2>4, RejectStill
  <1> QED BY <1>1, <1>2

LEMMA RefreshReject ==
    ASSUME RejectInv, OnceInv', NEW r \in Replica, Refresh(r) PROVE RejectInv'
  <1>0. TypeOK
    BY DEF RejectInv, OnceInv, BaseInv
  <1>1. cmd' = Refreshed(Pending(r)) /\ UNCHANGED <<net, raft, inst>>
    BY DEF Refresh
  <1>2. ASSUME NEW c \in Cmd PROVE Unrejected(c)
    <2>1. /\ Constant(c) /\ cmd'[c].trk = cmd[c].trk /\ cmd'[c].mli = cmd[c].mli
          /\ cmd'[c].inMap = cmd[c].inMap /\ cmd'[c].applied = cmd[c].applied
          /\ cmd'[c].told = cmd[c].told /\ (c \notin Pending(r) => cmd'[c] = cmd[c])
      BY <1>0, <1>1, RefreshedFacts
    <2> QED BY <2>1 DEF Unrejected, Constant
  <1> QED BY <1>1, <1>2, RejectStill

LEMMA DecodeReject ==
    ASSUME RejectInv, OnceInv', NEW r \in Replica, NEW n, Decode(r, n) PROVE RejectInv'
  <1>0. BaseInv
    BY DEF RejectInv, OnceInv
  <1>1. UNCHANGED <<net, raft, inst>>
    BY Zenon DEF Decode, bounds
  <1>2. ASSUME NEW c \in Cmd PROVE Unrejected(c)
    <2>1. /\ Constant(c) /\ cmd'[c].trk = cmd[c].trk /\ cmd'[c].mli = cmd[c].mli
          /\ cmd'[c].buf = cmd[c].buf /\ cmd'[c].applied = cmd[c].applied
          /\ cmd'[c].inMap => cmd[c].inMap
          /\ cmd'[c].told = "ok" \/ cmd'[c].told = cmd[c].told
      BY <1>0, DecodeFacts, Zenon
    <2> QED BY <2>1 DEF Unrejected, Constant
  <1> QED BY <1>1, <1>2, RejectStill

LEMMA IdleReject ==
    ASSUME RejectInv, OnceInv', UNCHANGED <<raft, cmd>>, net \subseteq net' PROVE RejectInv'
  <1>1. \A c \in Cmd : Unrejected(c)
    BY UntouchedIsUnrejected
  <1> QED BY <1>1, RejectStill

LEMMA SnapshotReject ==
    ASSUME RejectInv, OnceInv', NEW r \in Replica, NEW s \in Replica, ApplySnapshot(r, s)
    PROVE RejectInv'
  <1>0. BaseInv /\ ~ inst.leaderChange
    BY DEF RejectInv, OnceInv
  <1>1. UNCHANGED <<net, raft, inst>>
    BY DEF ApplySnapshot
  <1>2. ASSUME NEW c \in Cmd PROVE Unrejected(c)
    <2>1. /\ Constant(c) /\ cmd'[c].trk = cmd[c].trk /\ cmd'[c].mli = cmd[c].mli
          /\ cmd'[c].applied = cmd[c].applied /\ cmd'[c].buf = cmd[c].buf
          /\ cmd'[c].inMap => cmd[c].inMap
          /\ cmd'[c].told = "ambiguous" \/ cmd'[c].told = cmd[c].told
      BY <1>0, SnapshotFacts
    <2> QED BY <2>1 DEF Unrejected, Constant
  <1> QED BY <1>1, <1>2, RejectStill

LEMMA RestartReject ==
    ASSUME RejectInv, OnceInv', NEW r \in Replica, Restart(r) PROVE RejectInv'
  <1>0. BaseInv
    BY DEF RejectInv, OnceInv
  <1>1. UNCHANGED <<net, raft, inst>>
    BY Zenon DEF Restart
  <1>2. ASSUME NEW c \in Cmd PROVE Unrejected(c)
    <2>1. CASE c \notin Mine(r)
      BY <1>0, <2>1, RestartFacts, UntouchedIsUnrejected, Zenon
    <2>2. CASE c \in Mine(r)
      <3>1. /\ cmd'[c].seq = cmd[c].seq /\ cmd'[c].mli = cmd[c].mli
            /\ cmd'[c].trk = 0 /\ cmd'[c].buf = 0 /\ cmd'[c].inMap = FALSE
            /\ cmd'[c].applied = TRUE /\ cmd'[c].told = Answer(cmd[c].told, "ambiguous")
        BY <1>0, <2>2, RestartFacts, Zenon
      <3>2. cmd'[c].told = "ambiguous" \/ cmd'[c].told = cmd[c].told
        BY <3>1 DEF Answer
      <3> QED BY <3>1, <3>2 DEF Unrejected
    <2> QED BY <2>1, <2>2
  <1> QED BY <1>1, <1>2, RejectStill

\* What is over has no effect when it comes.
LEMMA AppendReject ==
    ASSUME RejectInv, OnceInv', NEW e \in net, AppendEntry(e) PROVE RejectInv'
  <1>0. OnceInv /\ \A c \in Cmd : RejectedOK(c)
    BY RejectParts
  <1>1. BaseInv /\ \A c \in Cmd : CommandOnce(c)
    BY <1>0, OnceParts
  <1>2. PICK k \in Nat :
          /\ k = Len(log) /\ Len(log') = k + 1
          /\ e \in Entry /\ EntryOK(e)
          /\ log'[k + 1] = e
          /\ \A i \in 1 .. k : log'[i] = log[i] /\ Effective(i)' = Effective(i)
          /\ LastState' = ApplyEntry(LastState, e)
          /\ VerdictAt(k + 1)' = Verdict(LastState, e)
          /\ net' = net \ {e}
          /\ UNCHANGED <<ap, batch, proposer, leases, transport, bounds>>
    BY <1>1, AppendFacts
  <1>3. cmd' = cmd
    BY <1>2 DEF proposer
  <1>4. LastState \in AppliedState /\ LastState.lai \in Nat /\ LastState.lease.seq \in Nat
        /\ LastState'.lai >= LastState.lai /\ LastState'.lease.seq >= LastState.lease.seq
        /\ LastState'.lai \in Nat /\ LastState'.lease.seq \in Nat
    <2>1. 0 \in 0 .. Len(log)
      BY <1>2
    <2>2. LastState \in AppliedState /\ LastState.lai \in Nat /\ LastState.lease.seq \in Nat
      BY <1>1, <2>1, NotAfterLast
    <2>3. LastState'.lai >= LastState.lai /\ LastState'.lease.seq >= LastState.lease.seq
          /\ LastState' \in AppliedState
      BY <1>2, <2>2, ApplyEntryFacts DEF EntryOK
    <2>4. LastState'.lai \in Nat /\ LastState'.lease.seq \in Nat
      BY <2>3 DEF AppliedState, LeaseRecord
    <2> QED BY <2>2, <2>3, <2>4
  <1>5. ASSUME NEW c \in Cmd, Unindexed(c) PROVE Unindexed(c)'
    <2>1. CASE \E i \in 1 .. k : log[i].kind = "write" /\ log[i].id = c /\ log[i].mli = 0
      BY <1>2, <2>1 DEF Unindexed
    <2>2. CASE e.kind = "write" /\ e.id = c /\ e.mli = 0
      BY <1>2, <2>2 DEF Unindexed
    <2> QED BY <1>2, <1>5, <2>1, <2>2 DEF Unindexed
  <1>6. ASSUME NEW c \in Cmd PROVE RejectedOK(c)'
    <2>2. ASSUME cmd[c].told = "rejected", ~ Unindexed(c) PROVE Over(c)' /\ Ineffective(c)'
      <3>0. Over(c) /\ Ineffective(c) /\ cmd[c].seq \in Nat /\ cmd[c].mli \in Nat
        BY <1>0, <1>1, <2>2, CmdType DEF RejectedOK, BaseInv
      <3>1. Over(c)'
        BY <1>3, <1>4, <3>0 DEF Over
      <3>2. ASSUME Of(e, c) PROVE ~ Effective(k + 1)'
        <4>1. e.kind = "write" /\ e.seq = cmd[c].seq /\ e.mli \in Nat
          BY <1>2, <3>2 DEF Of, Entry, EntryOK
        <4>2. Dead(e)
          <5>1. CASE cmd[c].seq < LastState.lease.seq
            BY <4>1, <5>1 DEF Dead
          <5>2. CASE cmd[c].trk = 0 /\ cmd[c].mli <= LastState.lai
            <6>1. CASE e.mli = cmd[c].mli
              BY <5>2, <6>1 DEF Dead
            <6>2. CASE e.mli # cmd[c].mli
              BY <1>1, <3>2, <6>2 DEF CommandOnce, CopiesOK, Outdated
            <6> QED BY <6>1, <6>2
          <5> QED BY <3>0, <5>1, <5>2 DEF Over
        <4>3. Verdict(LastState, e) # "ok"
          BY <1>4, <3>0, <4>1, <4>2 DEF Verdict, LeaseMismatch, StaleIndex, Dead
        <4> QED BY <1>2, <4>3 DEF Effective
      <3>3. Ineffective(c)'
        <4>1. ASSUME NEW i \in 1 .. k + 1, Of(log'[i], c) PROVE ~ Effective(i)'
          <5>1. CASE i \in 1 .. k
            BY <1>2, <3>0, <4>1, <5>1 DEF Ineffective
          <5>2. CASE i = k + 1
            BY <1>2, <3>2, <4>1, <5>2
          <5> QED BY <5>1, <5>2
        <4> QED BY <1>2, <4>1 DEF Ineffective, Of
      <3> QED BY <3>1, <3>3
    <2> QED BY <1>3, <1>5, <2>2 DEF RejectedOK
  <1> QED BY <1>6, RejectParts

\* A rejected entry, and with it its command, is over: its lease is, or its index, which
\* no other copy shares, is used up.
LEMMA SideEffectsReject ==
    ASSUME RejectInv, OnceInv', NEW r \in Replica, SideEffects(r) PROVE RejectInv'
  <1>0. OnceInv /\ \A c \in Cmd : RejectedOK(c)
    BY RejectParts
  <1>1. BaseInv /\ TypeOK /\ CmdsOK /\ EntriesOK /\ \A c \in Cmd : CommandOnce(c)
    BY <1>0, OnceParts DEF BaseInv
  <1>2. PICK i \in 1 .. Len(log) :
          /\ i = batch[r].fx + 1 /\ Fx(r) = batch[r].fx
          /\ i \in batch[r].bound => log[i].id \in Cmd /\ cmd[log[i].id].phase = "proposed"
                                     /\ cmd[log[i].id].home = r /\ log[i].kind = "write"
          /\ \/ LeftStep(r, i)
             \/ /\ i \in batch[r].bound /\ \A d \in Cmd \ {log[i].id} : cmd'[d] = cmd[d]
                /\ \/ \E a \in {"ok", "rejected"} : FinishedStep(i, log[i].id, a)
                   \/ ReproposedStep(i, log[i].id)
          /\ UNCHANGED <<net, raft, ap, minVer, ver, transport, bounds>>
    BY <1>1, SideEffectsFacts, Zenon
  <1>3. UNCHANGED raft /\ net' = net
    BY <1>2
  <1>5. ASSUME NEW c \in Cmd PROVE RejectedOK(c)'
    <2>0. RejectedOK(c) /\ CmdOK(c)
      BY <1>0, <1>1 DEF CmdsOK
    <2>1. CASE Unrejected(c)
      BY <1>1, <1>3, <2>0, <2>1, RejectKept
    <2>2. CASE cmd'[c] = cmd[c]
      BY <2>1, <2>2, UntouchedIsUnrejected
    <2>3. CASE ReproposedStep(i, c)
      <3>1. Unrejected(c)
        BY <2>3 DEF ReproposedStep, Unrejected, Constant, Superseded
      <3> QED BY <2>1, <3>1
    <2>4. ASSUME NEW a \in {"ok", "rejected"}, FinishedStep(i, c, a),
                 c = log[i].id, i \in batch[r].bound
          PROVE RejectedOK(c)'
      <3>1. /\ Constant(c) /\ cmd'[c].applied = TRUE /\ cmd'[c].told = Answer(cmd[c].told, a)
            /\ cmd'[c].trk = cmd[c].trk /\ cmd'[c].mli = cmd[c].mli /\ cmd'[c].buf = cmd[c].buf
            /\ cmd'[c].inMap => cmd[c].inMap
        BY <2>4 DEF FinishedStep
      <3>2. CASE cmd[c].told # "nothing" \/ a = "ok"
        <4>1. cmd'[c].told = "rejected" => cmd[c].told = "rejected"
          BY <3>1, <3>2 DEF Answer
        <4>2. Unrejected(c)
          BY <3>1, <4>1 DEF Unrejected, Constant
        <4> QED BY <2>1, <4>2
      <3>3. CASE cmd[c].told = "nothing" /\ a = "rejected"
        <4>1. ~ cmd[c].applied /\ cmd[c].phase = "proposed" /\ cmd[c].home = r /\ log[i].kind = "write"
          BY <1>2, <2>0, <2>4, <3>3 DEF CmdOK
        <4>2. batch[r].fx \in Nat
          BY <1>1, ReplicaType
        <4>3. Live(c) /\ Fx(cmd[c].home) = i - 1
          BY <1>2, <2>4, <4>1, <4>2 DEF Live
        <4>4. \A j \in 1 .. i - 1 : Of(log[j], c) => ~ Effective(j)
          BY <1>1, <4>1, <4>3 DEF CommandOnce, UnappliedOK
        <4>5. log[i].seq = cmd[c].seq /\ i - 1 \in 0 .. Len(log) /\ log[i].mli \in Nat /\ cmd[c].seq \in Nat
          <5>1. EntryOK(log[i])
            BY <1>1 DEF EntriesOK
          <5> QED BY <1>1, <2>4, <4>1, <5>1, EffectFacts DEF EntryOK
        <4>6. VerdictAt(i) \in {"mismatch", "stale"}
          <5>1. VerdictAt(i) # "ok"
            BY <2>4, <3>3 DEF FinishedStep
          <5> QED BY <5>1 DEF VerdictAt, Verdict
        <4>7. Len(log) \in Nat
          BY <1>1 DEF TypeOK
        <4>8. CASE VerdictAt(i) = "mismatch"
          <5>1. cmd[c].seq < StateAt(i - 1).lease.seq
            <6>1. cmd[c].seq # StateAt(i - 1).lease.seq
              BY <1>1, <4>1, <4>5, <4>8, EffectFacts
            <6>2. cmd[c].seq <= StateAt(i - 1).lease.seq
              BY <2>0, <4>1, <4>3 DEF CmdOK
            <6>3. StateAt(i - 1).lease.seq \in Nat
              BY <1>1, <4>5, StateType
            <6> QED BY <4>5, <6>1, <6>2, <6>3
          <5>2. cmd[c].seq < LastState.lease.seq
            <6>1. StateAt(i - 1).lease.seq <= LastState.lease.seq /\ LastState.lease.seq \in Nat
              BY <1>1, <4>5, NotAfterLast
            <6>2. StateAt(i - 1).lease.seq \in Nat
              BY <1>1, <4>5, StateType
            <6> QED BY <4>5, <5>1, <6>1, <6>2
          <5>3. ASSUME NEW j \in i .. Len(log), Of(log[j], c), Effective(j) PROVE FALSE
            <6>1. j \in 1 .. Len(log) /\ j - 1 \in 0 .. Len(log) /\ i - 1 <= j - 1
              BY <4>7
            <6>2. log[j].kind = "write" /\ log[j].id = c /\ EntryOK(log[j])
              BY <1>1, <5>3, <6>1 DEF Of, EntriesOK
            <6>3. log[j].seq = cmd[c].seq /\ log[j].seq = StateAt(j - 1).lease.seq
              BY <1>1, <5>3, <6>1, <6>2, EffectFacts DEF EntryOK
            <6>4. StateAt(i - 1).lease.seq <= StateAt(j - 1).lease.seq
                  /\ StateAt(i - 1).lease.seq \in Nat /\ StateAt(j - 1).lease.seq \in Nat
              BY <1>1, <4>5, <6>1, Ordered, Zenon
            <6> QED BY <5>1, <6>3, <6>4
          <5>4. Over(c)' /\ Ineffective(c)'
            <6>1. Over(c)'
              BY <1>3, <3>1, <5>2, SameLog DEF Over, Constant
            <6>2. Ineffective(c)
              <7>1. \A j \in 1 .. Len(log) : j \in 1 .. i - 1 \/ j \in i .. Len(log)
                BY <4>7
              <7> QED BY <4>4, <5>3, <7>1 DEF Ineffective
            <6> QED BY <1>3, <6>1, <6>2, SameLog DEF Ineffective, Of
          <5> QED BY <5>4 DEF RejectedOK
        <4>9. CASE VerdictAt(i) = "stale" /\ ~ Unindexed(c)
          <5>1. log[i].mli = cmd[c].mli
            BY <2>4, <4>9 DEF FinishedStep, Superseded
          <5>2. cmd[c].trk = 0
            BY <1>2, <2>0, <2>4, <4>1, <4>9, <5>1 DEF Unindexed, CmdOK
          <5>3. cmd[c].mli \in Nat /\ cmd[c].mli <= StateAt(i - 1).lai
            BY <1>1, <4>1, <4>9, <5>1, EffectFacts
          <5>4. /\ cmd[c].mli <= LastState.lai
                /\ \A j \in i .. Len(log) : log[j].kind = "write" /\ log[j].mli = cmd[c].mli => ~ Effective(j)
            BY <1>1, <5>3, PassedIsDead
          <5>5. Ineffective(c)
            <6> SUFFICES ASSUME NEW j \in 1 .. Len(log), Of(log[j], c), Effective(j) PROVE FALSE
              BY DEF Ineffective
            <6>1. log[j].mli = cmd[c].mli
              BY <1>1 DEF CommandOnce, CopiesOK, Outdated
            <6>2. j \in 1 .. i - 1 \/ j \in i .. Len(log)
              BY <4>7
            <6> QED BY <4>4, <5>4, <6>1, <6>2 DEF Of
          <5>6. Over(c)' /\ Ineffective(c)'
            <6>1. Over(c)'
              BY <1>3, <3>1, <5>2, <5>4, SameLog DEF Over
            <6> QED BY <1>3, <5>5, <6>1, SameLog DEF Ineffective, Of
          <5> QED BY <5>6 DEF RejectedOK
        <4>10. CASE Unindexed(c)
          BY <1>3, <4>10, StaysUnindexed DEF RejectedOK
        <4> QED BY <4>6, <4>8, <4>9, <4>10
      <3> QED BY <2>4, <3>2, <3>3
    <2> QED BY <1>2, <2>2, <2>3, <2>4 DEF LeftStep
  <1> QED BY <1>5, RejectParts

LEMMA RejectStep == RejectInv /\ [Next]_vars => RejectInv'
  <1> SUFFICES ASSUME RejectInv, [Next]_vars PROVE RejectInv'
    OBVIOUS
  <1>1. OnceInv'
    BY OnceStep DEF RejectInv
  <1>2. CASE UNCHANGED vars
    BY <1>1, <1>2, IdleReject DEF vars, proposer, bounds
  <1>3. ASSUME NEW r \in Replica, NEW x, BumpSideTransportClosed(r, x) \/ GetClosedTimestamp(r, x)
        PROVE RejectInv'
    BY <1>1, <1>3, IdleReject, Zenon DEF BumpSideTransportClosed, GetClosedTimestamp, proposer, bounds
  <1>4. ASSUME NEW r \in Replica, NEW n, ApplyBatch(r, n) PROVE RejectInv'
    BY <1>1, <1>4, IdleReject DEF ApplyBatch, proposer, bounds
  <1>5. ASSUME NEW r \in Replica, RequestLease(r) \/ \E q \in Replica : TransferLease(r, q)
        PROVE RejectInv'
    <2>1. \E f \in Entry : net' = net \cup {f}
      BY <1>5, RequestLeaseFacts, TransferLeaseFacts DEF RejectInv, OnceInv
    <2>2. UNCHANGED <<raft, cmd>>
      BY <1>5 DEF RequestLease, TransferLease, proposer
    <2> QED BY <1>1, <2>1, <2>2, IdleReject
  <1>6. CASE Next
    BY <1>1, <1>3, <1>4, <1>5, <1>6, EvaluationReject, FlushReject, AppendReject, RefreshReject,
       DecodeReject, SideEffectsReject, SnapshotReject, RestartReject DEF Next
  <1> QED BY <1>2, <1>6

LEMMA InitReject == Init /\ ~ inst.leaderChange => RejectInv
  <1> SUFFICES ASSUME Init, ~ inst.leaderChange PROVE RejectInv
    OBVIOUS
  <1>1. OnceInv /\ cmd = [c \in Cmd |-> NewCmd]
    BY InitOnce DEF Init
  <1>2. \A c \in Cmd : RejectedOK(c)
    BY <1>1 DEF NewCmd, RejectedOK
  <1> QED BY <1>1, <1>2, RejectParts

\* A write that was answered with an error that is not ambiguous has not taken effect
\* and never will, whatever Raft refuses, unless a copy of it was proposed without an
\* index, and as long as no snapshot comes in one Ready with a new leader.
THEOREM RejectedWritesHaveNoEffect ==
    Spec /\ ~ inst.leaderChange => []RejectedUnlessUnindexed
  <1>1. RejectInv => RejectedUnlessUnindexed
    BY DEF RejectInv
  <1> QED BY <1>1, InitReject, RejectStep, PTL DEF Spec

-----------------------------------------------------------------------------
(* The leases of the log and of the requests for them.                     *)

LEMMA LeaseAtType ==
    ASSUME TypeOK, NEW n \in Idx
    PROVE /\ LeaseAt(n) \in LeaseRecord /\ LeaseAt(n).holder \in Replica /\ LeaseAt(n).seq \in Nat
          /\ LeaseAt(n).ver \in Nat /\ LeaseAt(n).start \in Nat /\ LeaseAt(n).exp \in Nat
          /\ LeaseAt(n).sum \in Nat
  BY StateType DEF LeaseAt, Idx

LEMMA LeaseOfIs ==
    ASSUME BaseInv, NEW r \in Replica
    PROVE Fx(r) \in Idx /\ LeaseOf(r) = LeaseAt(Fx(r)) /\ ap[r] \in Idx /\ Fx(r) <= ap[r]
  BY FxType DEF BaseInv, LeaseAt, Idx

LEMMA LeaseEntryFields ==
    ASSUME NEW e \in Entry
    PROVE /\ e.seq \in Nat /\ e.prev \in Nat /\ e.mli \in Nat /\ e.ct \in Nat /\ e.wts \in Nat
          /\ e.lease \in LeaseRecord /\ e.lease.holder \in Replica /\ e.lease.seq \in Nat
          /\ e.lease.ver \in Nat /\ e.lease.start \in Nat /\ e.lease.exp \in Nat /\ e.lease.sum \in Nat
          /\ e.kind \in {"write", "request", "transfer"}
  BY DEF Entry, LeaseRecord

\* Steps that leave the log alone.  A holder gives up all leases so far or none.
Steady ==
    /\ UNCHANGED raft /\ ver' \in Nat /\ ver <= ver'
    /\ minVer' \in [Replica -> Nat]
    /\ \A r \in Replica : minVer'[r] = minVer[r] \/ minVer'[r] = ver + 1
    /\ \A r \in Replica : Fx(r)' \in Fx(r) .. Len(log)

LEMMA SteadyLog ==
    ASSUME Steady
    PROVE Idx' = Idx /\ \A n : LeaseAt(n)' = LeaseAt(n) /\ StateAt(n)' = StateAt(n)
  BY DEF Steady, raft, Idx, LeaseAt, StateAt

LEMMA SteadyLeaseOf ==
    ASSUME BaseInv, BaseInv', Steady, NEW r \in Replica
    PROVE /\ LeaseOf(r)' = LeaseAt(Fx(r)') /\ Fx(r)' \in Idx /\ Fx(r) <= Fx(r)'
          /\ LeaseOf(r).seq <= LeaseOf(r)'.seq /\ LeaseOf(r)'.seq \in Nat
  <1>1. LeaseOf(r)' = StateAt(Fx(r)').lease /\ Fx(r)' \in Idx
    BY SteadyLog, FxType DEF BaseInv, LeaseOf, Fx, raft, StateAt, Steady, Idx
  <1>2. Fx(r) \in Idx /\ Fx(r)' \in Fx(r) .. Len(log) /\ LeaseOf(r) = LeaseAt(Fx(r))
    BY LeaseOfIs DEF Steady
  <1>3. Fx(r) <= Fx(r)' /\ Fx(r) \in 0 .. Len(log) /\ Fx(r)' \in 0 .. Len(log)
    BY <1>1, <1>2 DEF Idx
  <1>4. StateAt(Fx(r)).lease.seq <= StateAt(Fx(r)').lease.seq /\ StateAt(Fx(r)').lease.seq \in Nat
    BY <1>3, Ordered
  <1> QED BY <1>1, <1>2, <1>3, <1>4 DEF LeaseAt

LEMMA LeasesSteady ==
    ASSUME BaseInv, LeasesOK, Steady
    PROVE LeasesOK'
  <1>0. TypeOK /\ Idx' = Idx /\ (\A n : LeaseAt(n)' = LeaseAt(n)) /\ ver \in Nat
    BY SteadyLog, Zenon DEF BaseInv, TypeOK
  <1>1. \A n \in Idx : LeaseAt(n).ver \in Nat /\ LeaseAt(n).holder \in Replica /\ LeaseAt(n).ver <= ver
    BY <1>0, LeaseAtType DEF LeasesOK
  <1>2. \A r \in Replica : /\ minVer[r] \in Nat /\ minVer'[r] \in Nat
                           /\ minVer'[r] = minVer[r] \/ minVer'[r] = ver + 1
    BY <1>0 DEF TypeOK, Steady
  <1>3. \A r \in Replica : minVer'[r] <= ver' + 1
    BY <1>0, <1>2 DEF LeasesOK, Steady
  <1>4. \A n \in Idx : /\ LeaseAt(n).start < LeaseAt(n).exp
                       /\ LeaseAt(n).start <= LeaseAt(n).sum /\ LeaseAt(n).ver <= ver'
    BY <1>0, <1>1 DEF LeasesOK, Steady
  <1>5. ASSUME NEW m \in Idx, NEW n \in Idx, m <= n
        PROVE /\ LeaseAt(m).ver <= LeaseAt(n).ver
              /\ LeaseAt(m).ver = LeaseAt(n).ver => LeaseAt(m) = LeaseAt(n)
              /\ LeaseAt(m).seq = LeaseAt(n).seq =>
                    /\ SameTerm(LeaseAt(m), LeaseAt(n)) /\ LeaseAt(m).exp <= LeaseAt(n).exp
                    /\ minVer'[LeaseAt(n).holder] <= LeaseAt(n).ver
                          => minVer'[LeaseAt(n).holder] <= LeaseAt(m).ver
              /\ LeaseAt(m).seq < LeaseAt(n).seq =>
                    /\ LeaseAt(m).start < LeaseAt(n).start
                    /\ \/ LeaseAt(m).exp <= LeaseAt(n).start
                       \/ LeaseAt(m).ver < minVer'[LeaseAt(m).holder]
    <2>1. /\ LeaseAt(m).ver <= LeaseAt(n).ver
          /\ LeaseAt(m).ver = LeaseAt(n).ver => LeaseAt(m) = LeaseAt(n)
          /\ LeaseAt(m).seq = LeaseAt(n).seq =>
                /\ SameTerm(LeaseAt(m), LeaseAt(n)) /\ LeaseAt(m).exp <= LeaseAt(n).exp
                /\ minVer[LeaseAt(n).holder] <= LeaseAt(n).ver
                      => minVer[LeaseAt(n).holder] <= LeaseAt(m).ver
          /\ LeaseAt(m).seq < LeaseAt(n).seq =>
                /\ LeaseAt(m).start < LeaseAt(n).start
                /\ \/ LeaseAt(m).exp <= LeaseAt(n).start
                   \/ LeaseAt(m).ver < minVer[LeaseAt(m).holder]
      BY <1>5 DEF LeasesOK
    <2>2. minVer'[LeaseAt(n).holder] <= LeaseAt(n).ver
             => minVer'[LeaseAt(n).holder] = minVer[LeaseAt(n).holder]
      BY <1>0, <1>1, <1>2
    <2>3. LeaseAt(m).ver < minVer[LeaseAt(m).holder] => LeaseAt(m).ver < minVer'[LeaseAt(m).holder]
      BY <1>0, <1>1, <1>2
    <2> QED BY <2>1, <2>2, <2>3
  <1> QED BY <1>0, <1>3, <1>4, <1>5 DEF LeasesOK, SameTerm

LEMMA UnderSteady ==
    ASSUME BaseInv, BaseInv', Steady, NEW e \in Entry, NEW n \in Idx, ProposedUnder(e, LeaseAt(n))
    PROVE ProposedUnder(e, LeaseAt(n))'
  <1> DEFINE l == LeaseAt(n)
  <1>0. TypeOK /\ l' = l /\ ver \in Nat /\ ver' \in Nat /\ ver <= ver'
    BY SteadyLog, Zenon DEF BaseInv, TypeOK, Steady
  <1>1. l.ver \in Nat /\ l.holder \in Replica /\ l.seq \in Nat /\ e.lease.ver \in Nat
    BY <1>0, LeaseAtType, LeaseEntryFields
  <1>2. /\ minVer[l.holder] \in Nat /\ minVer'[l.holder] \in Nat
        /\ minVer'[l.holder] = minVer[l.holder] \/ minVer'[l.holder] = ver + 1
    BY <1>0, <1>1 DEF TypeOK, Steady
  <1>3. LeaseOf(l.holder).seq \in Nat /\ LeaseOf(l.holder)'.seq \in Nat
        /\ LeaseOf(l.holder).seq <= LeaseOf(l.holder)'.seq
    BY <1>0, <1>1, SteadyLeaseOf, LeaseType DEF BaseInv
  <1> HIDE DEF l
  <1>4. e.lease.ver <= ver /\ l.ver < e.lease.ver
    BY DEF ProposedUnder, l
  <1>5. e.lease.ver <= ver'
    BY <1>0, <1>1, <1>4
  <1>6. Extends(e, l) => Extends(e, l)'
    BY <1>0, <1>1, <1>2, <1>4 DEF Extends, SameTerm
  <1>7. TakesOver(e, l) => TakesOver(e, l)'
    BY <1>0 DEF TakesOver
  <1>8. Renews(e, l) => Renews(e, l)'
    BY <1>0, <1>1, <1>2, <1>3, <1>4 DEF Renews
  <1>9. Transfers(e, l) => Transfers(e, l)'
    BY <1>0, <1>1, <1>2, <1>3, <1>4 DEF Transfers
  <1>10. ProposedUnder(e, l)
    BY DEF l
  <1>11. ProposedUnder(e, l)'
    BY <1>0, <1>5, <1>6, <1>7, <1>8, <1>9, <1>10 DEF ProposedUnder
  <1> QED BY <1>11 DEF l

\* Every step but an append is steady.
LEMMA StepSteady ==
    ASSUME BaseInv, BaseInv', Next
    PROVE Steady \/ \E e \in net : AppendEntry(e)
  <1>0. /\ ver \in Nat /\ ver' \in Nat /\ minVer \in [Replica -> Nat] /\ minVer' \in [Replica -> Nat]
        /\ \A r \in Replica : Fx(r) \in 0 .. Len(log)
    BY FxType, Zenon DEF BaseInv, TypeOK
  <1>1. \A r \in Replica : Fx(r) \in Fx(r) .. Len(log)
    BY <1>0
  <1>2. ASSUME UNCHANGED <<raft, ap, batch, minVer>>, ver' \in {ver, ver + 1} PROVE Steady
    <2>1. \A r \in Replica : Fx(r)' = Fx(r)
      BY <1>2 DEF Fx
    <2> QED BY <1>0, <1>1, <1>2, <2>1 DEF Steady
  <1>3. ASSUME NEW c \in Cmd, NEW x,
               Admit(x, c) \/ Track(c, x) \/ FlushNew(c, x) \/ FlushReproposal(c) \/ FlushAfterError(c)
        PROVE Steady
    BY <1>2, <1>3, Zenon DEF Admit, Track, FlushNew, FlushReproposal, FlushAfterError, leases
  <1>4. ASSUME NEW r \in Replica, NEW x, BumpSideTransportClosed(r, x) \/ GetClosedTimestamp(r, x)
        PROVE Steady
    BY <1>2, <1>4, Zenon DEF BumpSideTransportClosed, GetClosedTimestamp, leases
  <1>5. ASSUME NEW r \in Replica, Refresh(r) \/ RequestLease(r) PROVE Steady
    BY <1>2, <1>5, RequestLeaseFacts DEF Refresh, leases
  <1>6. ASSUME NEW r \in Replica, NEW q \in Replica, TransferLease(r, q) PROVE Steady
    <2>1. /\ ver' = ver + 1 /\ minVer' = [minVer EXCEPT ![r] = ver + 1]
          /\ UNCHANGED <<raft, ap, batch>>
      BY <1>6, TransferLeaseFacts
    <2>2. \A p \in Replica : Fx(p)' = Fx(p)
      BY <2>1 DEF Fx
    <2> QED BY <1>0, <1>1, <2>1, <2>2 DEF Steady
  <1>7. ASSUME NEW r \in Replica, NEW n, Decode(r, n) PROVE Steady
    <2>1. UNCHANGED <<raft, leases>> /\ \A q \in Replica : Fx(q)' = Fx(q)
      BY <1>7, DecodeFacts
    <2> QED BY <1>0, <1>1, <2>1 DEF Steady, leases
  <1>8. ASSUME NEW r \in Replica, NEW n, ApplyBatch(r, n) PROVE Steady
    <2>1. batch[r] # Idle /\ ap' = [ap EXCEPT ![r] = n] /\ UNCHANGED <<raft, batch, leases>>
      BY <1>8 DEF ApplyBatch
    <2>2. ap \in [Replica -> Nat]
      BY DEF BaseInv, TypeOK
    <2>3. \A q \in Replica : Fx(q)' = Fx(q)
      BY <2>1, <2>2 DEF Fx
    <2> QED BY <1>0, <1>1, <2>1, <2>3 DEF Steady, leases
  <1>9. ASSUME NEW r \in Replica, SideEffects(r) PROVE Steady
    <2>1. PICK i \in 1 .. Len(log) :
            /\ i = batch[r].fx + 1 /\ Fx(r) = batch[r].fx /\ Fx(r)' = i
            /\ \A q \in Replica \ {r} : batch'[q] = batch[q] /\ Fx(q)' = Fx(q)
            /\ UNCHANGED <<net, raft, ap, minVer, ver, transport, bounds>>
      BY <1>9, SideEffectsFacts
    <2>2. Fx(r)' \in Fx(r) .. Len(log)
      BY <1>0, <2>1
    <2> QED BY <1>0, <1>1, <2>1, <2>2 DEF Steady
  <1>10. ASSUME NEW r \in Replica, NEW q \in Replica, ApplySnapshot(r, q) PROVE Steady
    BY <1>0, <1>10, SnapshotFacts DEF Steady
  <1>11. ASSUME NEW r \in Replica, Restart(r) PROVE Steady
    <2>1. minVer' = [minVer EXCEPT ![r] = ver + 1] /\ UNCHANGED <<raft, ver>>
          /\ \A p \in Replica : Fx(p)' \in Fx(p) .. Len(log)
      BY <1>11, RestartFacts, Zenon DEF Restart
    <2> QED BY <1>0, <2>1 DEF Steady
  <1> QED BY <1>3, <1>4, <1>5, <1>6, <1>7, <1>8, <1>9, <1>10, <1>11 DEF Next

LEMMA RenewalsSteady ==
    ASSUME BaseInv, BaseInv', RenewalsKnown, Steady
    PROVE RenewalsKnown'
  <1>0. Idx' = Idx /\ (\A n : LeaseAt(n)' = LeaseAt(n)) /\ TypeOK
    BY SteadyLog DEF BaseInv
  <1> SUFFICES ASSUME NEW n \in Idx, Renewed(n)'
               PROVE LeaseAt(n).seq <= LeaseOf(LeaseAt(n).holder)'.seq + 1
    BY <1>0 DEF RenewalsKnown
  <1>1. LeaseAt(n).holder \in Replica /\ LeaseAt(n).seq \in Nat
    BY <1>0, LeaseAtType
  <1>2. Renewed(n)
    BY <1>0 DEF Renewed
  <1>3. LeaseAt(n).seq <= LeaseOf(LeaseAt(n).holder).seq + 1
    BY <1>2 DEF RenewalsKnown
  <1>4. /\ LeaseOf(LeaseAt(n).holder).seq <= LeaseOf(LeaseAt(n).holder)'.seq
        /\ LeaseOf(LeaseAt(n).holder)'.seq \in Nat /\ LeaseOf(LeaseAt(n).holder).seq \in Nat
    BY <1>0, <1>1, SteadyLeaseOf, LeaseType DEF BaseInv
  <1> QED BY <1>1, <1>3, <1>4

\* What is kept when no lease is proposed.
LEMMA LeaseSteady ==
    ASSUME BaseInv, BaseInv', LeaseInv, Steady, \A e \in net' : e \in net \/ e.kind = "write"
    PROVE LeaseInv'
  <1>0. Idx' = Idx /\ (\A n : LeaseAt(n)' = LeaseAt(n)) /\ net \subseteq Entry
    BY SteadyLog DEF BaseInv, TypeOK
  <1>1. LeasesOK'
    BY LeasesSteady DEF LeaseInv
  <1>2. RequestsOK'
    <2> SUFFICES ASSUME NEW e \in net', e.kind # "write"
                 PROVE \E n \in Idx : ProposedUnder(e, LeaseAt(n))'
      BY <1>0 DEF RequestsOK
    <2>1. e \in net /\ e \in Entry
      BY <1>0
    <2>2. PICK n \in Idx : ProposedUnder(e, LeaseAt(n))
      BY <2>1 DEF LeaseInv, RequestsOK
    <2> QED BY <2>1, <2>2, UnderSteady
  <1>3. TransfersLast'
    BY <1>0 DEF LeaseInv, TransfersLast, LastOfTerm
  <1>4. RenewalsKnown'
    BY RenewalsSteady DEF LeaseInv
  <1> QED BY <1>1, <1>2, <1>3, <1>4 DEF LeaseInv

LEMMA LeaseEntryIs ==
    ASSUME NEW k \in {"request", "transfer"}, NEW old \in LeaseRecord, NEW new \in LeaseRecord,
           NEW lai \in Nat, NEW ct \in Nat
    PROVE LET f == LeaseEntry(k, old, new, lai, ct) IN
          /\ f \in Entry /\ f.kind = k /\ f.seq = old.seq /\ f.mli = lai /\ f.ct = ct
          /\ f.prev = old.ver /\ f.lease = new
  BY DEF LeaseEntry, Entry, LeaseRecord

\* What RequestLease proposes.
LEMMA RequestEntry ==
    ASSUME BaseInv, NEW r \in Replica, RequestLease(r)
    PROVE \E f \in Entry :
          /\ net' = net \cup {f} /\ f.kind = "request" /\ f.mli = 0 /\ f.ct = 0
          /\ f.seq = LeaseOf(r).seq /\ f.prev = LeaseOf(r).ver
          /\ f.lease.holder = r /\ f.lease.ver = ver + 1 /\ f.lease.start < f.lease.exp
          /\ NewLease(r, LeaseOf(r), f.lease.start, f.lease.exp)
          /\ IF LeaseOf(r).holder = r /\ f.lease.start = LeaseOf(r).start
             THEN f.lease.seq = LeaseOf(r).seq /\ f.lease.sum = LeaseOf(r).sum
             ELSE f.lease.seq = LeaseOf(r).seq + 1 /\ f.lease.sum = f.lease.start
  <1> DEFINE l == LeaseOf(r)
             Same(s) == l.holder = r /\ s = l.start
             L(s, x) == Lease(r, IF Same(s) THEN l.seq ELSE l.seq + 1, ver + 1, s, x,
                              IF Same(s) THEN l.sum ELSE s)
  <1>1. l \in LeaseRecord /\ l.seq \in Nat /\ l.sum \in Nat /\ ver + 1 \in Nat /\ inst.maxTs \in Nat
    <2>1. l \in LeaseRecord /\ l.seq \in Nat /\ l.sum \in Nat
      BY LeaseType DEF BaseInv
    <2>2. ver + 1 \in Nat /\ inst.maxTs \in Nat
      BY DEF BaseInv, TypeOK, Instance
    <2> QED BY <2>1, <2>2
  <1>2. PICK s \in Ts0, x \in Ts :
          /\ NewLease(r, l, s, x) /\ x > s
          /\ net' = net \cup {LeaseEntry("request", l, L(s, x), 0, 0)}
    BY DEF RequestLease, ProposeLease
  <1>3. s \in Nat /\ x \in Nat \ {0} /\ s < x
    BY <1>1, <1>2 DEF Ts, Ts0
  <1>4. PICK new \in LeaseRecord :
          /\ new = L(s, x) /\ new.holder = r /\ new.ver = ver + 1 /\ new.start = s /\ new.exp = x
          /\ new.seq = IF Same(s) THEN l.seq ELSE l.seq + 1
          /\ new.sum = IF Same(s) THEN l.sum ELSE s
    <2> DEFINE n == IF Same(s) THEN l.seq ELSE l.seq + 1
               m == IF Same(s) THEN l.sum ELSE s
    <2>1. n \in Nat /\ m \in Nat
      BY <1>1, <1>3
    <2>2. L(s, x) = [holder |-> r, seq |-> n, ver |-> ver + 1, start |-> s, exp |-> x, sum |-> m]
      BY DEF Lease
    <2> HIDE DEF n, m, L
    <2>3. L(s, x) \in LeaseRecord
      BY <1>1, <1>3, <2>1, <2>2 DEF LeaseRecord
    <2>4. L(s, x).holder = r /\ L(s, x).ver = ver + 1 /\ L(s, x).start = s /\ L(s, x).exp = x
          /\ L(s, x).seq = n /\ L(s, x).sum = m
      BY <2>2
    <2> QED BY <2>3, <2>4 DEF n, m
  <1> DEFINE f == LeaseEntry("request", l, new, 0, 0)
  <1>5. net' = net \cup {f}
    BY <1>2, <1>4
  <1> HIDE DEF L, l
  <1>6. /\ f \in Entry /\ f.kind = "request" /\ f.seq = l.seq /\ f.mli = 0 /\ f.ct = 0
        /\ f.prev = l.ver /\ f.lease = new
    BY <1>1, LeaseEntryIs
  <1> HIDE DEF f
  <1>7. NewLease(r, l, f.lease.start, f.lease.exp)
    BY <1>2, <1>4, <1>6
  <1>8. f.lease.holder = r /\ f.lease.ver = ver + 1 /\ f.lease.start < f.lease.exp
    BY <1>3, <1>4, <1>6
  <1>9. IF l.holder = r /\ f.lease.start = l.start
        THEN f.lease.seq = l.seq /\ f.lease.sum = l.sum
        ELSE f.lease.seq = l.seq + 1 /\ f.lease.sum = f.lease.start
    BY <1>4, <1>6
  <1> QED BY <1>5, <1>6, <1>7, <1>8, <1>9 DEF l

\* What TransferLease proposes, above what r has assigned and remembers.
LEMMA TransferEntry ==
    ASSUME BaseInv, NEW r \in Replica, NEW q \in Replica, TransferLease(r, q)
    PROVE \E f \in Entry :
          /\ net' = net \cup {f} /\ f.kind = "transfer"
          /\ f.mli = assigned[r].lai + 1 /\ assigned[r].ct <= f.ct
          /\ \A t \in TrackedAt(r) : assigned[r].ct < t => f.ct < t
          /\ assigned' = [assigned EXCEPT ![r] = [lai |-> f.mli, ct |-> f.ct]]
          /\ f.seq = LeaseOf(r).seq /\ f.prev = LeaseOf(r).ver
          /\ f.lease.holder = q /\ f.lease.seq = LeaseOf(r).seq + 1 /\ f.lease.ver = ver + 1
          /\ LeaseOf(r).start < f.lease.start /\ f.lease.start < f.lease.exp
          /\ LeaseOf(r).exp <= f.lease.exp
          /\ f.lease.start <= f.lease.sum /\ low[r] <= f.lease.sum
          /\ q # r /\ OwnsLease(r) /\ \A c \in Mine(r) : Finished(c)
  <1> DEFINE l == LeaseOf(r)
             lai == assigned[r].lai + 1
             L(s, x) == Lease(q, l.seq + 1, ver + 1, s, x, ReadSummary(r, s))
  <1>0. TypeOK /\ BatchesOK
    BY DEF BaseInv
  <1>1. /\ l \in LeaseRecord /\ l.seq \in Nat /\ l.exp - 1 \in Nat /\ ver + 1 \in Nat
        /\ inst.maxTs \in Nat
    <2>1. l \in LeaseRecord /\ l.seq \in Nat /\ l.exp - 1 \in Nat
      BY <1>0, LeaseType
    <2>2. ver + 1 \in Nat /\ inst.maxTs \in Nat
      BY <1>0 DEF TypeOK, Instance
    <2> QED BY <2>1, <2>2
  <1>2. lai \in Nat /\ low[r] \in Nat /\ Closed(r) \in Nat /\ assigned[r].ct \in Nat
    <2>1. assigned[r].lai \in Nat /\ low[r] \in Nat /\ assigned[r].ct \in Nat
      BY <1>0, ReplicaType
    <2> QED BY <1>0, <2>1, ClosedType
  <1>3. PICK s \in Ts, x \in Ts, target \in Ts0 :
          LET ct == Closable(r, target, l.exp - 1, TrackedAt(r)) IN
          /\ s > l.start /\ x > s /\ x >= l.exp
          /\ net' = net \cup {LeaseEntry("transfer", l, L(s, x), lai, ct)}
          /\ assigned' = [assigned EXCEPT ![r] = [lai |-> lai, ct |-> ct]]
    BY Zenon DEF TransferLease, ProposeLease
  <1>4. q # r /\ OwnsLease(r) /\ \A c \in Mine(r) : Finished(c)
    BY DEF TransferLease
  <1> DEFINE ct == Closable(r, target, l.exp - 1, TrackedAt(r))
  <1>5. s \in Nat /\ x \in Nat \ {0} /\ target \in Nat
    BY <1>1 DEF Ts, Ts0
  <1>6. ct \in Nat /\ assigned[r].ct <= ct /\ \A t \in TrackedAt(r) : assigned[r].ct < t => ct < t
    <2> DEFINE S == {t - 1 : t \in TrackedAt(r)} \cup {target, l.exp - 1}
    <2>1. TrackedAt(r) \in SUBSET (Nat \ {0})
      BY <1>0, TrackedType
    <2>2. S \in SUBSET Nat /\ S # {}
      BY <1>1, <1>5, <2>1
    <2>3. Min(S) \in Nat /\ \A t \in TrackedAt(r) : Min(S) <= t - 1
      <3>1. \A t \in TrackedAt(r) : t - 1 \in S
        OBVIOUS
      <3> HIDE DEF S
      <3> QED BY <2>2, <3>1, LeastNat, Zenon
    <2>4. ct = Larger(assigned[r].ct, Min(S))
      BY DEF Closable
    <2> HIDE DEF S, ct
    <2> QED BY <1>2, <2>1, <2>3, <2>4 DEF Larger
  <1>7. PICK new \in LeaseRecord :
          /\ new = L(s, x) /\ new.holder = q /\ new.ver = ver + 1 /\ new.start = s /\ new.exp = x
          /\ new.seq = l.seq + 1 /\ s <= new.sum /\ low[r] <= new.sum
    <2> DEFINE m == ReadSummary(r, s)
    <2>1. m \in Nat /\ s <= m /\ low[r] <= m
      BY <1>2, <1>5 DEF ReadSummary, Larger
    <2>2. L(s, x) = [holder |-> q, seq |-> l.seq + 1, ver |-> ver + 1, start |-> s, exp |-> x, sum |-> m]
      BY DEF Lease
    <2> HIDE DEF m, L
    <2>3. L(s, x) \in LeaseRecord
      BY <1>1, <1>5, <2>1, <2>2 DEF LeaseRecord
    <2>4. L(s, x).holder = q /\ L(s, x).ver = ver + 1 /\ L(s, x).start = s /\ L(s, x).exp = x
          /\ L(s, x).seq = l.seq + 1 /\ L(s, x).sum = m
      BY <2>2
    <2> QED BY <2>1, <2>3, <2>4
  <1> DEFINE f == LeaseEntry("transfer", l, new, lai, ct)
  <1>8. /\ net' = net \cup {f} /\ assigned' = [assigned EXCEPT ![r] = [lai |-> lai, ct |-> ct]]
        /\ l.start < s /\ s < x /\ l.exp <= x
    <2>1. l.start \in Nat /\ l.exp \in Nat
      BY <1>0, LeaseType
    <2> QED BY <1>3, <1>5, <1>7, <2>1
  <1> HIDE DEF L, l, lai, ct
  <1>9. /\ f \in Entry /\ f.kind = "transfer" /\ f.seq = l.seq /\ f.mli = lai /\ f.ct = ct
        /\ f.prev = l.ver /\ f.lease = new
    <2>1. lai \in Nat /\ ct \in Nat /\ l \in LeaseRecord
      BY <1>1, <1>2, <1>6
    <2> QED BY <2>1, LeaseEntryIs
  <1> HIDE DEF f
  <1>10. /\ f.lease.holder = q /\ f.lease.seq = l.seq + 1 /\ f.lease.ver = ver + 1
         /\ l.start < f.lease.start /\ f.lease.start < f.lease.exp
         /\ l.exp <= f.lease.exp
         /\ f.lease.start <= f.lease.sum /\ low[r] <= f.lease.sum
    BY <1>7, <1>8, <1>9
  <1>11. f.mli = assigned[r].lai + 1
    BY <1>9 DEF lai
  <1> QED BY <1>4, <1>6, <1>8, <1>9, <1>10, <1>11, Zenon DEF l

LEMMA OneTerm ==
    ASSUME BaseInv, LeasesOK, NEW m \in Idx, NEW n \in Idx, LeaseAt(m).seq = LeaseAt(n).seq
    PROVE SameTerm(LeaseAt(m), LeaseAt(n))
  <1>1. m <= n \/ n <= m
    BY DEF Idx
  <1> QED BY <1>1 DEF LeasesOK, SameTerm

\* A lease its holder may use is not being transferred.
LEMMA TransferredIsProscribed ==
    ASSUME BaseInv, LeaseInv, NEW r \in Replica, LeaseOf(r).holder = r,
           NEW e \in net, e.kind = "transfer", e.seq = LeaseOf(r).seq
    PROVE Proscribed(r)
  <1>1. e \in Entry /\ TypeOK
    BY Zenon DEF BaseInv, TypeOK
  <1>2. PICK n \in Idx : ProposedUnder(e, LeaseAt(n))
    BY DEF LeaseInv, RequestsOK
  <1>3. LeaseAt(n).seq = LeaseAt(Fx(r)).seq /\ Fx(r) \in Idx /\ LeaseOf(r) = LeaseAt(Fx(r))
    BY <1>2, LeaseOfIs, Zenon DEF ProposedUnder
  <1>4. LeaseAt(n).holder = r
    BY <1>3, OneTerm DEF LeaseInv, SameTerm
  <1>5. Transfers(e, LeaseAt(n))
    BY <1>2 DEF ProposedUnder, Extends, TakesOver, Renews
  <1>6. e.lease.ver <= minVer[r]
    BY <1>4, <1>5 DEF Transfers
  <1>7. LeaseOf(r).ver < e.lease.ver
    BY <1>3 DEF LeaseInv, TransfersLast, LastOfTerm
  <1>8. LeaseOf(r).ver \in Nat /\ e.lease.ver \in Nat /\ minVer[r] \in Nat
    BY <1>1, <1>3, LeaseAtType, LeaseEntryFields, ReplicaType
  <1> QED BY <1>6, <1>7, <1>8 DEF Proscribed

LEMMA RequestSteady ==
    ASSUME BaseInv, BaseInv', NEW r \in Replica,
           RequestLease(r) \/ \E q \in Replica : TransferLease(r, q)
    PROVE /\ Steady /\ ver' = ver + 1 /\ ver \in Nat /\ UNCHANGED <<raft, ap, batch>>
          /\ \A q \in Replica : Fx(q)' = Fx(q) /\ LeaseOf(q)' = LeaseOf(q)
          /\ \A q \in Replica \ {r} : minVer'[q] = minVer[q]
          /\ minVer'[r] = IF RequestLease(r) THEN minVer[r] ELSE ver + 1
  <1>0. ver \in Nat /\ minVer \in [Replica -> Nat]
    BY DEF BaseInv, TypeOK
  <1>1. UNCHANGED <<raft, ap, batch>> /\ ver' = ver + 1
    BY RequestLeaseFacts, TransferLeaseFacts
  <1>2. \A q \in Replica : Fx(q)' = Fx(q)
    BY <1>1 DEF Fx
  <1>3. \A q \in Replica : LeaseOf(q)' = LeaseOf(q)
    BY <1>1 DEF LeaseOf, StateAt, raft
  <1>4. /\ RequestLease(r) => minVer' = minVer
        /\ ~ RequestLease(r) => minVer' = [minVer EXCEPT ![r] = ver + 1]
    BY RequestLeaseFacts, TransferLeaseFacts
  <1>5. \A q \in Replica : Fx(q) \in Fx(q) .. Len(log)
    BY FxType DEF BaseInv
  <1> QED BY <1>0, <1>1, <1>2, <1>3, <1>4, <1>5 DEF Steady

LEMMA ProposedInv ==
    ASSUME BaseInv, BaseInv', LeaseInv, Steady, NEW f \in Entry, net' = net \cup {f},
           \E n \in Idx : ProposedUnder(f, LeaseAt(n))', TransfersLast'
    PROVE LeaseInv'
  <1>0. Idx' = Idx /\ net \subseteq Entry
    BY SteadyLog DEF BaseInv, TypeOK
  <1>1. LeasesOK' /\ RenewalsKnown'
    BY LeasesSteady, RenewalsSteady DEF LeaseInv
  <1>2. RequestsOK'
    <2> SUFFICES ASSUME NEW e \in net', e.kind # "write"
                 PROVE \E n \in Idx : ProposedUnder(e, LeaseAt(n))'
      BY <1>0 DEF RequestsOK
    <2>1. CASE e \in net
      <3>1. PICK n \in Idx : ProposedUnder(e, LeaseAt(n))
        BY <2>1 DEF LeaseInv, RequestsOK
      <3> QED BY <1>0, <2>1, <3>1, UnderSteady
    <2> QED BY <2>1
  <1> QED BY <1>1, <1>2 DEF LeaseInv

LEMMA RequestLeases ==
    ASSUME BaseInv, BaseInv', LeaseInv, NEW r \in Replica, RequestLease(r)
    PROVE LeaseInv'
  <1> DEFINE l == LeaseOf(r)
  <1>1. PICK f \in Entry :
          /\ net' = net \cup {f} /\ f.kind = "request" /\ f.mli = 0 /\ f.ct = 0
          /\ f.seq = l.seq /\ f.prev = l.ver
          /\ f.lease.holder = r /\ f.lease.ver = ver + 1 /\ f.lease.start < f.lease.exp
          /\ NewLease(r, l, f.lease.start, f.lease.exp)
          /\ IF l.holder = r /\ f.lease.start = l.start
             THEN f.lease.seq = l.seq /\ f.lease.sum = l.sum
             ELSE f.lease.seq = l.seq + 1 /\ f.lease.sum = f.lease.start
    BY RequestEntry
  <1>2. /\ Steady /\ ver' = ver + 1 /\ ver \in Nat
        /\ \A q \in Replica : LeaseOf(q)' = LeaseOf(q)
        /\ \A q \in Replica : minVer'[q] = minVer[q]
    BY RequestSteady
  <1>3. Fx(r) \in Idx /\ l = LeaseAt(Fx(r))
    BY LeaseOfIs
  <1>4. /\ l.seq \in Nat /\ l.ver \in Nat /\ l.start \in Nat /\ l.exp \in Nat /\ l.sum \in Nat
        /\ l.holder \in Replica /\ minVer[r] \in Nat
    BY <1>3, LeaseAtType, ReplicaType DEF BaseInv
  <1>5. /\ f.lease.seq \in Nat /\ f.lease.start \in Nat /\ f.lease.exp \in Nat /\ f.lease.sum \in Nat
    BY LeaseEntryFields
  <1>6. l.ver <= ver /\ l.start <= l.sum
    BY <1>3 DEF LeaseInv, LeasesOK
  <1>7. Proscribed(r) <=> l.ver < minVer[r]
    BY DEF Proscribed
  <1>8. l' = l
    BY <1>2
  <1> HIDE DEF l
  <1>9. ProposedUnder(f, l)'
    <2>1. CASE l.holder = r /\ ~ Proscribed(r) /\ f.lease.start = l.start /\ f.lease.exp > l.exp
      <3>1. Extends(f, l)'
        BY <1>1, <1>2, <1>4, <1>5, <1>7, <1>8, <2>1 DEF Extends, SameTerm
      <3> QED BY <1>1, <1>2, <1>4, <1>5, <1>6, <1>8, <2>1, <3>1 DEF ProposedUnder
    <2>2. CASE l.holder = r /\ Proscribed(r) /\ f.lease.start > l.start /\ f.lease.exp >= l.exp
      <3>1. LeaseOf(r)' = l
        BY <1>2 DEF l
      <3>2. f.lease.seq = l.seq + 1 /\ f.lease.sum = f.lease.start
        BY <1>1, <1>4, <1>5, <2>2
      <3>3. Renews(f, l)'
        BY <1>1, <1>2, <1>4, <1>5, <1>7, <1>8, <2>2, <3>1, <3>2 DEF Renews
      <3> QED BY <1>1, <1>2, <1>4, <1>5, <1>6, <1>8, <2>2, <3>2, <3>3 DEF ProposedUnder
    <2>3. CASE l.holder # r /\ f.lease.start \in l.exp .. l.exp + 1
      <3>1. TakesOver(f, l)'
        BY <1>1, <1>4, <1>5, <1>8, <2>3 DEF TakesOver
      <3> QED BY <1>1, <1>2, <1>4, <1>5, <1>6, <1>8, <2>3, <3>1 DEF ProposedUnder
    <2> QED BY <1>1, <2>1, <2>2, <2>3 DEF NewLease
  <1>10. TransfersLast'
    <2>0. Idx' = Idx /\ \A n : LeaseAt(n)' = LeaseAt(n)
      BY <1>2, SteadyLog
    <2> SUFFICES ASSUME NEW e \in net', e.kind = "transfer"
                 PROVE LastOfTerm(e)'
      BY DEF TransfersLast
    <2>1. e \in net
      BY <1>1
    <2>2. LastOfTerm(e)
      BY <2>1 DEF LeaseInv, TransfersLast
    <2>3. ~ (f.seq = e.seq /\ f.lease.seq = e.seq)
      <3> SUFFICES ASSUME f.seq = e.seq, f.lease.seq = e.seq PROVE FALSE
        OBVIOUS
      <3>1. l.holder = r /\ f.lease.start = l.start
        BY <1>1, <1>4
      <3>2. ~ Proscribed(r)
        BY <1>1, <1>4, <1>5, <3>1 DEF NewLease
      <3> QED BY <1>1, <2>1, <3>1, <3>2, TransferredIsProscribed, Zenon DEF l
    <2> QED BY <1>1, <2>0, <2>2, <2>3 DEF LastOfTerm
  <1>11. \E n \in Idx : ProposedUnder(f, LeaseAt(n))'
    <2>3. PICK n : n = Fx(r)
      OBVIOUS
    <2>4. LeaseAt(n)' = l /\ l' = l
      BY <1>2, <1>3, <1>8, <2>3, SteadyLog
    <2>5. ProposedUnder(f, LeaseAt(n))'
      BY <1>9, <2>4 DEF ProposedUnder, Extends, TakesOver, Renews, Transfers, SameTerm
    <2> QED BY <1>3, <2>3, <2>5
  <1> QED BY <1>1, <1>2, <1>10, <1>11, ProposedInv

LEMMA TransferLeases ==
    ASSUME BaseInv, BaseInv', LeaseInv, NEW r \in Replica, NEW q \in Replica, TransferLease(r, q)
    PROVE LeaseInv'
  <1> DEFINE l == LeaseOf(r)
  <1>1. PICK f \in Entry :
          /\ net' = net \cup {f} /\ f.kind = "transfer"
          /\ f.seq = l.seq /\ f.prev = l.ver
          /\ f.lease.holder = q /\ f.lease.seq = l.seq + 1 /\ f.lease.ver = ver + 1
          /\ l.start < f.lease.start /\ f.lease.start < f.lease.exp /\ l.exp <= f.lease.exp
          /\ f.lease.start <= f.lease.sum /\ q # r /\ OwnsLease(r)
    BY TransferEntry
  <1>2. /\ Steady /\ ver' = ver + 1 /\ ver \in Nat
        /\ \A p \in Replica : LeaseOf(p)' = LeaseOf(p)
    BY RequestSteady
  <1>3. Fx(r) \in Idx /\ l = LeaseAt(Fx(r)) /\ l.holder = r
    BY <1>1, LeaseOfIs DEF OwnsLease
  <1>4. l.seq \in Nat /\ l.ver \in Nat
    BY <1>3, LeaseAtType DEF BaseInv
  <1>5. l.ver <= ver
    BY <1>3 DEF LeaseInv, LeasesOK
  <1>6. minVer'[r] = ver + 1
    BY TransferLeaseFacts, Zenon DEF BaseInv, TypeOK
  <1>7. PICK n : n = Fx(r)
    OBVIOUS
  <1>8. LeaseAt(n) = l /\ LeaseAt(n)' = l /\ LeaseOf(r)' = l /\ n \in Idx
    BY <1>2, <1>3, <1>7, SteadyLog
  <1>9. Idx' = Idx /\ \A j : LeaseAt(j)' = LeaseAt(j)
    BY <1>2, SteadyLog
  <1> HIDE DEF l
  <1>10. Transfers(f, LeaseAt(n))'
    BY <1>1, <1>2, <1>3, <1>4, <1>6, <1>8 DEF Transfers
  <1>11. ProposedUnder(f, LeaseAt(n))'
    BY <1>1, <1>2, <1>4, <1>5, <1>8, <1>10 DEF ProposedUnder
  <1>12. TransfersLast'
    <2> SUFFICES ASSUME NEW e \in net', e.kind = "transfer"
                 PROVE LastOfTerm(e)'
      BY DEF TransfersLast
    <2>1. CASE e \in net
      BY <1>1, <1>9, <2>1 DEF LeaseInv, TransfersLast, LastOfTerm
    <2>2. CASE e = f
      <3>1. \A j \in Idx : LeaseAt(j).ver < ver + 1
        <4>1. \A j \in Idx : LeaseAt(j).ver <= ver /\ LeaseAt(j).ver \in Nat
          BY LeaseAtType DEF BaseInv, LeaseInv, LeasesOK
        <4> QED BY <1>2, <4>1
      <3>2. \A g \in net : g.kind = "request" => g.lease.ver < ver + 1
        <4>1. \A g \in net : g.lease.ver \in Nat
          BY LeaseEntryFields DEF BaseInv, TypeOK
        <4>2. \A g \in net : g.kind = "request" => g.lease.ver <= ver
          BY DEF LeaseInv, RequestsOK, ProposedUnder
        <4> QED BY <1>2, <4>1, <4>2
      <3> QED BY <1>1, <1>9, <2>2, <3>1, <3>2 DEF LastOfTerm
    <2> QED BY <1>1, <2>1, <2>2
  <1> QED BY <1>1, <1>2, <1>8, <1>11, <1>12, ProposedInv

\* What an append does to the leases: nothing, or a lease proposed under the last one.
LEMMA AppendLease ==
    ASSUME BaseInv, BaseInv', LeaseInv, NEW e \in net, AppendEntry(e)
    PROVE \E k \in Nat : \E a, b \in LeaseRecord :
          /\ k = Len(log) /\ a = LeaseAt(k) /\ b = LeaseAt(k + 1)' /\ a = LastState.lease
          /\ Idx = 0 .. k /\ Idx' = 0 .. k + 1 /\ k \in Idx
          /\ \A n \in Idx : LeaseAt(n)' = LeaseAt(n) /\ StateAt(n)' = StateAt(n)
          /\ \A r \in Replica : Fx(r)' = Fx(r) /\ LeaseOf(r)' = LeaseOf(r)
          /\ UNCHANGED <<ver, minVer>> /\ net' = net \ {e}
          /\ \/ b = a
             \/ /\ b = e.lease /\ e.kind # "write" /\ Verdict(LastState, e) = "ok"
                /\ e.seq = a.seq /\ a.ver < b.ver
                /\ \E n \in Idx : /\ ProposedUnder(e, LeaseAt(n)) /\ SameTerm(LeaseAt(n), a)
                                  /\ e.kind = "request" => LeaseAt(n) = a
  <1>1. PICK k \in Nat :
        /\ k = Len(log) /\ Len(log') = k + 1 /\ e \in Entry
        /\ \A n \in 0 .. k : StateAt(n)' = StateAt(n)
        /\ StateAt(k + 1)' = ApplyEntry(LastState, e)
        /\ net' = net \ {e} /\ UNCHANGED <<ap, batch, leases>>
    BY AppendFacts, Zenon
  <1>2. /\ Idx = 0 .. k /\ Idx' = 0 .. k + 1 /\ k \in Idx
        /\ LeaseAt(k) = LastState.lease /\ LeaseAt(k) \in LeaseRecord
        /\ LeaseAt(k + 1)' \in LeaseRecord
    <2>1. Idx = 0 .. k /\ Idx' = 0 .. k + 1 /\ k \in Idx /\ k + 1 \in Idx'
      BY <1>1 DEF Idx
    <2>2. LeaseAt(k) = LastState.lease
      BY <1>1 DEF LeaseAt, LastState
    <2>3. LeaseAt(k) \in LeaseRecord
      BY <2>1, LeaseAtType DEF BaseInv
    <2>4. LeaseAt(k + 1)' \in LeaseRecord
      <3>1. st' \in Seq(AppliedState) /\ Len(st') = k + 2
        BY <1>1 DEF BaseInv, TypeOK
      <3>2. st'[k + 1 + 1] \in AppliedState
        BY <3>1
      <3> QED BY <3>2 DEF LeaseAt, StateAt, AppliedState
    <2> QED BY <2>1, <2>2, <2>3, <2>4
  <1>a. PICK a \in LeaseRecord, b \in LeaseRecord : a = LeaseAt(k) /\ b = LeaseAt(k + 1)' /\ a = LastState.lease
    BY <1>2
  <1>3. \A n \in Idx : LeaseAt(n)' = LeaseAt(n)
    BY <1>1, <1>a, <1>2 DEF LeaseAt
  <1>4. \A r \in Replica : Fx(r)' = Fx(r) /\ LeaseOf(r)' = LeaseOf(r)
    <2> TAKE r \in Replica
    <2>1. Fx(r)' = Fx(r)
      BY <1>1 DEF Fx
    <2>2. Fx(r) \in Idx
      BY LeaseOfIs
    <2>3. LeaseOf(r)' = (StateAt(Fx(r)).lease)' /\ LeaseOf(r) = StateAt(Fx(r)).lease
      BY FxType DEF BaseInv, LeaseOf, Fx
    <2> QED BY <1>1, <1>a, <1>2, <2>1, <2>2, <2>3 DEF StateAt
  <1>5. b = ApplyEntry(LastState, e).lease
    BY <1>1, <1>a DEF LeaseAt
  <1>6. UNCHANGED <<ver, minVer>>
    BY <1>1 DEF leases
  <1>7. CASE ~ (e.kind # "write" /\ Verdict(LastState, e) = "ok")
    <2>1. b = a
      BY <1>a, <1>2, <1>5, <1>7 DEF ApplyEntry
    <2> QED BY <1>1, <1>a, <1>2, <1>3, <1>4, <1>6, <2>1
  <1>8. CASE e.kind # "write" /\ Verdict(LastState, e) = "ok"
    <2>1. b = e.lease
      BY <1>5, <1>8 DEF ApplyEntry
    <2>2. e.seq = a.seq /\ (e.kind = "request" => e.prev = a.ver)
      BY <1>a, <1>2, <1>8 DEF Verdict, LeaseMismatch
    <2>3. PICK n \in Idx : ProposedUnder(e, LeaseAt(n))
      BY <1>8 DEF LeaseInv, RequestsOK
    <2>4. LeaseAt(n).seq = a.seq /\ LeaseAt(n).ver = e.prev /\ LeaseAt(n).ver < e.lease.ver
      BY <2>2, <2>3 DEF ProposedUnder
    <2>5. SameTerm(LeaseAt(n), a)
      BY <1>a, <1>2, <2>4, OneTerm DEF LeaseInv
    <2>6. n <= k
      BY <1>2
    <2>7. e.kind = "request" => LeaseAt(n) = a
      BY <1>a, <1>2, <2>2, <2>4, <2>6 DEF LeaseInv, LeasesOK
    <2>8. a.ver < b.ver
      <3>1. CASE e.kind = "request"
        BY <2>1, <2>4, <2>7, <3>1
      <3>2. CASE e.kind = "transfer"
        BY <1>a, <1>2, <2>1, <2>2, <3>2 DEF LeaseInv, TransfersLast, LastOfTerm
      <3> QED BY <1>1, <1>8, <3>1, <3>2, LeaseEntryFields
    <2> QED BY <1>1, <1>a, <1>2, <1>3, <1>4, <1>6, <1>8, <2>1, <2>2, <2>3, <2>5, <2>7, <2>8
  <1> QED BY <1>7, <1>8

LEMMA AppendLeases ==
    ASSUME BaseInv, BaseInv', LeaseInv, NEW e \in net, AppendEntry(e)
    PROVE LeaseInv'
  <1>1. PICK k \in Nat, a \in LeaseRecord, b \in LeaseRecord :
          /\ k = Len(log) /\ a = LeaseAt(k) /\ b = LeaseAt(k + 1)' /\ a = LastState.lease
          /\ Idx = 0 .. k /\ Idx' = 0 .. k + 1 /\ k \in Idx
          /\ \A n \in Idx : LeaseAt(n)' = LeaseAt(n)
          /\ \A r \in Replica : Fx(r)' = Fx(r) /\ LeaseOf(r)' = LeaseOf(r)
          /\ UNCHANGED <<ver, minVer>> /\ net' = net \ {e}
          /\ \/ b = a
             \/ /\ b = e.lease /\ e.kind # "write" /\ Verdict(LastState, e) = "ok"
                /\ e.seq = a.seq /\ a.ver < b.ver
                /\ \E n \in Idx : /\ ProposedUnder(e, LeaseAt(n)) /\ SameTerm(LeaseAt(n), a)
                                  /\ e.kind = "request" => LeaseAt(n) = a
    BY AppendLease
  <1>2. TypeOK /\ ver \in Nat /\ minVer \in [Replica -> Nat] /\ net \subseteq Entry
    BY Zenon DEF BaseInv, TypeOK
  <1>3. \A n \in Idx : /\ LeaseAt(n).holder \in Replica /\ LeaseAt(n).seq \in Nat
                       /\ LeaseAt(n).ver \in Nat /\ LeaseAt(n).start \in Nat
                       /\ LeaseAt(n).exp \in Nat /\ LeaseAt(n).sum \in Nat
    BY <1>2, LeaseAtType
  <1>4. /\ a.holder \in Replica /\ a.seq \in Nat /\ a.ver \in Nat /\ a.start \in Nat
        /\ a.exp \in Nat /\ a.sum \in Nat
        /\ b.holder \in Replica /\ b.seq \in Nat /\ b.ver \in Nat /\ b.start \in Nat
        /\ b.exp \in Nat /\ b.sum \in Nat
    BY DEF LeaseRecord
  <1>5. a.ver <= ver /\ a.start < a.exp /\ a.start <= a.sum
    BY <1>1, Zenon DEF LeaseInv, LeasesOK
  <1>6. \A m \in Idx :
           /\ LeaseAt(m).ver <= a.ver
           /\ LeaseAt(m).ver = a.ver => LeaseAt(m) = a
           /\ LeaseAt(m).seq <= a.seq
           /\ LeaseAt(m).seq = a.seq =>
                 /\ SameTerm(LeaseAt(m), a) /\ LeaseAt(m).exp <= a.exp
                 /\ minVer[a.holder] <= a.ver => minVer[a.holder] <= LeaseAt(m).ver
           /\ LeaseAt(m).seq < a.seq =>
                 /\ LeaseAt(m).start < a.start
                 /\ \/ LeaseAt(m).exp <= a.start
                    \/ LeaseAt(m).ver < minVer[LeaseAt(m).holder]
    <2> TAKE m \in Idx
    <2>1. m <= k /\ m \in 0 .. Len(log)
      BY <1>1
    <2>2. LeaseAt(m).seq <= a.seq
      BY <1>1, <2>1, NotAfterLast DEF LeaseAt
    <2>3. k \in Idx /\ a = LeaseAt(k)
      BY <1>1
    <2> QED
      BY <2>1, <2>2, <2>3 DEF LeaseInv, LeasesOK
  \* How the new lease follows the last one.
  <1>7. /\ b.ver <= ver /\ b.start < b.exp /\ b.start <= b.sum
        /\ b = a \/ a.ver < b.ver
        /\ \/ /\ b.seq = a.seq /\ SameTerm(b, a) /\ a.exp <= b.exp
              /\ minVer[a.holder] <= b.ver => minVer[a.holder] <= a.ver
           \/ /\ b.seq = a.seq + 1 /\ a.start < b.start
              /\ a.exp <= b.start \/ \A m \in Idx : LeaseAt(m).seq = a.seq => LeaseAt(m).ver < minVer[a.holder]
              /\ b.holder = a.holder => a.seq <= LeaseOf(a.holder).seq
    <2>1. CASE b = a
      BY <1>4, <1>5, <2>1 DEF SameTerm
    <2>2. CASE b # a
      <3>1. PICK n \in Idx : /\ ProposedUnder(e, LeaseAt(n)) /\ SameTerm(LeaseAt(n), a)
                             /\ e.kind = "request" => LeaseAt(n) = a
        BY <1>1, <2>2
      <3>2. b = e.lease /\ e.seq = a.seq /\ a.ver < b.ver /\ e.kind # "write"
        BY <1>1, <2>2
      <3>3. /\ b.ver <= ver /\ b.start < b.exp /\ b.start <= b.sum /\ LeaseAt(n).seq = a.seq
        BY <3>1, <3>2 DEF ProposedUnder
      <3>4. CASE Extends(e, LeaseAt(n))
        <4>1. LeaseAt(n) = a
          BY <3>1, <3>4 DEF Extends
        <4>2. b.seq = a.seq /\ SameTerm(b, a) /\ a.exp < b.exp
              /\ (minVer[a.holder] <= b.ver => minVer[a.holder] <= a.ver)
          BY <3>2, <3>4, <4>1 DEF Extends
        <4> QED BY <1>4, <3>2, <3>3, <4>2
      <3>5. CASE TakesOver(e, LeaseAt(n))
        <4>1. LeaseAt(n) = a
          BY <3>1, <3>5 DEF TakesOver
        <4>2. b.seq = a.seq + 1 /\ b.holder # a.holder /\ a.exp <= b.start
          BY <3>2, <3>5, <4>1 DEF TakesOver
        <4> QED BY <1>4, <1>5, <3>2, <3>3, <4>2
      <3>6. CASE Renews(e, LeaseAt(n))
        <4>1. LeaseAt(n) = a
          BY <3>1, <3>6 DEF Renews
        <4>2. /\ b.seq = a.seq + 1 /\ a.start < b.start /\ a.ver < minVer[a.holder]
              /\ a.seq <= LeaseOf(a.holder).seq
          BY <3>2, <3>6, <4>1 DEF Renews
        <4>3. \A m \in Idx : LeaseAt(m).ver <= a.ver
          BY <1>6
        <4>4. \A m \in Idx : LeaseAt(m).ver < minVer[a.holder]
          BY <1>2, <1>3, <1>4, <4>2, <4>3
        <4> QED BY <3>2, <3>3, <4>2, <4>4
      <3>7. CASE Transfers(e, LeaseAt(n))
        <4>1. /\ b.seq = a.seq + 1 /\ b.holder # a.holder /\ a.start < b.start
              /\ b.ver <= minVer[a.holder] /\ e.kind = "transfer"
          BY <3>1, <3>2, <3>3, <3>7 DEF Transfers, SameTerm
        <4>2. \A m \in Idx : LeaseAt(m).seq = a.seq => LeaseAt(m).ver < b.ver
          BY <3>2, <4>1 DEF LeaseInv, TransfersLast, LastOfTerm
        <4>3. \A m \in Idx : LeaseAt(m).seq = a.seq => LeaseAt(m).ver < minVer[a.holder]
          BY <1>2, <1>3, <1>4, <4>1, <4>2
        <4> QED BY <3>2, <3>3, <4>1, <4>3
      <3> QED BY <3>1, <3>4, <3>5, <3>6, <3>7 DEF ProposedUnder
    <2> QED BY <2>1, <2>2
  <1>8. LeasesOK'
    <2>1. \A n \in Idx' : /\ LeaseAt(n)'.start < LeaseAt(n)'.exp
                          /\ LeaseAt(n)'.start <= LeaseAt(n)'.sum /\ LeaseAt(n)'.ver <= ver
      <3> SUFFICES ASSUME NEW n \in Idx' PROVE /\ LeaseAt(n)'.start < LeaseAt(n)'.exp
                          /\ LeaseAt(n)'.start <= LeaseAt(n)'.sum /\ LeaseAt(n)'.ver <= ver
        OBVIOUS
      <3>1. n \in Idx \/ n = k + 1
        BY <1>1
      <3> QED BY <1>1, <1>7, <3>1 DEF LeaseInv, LeasesOK
    <2>2. ASSUME NEW m \in Idx', NEW n \in Idx', m <= n
          PROVE /\ LeaseAt(m)'.ver <= LeaseAt(n)'.ver
                /\ LeaseAt(m)'.ver = LeaseAt(n)'.ver => LeaseAt(m)' = LeaseAt(n)'
                /\ LeaseAt(m)'.seq = LeaseAt(n)'.seq =>
                      /\ SameTerm(LeaseAt(m), LeaseAt(n))' /\ LeaseAt(m)'.exp <= LeaseAt(n)'.exp
                      /\ minVer[LeaseAt(n)'.holder] <= LeaseAt(n)'.ver
                            => minVer[LeaseAt(n)'.holder] <= LeaseAt(m)'.ver
                /\ LeaseAt(m)'.seq < LeaseAt(n)'.seq =>
                      /\ LeaseAt(m)'.start < LeaseAt(n)'.start
                      /\ \/ LeaseAt(m)'.exp <= LeaseAt(n)'.start
                         \/ LeaseAt(m)'.ver < minVer[LeaseAt(m)'.holder]
      <3>1. CASE n \in Idx
        <4>1. m \in Idx
          BY <1>1, <2>2, <3>1
        <4>2. LeaseAt(m)' = LeaseAt(m) /\ LeaseAt(n)' = LeaseAt(n)
          BY <1>1, <3>1, <4>1
        <4> QED BY <2>2, <3>1, <4>1, <4>2 DEF LeaseInv, LeasesOK, SameTerm
      <3>2. CASE n = k + 1 /\ m = k + 1
        BY <1>1, <1>4, <3>2 DEF SameTerm
      <3>3. CASE n = k + 1 /\ m \in Idx
        <4>1. LeaseAt(m)' = LeaseAt(m) /\ LeaseAt(n)' = b
          BY <1>1, <3>3
        <4>2. PICK c \in LeaseRecord : c = LeaseAt(m)
          BY <1>2, <3>3, LeaseAtType
        <4>3. /\ c.holder \in Replica /\ c.seq \in Nat /\ c.ver \in Nat /\ c.start \in Nat
              /\ c.exp \in Nat /\ c.sum \in Nat /\ minVer[c.holder] \in Nat /\ minVer[a.holder] \in Nat
          BY <1>2, <1>3, <1>4, <3>3, <4>2
        <4>4. /\ c.ver <= a.ver
              /\ c.ver = a.ver => c = a
              /\ c.seq <= a.seq
              /\ c.seq = a.seq =>
                    /\ SameTerm(c, a) /\ c.exp <= a.exp
                    /\ minVer[a.holder] <= a.ver => minVer[a.holder] <= c.ver
              /\ c.seq < a.seq =>
                    /\ c.start < a.start
                    /\ c.exp <= a.start \/ c.ver < minVer[c.holder]
          BY <1>6, <3>3, <4>2
        <4>5. /\ c.ver <= b.ver
              /\ c.ver = b.ver => c = b
              /\ c.seq = b.seq =>
                    /\ SameTerm(c, b) /\ c.exp <= b.exp
                    /\ minVer[b.holder] <= b.ver => minVer[b.holder] <= c.ver
              /\ c.seq < b.seq =>
                    /\ c.start < b.start
                    /\ c.exp <= b.start \/ c.ver < minVer[c.holder]
          <5>1. c.ver <= b.ver /\ (c.ver = b.ver => c = b)
            BY <1>4, <1>7, <4>3, <4>4
          <5>2. CASE /\ b.seq = a.seq /\ SameTerm(b, a) /\ a.exp <= b.exp
                     /\ minVer[a.holder] <= b.ver => minVer[a.holder] <= a.ver
            <6>1. b.holder = a.holder /\ b.start = a.start /\ b.sum = a.sum
              BY <5>2 DEF SameTerm
            <6>2. c.seq = b.seq => SameTerm(c, b) /\ c.exp <= b.exp
              BY <1>4, <4>3, <4>4, <5>2, <6>1 DEF SameTerm
            <6> QED BY <1>4, <4>3, <4>4, <5>1, <5>2, <6>1, <6>2
          <5>3. CASE /\ b.seq = a.seq + 1 /\ a.start < b.start
                     /\ a.exp <= b.start \/ \A j \in Idx : LeaseAt(j).seq = a.seq => LeaseAt(j).ver < minVer[a.holder]
            <6>1. c.seq < b.seq /\ c.seq # b.seq
              BY <1>4, <4>3, <4>4, <5>3
            <6>2. CASE c.seq = a.seq
              <7>1. c.holder = a.holder /\ c.start = a.start /\ c.exp <= a.exp
                BY <4>4, <6>2 DEF SameTerm
              <7>2. a.exp <= b.start \/ c.ver < minVer[a.holder]
                BY <3>3, <4>2, <5>3, <6>2, Zenon
              <7> QED BY <1>4, <4>3, <5>1, <5>3, <6>1, <7>1, <7>2
            <6>3. CASE c.seq < a.seq
              BY <1>4, <4>3, <4>4, <5>1, <5>3, <6>1, <6>3
            <6> QED BY <1>4, <4>3, <4>4, <6>2, <6>3
          <5> QED BY <1>7, <5>2, <5>3
        <4> QED BY <4>1, <4>2, <4>5 DEF SameTerm
      <3> QED BY <1>1, <2>2, <3>1, <3>2, <3>3
    <2>3. \A r \in Replica : minVer'[r] <= ver' + 1
      BY <1>1 DEF LeaseInv, LeasesOK
    <2> QED BY <1>1, <2>1, <2>2, <2>3 DEF LeasesOK, SameTerm
  <1>9. RequestsOK'
    <2> SUFFICES ASSUME NEW f \in net', f.kind # "write"
                 PROVE \E n \in Idx' : ProposedUnder(f, LeaseAt(n))'
      BY DEF RequestsOK
    <2>1. PICK n \in Idx : ProposedUnder(f, LeaseAt(n))
      BY <1>1 DEF LeaseInv, RequestsOK
    <2>2. LeaseAt(n)' = LeaseAt(n) /\ n \in Idx' /\ LeaseOf(LeaseAt(n).holder)' = LeaseOf(LeaseAt(n).holder)
      BY <1>1, <1>3
    <2>3. ProposedUnder(f, LeaseAt(n))'
      BY <1>1, <2>1, <2>2 DEF ProposedUnder, Extends, TakesOver, Renews, Transfers, SameTerm
    <2> QED BY <2>2, <2>3
  <1>10. TransfersLast'
    <2> SUFFICES ASSUME NEW f \in net', f.kind = "transfer"
                 PROVE LastOfTerm(f)'
      BY DEF TransfersLast
    <2>1. LastOfTerm(f) /\ f \in net /\ f \in Entry
      BY <1>1, <1>2 DEF LeaseInv, TransfersLast
    <2>2. f.seq <= a.seq /\ f.seq \in Nat
      <3>1. PICK n \in Idx : ProposedUnder(f, LeaseAt(n))
        BY <2>1 DEF LeaseInv, RequestsOK
      <3> QED BY <1>3, <1>6, <3>1 DEF ProposedUnder
    <2>3. b.seq = f.seq => b.ver < f.lease.ver
      <3> SUFFICES ASSUME b.seq = f.seq PROVE b.ver < f.lease.ver
        OBVIOUS
      <3>1. b.seq = a.seq
        BY <1>4, <1>7, <2>2
      <3>2. CASE b = a
        BY <1>1, <2>1, <3>2, Zenon DEF LastOfTerm
      <3>3. CASE b # a
        <4>1. b = e.lease /\ e.kind # "write" /\ e.seq = a.seq
              /\ \E n \in Idx : ProposedUnder(e, LeaseAt(n))
          BY <1>1, <3>3
        <4>2. PICK n \in Idx : ProposedUnder(e, LeaseAt(n))
          BY <4>1
        <4>3. e.kind = "request"
          BY <1>3, <3>1, <4>1, <4>2 DEF ProposedUnder, Extends, TakesOver, Renews, Transfers
        <4> QED BY <2>1, <3>1, <4>1, <4>3 DEF LastOfTerm
      <3> QED BY <3>2, <3>3
    <2>4. \A n \in Idx' : LeaseAt(n)'.seq = f.seq => LeaseAt(n)'.ver < f.lease.ver
      <3> TAKE n \in Idx'
      <3>1. n \in Idx \/ n = k + 1
        BY <1>1
      <3> QED BY <1>1, <2>1, <2>3, <3>1 DEF LastOfTerm
    <2> QED BY <1>1, <2>1, <2>4 DEF LastOfTerm
  <1>11. RenewalsKnown'
    <2> SUFFICES ASSUME NEW n \in Idx', Renewed(n)'
                 PROVE LeaseAt(n)'.seq <= LeaseOf(LeaseAt(n).holder)'.seq + 1
      BY DEF RenewalsKnown
    <2>1. PICK j \in 0 .. n : LeaseAt(j)'.seq + 1 = LeaseAt(n)'.seq /\ LeaseAt(j)'.holder = LeaseAt(n)'.holder
      BY DEF Renewed
    <2>2. ASSUME NEW p \in Idx, j \in 0 .. p, LeaseAt(j).seq + 1 = LeaseAt(p).seq,
                 LeaseAt(j).holder = LeaseAt(p).holder
          PROVE LeaseAt(p).seq <= LeaseOf(LeaseAt(p).holder).seq + 1
      BY <2>2 DEF LeaseInv, RenewalsKnown, Renewed
    <2>3. CASE n \in Idx
      <3>1. j \in Idx
        BY <1>1, <2>3
      <3>2. LeaseAt(j)' = LeaseAt(j) /\ LeaseAt(n)' = LeaseAt(n)
        BY <1>1, <2>3, <3>1
      <3> QED BY <1>1, <1>3, <2>1, <2>2, <2>3, <3>2, Zenon
    <2>4. CASE n = k + 1
      <3>1. j # k + 1
        BY <1>1, <1>4, <2>1, <2>4
      <3>2. j \in Idx /\ j \in 0 .. k
        BY <1>1, <2>4, <3>1
      <3>3. LeaseAt(j).seq + 1 = b.seq /\ LeaseAt(j).holder = b.holder
        BY <1>1, <2>1, <2>4, <3>2
      <3>4. LeaseOf(b.holder)' = LeaseOf(b.holder) /\ LeaseAt(n)' = b
        BY <1>1, <1>4, <2>4
      <3>5. CASE b.seq = a.seq /\ SameTerm(b, a)
        BY <1>1, <2>2, <3>2, <3>3, <3>4, <3>5, Zenon DEF SameTerm
      <3>6. CASE b.seq = a.seq + 1 /\ (b.holder = a.holder => a.seq <= LeaseOf(a.holder).seq)
        <4>1. LeaseAt(j).seq = a.seq
          BY <1>3, <1>4, <3>2, <3>3, <3>6
        <4>2. a.holder = b.holder
          BY <1>6, <3>2, <3>3, <4>1 DEF SameTerm
        <4>3. LeaseOf(a.holder).seq \in Nat
          BY <1>4, LeaseType DEF BaseInv
        <4> QED BY <1>4, <3>4, <3>6, <4>2, <4>3
      <3> QED BY <1>7, <3>5, <3>6
    <2> QED BY <1>1, <2>3, <2>4
  <1> QED BY <1>8, <1>9, <1>10, <1>11 DEF LeaseInv

LEMMA LeaseStep == BaseInv /\ LeaseInv /\ [Next]_vars => LeaseInv'
  <1> SUFFICES ASSUME BaseInv, LeaseInv, [Next]_vars PROVE LeaseInv'
    OBVIOUS
  <1>0. BaseInv'
    BY BaseStep
  <1>1. CASE UNCHANGED vars
    <2>1. UNCHANGED <<net, raft, ap, batch, leases>>
      BY <1>1 DEF vars
    <2>2. UNCHANGED <<log, st, minVer, ver>>
      BY <2>1 DEF raft, leases
    <2>3. \A r \in Replica : Fx(r)' = Fx(r) /\ Fx(r) \in 0 .. Len(log)
      BY <2>1, FxType DEF BaseInv, Fx
    <2>4. ver \in Nat /\ minVer \in [Replica -> Nat]
      BY DEF BaseInv, TypeOK
    <2>5. Steady
      BY <2>1, <2>2, <2>3, <2>4 DEF Steady
    <2> QED BY <1>0, <2>1, <2>5, LeaseSteady
  <1>2. CASE \E e \in net : AppendEntry(e)
    BY <1>0, <1>2, AppendLeases
  <1>3. ASSUME NEW r \in Replica, RequestLease(r) \/ \E q \in Replica : TransferLease(r, q)
        PROVE LeaseInv'
    BY <1>0, <1>3, RequestLeases, TransferLeases
  <1>4. CASE Steady /\ \A e \in net' : e \in net \/ e.kind = "write"
    BY <1>0, <1>4, LeaseSteady
  <1>5. CASE Next /\ ~ \E e \in net : AppendEntry(e)
    <2>0. Steady
      BY <1>0, <1>5, StepSteady
    <2>1. ASSUME NEW c \in Cmd, NEW target \in Ts0, FlushNew(c, target) PROVE LeaseInv'
      <3>1. \E e \in Entry : net' = net \cup {e} /\ Of(e, c)
        BY <2>1, FlushNewFacts, Zenon
      <3> QED BY <1>4, <2>0, <3>1 DEF Of
    <2>2. ASSUME NEW c \in Cmd, FlushReproposal(c) \/ FlushAfterError(c) PROVE LeaseInv'
      <3>1. \A e \in net' : e \in net \/ e = Write(c)
        BY <2>2, FlushReproposalFacts, Zenon
      <3>2. Write(c).kind = "write"
        BY DEF Write
      <3> QED BY <1>4, <2>0, <3>1, <3>2
    <2>3. CASE net' = net
      BY <1>4, <2>0, <2>3
    <2>4. ASSUME NEW r \in Replica, NEW c \in Cmd, Admit(r, c) PROVE net' = net
      BY <2>4 DEF Admit
    <2>5. ASSUME NEW c \in Cmd, NEW w \in Ts, Track(c, w) PROVE net' = net
      BY <2>5 DEF Track
    <2>6. ASSUME NEW r \in Replica, NEW n, Decode(r, n) \/ ApplyBatch(r, n) PROVE net' = net
      BY <2>6, Zenon DEF Decode, ApplyBatch
    <2>7. ASSUME NEW r \in Replica, Refresh(r) \/ SideEffects(r) \/ Restart(r) PROVE net' = net
      BY <2>7, Zenon DEF Refresh, SideEffects, Restart
    <2>8. ASSUME NEW r \in Replica, NEW q \in Replica, ApplySnapshot(r, q) PROVE net' = net
      BY <2>8 DEF ApplySnapshot
    <2>9. ASSUME NEW r \in Replica, NEW x, BumpSideTransportClosed(r, x) \/ GetClosedTimestamp(r, x)
          PROVE net' = net
      BY <2>9, Zenon DEF BumpSideTransportClosed, GetClosedTimestamp
    <2> QED BY <1>3, <1>5, <2>1, <2>2, <2>3, <2>4, <2>5, <2>6, <2>7, <2>8, <2>9 DEF Next
  <1> QED BY <1>1, <1>2, <1>5

LEMMA InitLease == Init => LeaseInv
  <1> SUFFICES ASSUME Init PROVE LeaseInv
    OBVIOUS
  <1>1. inst \in Instance /\ First \in Replica
    BY ClosedTimestampsAssumption DEF Init
  <1>2. /\ net = {} /\ log = <<>> /\ st = <<[lai |-> 1, ct |-> 0, lease |-> FirstLease]>>
        /\ minVer = [r \in Replica |-> 0] /\ ver = 0
    BY DEF Init
  <1>3. Idx = {0} /\ LeaseAt(0) = FirstLease
    BY <1>2 DEF Idx, LeaseAt, StateAt
  <1>4. /\ FirstLease.holder = First /\ FirstLease.seq = 1 /\ FirstLease.ver = 0
        /\ FirstLease.start = 0 /\ FirstLease.exp \in Nat \ {0} /\ FirstLease.sum = 0
    BY <1>1 DEF FirstLease, Lease, Instance
  <1>5. LeasesOK
    BY <1>1, <1>2, <1>3, <1>4 DEF LeasesOK, SameTerm
  <1>6. RequestsOK /\ TransfersLast
    BY <1>2 DEF RequestsOK, TransfersLast
  <1>7. RenewalsKnown
    <2> SUFFICES ASSUME NEW n \in Idx, Renewed(n) PROVE FALSE
      BY DEF RenewalsKnown
    <2>1. PICK j \in 0 .. n : LeaseAt(j).seq + 1 = LeaseAt(n).seq
      BY DEF Renewed
    <2>2. n = 0 /\ j = 0
      BY <1>3
    <2> QED BY <1>3, <1>4, <2>1, <2>2
  <1> QED BY <1>5, <1>6, <1>7 DEF LeaseInv

-----------------------------------------------------------------------------
(* The entries of a term, and what its leaseholder remembers of them.      *)

LEMMA NumberedType ==
    ASSUME BaseInv, NEW e \in Numbered
    PROVE /\ e \in Sent /\ e \in Entry /\ EntryOK(e) /\ e.kind \in {"write", "transfer"}
          /\ e.mli \in Nat /\ e.mli # 0 /\ e.seq \in Nat /\ e.ct \in Nat /\ e.wts \in Nat
          /\ e.kind = "write" => e.id \in Cmd /\ cmd[e.id].phase = "proposed"
                                 /\ cmd[e.id].home \in Replica /\ e.seq = cmd[e.id].seq
                                 /\ e.seq <= LeaseOf(cmd[e.id].home).seq
  <1>1. e \in Sent /\ e.kind # "request" /\ e.mli # 0
    BY DEF Numbered
  <1>2. e \in Entry /\ EntryOK(e)
    <2>1. CASE e \in net
      BY <2>1 DEF BaseInv, TypeOK, EntriesOK
    <2>2. CASE e \notin net
      <3>1. PICK i \in 1 .. Len(log) : e = log[i]
        BY <1>1, <2>2 DEF Sent
      <3>2. log \in Seq(Entry) /\ EntriesOK
        BY DEF BaseInv, TypeOK
      <3> QED BY <3>1, <3>2 DEF EntriesOK
    <2> QED BY <2>1, <2>2
  <1>3. e.kind \in {"write", "transfer"} /\ (e.kind = "write" => e.id \in Cmd)
    BY <1>1, <1>2 DEF Entry
  <1>4. e.kind = "write" => cmd[e.id].phase = "proposed" /\ e.seq = cmd[e.id].seq
    BY <1>2 DEF EntryOK
  <1>5. e.kind = "write" => cmd[e.id].home \in Replica
                            /\ cmd[e.id].seq <= LeaseOf(cmd[e.id].home).seq
    <2> SUFFICES ASSUME e.kind = "write"
                 PROVE cmd[e.id].home \in Replica /\ cmd[e.id].seq <= LeaseOf(cmd[e.id].home).seq
      OBVIOUS
    <2>1. cmd[e.id].home \in Replica
      BY <1>3, CmdType DEF BaseInv
    <2>2. cmd[e.id].seq <= StateAt(Fx(cmd[e.id].home)).lease.seq
      BY <1>3, <1>4 DEF BaseInv, CmdsOK, CmdOK
    <2> QED BY <2>1, <2>2, FxType DEF BaseInv
  <1> QED BY <1>1, <1>2, <1>3, <1>4, <1>5, LeaseEntryFields

\* No entry is of a term after the last.
LEMMA NumberedNotAfter ==
    ASSUME BaseInv, SentOK, NEW e \in Numbered
    PROVE e.seq <= LastState.lease.seq
  <1>1. PICK n \in Idx : LeaseAt(n).seq = e.seq
    BY DEF SentOK, Known
  <1> QED BY <1>1, NotAfterLast DEF Idx, LeaseAt

\* Nothing is known of a term its holder has not installed.
LEMMA NewTerm ==
    ASSUME BaseInv, LeasesOK, SentOK, Quiet, NEW r \in Replica, NEW n \in Idx,
           LeaseAt(n).holder = r, LeaseOf(r).seq < LeaseAt(n).seq
    PROVE /\ \A e \in Numbered : e.seq # LeaseAt(n).seq
          /\ \A c \in Cmd : cmd[c].home = r /\ cmd[c].phase # "new" => cmd[c].seq < LeaseAt(n).seq
          /\ \A j \in Idx : LeaseAt(j).seq = LeaseAt(n).seq => StateAt(j).ct = StateAt(n).ct
  <1>0. LeaseOf(r).seq \in Nat /\ LeaseAt(n).seq \in Nat
    BY LeaseType, LeaseAtType DEF BaseInv
  <1>1. ASSUME NEW e \in Numbered, e.seq = LeaseAt(n).seq PROVE FALSE
    <2>1. PICK j \in Idx : LeaseAt(j).seq = e.seq /\ e.seq <= LeaseOf(LeaseAt(j).holder).seq
      BY DEF SentOK, Known
    <2>2. LeaseAt(j).holder = r
      BY <1>1, <2>1, OneTerm DEF SameTerm
    <2> QED BY <1>0, <1>1, <2>1, <2>2
  <1>2. ASSUME NEW c \in Cmd, cmd[c].home = r, cmd[c].phase # "new" PROVE cmd[c].seq < LeaseAt(n).seq
    <2>1. cmd[c].seq <= StateAt(Fx(r)).lease.seq
      BY <1>2 DEF BaseInv, CmdsOK, CmdOK
    <2>2. cmd[c].seq <= LeaseOf(r).seq /\ cmd[c].seq \in Nat
      BY <2>1, FxType, CmdType DEF BaseInv
    <2> QED BY <1>0, <2>2
  <1>3. ASSUME NEW j \in Idx, LeaseAt(j).seq = LeaseAt(n).seq PROVE StateAt(j).ct = StateAt(n).ct
    <2>1. LeaseAt(j).holder = r
      BY <1>3, OneTerm DEF SameTerm
    <2>2. ~ (LeaseAt(j).seq <= LeaseOf(LeaseAt(j).holder).seq)
      BY <1>0, <1>3, <2>1
    <2> QED BY <1>3, <2>2 DEF Quiet
  <1> QED BY <1>1, <1>2, <1>3

\* A lease of the term that may be used has been all along.
LEMMA AliveKept ==
    ASSUME BaseInv, BaseInv', LeasesOK, Steady, NEW r \in Replica,
           LeaseOf(r)'.seq = LeaseOf(r).seq, \A c \in Cmd : Claims(c, r)' => Alive(r)
    PROVE /\ Alive(r)' => Alive(r)
          /\ SameTerm(LeaseOf(r)', LeaseOf(r))
  <1>1. PICK m \in Idx, n \in Idx : m = Fx(r) /\ n = Fx(r)' /\ m <= n
    BY LeaseOfIs, SteadyLeaseOf
  <1>2. LeaseOf(r) = LeaseAt(m) /\ LeaseOf(r)' = LeaseAt(n)
    BY <1>1, LeaseOfIs, SteadyLeaseOf, SteadyLog
  <1>3. SameTerm(LeaseAt(n), LeaseAt(m))
    BY <1>2, OneTerm
  <1>4. LeaseAt(n).ver <= ver /\ LeaseAt(n).ver \in Nat /\ ver \in Nat /\ minVer[r] \in Nat
    BY LeaseAtType, ReplicaType, Zenon DEF BaseInv, TypeOK, LeasesOK
  <1>5. minVer'[r] <= LeaseAt(n).ver => minVer'[r] = minVer[r]
    BY <1>4 DEF Steady
  <1>6. LeaseAt(n).holder = r /\ minVer'[r] <= LeaseAt(n).ver => minVer[r] <= LeaseAt(m).ver
    BY <1>1, <1>2, <1>5 DEF LeasesOK
  <1>7. Alive(r)' => Alive(r)
    <2>1. LeaseAt(n).holder = LeaseAt(m).holder
      BY <1>3 DEF SameTerm
    <2> QED BY <1>2, <1>6, <2>1 DEF Alive
  <1> QED BY <1>2, <1>3, <1>7

\* What an entry waits for, it has waited for before.
LEMMA AheadKept ==
    ASSUME BaseInv, BaseInv', LeasesOK, Steady, NEW e \in Numbered, e.kind = "write",
           NEW r \in Replica, r = cmd[e.id].home,
           LeaseOf(r)'.seq = LeaseOf(r).seq => \A c \in Cmd : Claims(c, r)' => Alive(r),
           Ahead(e, r)'
    PROVE Ahead(e, r) /\ LeaseOf(r)'.seq = LeaseOf(r).seq
  <1>1. PICK m \in Idx, n \in Idx : m = Fx(r) /\ n = Fx(r)' /\ m <= n
    BY LeaseOfIs, SteadyLeaseOf
  <1>2. StateAt(Fx(r))' = StateAt(n) /\ StateAt(Fx(r)) = StateAt(m)
    <2>1. StateAt(n)' = StateAt(n)
      BY SteadyLog
    <2> QED BY <1>1, <2>1 DEF StateAt
  <1>3. /\ StateAt(m).lai <= StateAt(n).lai /\ StateAt(m).lai \in Nat /\ StateAt(n).lai \in Nat
    BY <1>1, Ordered DEF Idx
  <1>4. e.mli \in Nat /\ e.seq \in Nat /\ e.seq <= LeaseOf(r).seq
    BY NumberedType
  <1>5. LeaseOf(r).seq <= LeaseOf(r)'.seq /\ LeaseOf(r)'.seq \in Nat /\ LeaseOf(r).seq \in Nat
    BY SteadyLeaseOf, LeaseType DEF BaseInv
  <1>6. e.seq = LeaseOf(r)'.seq /\ StateAt(n).lai < e.mli /\ Alive(r)'
    BY <1>2 DEF Ahead
  <1>7. LeaseOf(r)'.seq = LeaseOf(r).seq
    BY <1>4, <1>5, <1>6
  <1>8. Alive(r)
    BY <1>6, <1>7, AliveKept
  <1>9. StateAt(Fx(r)).lai < e.mli
    BY <1>2, <1>3, <1>4, <1>6
  <1> QED BY <1>6, <1>7, <1>8, <1>9 DEF Ahead

\* What a step that leaves the log alone does to what r has assigned: it keeps what
\* counts under the lease r acts on, and installs enough under a new one.
Recalls(r) ==
    IF LeaseOf(r)'.seq = LeaseOf(r).seq
    THEN /\ \A c \in Cmd : Claims(c, r)' => Alive(r)
         /\ Alive(r)' /\ Alive(r) /\ AboveTerm(r) =>
               /\ low[r] <= low'[r]
               /\ assigned[r].ct <= assigned'[r].ct /\ assigned[r].lai <= assigned'[r].lai
               /\ \A c \in Cmd : cmd'[c].home = r /\ cmd'[c].seq = LeaseOf(r).seq /\ cmd'[c].trk # 0
                                    => assigned'[r].ct < cmd'[c].trk
    ELSE Alive(r)' =>
               /\ LeaseOf(r)'.sum <= low'[r] /\ StateAt(Fx(r))'.ct <= assigned'[r].ct
               /\ \A c \in Cmd : cmd'[c].home = r /\ cmd'[c].seq = LeaseOf(r)'.seq => cmd'[c].trk = 0
Recalled == \A r \in Replica : Recalls(r)
\* It keeps hold of what is ahead.
KeepsHold ==
    \A e \in Numbered : \A r \in Replica :
        e.kind = "write" /\ cmd[e.id].home = r /\ Ahead(e, r)' /\ Ahead(e, r) /\ Holds(e.id, e.mli)
            => Holds(e.id, e.mli)'
\* An entry that is proposed is above all there is of its term.
Fresh(f) ==
    /\ Known(f.seq)'
    /\ Current(f) =>
          /\ \A e \in Numbered : Current(e) => e.mli < f.mli /\ After(e.ct, f)
          /\ \A n \in Idx : LeaseAt(n).seq = f.seq => After(StateAt(n).ct, f)
    /\ \A r \in Replica : Alive(r)' /\ f.seq = LeaseOf(r)'.seq
                              => f.ct <= assigned'[r].ct /\ f.mli <= assigned'[r].lai
    /\ f.kind = "write" => Holds(f.id, f.mli)'

LEMMA KnownKept ==
    ASSUME BaseInv, BaseInv', Steady, NEW q \in Nat, Known(q)
    PROVE Known(q)'
  <1>1. PICK n \in Idx : LeaseAt(n).seq = q /\ q <= LeaseOf(LeaseAt(n).holder).seq
    BY DEF Known
  <1>2. LeaseAt(n).holder \in Replica
    BY LeaseAtType DEF BaseInv
  <1>3. LeaseAt(n)' = LeaseAt(n) /\ Idx' = Idx
    BY SteadyLog
  <1>4. PICK h \in Replica : h = LeaseAt(n).holder
    BY <1>2
  <1>5. LeaseOf(h).seq <= LeaseOf(h)'.seq /\ LeaseOf(h)'.seq \in Nat /\ LeaseOf(h).seq \in Nat
    BY SteadyLeaseOf, LeaseType DEF BaseInv
  <1>6. q <= LeaseOf(h)'.seq
    BY <1>1, <1>4, <1>5
  <1> QED BY <1>1, <1>3, <1>4, <1>6 DEF Known

\* The parts of the invariant that are about the log and what was proposed.
LEMMA OrderSteady ==
    ASSUME BaseInv, BaseInv', EntryInv, Steady,
           \A f \in Numbered' \ Numbered : Fresh(f),
           \A e, f \in Numbered' \ Numbered : e = f
    PROVE (\A e \in Numbered' : Known(e.seq)') /\ ClosedGrows' /\ Quiet' /\ InOrder' /\ AboveStates'
  <1>0. /\ Idx' = Idx /\ \A n : LeaseAt(n)' = LeaseAt(n) /\ StateAt(n)' = StateAt(n)
        /\ LastState' = LastState
    BY SteadyLog, SameLog DEF Steady
  <1>1. \A e \in Numbered' : Known(e.seq)'
    <2> SUFFICES ASSUME NEW e \in Numbered', e \in Numbered PROVE Known(e.seq)'
      BY DEF Fresh
    <2>1. e.seq \in Nat /\ Known(e.seq)
      BY NumberedType DEF EntryInv, SentOK
    <2> QED BY <2>1, KnownKept
  <1>2. ClosedGrows'
    BY <1>0 DEF EntryInv, ClosedGrows
  <1>3. Quiet'
    <2> SUFFICES ASSUME NEW m \in Idx, NEW n \in Idx, LeaseAt(m).seq = LeaseAt(n).seq,
                        StateAt(m).ct # StateAt(n).ct \/ StateAt(m).lai # StateAt(n).lai
                 PROVE LeaseAt(m).seq <= LeaseOf(LeaseAt(m).holder)'.seq
      BY <1>0 DEF Quiet
    <2>1. LeaseAt(m).seq <= LeaseOf(LeaseAt(m).holder).seq
      BY DEF EntryInv, Quiet
    <2>2. PICK h \in Replica : h = LeaseAt(m).holder
      BY LeaseAtType DEF BaseInv
    <2>3. LeaseOf(h).seq <= LeaseOf(h)'.seq /\ LeaseOf(h)'.seq \in Nat /\ LeaseOf(h).seq \in Nat
      BY SteadyLeaseOf, LeaseType DEF BaseInv
    <2>4. LeaseAt(m).seq \in Nat /\ LeaseAt(m)' = LeaseAt(m)
      BY <1>0, LeaseAtType DEF BaseInv
    <2>5. LeaseAt(m).seq <= LeaseOf(h)'.seq
      BY <2>1, <2>2, <2>3, <2>4
    <2> QED BY <2>2, <2>4, <2>5
  <1>4. \A e : Current(e)' <=> Current(e)
    BY <1>0 DEF Current
  <1>5. InOrder'
    <2> SUFFICES ASSUME NEW e \in Numbered', NEW f \in Numbered', Current(e), Current(f), e.mli < f.mli
                 PROVE After(e.ct, f)
      BY <1>4 DEF InOrder, After
    <2>1. CASE e \in Numbered /\ f \in Numbered
      BY <2>1 DEF EntryInv, InOrder
    <2>2. CASE e \in Numbered /\ f \notin Numbered
      BY <2>2 DEF Fresh
    <2>3. CASE e \notin Numbered /\ f \in Numbered
      <3>1. f.mli < e.mli
        BY <2>3 DEF Fresh
      <3>2. f.mli \in Nat
        BY <2>3, NumberedType
      <3>3. e.mli \in Nat
        <4>1. e \in net' \cup {log'[i] : i \in 1 .. Len(log')}
          BY DEF Numbered, Sent
        <4>2. net' \subseteq Entry /\ log' \in Seq(Entry)
          BY DEF BaseInv, TypeOK
        <4>3. e \in Entry
          BY <4>1, <4>2
        <4> QED BY <4>3, LeaseEntryFields
      <3> QED BY <3>1, <3>2, <3>3
    <2>4. CASE e \notin Numbered /\ f \notin Numbered
      <3>1. e = f
        BY <2>4
      <3>2. f.mli \in Nat
        <4>1. f \in net' \cup {log'[i] : i \in 1 .. Len(log')}
          BY DEF Numbered, Sent
        <4>2. net' \subseteq Entry /\ log' \in Seq(Entry)
          BY DEF BaseInv, TypeOK
        <4>3. f \in Entry
          BY <4>1, <4>2
        <4> QED BY <4>3, LeaseEntryFields
      <3> QED BY <3>1, <3>2
    <2> QED BY <2>1, <2>2, <2>3, <2>4
  <1>6. AboveStates'
    <2> SUFFICES ASSUME NEW e \in Numbered', Current(e), NEW n \in Idx,
                        LeaseAt(n).seq = e.seq, StateAt(n).lai < e.mli
                 PROVE After(StateAt(n).ct, e)
      BY <1>0, <1>4 DEF AboveStates, After
    <2>1. CASE e \in Numbered
      BY <2>1 DEF EntryInv, AboveStates
    <2>2. CASE e \notin Numbered
      BY <2>2 DEF Fresh
    <2> QED BY <2>1, <2>2
  <1> QED BY <1>1, <1>2, <1>3, <1>5, <1>6

LEMMA MemorySteady ==
    ASSUME BaseInv, BaseInv', LeasesOK, EntryInv, Steady, NEW r \in Replica, Recalls(r), Alive(r)',
           \A f \in Numbered' \ Numbered : Fresh(f)
    PROVE AboveTerm(r)'
  <1>0. Idx' = Idx /\ \A n : LeaseAt(n)' = LeaseAt(n) /\ StateAt(n)' = StateAt(n)
    BY SteadyLog
  <1>1. /\ assigned[r].lai \in Nat /\ assigned[r].ct \in Nat /\ low[r] \in Nat
        /\ assigned'[r].lai \in Nat /\ assigned'[r].ct \in Nat /\ low'[r] \in Nat
    BY ReplicaType, Zenon DEF BaseInv, TypeOK
  <1>2. CASE LeaseOf(r)'.seq = LeaseOf(r).seq
    <2>1. Alive(r) /\ SameTerm(LeaseOf(r)', LeaseOf(r))
      BY <1>2, AliveKept DEF Recalls
    <2>2. AboveTerm(r)
      BY <2>1 DEF EntryInv, MemoryOK
    <2>3. /\ low[r] <= low'[r]
          /\ assigned[r].ct <= assigned'[r].ct /\ assigned[r].lai <= assigned'[r].lai
          /\ \A c \in Cmd : cmd'[c].home = r /\ cmd'[c].seq = LeaseOf(r).seq /\ cmd'[c].trk # 0
                               => assigned'[r].ct < cmd'[c].trk
      BY <1>2, <2>1, <2>2 DEF Recalls
    <2>4. LeaseOf(r)'.sum <= low'[r]
      <3>1. LeaseOf(r)'.sum = LeaseOf(r).sum /\ LeaseOf(r).sum \in Nat /\ LeaseOf(r).sum <= low[r]
        BY <2>1, <2>2, LeaseType DEF SameTerm, AboveTerm, BaseInv
      <3> QED BY <1>1, <2>3, <3>1
    <2>5. \A n \in Idx : LeaseAt(n).seq = LeaseOf(r).seq => StateAt(n).ct <= assigned'[r].ct
      <3> TAKE n \in Idx
      <3>1. StateAt(n).ct \in Nat
        BY StateType DEF BaseInv, Idx
      <3> QED BY <1>1, <2>2, <2>3, <3>1 DEF AboveTerm
    <2>6. \A e \in Numbered' : e.seq = LeaseOf(r).seq
                              => e.ct <= assigned'[r].ct /\ e.mli <= assigned'[r].lai
      <3> SUFFICES ASSUME NEW e \in Numbered', e.seq = LeaseOf(r).seq
                   PROVE e.ct <= assigned'[r].ct /\ e.mli <= assigned'[r].lai
        OBVIOUS
      <3>1. CASE e \in Numbered
        <4>1. e.ct \in Nat /\ e.mli \in Nat /\ e.ct <= assigned[r].ct /\ e.mli <= assigned[r].lai
          BY <2>2, <3>1, NumberedType DEF AboveTerm
        <4> QED BY <1>1, <2>3, <4>1
      <3>2. CASE e \notin Numbered
        BY <1>2, <3>2 DEF Fresh
      <3> QED BY <3>1, <3>2
    <2> QED BY <1>0, <1>2, <2>3, <2>4, <2>5, <2>6 DEF AboveTerm
  <1>3. CASE LeaseOf(r)'.seq # LeaseOf(r).seq
    <2>1. /\ LeaseOf(r)'.sum <= low'[r] /\ StateAt(Fx(r))'.ct <= assigned'[r].ct
          /\ \A c \in Cmd : cmd'[c].home = r /\ cmd'[c].seq = LeaseOf(r)'.seq => cmd'[c].trk = 0
      BY <1>3 DEF Recalls
    <2>2. PICK n \in Idx : n = Fx(r)' /\ LeaseOf(r)' = LeaseAt(n)
      BY <1>0, SteadyLeaseOf
    <2>3. LeaseOf(r).seq < LeaseAt(n).seq
      BY <1>3, <2>2, SteadyLeaseOf, LeaseType DEF BaseInv
    <2>4. LeaseAt(n).holder = r
      BY <2>2 DEF Alive
    <2>5. /\ \A e \in Numbered : e.seq # LeaseAt(n).seq
          /\ \A j \in Idx : LeaseAt(j).seq = LeaseAt(n).seq => StateAt(j).ct = StateAt(n).ct
      BY <2>3, <2>4, NewTerm DEF EntryInv
    <2>6. StateAt(n).ct <= assigned'[r].ct
      <3>1. StateAt(Fx(r))' = StateAt(n)'
        BY <2>2 DEF StateAt
      <3> QED BY <1>0, <2>1, <3>1
    <2>7. \A e \in Numbered' : e.seq = LeaseOf(r)'.seq
                              => e.ct <= assigned'[r].ct /\ e.mli <= assigned'[r].lai
      BY <2>2, <2>5 DEF Fresh
    <2> QED BY <1>0, <2>1, <2>2, <2>5, <2>6, <2>7 DEF AboveTerm
  <1> QED BY <1>2, <1>3

LEMMA EntrySteady ==
    ASSUME BaseInv, BaseInv', LeasesOK, EntryInv, Steady, AdmittedOK',
           \A c \in Cmd : cmd'[c].mli # 0 => Write(c)' \in Sent',
           \A r \in Replica : Recalls(r), KeepsHold,
           \A e \in Numbered : e.kind = "write" => cmd'[e.id].home = cmd[e.id].home,
           \A f \in Numbered' \ Numbered : Fresh(f),
           \A e, f \in Numbered' \ Numbered : e = f
    PROVE EntryInv'
  <1>1. (\A e \in Numbered' : Known(e.seq)') /\ ClosedGrows' /\ Quiet' /\ InOrder' /\ AboveStates'
    BY OrderSteady
  <1>2. MemoryOK'
    BY MemorySteady DEF MemoryOK
  <1>3. InFlight'
    <2> SUFFICES ASSUME NEW e \in Numbered', e.kind = "write" PROVE InHand(e)'
      BY DEF InFlight
    <2>1. CASE e \notin Numbered
      BY <2>1 DEF Fresh, InHand
    <2>2. CASE e \in Numbered
      <3>1. PICK r \in Replica : r = cmd[e.id].home /\ r = cmd'[e.id].home
        BY <2>2, NumberedType
      <3> SUFFICES ASSUME Ahead(e, r)' PROVE Holds(e.id, e.mli)'
        BY <3>1 DEF InHand
      <3>2. LeaseOf(r)'.seq = LeaseOf(r).seq => \A c \in Cmd : Claims(c, r)' => Alive(r)
        BY DEF Recalls
      <3>3. Ahead(e, r)
        BY <2>2, <3>1, <3>2, AheadKept
      <3>4. Holds(e.id, e.mli)
        BY <2>2, <3>1, <3>3 DEF EntryInv, InFlight, InHand
      <3> QED BY <2>2, <3>1, <3>3, <3>4 DEF KeepsHold
    <2> QED BY <2>1, <2>2
  <1>4. SentOK'
    BY <1>1 DEF SentOK
  <1> QED BY <1>1, <1>2, <1>3, <1>4 DEF EntryInv

\* A command that is left alone, or goes one step towards its end.
Tame(c) ==
    /\ Constant(c) /\ cmd'[c].trk \in {cmd[c].trk, 0} /\ (cmd[c].applied => cmd'[c].applied)
AdmittedC(c) ==
    /\ cmd[c].phase # "new" =>
          \E n \in 0 .. Fx(cmd[c].home) :
              LeaseAt(n).seq = cmd[c].seq /\ LeaseAt(n).holder = cmd[c].home
    /\ cmd[c].trk # 0 => cmd[c].trk <= cmd[c].wts
    /\ cmd[c].wts # 0 => cmd[c].phase = "proposed"

LEMMA ClaimsAlive ==
    ASSUME BaseInv, LeasesOK, AdmittedOK, NEW r \in Replica, NEW c \in Cmd, Claims(c, r)
    PROVE Alive(r)
  <1>1. cmd[c].phase # "new" /\ cmd[c].home = r /\ cmd[c].seq = LeaseOf(r).seq
    BY DEF Claims
  <1>2. PICK n \in 0 .. Fx(r) : LeaseAt(n).seq = LeaseOf(r).seq /\ LeaseAt(n).holder = r
    BY <1>1 DEF AdmittedOK
  <1>3. n \in Idx /\ Fx(r) \in Idx /\ LeaseOf(r) = LeaseAt(Fx(r))
    BY LeaseOfIs DEF Idx
  <1>4. LeaseOf(r).holder = r
    BY <1>2, <1>3, OneTerm, Zenon DEF SameTerm
  <1> QED BY <1>4 DEF Alive

LEMMA RecallsCalm ==
    ASSUME BaseInv, LeasesOK, AdmittedOK, NEW r \in Replica, LeaseOf(r)' = LeaseOf(r),
           assigned'[r] = assigned[r], low'[r] = low[r],
           \A c \in Cmd : Tame(c) \/ cmd'[c].home # r
    PROVE Recalls(r)
  <1>1. \A c \in Cmd : Claims(c, r)' => Claims(c, r)
    BY DEF Claims, Tame, Constant
  <1>2. LeaseOf(r)'.seq = LeaseOf(r).seq
    OBVIOUS
  <1>3. \A c \in Cmd : Claims(c, r)' => Alive(r)
    BY <1>1, ClaimsAlive
  <1>4. assigned[r].ct <= assigned[r].ct /\ assigned[r].lai <= assigned[r].lai /\ low[r] <= low[r]
    BY ReplicaType DEF BaseInv
  <1> QED BY <1>2, <1>3, <1>4 DEF Recalls, AboveTerm, Tame, Constant

LEMMA AdmittedKept ==
    ASSUME BaseInv, BaseInv', AdmittedOK, Steady, NEW c \in Cmd, AdmittedC(c),
           cmd'[c].home = cmd[c].home, cmd'[c].seq = cmd[c].seq, cmd'[c].wts = cmd[c].wts,
           cmd[c].phase = "new" => cmd'[c].phase = "new",
           cmd[c].phase = "proposed" => cmd'[c].phase = "proposed",
           cmd'[c].trk # 0 => cmd'[c].trk <= cmd'[c].wts
    PROVE AdmittedC(c)'
  <1>1. cmd'[c].phase # "new" => cmd[c].phase # "new"
    OBVIOUS
  <1>2. ASSUME cmd'[c].phase # "new"
        PROVE \E n \in 0 .. Fx(cmd[c].home)' : LeaseAt(n)'.seq = cmd'[c].seq /\ LeaseAt(n)'.holder = cmd'[c].home
    <2>1. PICK n \in 0 .. Fx(cmd[c].home) : LeaseAt(n).seq = cmd[c].seq /\ LeaseAt(n).holder = cmd[c].home
      BY <1>1, <1>2 DEF AdmittedC
    <2>2. PICK r \in Replica : r = cmd[c].home /\ r = cmd'[c].home
      BY CmdType DEF BaseInv
    <2>3. Fx(r) <= Fx(r)' /\ Fx(r) \in Nat /\ Fx(r)' \in Nat
      BY LeaseOfIs, SteadyLeaseOf DEF Idx
    <2>4. n \in 0 .. Fx(r)'
      BY <2>1, <2>2, <2>3
    <2>5. LeaseAt(n)' = LeaseAt(n)
      BY SteadyLog
    <2>6. Fx(cmd[c].home)' = Fx(r)'
      BY <2>2 DEF Fx
    <2> QED BY <2>1, <2>4, <2>5, <2>6
  <1> QED BY <1>2 DEF AdmittedC

LEMMA AdmittedTame ==
    ASSUME BaseInv, BaseInv', AdmittedOK, Steady, \A c \in Cmd : Tame(c)
    PROVE AdmittedOK'
  <1> SUFFICES ASSUME NEW c \in Cmd PROVE AdmittedC(c)'
    BY DEF AdmittedOK, AdmittedC
  <1>1. AdmittedC(c)
    BY DEF AdmittedOK, AdmittedC
  <1>2. Tame(c)
    OBVIOUS
  <1> QED BY <1>1, <1>2, AdmittedKept DEF Tame, Constant, AdmittedC

\* Steps that touch neither batches nor proposals.
LEMMA CalmEntries ==
    ASSUME BaseInv, BaseInv', LeasesOK, EntryInv, Steady, UNCHANGED <<batch, inst>>,
           \A r \in Replica : Recalls(r),
           \A c \in Cmd : /\ Tame(c) /\ cmd'[c].mli = cmd[c].mli /\ cmd'[c].ct = cmd[c].ct
                          /\ cmd[c].inMap => cmd'[c].inMap,
           net \subseteq net', Numbered' \subseteq Numbered
    PROVE EntryInv' /\ Recalled
  <1>1. AdmittedOK'
    BY AdmittedTame DEF EntryInv
  <1>2. log' = log
    BY DEF Steady, raft
  <1>3. ASSUME NEW c \in Cmd, cmd'[c].mli # 0 PROVE Write(c)' \in Sent'
    <2>1. Write(c) \in Sent
      BY <1>3 DEF EntryInv, SentOK
    <2>2. Write(c)' = Write(c)
      BY DEF Write, FirstLease, Tame, Constant
    <2> QED BY <1>2, <2>1, <2>2 DEF Sent
  <1>4. KeepsHold
    <2> SUFFICES ASSUME NEW e \in Numbered, e.kind = "write", Holds(e.id, e.mli)
                 PROVE Holds(e.id, e.mli)'
      BY DEF KeepsHold
    <2>1. e.id \in Cmd
      BY NumberedType
    <2> QED BY <1>2, <2>1 DEF Holds, InBatch, Tame, Constant
  <1>5. \A e \in Numbered : e.kind = "write" => cmd'[e.id].home = cmd[e.id].home
    BY NumberedType DEF Tame, Constant
  <1> QED BY <1>1, <1>3, <1>4, <1>5, EntrySteady DEF Recalled

LEMMA SentSame ==
    ASSUME UNCHANGED <<net, raft>>
    PROVE Sent' = Sent /\ Numbered' = Numbered
  BY DEF Sent, Numbered, raft

\* Only the flush of a new proposal gives a command a closed timestamp.
LEMMA ClosedKept ==
    ASSUME BaseInv, NEW d \in Cmd,
           \/ \E c \in Cmd : FlushReproposal(c) \/ FlushAfterError(c)
           \/ \E c \in Cmd : \E x : Admit(x, c) \/ Track(c, x)
           \/ \E r \in Replica : \E n : Decode(r, n)
           \/ \E r \in Replica : Refresh(r) \/ SideEffects(r) \/ Restart(r)
           \/ \E r, q \in Replica : ApplySnapshot(r, q)
    PROVE cmd'[d].ct = cmd[d].ct
  <1>0. \A c \in Cmd : cmd[c] \in Command
    BY CmdType DEF BaseInv
  <1>1. cmd \in [Cmd -> Command]
    BY DEF BaseInv, TypeOK
  <1>2. ASSUME NEW c \in Cmd, FlushReproposal(c) \/ FlushAfterError(c) PROVE cmd'[d].ct = cmd[d].ct
    <2>1. \/ cmd' = [cmd EXCEPT ![c].buf = @ - 1, ![c].inMap = TRUE]
          \/ cmd' = [cmd EXCEPT ![c].buf = @ - 1, ![c].trk = 0, ![c].inMap = TRUE]
      BY <1>2, Zenon DEF FlushReproposal, FlushAfterError
    <2> QED BY <1>0, <1>1, <2>1 DEF Command
  <1>3. ASSUME NEW c \in Cmd, NEW x, Admit(x, c) PROVE cmd'[d].ct = cmd[d].ct
    BY <1>0, <1>1, <1>3, Zenon DEF Admit, Command
  <1>4. ASSUME NEW c \in Cmd, NEW x, Track(c, x) PROVE cmd'[d].ct = cmd[d].ct
    BY <1>0, <1>1, <1>4, Zenon DEF Track, Command
  <1>5. ASSUME NEW r \in Replica, NEW n, Decode(r, n) PROVE cmd'[d].ct = cmd[d].ct
    <2>1. PICK b, t : cmd'[d] = [cmd[d] EXCEPT !.inMap = b, !.told = t]
      BY <1>0, <1>5, Zenon DEF Decode
    <2> QED BY <1>0, <2>1 DEF Command
  <1>6. ASSUME NEW C, cmd' = Refreshed(C) PROVE cmd'[d].ct = cmd[d].ct
    BY <1>0, <1>6 DEF Refreshed, Command
  <1>7. ASSUME NEW r \in Replica, Refresh(r) PROVE cmd'[d].ct = cmd[d].ct
    BY <1>6, <1>7 DEF Refresh
  <1>8. ASSUME NEW r \in Replica, SideEffects(r) PROVE cmd'[d].ct = cmd[d].ct
    <2> DEFINE e == log[batch[r].fx + 1]
    <2>1. ASSUME NEW c \in Cmd, NEW a, Finish(c, e, a) PROVE cmd'[d].ct = cmd[d].ct
      <3>1. PICK b, t : cmd' = [cmd EXCEPT ![c].told = t, ![c].applied = TRUE, ![c].inMap = b]
        BY <2>1, Zenon DEF Finish
      <3> QED BY <1>0, <1>1, <3>1 DEF Command
    <2>2. ASSUME NEW c \in Cmd, TryReproposeWithNewLeaseIndex(r, c, e) PROVE cmd'[d].ct = cmd[d].ct
      <3>1. CASE Finish(c, e, "rejected")
        BY <2>1, <3>1
      <3>2. CASE cmd' = [cmd EXCEPT ![c].trk = cmd[c].wts, ![c].buf = @ + 1, ![c].mli = 0]
        BY <1>0, <1>1, <3>2 DEF Command
      <3>3. CASE cmd' = cmd
        BY <3>3
      <3> QED BY <2>2, <3>1, <3>2, <3>3 DEF TryReproposeWithNewLeaseIndex, proposer
    <2>3. batch[r].fx + 1 \in batch[r].bound => e.id \in Cmd
      BY <1>8, SideEffectsFacts
    <2>4. \/ cmd' = cmd
          \/ /\ batch[r].fx + 1 \in batch[r].bound
             /\ \/ \E a \in {"ok", "rejected"} : Finish(e.id, e, a)
                \/ TryReproposeWithNewLeaseIndex(r, e.id, e)
      BY <1>8 DEF SideEffects, proposer
    <2> HIDE DEF e
    <2> QED BY <2>1, <2>2, <2>3, <2>4
  <1>9. ASSUME NEW r \in Replica, NEW q \in Replica, ApplySnapshot(r, q) PROVE cmd'[d].ct = cmd[d].ct
    <2>1. cmd' = GiveUp(r, State(q).lai) \/ cmd' = Refreshed(Pending(r))
      BY <1>9 DEF ApplySnapshot
    <2>2. CASE cmd' = GiveUp(r, State(q).lai)
      <3>1. cmd'[d] = cmd[d] \/ \E t : cmd'[d] = [cmd[d] EXCEPT !.inMap = FALSE, !.told = t]
        BY <2>2, Zenon DEF GiveUp
      <3> QED BY <1>0, <3>1, Zenon DEF Command
    <2> QED BY <1>6, <2>1, <2>2
  <1>10. ASSUME NEW r \in Replica, Restart(r) PROVE cmd'[d].ct = cmd[d].ct
    <2>1. cmd'[d] = cmd[d] \/ \E t : cmd'[d] = [cmd[d] EXCEPT !.phase = "proposed", !.trk = 0, !.buf = 0,
                                     !.inMap = FALSE, !.applied = TRUE, !.told = t]
      BY <1>10, Zenon DEF Restart
    <2> QED BY <1>0, <2>1, Zenon DEF Command
  <1> QED BY <1>2, <1>3, <1>4, <1>5, <1>7, <1>8, <1>9, <1>10

\* Steps that leave leases, batches and assignments alone.
LEMMA IdleEntries ==
    ASSUME BaseInv, BaseInv', LeasesOK, EntryInv, Steady, UNCHANGED <<raft, batch, inst, assigned, low>>,
           \A r \in Replica : Fx(r)' = Fx(r),
           \A c \in Cmd : /\ Tame(c) /\ cmd'[c].mli = cmd[c].mli /\ cmd'[c].ct = cmd[c].ct
                          /\ cmd[c].inMap => cmd'[c].inMap,
           net \subseteq net', Numbered' \subseteq Numbered
    PROVE EntryInv' /\ Recalled
  <1>1. \A r \in Replica : LeaseOf(r)' = LeaseOf(r)
    <2> TAKE r \in Replica
    <2>1. PICK n : n = Fx(r) /\ n = Fx(r)'
      OBVIOUS
    <2> QED BY <2>1, LeaseOfIs, SteadyLeaseOf, SteadyLog
  <1>2. \A r \in Replica : Recalls(r)
    BY <1>1, RecallsCalm DEF EntryInv
  <1> QED BY <1>2, CalmEntries DEF Recalled

LEMMA SameCmdIsTame ==
    ASSUME NEW c \in Cmd, cmd' = cmd
    PROVE /\ Tame(c) /\ cmd'[c].mli = cmd[c].mli /\ cmd'[c].ct = cmd[c].ct
          /\ cmd[c].inMap => cmd'[c].inMap
  BY DEF Tame, Constant

LEMMA FlushedAgainEntries ==
    ASSUME BaseInv, BaseInv', LeasesOK, EntryInv, Steady, NEW c \in Cmd,
           FlushReproposal(c) \/ FlushAfterError(c)
    PROVE EntryInv' /\ Recalled
  <1>1. /\ Constant(c) /\ cmd'[c].trk = 0 /\ cmd'[c].inMap = TRUE /\ cmd'[c].mli = cmd[c].mli
        /\ cmd'[c].applied = cmd[c].applied
        /\ \A d \in Cmd \ {c} : cmd'[d] = cmd[d]
        /\ UNCHANGED <<raft, ap, batch, leases, assigned, inst>>
        /\ \A e \in net' : e \in net \/ e = Write(c)
    BY FlushReproposalFacts, Zenon
  <1>2. \A d \in Cmd : cmd'[d].ct = cmd[d].ct
    BY ClosedKept
  <1>3. \A d \in Cmd : /\ Tame(d) /\ cmd'[d].mli = cmd[d].mli /\ cmd'[d].ct = cmd[d].ct
                       /\ cmd[d].inMap => cmd'[d].inMap
    BY <1>1, <1>2 DEF Tame, Constant
  <1>4. net \subseteq net'
    BY DEF FlushReproposal, FlushAfterError
  <1>5. Numbered' \subseteq Numbered
    <2>1. Write(c).mli = cmd[c].mli
      BY DEF Write
    <2>2. cmd[c].mli # 0 => Write(c) \in Sent
      BY DEF EntryInv, SentOK
    <2>3. log' = log
      BY <1>1 DEF raft
    <2> QED BY <1>1, <2>1, <2>2, <2>3 DEF Numbered, Sent
  <1>6. \A r \in Replica : Fx(r)' = Fx(r)
    BY <1>1 DEF Fx
  <1> QED BY <1>1, <1>3, <1>4, <1>5, <1>6, IdleEntries DEF leases, Recalled

LEMMA RefreshEntries ==
    ASSUME BaseInv, BaseInv', LeasesOK, EntryInv, Steady, NEW r \in Replica, Refresh(r)
    PROVE EntryInv' /\ Recalled
  <1>1. UNCHANGED <<net, raft, ap, batch, assigned, leases, inst>> /\ cmd' = Refreshed(Pending(r))
    BY DEF Refresh
  <1>2. \A d \in Cmd : cmd'[d].ct = cmd[d].ct
    BY ClosedKept
  <1>3. \A d \in Cmd : /\ Tame(d) /\ cmd'[d].mli = cmd[d].mli /\ cmd'[d].ct = cmd[d].ct
                       /\ cmd[d].inMap => cmd'[d].inMap
    BY <1>1, <1>2, RefreshedFacts DEF Tame, BaseInv
  <1>4. \A q \in Replica : Fx(q)' = Fx(q)
    BY <1>1 DEF Fx
  <1> QED BY <1>1, <1>3, <1>4, IdleEntries, SentSame DEF leases, Recalled

LEMMA ApplyBatchEntries ==
    ASSUME BaseInv, BaseInv', LeasesOK, EntryInv, Steady, NEW r \in Replica, NEW n, ApplyBatch(r, n)
    PROVE EntryInv' /\ Recalled
  <1>1. batch[r] # Idle /\ ap' = [ap EXCEPT ![r] = n] /\ UNCHANGED <<net, raft, batch, cmd, assigned, leases, inst>>
    BY DEF ApplyBatch, proposer, bounds
  <1>2. \A q \in Replica : Fx(q)' = Fx(q)
    <2>1. ap \in [Replica -> Nat]
      BY DEF BaseInv, TypeOK
    <2> QED BY <1>1, <2>1 DEF Fx
  <1> QED BY <1>1, <1>2, IdleEntries, SentSame, SameCmdIsTame DEF leases, Recalled

LEMMA StutterEntries ==
    ASSUME BaseInv, BaseInv', LeasesOK, EntryInv, Steady,
           UNCHANGED <<net, raft, ap, batch, cmd, assigned, low, inst>>
    PROVE EntryInv' /\ Recalled
  <1>1. \A q \in Replica : Fx(q)' = Fx(q)
    BY DEF Fx
  <1> QED BY <1>1, IdleEntries, SentSame, SameCmdIsTame DEF Recalled

LEMMA RequestEntries ==
    ASSUME BaseInv, BaseInv', LeasesOK, EntryInv, Steady, NEW r \in Replica, RequestLease(r)
    PROVE EntryInv' /\ Recalled
  <1>1. UNCHANGED <<raft, ap, batch, cmd, assigned, low, inst>>
    BY RequestLeaseFacts DEF proposer, bounds
  <1>2. PICK f \in Entry : net' = net \cup {f} /\ f.kind = "request"
    BY RequestEntry
  <1>3. net \subseteq net' /\ Numbered' \subseteq Numbered
    <2>1. log' = log
      BY <1>1 DEF raft
    <2> QED BY <1>2, <2>1 DEF Numbered, Sent
  <1>4. \A q \in Replica : Fx(q)' = Fx(q)
    BY <1>1 DEF Fx
  <1> QED BY <1>1, <1>3, <1>4, IdleEntries, SameCmdIsTame DEF Recalled

LEMMA BumpEntries ==
    ASSUME BaseInv, BaseInv', LeasesOK, EntryInv, Steady, NEW r \in Replica, NEW target \in Ts,
           BumpSideTransportClosed(r, target)
    PROVE EntryInv' /\ Recalled
  <1>1. /\ UNCHANGED <<net, raft, ap, batch, cmd, low, inst>>
        /\ \A t \in TrackedAt(r) : t > target
        /\ target > assigned[r].ct
        /\ assigned' = [assigned EXCEPT ![r].ct = target]
    BY DEF BumpSideTransportClosed, Advances, leases, bounds
  <1>2. target \in Nat /\ assigned[r].ct \in Nat /\ assigned[r].lai \in Nat
        /\ assigned \in [Replica -> [lai : Nat, ct : Nat]]
    <2>1. inst.maxTs \in Nat
      BY DEF BaseInv, TypeOK, Instance
    <2>2. target \in Nat /\ assigned \in [Replica -> [lai : Nat, ct : Nat]]
      BY <2>1 DEF BaseInv, TypeOK, Ts
    <2> QED BY <2>2, ReplicaType DEF BaseInv
  <1>3. \A q \in Replica : LeaseOf(q)' = LeaseOf(q)
    BY <1>1 DEF LeaseOf, StateAt, raft
  <1>4. assigned'[r].ct = target /\ assigned'[r].lai = assigned[r].lai
        /\ \A q \in Replica \ {r} : assigned'[q] = assigned[q]
    BY <1>1, <1>2
  <1>5. \A c \in Cmd : cmd[c].home = r /\ cmd[c].trk # 0 => target < cmd[c].trk
    <2> SUFFICES ASSUME NEW c \in Cmd, cmd[c].home = r, cmd[c].trk # 0 PROVE target < cmd[c].trk
      OBVIOUS
    <2>1. cmd[c].phase = "proposed"
      BY BusyIsProposed DEF BaseInv
    <2>2. cmd[c].trk \in TrackedAt(r)
      BY <2>1 DEF TrackedAt, Mine
    <2>3. cmd[c].trk \in Nat
      BY CmdType DEF BaseInv
    <2> QED BY <1>1, <1>2, <2>2, <2>3
  <1>6. Recalls(r)
    <2>1. \A c \in Cmd : Claims(c, r)' => Alive(r)
      BY <1>1, <1>3, ClaimsAlive DEF Claims, EntryInv
    <2>2. low[r] <= low'[r]
      BY <1>1, ReplicaType DEF BaseInv
    <2>3. LeaseOf(r)'.seq = LeaseOf(r).seq
      BY <1>3
    <2> QED BY <1>1, <1>2, <1>4, <1>5, <2>1, <2>2, <2>3 DEF Recalls
  <1>7. \A q \in Replica \ {r} : Recalls(q)
    BY <1>1, <1>3, <1>4, RecallsCalm, SameCmdIsTame DEF EntryInv
  <1> QED BY <1>1, <1>6, <1>7, CalmEntries, SentSame, SameCmdIsTame DEF Recalled

\* A command is evaluated: Admit and Track.
LEMMA EvaluatedEntries ==
    ASSUME BaseInv, BaseInv', LeasesOK, EntryInv, Steady, NEW c \in Cmd, cmd[c].phase # "proposed",
           \A d \in Cmd \ {c} : cmd'[d] = cmd[d],
           UNCHANGED <<net, raft, ap, batch, assigned, low, inst>>,
           cmd'[c].mli = 0, AdmittedC(c)',
           NEW h \in Replica, cmd'[c].home = h, Claims(c, h)' => Alive(h),
           cmd'[c].trk # 0 => assigned[h].ct < cmd'[c].trk
    PROVE EntryInv' /\ Recalled
  <1>1. \A r \in Replica : LeaseOf(r)' = LeaseOf(r)
    BY DEF LeaseOf, StateAt, raft
  <1>2. Sent' = Sent /\ Numbered' = Numbered
    BY SentSame
  <1>3. AdmittedOK'
    <2> SUFFICES ASSUME NEW d \in Cmd \ {c} PROVE AdmittedC(d)'
      BY DEF AdmittedOK, AdmittedC
    <2>1. AdmittedC(d)
      BY DEF EntryInv, AdmittedOK, AdmittedC
    <2> QED BY <2>1, AdmittedKept DEF AdmittedC, EntryInv
  <1>4. ASSUME NEW d \in Cmd, cmd'[d].mli # 0 PROVE Write(d)' \in Sent'
    <2>1. d # c /\ cmd'[d] = cmd[d]
      BY <1>4
    <2>2. Write(d)' = Write(d)
      BY <2>1 DEF Write, FirstLease
    <2> QED BY <1>2, <1>4, <2>1, <2>2 DEF EntryInv, SentOK
  <1>5. ASSUME NEW r \in Replica PROVE Recalls(r)
    <2>1. ASSUME NEW d \in Cmd, Claims(d, r)' PROVE Alive(r)
      <3>1. CASE d = c
        BY <2>1, <3>1 DEF Claims
      <3>2. CASE d # c
        BY <1>1, <2>1, <3>2, ClaimsAlive DEF Claims, EntryInv
      <3> QED BY <3>1, <3>2
    <2>2. assigned[r].ct <= assigned'[r].ct /\ assigned[r].lai <= assigned'[r].lai /\ low[r] <= low'[r]
      BY ReplicaType DEF BaseInv
    <2> QED BY <1>1, <2>1, <2>2 DEF Recalls, AboveTerm
  <1>6. \A e \in Numbered : e.kind = "write" => e.id \in Cmd \ {c}
    BY NumberedType
  <1>7. KeepsHold
    <2>1. log' = log
      BY DEF raft
    <2> QED BY <1>6, <2>1 DEF KeepsHold, Holds, InBatch
  <1> QED BY <1>2, <1>3, <1>4, <1>5, <1>6, <1>7, EntrySteady DEF Recalled

LEMMA AdmitEntries ==
    ASSUME BaseInv, BaseInv', LeasesOK, EntryInv, Steady, NEW r \in Replica, NEW c \in Cmd, Admit(r, c)
    PROVE EntryInv' /\ Recalled
  <1>0. cmd[c] \in Command /\ cmd \in [Cmd -> Command]
    BY CmdType DEF BaseInv, TypeOK
  <1>1. /\ cmd[c].phase = "new" /\ OwnsLease(r)
        /\ UNCHANGED <<net, raft, ap, batch, assigned, low, inst>>
    BY DEF Admit, leases, bounds
  <1>2. /\ cmd'[c].home = r /\ cmd'[c].seq = LeaseOf(r).seq /\ cmd'[c].trk = cmd[c].trk
        /\ cmd'[c].mli = cmd[c].mli /\ cmd'[c].wts = cmd[c].wts
        /\ \A d \in Cmd \ {c} : cmd'[d] = cmd[d]
    BY <1>0 DEF Admit, Command
  <1>3. cmd[c].trk = 0 /\ cmd[c].mli = 0 /\ cmd[c].wts = 0
    BY <1>1 DEF BaseInv, CmdsOK, CmdOK, EntryInv, AdmittedOK
  <1>4. Alive(r) /\ LeaseOf(r).holder = r
    BY <1>1, LeaseType, ReplicaType DEF OwnsLease, Proscribed, Alive, BaseInv
  <1>5. AdmittedC(c)'
    <2>1. PICK n \in Idx : n = Fx(r) /\ n = Fx(r)' /\ LeaseAt(n) = LeaseOf(r) /\ LeaseAt(n)' = LeaseAt(n)
      BY <1>1, LeaseOfIs, SteadyLog DEF Fx
    <2>2. n \in 0 .. Fx(r)'
      BY <2>1 DEF Idx
    <2>3. (Fx(cmd[c].home))' = Fx(r)'
      BY <1>2 DEF Fx
    <2> QED BY <1>2, <1>3, <1>4, <2>1, <2>2, <2>3 DEF AdmittedC
  <1> QED BY <1>1, <1>2, <1>3, <1>4, <1>5, EvaluatedEntries DEF Recalled

\* What Track makes of the timestamps of a command.
LEMMA TrackFacts ==
    ASSUME BaseInv, NEW c \in Cmd, NEW w \in Ts, Track(c, w)
    PROVE LET r == cmd[c].home IN
          /\ r \in Replica /\ cmd[c].phase = "admitted" /\ cmd'[c].phase = "proposed"
          /\ cmd'[c].home = r /\ cmd'[c].seq = cmd[c].seq /\ cmd'[c].mli = 0
          /\ cmd'[c].applied = cmd[c].applied /\ cmd[c].applied = FALSE
          /\ cmd'[c].trk \in Nat /\ cmd'[c].wts \in Nat
          /\ assigned[r].ct < cmd'[c].trk /\ cmd'[c].trk <= cmd'[c].wts /\ low[r] < cmd'[c].wts
          /\ \A d \in Cmd \ {c} : cmd'[d] = cmd[d]
          /\ UNCHANGED <<net, raft, ap, batch, assigned, leases, transport, bounds>>
  <1> DEFINE r == cmd[c].home
             t == Larger(w, MinTs(r))
             b == Larger(t, low[r] + 1)
  <1>0. cmd[c] \in Command /\ cmd \in [Cmd -> Command] /\ r \in Replica
    BY CmdType, Zenon DEF BaseInv, TypeOK
  <1>1. /\ cmd[c].phase = "admitted"
        /\ cmd' = [cmd EXCEPT ![c].phase = "proposed", ![c].trk = t, ![c].wts = b, ![c].buf = 1]
        /\ UNCHANGED <<net, raft, ap, batch, assigned, leases, transport, bounds>>
    BY DEF Track
  <1>2. cmd[c].mli = 0 /\ cmd[c].applied = FALSE
    BY <1>0, <1>1 DEF BaseInv, CmdsOK, CmdOK, Command
  <1>3. t \in Nat /\ b \in Nat /\ assigned[r].ct < t /\ t <= b /\ low[r] < b
    <2>1. assigned[r].ct \in Nat /\ low[r] \in Nat
      BY <1>0, ReplicaType DEF BaseInv
    <2>2. w \in Nat
      BY DEF Ts, BaseInv, TypeOK, Instance
    <2> QED BY <2>1, <2>2 DEF Larger, MinTs
  <1> HIDE DEF t, b
  <1>4. /\ cmd'[c].phase = "proposed" /\ cmd'[c].home = r /\ cmd'[c].seq = cmd[c].seq
        /\ cmd'[c].mli = cmd[c].mli /\ cmd'[c].applied = cmd[c].applied
        /\ cmd'[c].trk = t /\ cmd'[c].wts = b
        /\ \A d \in Cmd \ {c} : cmd'[d] = cmd[d]
    BY <1>0, <1>1 DEF Command
  <1> QED BY <1>0, <1>1, <1>2, <1>3, <1>4

LEMMA TrackEntries ==
    ASSUME BaseInv, BaseInv', LeasesOK, EntryInv, Steady, NEW c \in Cmd, NEW w \in Ts, Track(c, w)
    PROVE EntryInv' /\ Recalled
  <1>1. PICK r \in Replica :
          /\ r = cmd[c].home /\ cmd[c].phase = "admitted" /\ cmd'[c].phase = "proposed"
          /\ cmd'[c].home = r /\ cmd'[c].seq = cmd[c].seq /\ cmd'[c].mli = 0
          /\ cmd[c].applied = FALSE
          /\ assigned[r].ct < cmd'[c].trk /\ cmd'[c].trk <= cmd'[c].wts
          /\ \A d \in Cmd \ {c} : cmd'[d] = cmd[d]
          /\ UNCHANGED <<net, raft, ap, batch, assigned, leases, bounds>>
    BY TrackFacts, Zenon
  <1>2. UNCHANGED <<net, raft, ap, batch, assigned, low, inst>>
    BY <1>1 DEF leases, bounds
  <1>3. Claims(c, r)' => Alive(r)
    <2>1. LeaseOf(r)' = LeaseOf(r)
      BY <1>2 DEF LeaseOf, StateAt, raft
    <2>2. Claims(c, r)' => Claims(c, r)
      BY <1>1, <2>1 DEF Claims
    <2> QED BY <2>2, ClaimsAlive DEF EntryInv
  <1>4. AdmittedC(c)'
    <2>1. PICK n \in 0 .. Fx(r) : LeaseAt(n).seq = cmd[c].seq /\ LeaseAt(n).holder = r
      BY <1>1 DEF EntryInv, AdmittedOK
    <2>2. LeaseAt(n)' = LeaseAt(n) /\ Fx(r)' = Fx(r)
      BY <1>2, SteadyLog DEF Fx
    <2>3. (Fx(cmd[c].home))' = Fx(r)'
      BY <1>1 DEF Fx
    <2> QED BY <1>1, <2>1, <2>2, <2>3 DEF AdmittedC
  <1> QED BY <1>1, <1>2, <1>3, <1>4, EvaluatedEntries DEF Recalled

LEMMA ClosableFacts ==
    ASSUME TypeOK, NEW r \in Replica, NEW target \in Nat, NEW ub \in Nat,
           NEW tracked \in SUBSET (Nat \ {0})
    PROVE /\ Closable(r, target, ub, tracked) \in Nat
          /\ assigned[r].ct <= Closable(r, target, ub, tracked)
          /\ \A t \in tracked : assigned[r].ct < t => Closable(r, target, ub, tracked) < t
  <1> DEFINE S == {t - 1 : t \in tracked} \cup {target, ub}
  <1>1. S \in SUBSET Nat /\ S # {}
    OBVIOUS
  <1>2. Min(S) \in Nat /\ \A t \in tracked : Min(S) <= t - 1
    <2>1. \A t \in tracked : t - 1 \in S
      OBVIOUS
    <2> HIDE DEF S
    <2> QED BY <1>1, <2>1, LeastNat, Zenon
  <1>3. Closable(r, target, ub, tracked) = Larger(assigned[r].ct, Min(S))
    BY DEF Closable
  <1>4. assigned[r].ct \in Nat
    BY ReplicaType
  <1> HIDE DEF S
  <1> QED BY <1>2, <1>3, <1>4 DEF Larger

LEMMA SameFields ==
    ASSUME NEW x \in Entry, NEW y \in Entry, x.kind = y.kind, x.id = y.id, x.seq = y.seq,
           x.mli = y.mli, x.ct = y.ct, x.wts = y.wts, x.prev = y.prev, x.lease = y.lease
    PROVE x = y
  BY DEF Entry

\* What FlushNew proposes.
LEMMA FlushNewEntry ==
    ASSUME BaseInv, NEW c \in Cmd, NEW target \in Ts0, FlushNew(c, target)
    PROVE \E f \in Entry, r \in Replica :
          /\ r = cmd[c].home /\ net' = net \cup {f} /\ f = Write(c)'
          /\ f.kind = "write" /\ f.id = c /\ f.seq = cmd[c].seq /\ f.wts = cmd[c].wts
          /\ f.mli = assigned[r].lai + 1 /\ f.mli = cmd'[c].mli
          /\ assigned[r].ct <= f.ct
          /\ \A d \in Cmd \ {c} : cmd[d].home = r /\ cmd[d].trk # 0 /\ assigned[r].ct < cmd[d].trk
                                     => f.ct < cmd[d].trk
          /\ assigned' = [assigned EXCEPT ![r] = [lai |-> f.mli, ct |-> f.ct]]
  <1> DEFINE r == cmd[c].home
             others == {cmd[d].trk : d \in {d \in Mine(r) \ {c} : cmd[d].trk # 0}}
             ct == Closable(r, target, cmd[c].ub, others)
             lai == assigned[r].lai + 1
             f == [Write(c) EXCEPT !.mli = lai, !.ct = ct]
  <1>0. TypeOK /\ cmd \in [Cmd -> Command] /\ cmd[c] \in Command /\ r \in Replica
        /\ cmd[c].ub \in Nat /\ target \in Nat
    <2>1. TypeOK /\ inst.maxTs \in Nat
      BY Zenon DEF BaseInv, TypeOK, Instance
    <2>2. target \in Nat /\ cmd \in [Cmd -> Command]
      BY <2>1 DEF Ts0, TypeOK
    <2> QED BY <2>1, <2>2, CmdType
  <1>1. /\ assigned' = [assigned EXCEPT ![r] = [lai |-> lai, ct |-> ct]]
        /\ cmd' = [cmd EXCEPT ![c].buf = @ - 1, ![c].trk = 0, ![c].inMap = TRUE,
                              ![c].mli = lai, ![c].ct = ct]
        /\ net' = net \cup {f} /\ UNCHANGED bounds
    BY Zenon DEF FlushNew
  <1>2. others \in SUBSET (Nat \ {0})
    <2>1. \A d \in Cmd : cmd[d].trk \in Nat
      BY <1>0, CmdType
    <2> QED BY <2>1 DEF Mine
  <1>3. lai \in Nat
    BY <1>0, ReplicaType
  <1>4. ct \in Nat /\ assigned[r].ct <= ct /\ \A t \in others : assigned[r].ct < t => ct < t
    <2> HIDE DEF others, r
    <2> QED BY <1>0, <1>2, ClosableFacts
  <1>5. ASSUME NEW d \in Cmd \ {c}, cmd[d].home = r, cmd[d].trk # 0 PROVE cmd[d].trk \in others
    <2>1. cmd[d].phase = "proposed"
      BY <1>5, BusyIsProposed DEF BaseInv
    <2> QED BY <1>5, <2>1 DEF Mine
  <1> HIDE DEF lai, ct, others
  <1>6. /\ cmd'[c].phase = cmd[c].phase /\ cmd'[c].seq = cmd[c].seq /\ cmd'[c].wts = cmd[c].wts
        /\ cmd'[c].mli = lai /\ cmd'[c].ct = ct
    BY <1>0, <1>1 DEF Command
  <1>7. Write(c) \in Entry
    BY <1>0, WriteType
  <1>8. /\ f.kind = "write" /\ f.id = c /\ f.seq = cmd[c].seq /\ f.wts = cmd[c].wts
        /\ f.mli = lai /\ f.ct = ct
    BY DEF Write
  <1>9. /\ f \in Entry /\ f.kind = Write(c).kind /\ f.id = Write(c).id /\ f.prev = Write(c).prev
        /\ f.lease = Write(c).lease
    BY <1>3, <1>4, <1>7, Zenon DEF Entry
  <1>10. f = Write(c)'
    <2>1. FirstLease' = FirstLease /\ FirstLease \in LeaseRecord
      BY <1>0, <1>1, FirstLeaseType DEF FirstLease, bounds
    <2>2. cmd[c].seq \in Nat /\ cmd[c].wts \in Nat
      BY <1>0, CmdType
    <2>3. Write(c)' = [kind |-> "write", id |-> c, seq |-> cmd[c].seq, mli |-> lai,
               ct |-> ct, wts |-> cmd[c].wts, prev |-> 0, lease |-> FirstLease]
      BY <1>6, <2>1 DEF Write
    <2>4. /\ Write(c)' \in Entry /\ Write(c)'.kind = "write" /\ Write(c)'.id = c
          /\ Write(c)'.seq = cmd[c].seq /\ Write(c)'.mli = lai /\ Write(c)'.ct = ct
          /\ Write(c)'.wts = cmd[c].wts /\ Write(c)'.prev = 0 /\ Write(c)'.lease = FirstLease
      BY <1>3, <1>4, <2>1, <2>2, <2>3 DEF Entry
    <2>5. Write(c).prev = 0 /\ Write(c).lease = FirstLease
      BY DEF Write
    <2> HIDE DEF f
    <2> QED BY <1>8, <1>9, <2>4, <2>5, SameFields
  <1> HIDE DEF f
  <1>11. f.mli = assigned[r].lai + 1 /\ f.mli = cmd'[c].mli
    BY <1>6, <1>8 DEF lai
  <1>12. \A d \in Cmd \ {c} : cmd[d].home = r /\ cmd[d].trk # 0 /\ assigned[r].ct < cmd[d].trk
                                     => f.ct < cmd[d].trk
    BY <1>4, <1>5, <1>8
  <1> QED BY <1>0, <1>1, <1>4, <1>8, <1>9, <1>10, <1>11, <1>12, Zenon

LEMMA FlushNewEntries ==
    ASSUME BaseInv, BaseInv', LeasesOK, EntryInv, Steady, NEW c \in Cmd, NEW target \in Ts0,
           FlushNew(c, target)
    PROVE EntryInv' /\ Recalled
  <1>1. PICK f \in Entry, r \in Replica :
          /\ r = cmd[c].home /\ net' = net \cup {f} /\ f = Write(c)'
          /\ f.kind = "write" /\ f.id = c /\ f.seq = cmd[c].seq /\ f.wts = cmd[c].wts
          /\ f.mli = assigned[r].lai + 1 /\ f.mli = cmd'[c].mli
          /\ assigned[r].ct <= f.ct
          /\ \A d \in Cmd \ {c} : cmd[d].home = r /\ cmd[d].trk # 0 /\ assigned[r].ct < cmd[d].trk
                                     => f.ct < cmd[d].trk
          /\ assigned' = [assigned EXCEPT ![r] = [lai |-> f.mli, ct |-> f.ct]]
    BY FlushNewEntry
  <1>2. /\ cmd[c].trk # 0 /\ cmd[c].phase = "proposed" /\ Constant(c)
        /\ cmd'[c].trk = 0 /\ cmd'[c].inMap = TRUE /\ cmd'[c].applied = cmd[c].applied
        /\ \A d \in Cmd \ {c} : cmd'[d] = cmd[d]
        /\ UNCHANGED <<raft, ap, batch, leases, bounds>>
    BY FlushNewFacts, Zenon
  <1>3. UNCHANGED <<low, inst>> /\ log' = log /\ \A q \in Replica : LeaseOf(q)' = LeaseOf(q)
    BY <1>2 DEF leases, bounds, raft, LeaseOf, StateAt
  <1>4. \A d \in Cmd : Tame(d)
    BY <1>2 DEF Tame, Constant
  <1>5. AdmittedOK'
    BY <1>4, AdmittedTame DEF EntryInv
  <1>6. ASSUME NEW d \in Cmd, cmd'[d].mli # 0 PROVE Write(d)' \in Sent'
    <2>1. CASE d = c
      BY <1>1, <2>1 DEF Sent
    <2>2. CASE d # c
      <3>1. cmd'[d] = cmd[d]
        BY <1>2, <2>2
      <3>2. Write(d)' = Write(d)
        BY <1>3, <3>1 DEF Write, FirstLease
      <3>3. Write(d) \in Sent
        BY <1>6, <3>1 DEF EntryInv, SentOK
      <3> QED BY <1>1, <1>3, <3>2, <3>3 DEF Sent
    <2> QED BY <2>1, <2>2
  <1>7. /\ assigned[r].ct \in Nat /\ assigned[r].lai \in Nat /\ low[r] \in Nat /\ f.ct \in Nat
        /\ f.wts \in Nat /\ cmd[c].trk \in Nat /\ cmd[c].wts \in Nat /\ cmd[c].seq \in Nat
        /\ assigned \in [Replica -> [lai : Nat, ct : Nat]]
    <2>1. assigned \in [Replica -> [lai : Nat, ct : Nat]]
      BY DEF BaseInv, TypeOK
    <2> QED BY <2>1, ReplicaType, CmdType, LeaseEntryFields DEF BaseInv
  <1>8. assigned'[r].lai = f.mli /\ assigned'[r].ct = f.ct /\ \A q \in Replica \ {r} : assigned'[q] = assigned[q]
    BY <1>1, <1>7
  <1>9. \A q \in Replica : Recalls(q)
    <2> TAKE q \in Replica
    <2>1. CASE q # r
      BY <1>3, <1>4, <1>8, <2>1, RecallsCalm DEF EntryInv
    <2>2. CASE q = r
      <3>1. \A d \in Cmd : Claims(d, r)' => Alive(r)
        <4>1. \A d \in Cmd : Claims(d, r)' => Claims(d, r)
          BY <1>3, <1>4 DEF Claims, Tame, Constant
        <4> QED BY <4>1, ClaimsAlive DEF EntryInv
      <3>2. AboveTerm(r) => \A d \in Cmd : cmd'[d].home = r /\ cmd'[d].seq = LeaseOf(r).seq /\ cmd'[d].trk # 0
                                              => assigned'[r].ct < cmd'[d].trk
        BY <1>1, <1>2, <1>8 DEF AboveTerm
      <3>3. assigned[r].ct <= assigned'[r].ct /\ assigned[r].lai <= assigned'[r].lai /\ low[r] <= low'[r]
        BY <1>1, <1>3, <1>7, <1>8
      <3> QED BY <1>3, <2>2, <3>1, <3>2, <3>3 DEF Recalls
    <2> QED BY <2>1, <2>2
  <1>10. KeepsHold
    <2> SUFFICES ASSUME NEW e \in Numbered, e.kind = "write", Holds(e.id, e.mli)
                 PROVE Holds(e.id, e.mli)'
      BY DEF KeepsHold
    <2>1. e.id \in Cmd /\ e.id # c
      BY <1>2, NumberedType DEF Holds
    <2> QED BY <1>2, <1>3, <2>1 DEF Holds, InBatch
  <1>11. \A e \in Numbered : e.kind = "write" => cmd'[e.id].home = cmd[e.id].home
    BY <1>4, NumberedType DEF Tame, Constant
  <1>12. \A g \in Numbered' \ Numbered : g = f
    BY <1>1, <1>3 DEF Numbered, Sent
  <1>13. PICK n \in Idx : LeaseAt(n).seq = cmd[c].seq /\ LeaseAt(n).holder = r /\ n <= Fx(r)
    <2>1. PICK n \in 0 .. Fx(r) : LeaseAt(n).seq = cmd[c].seq /\ LeaseAt(n).holder = r
      BY <1>1, <1>2 DEF EntryInv, AdmittedOK
    <2> QED BY <2>1, LeaseOfIs DEF Idx
  <1>14. cmd[c].seq <= LeaseOf(r).seq /\ LeaseOf(r).seq \in Nat
    <2>1. cmd[c].seq <= StateAt(Fx(r)).lease.seq
      BY <1>1, <1>2 DEF BaseInv, CmdsOK, CmdOK
    <2> QED BY <2>1, FxType, LeaseType DEF BaseInv
  <1>15. Fresh(f)
    <2>1. Known(f.seq)'
      <3>1. Known(f.seq)
        BY <1>1, <1>13, <1>14 DEF Known
      <3>2. f.seq \in Nat
        BY LeaseEntryFields
      <3> QED BY <3>1, <3>2, KnownKept
    <2>2. ASSUME Current(f)
          PROVE /\ \A e \in Numbered : Current(e) => e.mli < f.mli /\ After(e.ct, f)
                /\ \A j \in Idx : LeaseAt(j).seq = f.seq => After(StateAt(j).ct, f)
      <3>1. cmd[c].seq = LeaseOf(r).seq /\ LastState.lease.seq = LeaseOf(r).seq
        <4>1. LeaseOf(r).seq <= LastState.lease.seq /\ LastState.lease.seq \in Nat
          BY FxType, NotAfterLast DEF BaseInv
        <4> QED BY <1>1, <1>7, <1>14, <2>2, <4>1 DEF Current
      <3>2. AboveTerm(r)
        <4>1. Claims(c, r)
          BY <1>1, <1>2, <3>1 DEF Claims
        <4> QED BY <4>1, ClaimsAlive DEF EntryInv, MemoryOK
      <3>3. assigned[r].ct < cmd[c].trk /\ cmd[c].trk <= cmd[c].wts
        BY <1>1, <1>2, <3>1, <3>2 DEF AboveTerm, EntryInv, AdmittedOK
      <3>4. \A x \in Nat : x <= assigned[r].ct => After(x, f)
        BY <1>1, <1>7, <3>3 DEF After
      <3>5. \A e \in Numbered : Current(e) => e.mli < f.mli /\ After(e.ct, f)
        <4> SUFFICES ASSUME NEW e \in Numbered, Current(e) PROVE e.mli < f.mli /\ After(e.ct, f)
          OBVIOUS
        <4>1. e.ct <= assigned[r].ct /\ e.mli <= assigned[r].lai /\ e.ct \in Nat /\ e.mli \in Nat
          BY <3>1, <3>2, NumberedType DEF AboveTerm, Current
        <4> QED BY <1>1, <1>7, <3>4, <4>1
      <3>6. \A j \in Idx : LeaseAt(j).seq = f.seq => After(StateAt(j).ct, f)
        <4> SUFFICES ASSUME NEW j \in Idx, LeaseAt(j).seq = f.seq PROVE After(StateAt(j).ct, f)
          OBVIOUS
        <4>1. StateAt(j).ct <= assigned[r].ct /\ StateAt(j).ct \in Nat
          BY <1>1, <3>1, <3>2, StateType DEF AboveTerm, BaseInv, Idx
        <4> QED BY <3>4, <4>1
      <3> QED BY <3>5, <3>6
    <2>3. ASSUME NEW q \in Replica, Alive(q)', f.seq = LeaseOf(q)'.seq
          PROVE f.ct <= assigned'[q].ct /\ f.mli <= assigned'[q].lai
      <3>1. LeaseOf(q).holder = q /\ LeaseOf(q).seq = LeaseAt(n).seq
        BY <1>1, <1>3, <1>13, <2>3 DEF Alive
      <3>2. Fx(q) \in Idx /\ LeaseOf(q) = LeaseAt(Fx(q))
        BY LeaseOfIs
      <3>3. q = r
        BY <1>13, <3>1, <3>2, OneTerm DEF SameTerm
      <3>4. f.mli \in Nat
        BY LeaseEntryFields
      <3> QED BY <1>7, <1>8, <3>3, <3>4
    <2>4. Holds(f.id, f.mli)'
      BY <1>1, <1>2 DEF Holds
    <2> QED BY <2>1, <2>2, <2>3, <2>4 DEF Fresh
  <1> QED BY <1>5, <1>6, <1>9, <1>10, <1>11, <1>12, <1>15, EntrySteady DEF Recalled

LEMMA TransferEntries ==
    ASSUME BaseInv, BaseInv', LeasesOK, EntryInv, Steady, NEW r \in Replica, NEW q \in Replica,
           TransferLease(r, q)
    PROVE EntryInv' /\ Recalled
  <1>1. PICK f \in Entry :
          /\ net' = net \cup {f} /\ f.kind = "transfer"
          /\ f.mli = assigned[r].lai + 1 /\ assigned[r].ct <= f.ct
          /\ \A t \in TrackedAt(r) : assigned[r].ct < t => f.ct < t
          /\ assigned' = [assigned EXCEPT ![r] = [lai |-> f.mli, ct |-> f.ct]]
          /\ f.seq = LeaseOf(r).seq /\ OwnsLease(r)
    BY TransferEntry
  <1>2. UNCHANGED <<raft, ap, batch, cmd, low, inst>>
    BY TransferLeaseFacts DEF bounds
  <1>3. log' = log /\ \A p \in Replica : LeaseOf(p)' = LeaseOf(p)
    BY <1>2 DEF raft, LeaseOf, StateAt
  <1>4. \A d \in Cmd : Tame(d)
    BY <1>2, SameCmdIsTame
  <1>5. AdmittedOK'
    BY <1>4, AdmittedTame DEF EntryInv
  <1>6. ASSUME NEW d \in Cmd, cmd'[d].mli # 0 PROVE Write(d)' \in Sent'
    <2>1. Write(d)' = Write(d) /\ Write(d) \in Sent
      BY <1>2, <1>6 DEF Write, FirstLease, EntryInv, SentOK
    <2> QED BY <1>1, <1>3, <2>1 DEF Sent
  <1>7. /\ assigned[r].ct \in Nat /\ assigned[r].lai \in Nat /\ low[r] \in Nat /\ f.ct \in Nat
        /\ assigned \in [Replica -> [lai : Nat, ct : Nat]] /\ f.mli \in Nat /\ f.seq \in Nat
    <2>1. assigned \in [Replica -> [lai : Nat, ct : Nat]]
      BY DEF BaseInv, TypeOK
    <2> QED BY <2>1, ReplicaType, LeaseEntryFields DEF BaseInv
  <1>8. assigned'[r].lai = f.mli /\ assigned'[r].ct = f.ct /\ \A p \in Replica \ {r} : assigned'[p] = assigned[p]
    BY <1>1, <1>7
  <1>9. \A d \in Cmd : cmd[d].home = r /\ cmd[d].trk # 0 => cmd[d].trk \in TrackedAt(r)
    <2> SUFFICES ASSUME NEW d \in Cmd, cmd[d].home = r, cmd[d].trk # 0 PROVE cmd[d].trk \in TrackedAt(r)
      OBVIOUS
    <2>1. cmd[d].phase = "proposed"
      BY BusyIsProposed DEF BaseInv
    <2> QED BY <2>1 DEF TrackedAt, Mine
  <1>10. \A p \in Replica : Recalls(p)
    <2> TAKE p \in Replica
    <2>1. CASE p # r
      BY <1>2, <1>3, <1>4, <1>8, <2>1, RecallsCalm DEF EntryInv
    <2>2. CASE p = r
      <3>1. \A d \in Cmd : Claims(d, r)' => Alive(r)
        BY <1>2, <1>3, ClaimsAlive DEF Claims, EntryInv
      <3>2. AboveTerm(r) => \A d \in Cmd : cmd'[d].home = r /\ cmd'[d].seq = LeaseOf(r).seq /\ cmd'[d].trk # 0
                                              => assigned'[r].ct < cmd'[d].trk
        BY <1>1, <1>2, <1>8, <1>9 DEF AboveTerm
      <3>3. assigned[r].ct <= assigned'[r].ct /\ assigned[r].lai <= assigned'[r].lai /\ low[r] <= low'[r]
        BY <1>1, <1>2, <1>7, <1>8
      <3> QED BY <1>3, <2>2, <3>1, <3>2, <3>3 DEF Recalls
    <2> QED BY <2>1, <2>2
  <1>11. KeepsHold
    BY <1>2, <1>3 DEF KeepsHold, Holds, InBatch
  <1>12. \A g \in Numbered' \ Numbered : g = f
    BY <1>1, <1>3 DEF Numbered, Sent
  <1>13. Alive(r) /\ LeaseOf(r).holder = r
    BY <1>1, LeaseType, ReplicaType DEF OwnsLease, Proscribed, Alive, BaseInv
  <1>14. Fresh(f)
    <2>0. Fx(r) \in Idx /\ LeaseOf(r) = LeaseAt(Fx(r)) /\ AboveTerm(r)
      BY <1>13, LeaseOfIs DEF EntryInv, MemoryOK
    <2>1. Known(f.seq)'
      <3>1. Known(f.seq)
        BY <1>1, <1>7, <1>13, <2>0 DEF Known
      <3> QED BY <1>7, <3>1, KnownKept
    <2>2. ASSUME Current(f)
          PROVE /\ \A e \in Numbered : Current(e) => e.mli < f.mli /\ After(e.ct, f)
                /\ \A j \in Idx : LeaseAt(j).seq = f.seq => After(StateAt(j).ct, f)
      <3>1. \A e \in Numbered : Current(e) => e.mli < f.mli /\ After(e.ct, f)
        <4> SUFFICES ASSUME NEW e \in Numbered, Current(e) PROVE e.mli < f.mli /\ After(e.ct, f)
          OBVIOUS
        <4>1. e.ct <= assigned[r].ct /\ e.mli <= assigned[r].lai /\ e.ct \in Nat /\ e.mli \in Nat
          BY <1>1, <2>0, <2>2, NumberedType DEF AboveTerm, Current
        <4> QED BY <1>1, <1>7, <4>1 DEF After
      <3>2. \A j \in Idx : LeaseAt(j).seq = f.seq => After(StateAt(j).ct, f)
        <4> SUFFICES ASSUME NEW j \in Idx, LeaseAt(j).seq = f.seq PROVE After(StateAt(j).ct, f)
          OBVIOUS
        <4>1. StateAt(j).ct <= assigned[r].ct /\ StateAt(j).ct \in Nat
          BY <1>1, <2>0, StateType DEF AboveTerm, BaseInv, Idx
        <4> QED BY <1>1, <1>7, <4>1 DEF After
      <3> QED BY <3>1, <3>2
    <2>3. ASSUME NEW p \in Replica, Alive(p)', f.seq = LeaseOf(p)'.seq
          PROVE f.ct <= assigned'[p].ct /\ f.mli <= assigned'[p].lai
      <3>1. LeaseOf(p).holder = p /\ LeaseOf(p).seq = LeaseOf(r).seq
        BY <1>1, <1>3, <2>3 DEF Alive
      <3>2. Fx(p) \in Idx /\ LeaseOf(p) = LeaseAt(Fx(p))
        BY LeaseOfIs
      <3>3. p = r
        BY <1>13, <2>0, <3>1, <3>2, OneTerm DEF SameTerm
      <3> QED BY <1>7, <1>8, <3>3
    <2> QED BY <1>1, <2>1, <2>2, <2>3 DEF Fresh
  <1> QED BY <1>2, <1>5, <1>6, <1>10, <1>11, <1>12, <1>14, EntrySteady DEF Recalled

LEMMA DecodeEntries ==
    ASSUME BaseInv, BaseInv', LeasesOK, EntryInv, Steady, NEW r \in Replica, NEW n, Decode(r, n)
    PROVE EntryInv' /\ Recalled
  <1>1. /\ n \in ap[r] + 1 .. Len(log) /\ n \in Nat /\ batch[r] = Idle
        /\ batch' = [batch EXCEPT ![r] = [to |-> n, bound |-> BoundBy(r, n), fx |-> ap[r]]]
        /\ \A d \in Cmd :
              /\ Constant(d) /\ cmd'[d].trk = cmd[d].trk /\ cmd'[d].mli = cmd[d].mli
              /\ cmd'[d].applied = cmd[d].applied
              /\ cmd'[d].inMap = (cmd[d].inMap /\ d \notin Removed(r, n))
        /\ UNCHANGED <<net, raft, ap, assigned, leases, transport, bounds>>
        /\ \A q \in Replica : Fx(q)' = Fx(q)
    BY DecodeFacts
  <1>2. UNCHANGED <<low, inst>> /\ log' = log
    BY <1>1 DEF leases, bounds, raft
  <1>3. \A d \in Cmd : cmd'[d].ct = cmd[d].ct
    BY ClosedKept
  <1>4. \A d \in Cmd : Tame(d)
    BY <1>1 DEF Tame
  <1>5. AdmittedOK'
    BY <1>4, AdmittedTame DEF EntryInv
  <1>6. Sent' = Sent /\ Numbered' = Numbered
    BY <1>1, SentSame
  <1>7. ASSUME NEW d \in Cmd, cmd'[d].mli # 0 PROVE Write(d)' \in Sent'
    <2>1. Write(d)' = Write(d)
      BY <1>1, <1>2, <1>3 DEF Write, FirstLease, Constant
    <2> QED BY <1>1, <1>6, <1>7, <2>1 DEF EntryInv, SentOK
  <1>8. \A q \in Replica : Recalls(q)
    <2> TAKE q \in Replica
    <2>1. PICK k : k = Fx(q) /\ k = Fx(q)'
      BY <1>1
    <2>2. LeaseOf(q)' = LeaseOf(q)
      BY <2>1, LeaseOfIs, SteadyLeaseOf, SteadyLog, Zenon
    <2> QED BY <1>1, <1>2, <1>4, <2>2, RecallsCalm DEF EntryInv
  <1>9. KeepsHold
    <2> SUFFICES ASSUME NEW e \in Numbered, NEW q \in Replica, e.kind = "write", cmd[e.id].home = q,
                        Holds(e.id, e.mli)
                 PROVE Holds(e.id, e.mli)'
      BY DEF KeepsHold
    <2>1. PICK c \in Cmd : c = e.id
      BY NumberedType
    <2>2. cmd'[c].mli = e.mli /\ cmd'[c].trk = 0 /\ cmd'[c].home = q
      BY <1>1, <2>1 DEF Holds, Constant
    <2>3. batch \in [Replica -> [to : Nat, bound : SUBSET Nat, fx : Nat]] /\ ap[r] \in Nat
      BY ReplicaType, Zenon DEF BaseInv, TypeOK
    <2>4. CASE q # r
      <3>1. c \notin Removed(r, n)
        BY <2>1, <2>4 DEF Removed, BoundBy, Pending, Mine
      <3>2. batch'[q] = batch[q]
        BY <1>1, <2>3, <2>4
      <3> QED BY <1>1, <1>2, <2>1, <2>2, <3>1, <3>2, Zenon DEF Holds, InBatch
    <2>5. CASE q = r /\ c \notin Removed(r, n)
      BY <1>1, <2>1, <2>2, <2>5, Zenon DEF Holds, InBatch
    <2>6. CASE q = r /\ c \in Removed(r, n)
      <3>1. PICK j \in BoundBy(r, n) : log[j].mli = cmd[c].mli /\ log[j].id = c
        BY <2>6 DEF Removed
      <3>2. batch'[r] = [to |-> n, bound |-> BoundBy(r, n), fx |-> ap[r]]
        BY <1>1, <2>3
      <3>3. batch'[r].bound = BoundBy(r, n) /\ batch'[r].fx = ap[r] /\ batch'[r].to = n
        BY <3>2
      <3>4. n # 0
        BY <1>1, <2>3
      <3>5. batch'[r] # Idle
        BY <3>3, <3>4 DEF Idle
      <3>6. j > ap[r]
        BY <3>1, <2>3 DEF BoundBy
      <3> QED BY <1>2, <2>1, <2>2, <2>6, <3>1, <3>3, <3>5, <3>6 DEF Holds, InBatch
    <2> QED BY <2>4, <2>5, <2>6
  <1>10. \A e \in Numbered : e.kind = "write" => cmd'[e.id].home = cmd[e.id].home
    BY <1>1, NumberedType DEF Constant
  <1> QED BY <1>5, <1>6, <1>7, <1>8, <1>9, <1>10, EntrySteady DEF Recalled

LEMMA RestartEntries ==
    ASSUME BaseInv, BaseInv', LeasesOK, EntryInv, Steady, NEW r \in Replica, Restart(r)
    PROVE EntryInv' /\ Recalled
  <1>1. /\ batch' = [batch EXCEPT ![r] = Idle] /\ ap' = ap
        /\ \A p \in Replica \ {r} : Fx(p)' = Fx(p)
        /\ \A d \in Cmd :
              /\ d \notin Mine(r) => cmd'[d] = cmd[d]
              /\ d \in Mine(r) =>
                    /\ cmd'[d].phase = "proposed" /\ cmd'[d].home = cmd[d].home
                    /\ cmd'[d].seq = cmd[d].seq /\ cmd'[d].wts = cmd[d].wts
                    /\ cmd'[d].mli = cmd[d].mli
                    /\ cmd'[d].trk = 0 /\ cmd'[d].inMap = FALSE /\ cmd'[d].applied = TRUE
        /\ UNCHANGED <<net, raft, ver, pub, inst, ticks>>
    BY RestartFacts, Zenon
  <1>2. /\ assigned' = [assigned EXCEPT ![r] = [lai |-> 0, ct |-> 0]]
        /\ minVer' = [minVer EXCEPT ![r] = ver + 1]
        /\ low' = [low EXCEPT ![r] = Max({low[r]} \cup {m.ts : m \in pub})]
    BY Zenon DEF Restart
  <1>3. log' = log /\ Sent' = Sent /\ Numbered' = Numbered
    BY <1>1, SentSame DEF raft
  <1>4. \A d \in Cmd : cmd'[d].ct = cmd[d].ct
    BY ClosedKept
  <1>5. AdmittedOK'
    <2> SUFFICES ASSUME NEW d \in Cmd PROVE AdmittedC(d)'
      BY DEF AdmittedOK, AdmittedC
    <2>1. AdmittedC(d)
      BY DEF EntryInv, AdmittedOK, AdmittedC
    <2>2. CASE d \in Mine(r)
      <3>1. cmd[d].phase # "new"
        BY <2>2 DEF Mine
      <3> QED BY <1>1, <2>1, <2>2, <3>1, AdmittedKept DEF EntryInv
    <2>3. CASE d \notin Mine(r)
      BY <1>1, <2>1, <2>3, AdmittedKept DEF AdmittedC, EntryInv
    <2> QED BY <2>2, <2>3
  <1>6. ASSUME NEW d \in Cmd, cmd'[d].mli # 0 PROVE Write(d)' \in Sent'
    <2>1. Write(d)' = Write(d)
      BY <1>1, <1>4 DEF Write, FirstLease
    <2>2. cmd'[d].mli = cmd[d].mli
      BY <1>1
    <2> QED BY <1>3, <1>6, <2>1, <2>2 DEF EntryInv, SentOK
  <1>7. ~ Alive(r)'
    <2>1. PICK n \in Idx : LeaseOf(r)' = LeaseAt(n)
      BY SteadyLeaseOf
    <2>2. LeaseAt(n).ver <= ver /\ LeaseAt(n).ver \in Nat /\ ver \in Nat /\ minVer'[r] = ver + 1
      BY <1>2, LeaseAtType, Zenon DEF LeasesOK, BaseInv, TypeOK
    <2>3. ~ (minVer'[r] <= LeaseOf(r)'.ver)
      BY <2>1, <2>2
    <2>4. \A d \in Cmd : ~ Claims(d, r)'
      BY <1>1 DEF Claims, Mine
    <2> QED BY <2>3, <2>4 DEF Alive
  <1>8. \A q \in Replica : Recalls(q)
    <2> TAKE q \in Replica
    <2>1. CASE q = r
      <3>1. \A d \in Cmd : ~ Claims(d, r)'
        BY <1>1 DEF Claims, Mine
      <3> QED BY <1>7, <2>1, <3>1 DEF Recalls
    <2>2. CASE q # r
      <3>1. PICK k : k = Fx(q) /\ k = Fx(q)'
        BY <1>1, <2>2
      <3>2. LeaseOf(q)' = LeaseOf(q)
        BY <3>1, LeaseOfIs, SteadyLeaseOf, SteadyLog, Zenon
      <3>3. assigned'[q] = assigned[q] /\ low'[q] = low[q]
        BY <1>2, <2>2 DEF BaseInv, TypeOK
      <3>4. \A c \in Cmd : Tame(c) \/ cmd'[c].home # q
        BY <1>1, <2>2 DEF Tame, Constant, Mine
      <3> QED BY <3>2, <3>3, <3>4, RecallsCalm DEF EntryInv
    <2> QED BY <2>1, <2>2
  <1>9. KeepsHold
    <2> SUFFICES ASSUME NEW e \in Numbered, NEW q \in Replica, e.kind = "write", cmd[e.id].home = q,
                        Ahead(e, q)', Holds(e.id, e.mli)
                 PROVE Holds(e.id, e.mli)'
      BY DEF KeepsHold
    <2>1. q # r
      BY <1>7 DEF Ahead
    <2>2. PICK c \in Cmd : c = e.id
      BY NumberedType
    <2>3. cmd'[c] = cmd[c]
      BY <1>1, <2>1, <2>2 DEF Mine
    <2>4. batch'[q] = batch[q]
      BY <1>1, <2>1 DEF BaseInv, TypeOK
    <2> QED BY <1>3, <2>2, <2>3, <2>4 DEF Holds, InBatch
  <1>10. \A e \in Numbered : e.kind = "write" => cmd'[e.id].home = cmd[e.id].home
    BY <1>1, NumberedType
  <1> QED BY <1>3, <1>5, <1>6, <1>8, <1>9, <1>10, EntrySteady DEF Recalled

\* A lease is installed.
LEMMA InstallRecalls ==
    ASSUME BaseInv, BaseInv', LeasesOK, EntryInv, Steady, NEW r \in Replica, NEW n \in Idx, n = Fx(r)',
           InstallLease(r, LeaseOf(r), StateAt(n)),
           \A c \in Cmd : Constant(c) /\ cmd'[c].trk = cmd[c].trk /\ cmd'[c].applied = cmd[c].applied
    PROVE Recalls(r)
  <1>1. LeaseOf(r)' = LeaseAt(n) /\ LeaseOf(r)'.seq \in Nat /\ LeaseOf(r).seq \in Nat
        /\ LeaseOf(r).seq <= LeaseOf(r)'.seq
    BY SteadyLeaseOf, LeaseType DEF BaseInv
  <1>2. /\ assigned[r].ct \in Nat /\ assigned[r].lai \in Nat /\ low[r] \in Nat
        /\ StateAt(n).ct \in Nat /\ StateAt(n).lai \in Nat /\ LeaseAt(n).sum \in Nat
    BY ReplicaType, LeaseAtType, StateType DEF BaseInv, Idx
  <1>3. /\ assigned'[r] = OnLeaseChange(r, StateAt(n))
        /\ low'[r] = LowWater(r, LeaseOf(r), StateAt(n).lease)
    BY DEF InstallLease, BaseInv, TypeOK
  <1>4. LeaseAt(n).holder = r =>
            /\ assigned'[r].lai = Larger(assigned[r].lai, StateAt(n).lai)
            /\ assigned'[r].ct = Larger(assigned[r].ct, StateAt(n).ct)
    BY <1>3 DEF OnLeaseChange, LeaseAt
  <1>5. CASE LeaseOf(r)'.seq = LeaseOf(r).seq
    <2>1. \A c \in Cmd : Claims(c, r)' => Claims(c, r)
      BY <1>5 DEF Claims, Constant
    <2>2. \A c \in Cmd : Claims(c, r)' => Alive(r)
      BY <2>1, ClaimsAlive DEF EntryInv
    <2>3. low'[r] = low[r]
      BY <1>1, <1>3, <1>5 DEF LowWater, LeaseAt
    <2>4. Alive(r)' => LeaseAt(n).holder = r
      BY <1>1 DEF Alive
    <2>5. ASSUME LeaseAt(n).holder = r, AboveTerm(r)
          PROVE /\ assigned[r].ct <= assigned'[r].ct /\ assigned[r].lai <= assigned'[r].lai
                /\ assigned'[r].ct = assigned[r].ct
      <3>1. StateAt(n).ct <= assigned[r].ct
        BY <1>1, <1>5, <2>5 DEF AboveTerm
      <3> QED BY <1>2, <1>4, <2>5, <3>1 DEF Larger
    <2>6. low[r] <= low'[r]
      BY <1>2, <2>3
    <2>7. ASSUME Alive(r)', AboveTerm(r)
          PROVE \A c \in Cmd : cmd'[c].home = r /\ cmd'[c].seq = LeaseOf(r).seq /\ cmd'[c].trk # 0
                                    => assigned'[r].ct < cmd'[c].trk
      BY <2>4, <2>5, <2>7 DEF AboveTerm, Constant
    <2> QED BY <1>5, <2>2, <2>4, <2>5, <2>6, <2>7 DEF Recalls
  <1>6. CASE LeaseOf(r)'.seq # LeaseOf(r).seq
    <2> SUFFICES ASSUME Alive(r)'
                 PROVE /\ LeaseOf(r)'.sum <= low'[r] /\ StateAt(Fx(r))'.ct <= assigned'[r].ct
                       /\ \A c \in Cmd : cmd'[c].home = r /\ cmd'[c].seq = LeaseOf(r)'.seq
                                            => cmd'[c].trk = 0
      BY <1>6 DEF Recalls
    <2>1. LeaseAt(n).holder = r
      BY <1>1 DEF Alive
    <2>2. LeaseAt(n).sum <= low'[r]
      <3>1. low'[r] = Larger(low[r], LeaseAt(n).sum)
        BY <1>1, <1>3, <1>6, <2>1 DEF LowWater, LeaseAt
      <3> QED BY <1>2, <3>1 DEF Larger
    <2>3. StateAt(n).ct <= assigned'[r].ct
      BY <1>2, <1>4, <2>1 DEF Larger
    <2>4. StateAt(Fx(r))' = StateAt(n)
      <3>1. StateAt(Fx(r))' = StateAt(n)'
        BY DEF StateAt
      <3> QED BY <3>1, SteadyLog
    <2>5. \A c \in Cmd : cmd[c].home = r /\ cmd[c].phase # "new" => cmd[c].seq < LeaseAt(n).seq
      BY <1>1, <1>6, <2>1, NewTerm DEF EntryInv
    <2>6. ASSUME NEW c \in Cmd, cmd'[c].home = r, cmd'[c].seq = LeaseOf(r)'.seq PROVE cmd'[c].trk = 0
      <3>1. cmd[c].phase = "new"
        BY <1>1, <2>5, <2>6 DEF Constant
      <3> QED BY <3>1 DEF BaseInv, CmdsOK, CmdOK
    <2> QED BY <1>1, <2>2, <2>3, <2>4, <2>6
  <1> QED BY <1>5, <1>6

LEMMA SnapshotEntries ==
    ASSUME BaseInv, BaseInv', LeasesOK, EntryInv, Steady, NEW r \in Replica, NEW p \in Replica,
           ApplySnapshot(r, p)
    PROVE EntryInv' /\ Recalled
  <1>1. /\ batch[r] = Idle /\ Fx(r)' = ap[p] /\ \A q \in Replica \ {r} : Fx(q)' = Fx(q)
        /\ \A d \in Cmd :
              /\ Constant(d) /\ cmd'[d].trk = cmd[d].trk /\ cmd'[d].mli = cmd[d].mli
              /\ cmd'[d].applied = cmd[d].applied
              /\ d \notin Pending(r) => cmd'[d] = cmd[d]
        /\ UNCHANGED <<net, raft, batch, inst>>
    BY SnapshotFacts
  <1>2. /\ InstallLease(r, LeaseOf(r), StateAt(ap[p])) /\ ap[p] \in Idx
        /\ cmd' = GiveUp(r, StateAt(ap[p]).lai) \/ cmd' = Refreshed(Pending(r))
    BY LeaseOfIs DEF ApplySnapshot, State
  <1>3. log' = log /\ Sent' = Sent /\ Numbered' = Numbered
    BY <1>1, SentSame DEF raft
  <1>4. \A d \in Cmd : cmd'[d].ct = cmd[d].ct
    BY ClosedKept
  <1>5. \A d \in Cmd : Tame(d)
    BY <1>1 DEF Tame
  <1>6. AdmittedOK'
    BY <1>5, AdmittedTame DEF EntryInv
  <1>7. ASSUME NEW d \in Cmd, cmd'[d].mli # 0 PROVE Write(d)' \in Sent'
    <2>1. Write(d)' = Write(d)
      BY <1>1, <1>4 DEF Write, FirstLease, Constant
    <2> QED BY <1>1, <1>3, <1>7, <2>1 DEF EntryInv, SentOK
  <1>8. \A q \in Replica : Recalls(q)
    <2> TAKE q \in Replica
    <2>1. CASE q = r
      <3>1. PICK n \in Idx : n = ap[p] /\ n = Fx(r)'
        BY <1>1, <1>2
      <3> QED BY <1>1, <1>2, <2>1, <3>1, InstallRecalls
    <2>2. CASE q # r
      <3>1. PICK k : k = Fx(q) /\ k = Fx(q)'
        BY <1>1, <2>2
      <3>2. LeaseOf(q)' = LeaseOf(q)
        BY <3>1, LeaseOfIs, SteadyLeaseOf, SteadyLog, Zenon
      <3>3. assigned'[q] = assigned[q] /\ low'[q] = low[q]
        BY <1>2, <2>2 DEF InstallLease, BaseInv, TypeOK
      <3> QED BY <1>5, <3>2, <3>3, RecallsCalm DEF EntryInv
    <2> QED BY <2>1, <2>2
  <1>9. KeepsHold
    <2> SUFFICES ASSUME NEW e \in Numbered, NEW q \in Replica, e.kind = "write", cmd[e.id].home = q,
                        Ahead(e, q)', Holds(e.id, e.mli)
                 PROVE Holds(e.id, e.mli)'
      BY DEF KeepsHold
    <2>1. PICK c \in Cmd : c = e.id
      BY NumberedType
    <2>2. cmd'[c].mli = e.mli /\ cmd'[c].trk = 0 /\ cmd'[c].home = q /\ e.mli \in Nat
      BY <1>1, <2>1, NumberedType DEF Holds, Constant
    <2>3. CASE q # r
      <3>1. cmd'[c] = cmd[c]
        BY <1>1, <2>1, <2>3 DEF Pending, Mine
      <3> QED BY <1>1, <1>3, <2>1, <3>1 DEF Holds, InBatch
    <2>4. CASE q = r
      <3>1. cmd[c].inMap /\ cmd[c].mli = e.mli
        BY <1>1, <2>1, <2>4 DEF Holds, InBatch
      <3>2. StateAt(ap[p]).lai < e.mli
        <4>1. PICK n \in Idx : n = ap[p] /\ n = Fx(r)'
          BY <1>1, <1>2
        <4>2. StateAt(Fx(r))' = StateAt(n)'
          BY <4>1 DEF StateAt
        <4>3. StateAt(Fx(r))'.lai < e.mli
          BY <2>4 DEF Ahead
        <4> QED BY <4>1, <4>2, <4>3, SteadyLog
      <3>3. cmd' = GiveUp(r, StateAt(ap[p]).lai) => cmd'[c] = cmd[c]
        <4>1. StateAt(ap[p]).lai \in Nat
          BY <1>2, StateType DEF Idx, BaseInv
        <4>2. ~ (cmd[c].mli <= StateAt(ap[p]).lai)
          BY <2>2, <3>1, <3>2, <4>1
        <4> QED BY <4>2, Zenon DEF GiveUp
      <3>4. cmd' = Refreshed(Pending(r)) => cmd'[c].inMap = cmd[c].inMap
        BY RefreshedFacts DEF BaseInv
      <3> QED BY <1>2, <2>1, <2>2, <3>1, <3>3, <3>4, Zenon DEF Holds
    <2> QED BY <2>3, <2>4
  <1>10. \A e \in Numbered : e.kind = "write" => cmd'[e.id].home = cmd[e.id].home
    BY <1>1, NumberedType DEF Constant
  <1> QED BY <1>3, <1>6, <1>7, <1>8, <1>9, <1>10, EntrySteady DEF Recalled

\* The side effects of an entry that is not a new lease, and of one that is.
DoneStep(i, c) ==
    /\ Constant(c) /\ cmd'[c].applied = TRUE /\ cmd'[c].trk = cmd[c].trk /\ cmd'[c].mli = cmd[c].mli
    /\ cmd'[c].inMap = (cmd[c].inMap /\ log[i].mli = cmd[c].mli)
    /\ VerdictAt(i) = "stale" => ~ Superseded(c, log[i])
AgainStep(r, i, c) ==
    /\ VerdictAt(i) = "stale" /\ ~ Superseded(c, log[i]) /\ Constant(c)
    /\ cmd'[c].applied = cmd[c].applied /\ cmd'[c].mli = 0
    /\ cmd'[c].trk = cmd[c].wts /\ assigned[r].ct < cmd[c].wts
WriteStep(r, i) ==
    /\ UNCHANGED <<assigned, low>> /\ LeaseAt(i) = LeaseAt(i - 1)
    /\ \/ cmd' = cmd
       \/ \E c \in Cmd :
             /\ c = log[i].id /\ i \in batch[r].bound /\ cmd[c].home = r /\ cmd[c].phase = "proposed"
             /\ \A d \in Cmd \ {c} : cmd'[d] = cmd[d]
             /\ DoneStep(i, c) \/ AgainStep(r, i, c)
InstallStep(r, i) == cmd' = cmd /\ InstallLease(r, LeaseOf(r), StateAt(i))

LEMMA LogType ==
    ASSUME BaseInv
    PROVE Len(log) \in Nat /\ \A i \in 1 .. Len(log) : log[i] \in Entry
  <1>1. log \in Seq(Entry)
    BY DEF BaseInv, TypeOK
  <1> QED BY <1>1

LEMMA LeaseUnmoved ==
    ASSUME BaseInv, NEW i \in 1 .. Len(log), log[i].kind = "write" \/ ~ Effective(i)
    PROVE LeaseAt(i) = LeaseAt(i - 1)
  <1>1. StateAt(i) = ApplyEntry(StateAt(i - 1), log[i])
    BY DEF BaseInv, StatesOK
  <1>2. ~ (Verdict(StateAt(i - 1), log[i]) = "ok" /\ log[i].kind # "write")
    BY DEF Effective, VerdictAt
  <1>3. StateAt(i).lease = StateAt(i - 1).lease
    BY <1>1, <1>2 DEF ApplyEntry
  <1> QED BY <1>3 DEF LeaseAt

LEMMA SideEffectsSteps ==
    ASSUME BaseInv, NEW r \in Replica, SideEffects(r), NEW i \in 1 .. Len(log), i = batch[r].fx + 1
    PROVE WriteStep(r, i) \/ InstallStep(r, i)
  <1> DEFINE e == log[i]
             c == log[i].id
  <1>1. i \in batch[r].bound => c \in Cmd /\ cmd[c].phase = "proposed" /\ cmd[c].home = r /\ e.kind = "write"
    BY SideEffectsFacts
  <1>2. \/ i \in batch[r].bound /\ VerdictAt(i) # "stale" /\ UNCHANGED low
           /\ \E a \in {"ok", "rejected"} : Finish(c, e, a)
        \/ i \in batch[r].bound /\ VerdictAt(i) = "stale" /\ UNCHANGED low
           /\ TryReproposeWithNewLeaseIndex(r, c, e)
        \/ InstallLease(r, LeaseOf(r), StateAt(i)) /\ UNCHANGED cmd
        \/ /\ i \notin batch[r].bound /\ ~ (e.kind # "write" /\ Effective(i))
           /\ UNCHANGED <<proposer, low>>
    BY DEF SideEffects
  <1>3. TypeOK /\ cmd \in [Cmd -> Command] /\ log[i] \in Entry
    BY LogType, Zenon DEF BaseInv, TypeOK
  <1>4. ASSUME i \in batch[r].bound, NEW a \in {"ok", "rejected"}, Finish(c, e, a), UNCHANGED low,
               VerdictAt(i) = "stale" => ~ Superseded(c, e)
        PROVE WriteStep(r, i)
    <2>1. c \in Cmd /\ LeaseAt(i) = LeaseAt(i - 1)
      BY <1>1, <1>4, LeaseUnmoved
    <2>2. PICK d \in Cmd : d = c
      BY <2>1
    <2> HIDE DEF c, e
    <2>3. /\ \A b \in Cmd \ {d} : cmd'[b] = cmd[b]
          /\ Constant(d) /\ cmd'[d].applied = TRUE
          /\ cmd'[d].trk = cmd[d].trk /\ cmd'[d].mli = cmd[d].mli
          /\ assigned' = assigned
      BY <1>3, <1>4, <2>2, FinishFacts, Zenon DEF e
    <2>4. cmd'[d].inMap = (cmd[d].inMap /\ e.mli = cmd[d].mli)
      <3>1. PICK t, b : /\ b = (cmd[d].inMap /\ e.mli = cmd[d].mli)
                        /\ cmd' = [cmd EXCEPT ![d].told = t, ![d].applied = TRUE, ![d].inMap = b]
        BY <1>4, <2>2, Zenon DEF Finish
      <3>2. cmd'[d].inMap = b
        BY <1>3, <3>1 DEF Command
      <3> QED BY <3>1, <3>2
    <2>5. DoneStep(i, d)
      BY <1>4, <2>2, <2>3, <2>4 DEF DoneStep, e
    <2> QED BY <1>1, <1>4, <2>1, <2>2, <2>3, <2>5 DEF WriteStep, c
  <1>5. CASE i \in batch[r].bound /\ VerdictAt(i) = "stale" /\ UNCHANGED low
             /\ TryReproposeWithNewLeaseIndex(r, c, e)
    <2>1. c \in Cmd /\ LeaseAt(i) = LeaseAt(i - 1)
      BY <1>1, <1>5, LeaseUnmoved
    <2>2. CASE Superseded(c, e) /\ UNCHANGED proposer
      BY <1>5, <2>1, <2>2 DEF WriteStep, proposer
    <2>3. CASE ~ Superseded(c, e) /\ Finish(c, e, "rejected")
      BY <1>4, <1>5, <2>3
    <2>4. CASE /\ ~ Superseded(c, e) /\ cmd[c].wts > MinTs(r)
               /\ cmd' = [cmd EXCEPT ![c].trk = cmd[c].wts, ![c].buf = @ + 1, ![c].mli = 0]
               /\ UNCHANGED assigned
      <3>1. PICK d \in Cmd : d = c
        BY <2>1
      <3> HIDE DEF c, e
      <3>2. /\ \A b \in Cmd \ {d} : cmd'[b] = cmd[b]
            /\ Constant(d) /\ cmd'[d].applied = cmd[d].applied /\ cmd'[d].mli = 0
        BY <1>3, <2>4, <3>1, ReproposeFacts, Zenon
      <3>3. cmd'[d].trk = cmd[d].wts
        BY <1>3, <2>4, <3>1 DEF Command
      <3>4. assigned[r].ct < cmd[d].wts
        <4>1. assigned[r].ct \in Nat /\ cmd[d].wts \in Nat
          BY <1>3, ReplicaType, CmdType
        <4> QED BY <2>4, <3>1, <4>1 DEF MinTs
      <3>5. AgainStep(r, i, d)
        BY <1>5, <2>4, <3>1, <3>2, <3>3, <3>4 DEF AgainStep, e
      <3> QED BY <1>1, <1>5, <2>1, <2>4, <3>1, <3>2, <3>5, Zenon DEF WriteStep, c
    <2> QED BY <1>5, <2>2, <2>3, <2>4, Zenon DEF TryReproposeWithNewLeaseIndex
  <1>6. CASE i \notin batch[r].bound /\ ~ (e.kind # "write" /\ Effective(i)) /\ UNCHANGED <<proposer, low>>
    BY <1>6, LeaseUnmoved DEF WriteStep, proposer
  <1>7. CASE InstallLease(r, LeaseOf(r), StateAt(i)) /\ UNCHANGED cmd
    BY <1>7 DEF InstallStep
  <1> QED BY <1>2, <1>4, <1>5, <1>6, <1>7

LEMMA SideEffectsEntries ==
    ASSUME BaseInv, BaseInv', LeasesOK, EntryInv, Steady, NEW r \in Replica, SideEffects(r)
    PROVE EntryInv' /\ Recalled
  <1>1. PICK i \in 1 .. Len(log) :
          /\ i = batch[r].fx + 1 /\ Fx(r) = batch[r].fx /\ Fx(r)' = i
          /\ batch[r] # Idle /\ i <= batch[r].to
          /\ batch' = [batch EXCEPT ![r] = NextBatch(r)]
          /\ \/ NextBatch(r) = Idle /\ i = batch[r].to
             \/ NextBatch(r) # Idle /\ NextBatch(r) = [batch[r] EXCEPT !.fx = i] /\ i < batch[r].to
          /\ \A q \in Replica \ {r} : batch'[q] = batch[q] /\ Fx(q)' = Fx(q)
          /\ UNCHANGED <<net, raft, ap, minVer, ver, transport, bounds>>
    BY SideEffectsFacts
  <1>2. WriteStep(r, i) \/ InstallStep(r, i)
    BY <1>1, SideEffectsSteps
  <1>3. log' = log /\ Sent' = Sent /\ Numbered' = Numbered /\ inst' = inst
    BY <1>1, SentSame DEF raft, bounds
  <1>4. \A d \in Cmd : cmd'[d].ct = cmd[d].ct
    BY ClosedKept
  <1>5. i \in Idx /\ i - 1 \in Idx /\ i - 1 = Fx(r) /\ i \in Nat
    <2>1. Len(log) \in Nat /\ batch[r].fx \in Nat
      BY ReplicaType, LogType DEF BaseInv
    <2> QED BY <1>1, <2>1 DEF Idx
  <1>6. \A d \in Cmd : /\ Constant(d) /\ (cmd[d].applied => cmd'[d].applied)
                       /\ cmd'[d].mli \in {cmd[d].mli, 0}
                       /\ cmd'[d] = cmd[d] \/ cmd[d].home = r
                       /\ Tame(d) \/ (cmd'[d].trk = cmd[d].wts /\ assigned[r].ct < cmd[d].wts
                                      /\ assigned' = assigned /\ ~ cmd[d].applied)
    BY <1>2 DEF WriteStep, InstallStep, DoneStep, AgainStep, Tame, Constant, Superseded
  <1>7. AdmittedOK'
    <2> SUFFICES ASSUME NEW d \in Cmd PROVE AdmittedC(d)'
      BY DEF AdmittedOK, AdmittedC
    <2>1. AdmittedC(d)
      BY DEF EntryInv, AdmittedOK, AdmittedC
    <2>2. cmd'[d].trk # 0 => cmd'[d].trk <= cmd'[d].wts
      BY <1>6, <2>1, CmdType DEF AdmittedC, Tame, Constant, BaseInv
    <2> QED BY <1>6, <2>1, <2>2, AdmittedKept DEF Constant, EntryInv
  <1>8. ASSUME NEW d \in Cmd, cmd'[d].mli # 0 PROVE Write(d)' \in Sent'
    <2>1. Write(d)' = Write(d) /\ cmd'[d].mli = cmd[d].mli
      BY <1>3, <1>4, <1>6, <1>8 DEF Write, FirstLease, Constant
    <2> QED BY <1>3, <1>8, <2>1 DEF EntryInv, SentOK
  <1>9. \A q \in Replica \ {r} : Recalls(q)
    <2> TAKE q \in Replica \ {r}
    <2>1. PICK k : k = Fx(q) /\ k = Fx(q)'
      BY <1>1
    <2>2. LeaseOf(q)' = LeaseOf(q)
      BY <2>1, LeaseOfIs, SteadyLeaseOf, SteadyLog, Zenon
    <2>3. assigned'[q] = assigned[q] /\ low'[q] = low[q]
      BY <1>2, Zenon DEF WriteStep, InstallStep, InstallLease, BaseInv, TypeOK
    <2>4. \A c \in Cmd : Tame(c) \/ cmd'[c].home # q
      BY <1>6 DEF Tame, Constant
    <2> QED BY <2>2, <2>3, <2>4, RecallsCalm DEF EntryInv
  <1>10. Recalls(r)
    <2>1. CASE InstallStep(r, i)
      BY <1>1, <1>5, <1>6, <2>1, InstallRecalls DEF InstallStep
    <2>2. CASE WriteStep(r, i)
      <3>1. LeaseOf(r)' = LeaseOf(r)
        <4>1. LeaseOf(r)' = LeaseAt(i)
          BY <1>1, SteadyLeaseOf
        <4>2. LeaseOf(r) = LeaseAt(i - 1)
          BY <1>5, LeaseOfIs
        <4> QED BY <2>2, <4>1, <4>2 DEF WriteStep
      <3>2. \A c \in Cmd : Claims(c, r)' => Claims(c, r)
        BY <1>6, <3>1 DEF Claims, Tame, Constant
      <3>3. \A c \in Cmd : Claims(c, r)' => Alive(r)
        BY <3>2, ClaimsAlive DEF EntryInv
      <3>4. /\ assigned'[r] = assigned[r] /\ low'[r] = low[r]
            /\ assigned[r].ct <= assigned[r].ct /\ assigned[r].lai <= assigned[r].lai /\ low[r] <= low[r]
        BY <2>2, ReplicaType DEF BaseInv, WriteStep
      <3>5. AboveTerm(r) => \A c \in Cmd : cmd'[c].home = r /\ cmd'[c].seq = LeaseOf(r).seq /\ cmd'[c].trk # 0
                                    => assigned'[r].ct < cmd'[c].trk
        BY <1>6, <3>4 DEF AboveTerm, Tame, Constant
      <3> QED BY <3>1, <3>3, <3>4, <3>5 DEF Recalls
    <2> QED BY <1>2, <2>1, <2>2
  <1>11. KeepsHold
    <2> SUFFICES ASSUME NEW e \in Numbered, NEW q \in Replica, e.kind = "write", cmd[e.id].home = q,
                        Ahead(e, q)', Ahead(e, q), Holds(e.id, e.mli)
                 PROVE Holds(e.id, e.mli)'
      BY DEF KeepsHold
    <2>1. PICK c \in Cmd : c = e.id
      BY NumberedType
    <2>2. CASE q # r
      <3>1. cmd'[c] = cmd[c]
        BY <1>6, <2>1, <2>2
      <3> QED BY <1>1, <1>3, <2>1, <2>2, <3>1 DEF Holds, InBatch
    <2>3. CASE q = r
      <3>1. /\ StateAt(i - 1).lai < e.mli /\ StateAt(i).lai < e.mli /\ Alive(r)
            /\ e.seq = LeaseAt(i - 1).seq /\ e.seq = cmd[c].seq
        <4>1. StateAt(Fx(r))' = StateAt(i)'
          BY <1>1 DEF StateAt
        <4>2. StateAt(i).lai < e.mli
          BY <2>3, <4>1, SteadyLog DEF Ahead
        <4>3. StateAt(i - 1).lai < e.mli /\ e.seq = LeaseAt(i - 1).seq /\ Alive(r)
          BY <1>5, <2>3, LeaseOfIs DEF Ahead
        <4> QED BY <2>1, <4>2, <4>3, NumberedType
      <3>2. /\ StateAt(i - 1).lai \in Nat /\ StateAt(i).lai \in Nat /\ e.mli \in Nat
            /\ log[i] \in Entry /\ log[i].mli \in Nat
        <4>1. log[i] \in Entry
          BY LogType
        <4> QED BY <1>5, <4>1, NumberedType, StateType, LeaseEntryFields DEF BaseInv, Idx
      <3>3. /\ cmd[c].mli = e.mli /\ cmd[c].trk = 0 /\ cmd[c].home = r
            /\ cmd[c].inMap \/ InBatch(c, e.mli)
        BY <2>1, <2>3 DEF Holds
      <3>4. ASSUME log[i].kind = "write", log[i].id = c PROVE ~ (log[i].mli = e.mli)
        <4>1. log[i].seq = LeaseAt(i - 1).seq
          BY <3>1, <3>4 DEF BaseInv, EntriesOK, EntryOK
        <4>2. VerdictAt(i) \in {"ok", "stale", "mismatch"}
          BY DEF VerdictAt, Verdict
        <4>3. /\ VerdictAt(i) = "ok" => StateAt(i).lai = log[i].mli
              /\ VerdictAt(i) = "stale" => log[i].mli <= StateAt(i - 1).lai
              /\ VerdictAt(i) = "mismatch" => log[i].seq # StateAt(i - 1).lease.seq
          BY <3>4, EffectFacts DEF Effective
        <4> QED BY <3>1, <3>2, <4>1, <4>2, <4>3 DEF LeaseAt
      <3>5. ASSUME log[i].kind = "write", log[i].id = c, VerdictAt(i) = "ok" PROVE FALSE
        <4>1. /\ StateAt(i).lai = log[i].mli /\ StateAt(i - 1).lai < log[i].mli
              /\ log[i].seq = StateAt(i - 1).lease.seq
          BY <3>5, EffectFacts DEF Effective
        <4>2. log[i] \in Numbered
          BY <3>2, <3>5, <4>1 DEF Numbered, Sent
        <4>3. Ahead(log[i], r)
          BY <1>5, <3>1, <4>1, LeaseOfIs DEF Ahead, LeaseAt
        <4>4. log[i].mli = cmd[c].mli
          BY <3>3, <3>5, <4>2, <4>3 DEF EntryInv, InFlight, InHand, Holds
        <4> QED BY <3>3, <3>4, <3>5, <4>4
      <3>6. ASSUME log[i].kind = "write", log[i].id = c PROVE VerdictAt(i) = "stale"
        <4>1. log[i].seq = LeaseAt(i - 1).seq
          BY <3>1, <3>6 DEF BaseInv, EntriesOK, EntryOK
        <4>2. VerdictAt(i) \in {"ok", "stale", "mismatch"}
          BY DEF VerdictAt, Verdict
        <4>3. VerdictAt(i) = "mismatch" => log[i].seq # StateAt(i - 1).lease.seq
          BY <3>6, EffectFacts
        <4> QED BY <3>5, <3>6, <4>1, <4>2, <4>3 DEF LeaseAt
      <3>7. cmd'[c] = cmd[c]
        <4>1. CASE c # log[i].id \/ cmd' = cmd
          BY <1>2, <4>1 DEF WriteStep, InstallStep
        <4>2. CASE c = log[i].id /\ cmd' # cmd
          <5>1. i \in batch[r].bound /\ (DoneStep(i, c) \/ AgainStep(r, i, c))
            BY <1>2, <4>2 DEF WriteStep, InstallStep
          <5>2. log[i].kind = "write"
            BY <1>1, <5>1 DEF BaseInv, BatchesOK, BatchOK
          <5>3. ~ Superseded(c, log[i])
            BY <3>6, <4>2, <5>1, <5>2 DEF DoneStep, AgainStep
          <5>4. log[i].mli = e.mli
            BY <3>3, <5>3 DEF Superseded
          <5> QED BY <3>4, <4>2, <5>2, <5>4
        <4> QED BY <4>1, <4>2
      <3>8. InBatch(c, e.mli) => InBatch(c, e.mli)'
        <4> SUFFICES ASSUME InBatch(c, e.mli) PROVE InBatch(c, e.mli)'
          OBVIOUS
        <4>1. PICK j \in batch[r].bound : j > batch[r].fx /\ log[j].id = c /\ log[j].mli = e.mli
          BY <3>3 DEF InBatch
        <4>2. j \in 1 .. batch[r].to /\ log[j].kind = "write"
          BY <1>1, <4>1 DEF BaseInv, BatchesOK, BatchOK
        <4>3. j # i
          BY <3>4, <4>1, <4>2
        <4>4. batch[r].to \in Nat /\ batch[r].fx \in Nat /\ batch \in [Replica -> [to : Nat, bound : SUBSET Nat, fx : Nat]]
          BY ReplicaType, Zenon DEF BaseInv, TypeOK
        <4>5. j > i /\ i < batch[r].to
          BY <1>1, <4>1, <4>2, <4>3, <4>4
        <4>6. batch'[r] # Idle /\ batch'[r] = [batch[r] EXCEPT !.fx = i]
          BY <1>1, <4>4, <4>5
        <4>7. batch'[r].bound = batch[r].bound /\ batch'[r].fx = i
          BY <4>4, <4>6
        <4> QED BY <1>3, <3>3, <3>7, <4>1, <4>5, <4>6, <4>7, Zenon DEF InBatch
      <3> QED BY <2>1, <3>3, <3>7, <3>8 DEF Holds
    <2> QED BY <2>2, <2>3
  <1>12. \A e \in Numbered : e.kind = "write" => cmd'[e.id].home = cmd[e.id].home
    BY <1>6, NumberedType DEF Constant
  <1> QED BY <1>3, <1>7, <1>8, <1>9, <1>10, <1>11, <1>12, EntrySteady DEF Recalled

\* What an append does to the state the log makes.
Grows(e, k, s, z) ==
    /\ k = Len(log) /\ s = StateAt(k) /\ s = LastState /\ z = StateAt(k + 1)' /\ z = LastState'
    /\ Idx = 0 .. k /\ Idx' = 0 .. k + 1 /\ k \in Idx
    /\ \A n \in Idx : StateAt(n)' = StateAt(n) /\ LeaseAt(n)' = LeaseAt(n)
    /\ LeaseAt(k) = s.lease /\ LeaseAt(k + 1)' = z.lease
    /\ \A r \in Replica : Fx(r)' = Fx(r) /\ LeaseOf(r)' = LeaseOf(r)
    /\ UNCHANGED <<ap, batch, cmd, assigned, low, ver, minVer, inst, side, pub>>
    /\ net' = net \ {e} /\ Sent' = Sent /\ Numbered' = Numbered
    /\ Len(log') = k + 1 /\ log'[k + 1] = e /\ \A i \in 1 .. k : log'[i] = log[i]
    /\ \A i \in 1 .. k : Effective(i)' = Effective(i)
    /\ Effective(k + 1)' = (Verdict(s, e) = "ok")
    /\ z.lease.seq \in {s.lease.seq, s.lease.seq + 1}
    /\ \/ z.lai = s.lai /\ z.ct = s.ct /\ ~ (Verdict(s, e) = "ok" /\ e.kind # "request")
       \/ /\ e \in Numbered /\ e.seq = s.lease.seq /\ s.lai < e.mli /\ After(s.ct, e)
          /\ z.lai = e.mli /\ z.ct = e.ct

LEMMA AppendGrows ==
    ASSUME BaseInv, BaseInv', LeaseInv, EntryInv, NEW e \in net, AppendEntry(e)
    PROVE \E k \in Nat : \E s, z \in AppliedState : Grows(e, k, s, z)
  <1>1. PICK k \in Nat :
        /\ k = Len(log) /\ Len(log') = k + 1 /\ e \in Entry
        /\ log'[k + 1] = e /\ \A i \in 1 .. k : log'[i] = log[i] /\ Effective(i)' = Effective(i)
        /\ VerdictAt(k + 1)' = Verdict(LastState, e)
        /\ StateAt(k + 1)' = ApplyEntry(LastState, e) /\ LastState' = ApplyEntry(LastState, e)
        /\ UNCHANGED <<ap, batch, proposer, leases, transport, bounds>>
    BY AppendFacts
  <1>2. PICK j \in Nat, a \in LeaseRecord, b \in LeaseRecord :
          /\ j = Len(log) /\ a = LeaseAt(j) /\ b = LeaseAt(j + 1)' /\ a = LastState.lease
          /\ Idx = 0 .. j /\ Idx' = 0 .. j + 1 /\ j \in Idx
          /\ \A n \in Idx : LeaseAt(n)' = LeaseAt(n) /\ StateAt(n)' = StateAt(n)
          /\ \A r \in Replica : Fx(r)' = Fx(r) /\ LeaseOf(r)' = LeaseOf(r)
          /\ net' = net \ {e}
          /\ \/ b = a
             \/ /\ b = e.lease /\ e.kind # "write" /\ Verdict(LastState, e) = "ok"
                /\ e.seq = a.seq /\ a.ver < b.ver
                /\ \E n \in Idx : /\ ProposedUnder(e, LeaseAt(n)) /\ SameTerm(LeaseAt(n), a)
                                  /\ e.kind = "request" => LeaseAt(n) = a
    BY AppendLease
  <1>3. j = k
    BY <1>1, <1>2
  <1>4. LastState = StateAt(k) /\ LastState \in AppliedState
    BY <1>1, <1>2, <1>3, StateType DEF LastState, BaseInv, Idx
  <1>5. PICK s \in AppliedState, z \in AppliedState : s = LastState /\ z = ApplyEntry(LastState, e)
    <2>1. EntryOK(e)
      BY DEF BaseInv, EntriesOK
    <2>2. ApplyEntry(LastState, e) \in AppliedState
      BY <1>1, <1>4, <2>1, ApplyEntryFacts DEF EntryOK
    <2> QED BY <1>4, <2>2
  <1>6. s.lai \in Nat /\ s.ct \in Nat /\ s.lease.seq \in Nat /\ s.lease = a /\ z.lease = b
    <2>1. s.lai \in Nat /\ s.ct \in Nat /\ s.lease.seq \in Nat
      BY DEF AppliedState, LeaseRecord
    <2>2. LeaseAt(k + 1)' = z.lease
      BY <1>1, <1>5 DEF LeaseAt
    <2> QED BY <1>2, <1>3, <1>5, <2>1, <2>2
  <1>7. Sent' = Sent
    <2>1. Sent' \subseteq Sent
      <3> SUFFICES ASSUME NEW x \in Sent', x \notin net PROVE x \in Sent
        BY DEF Sent
      <3>1. PICK i \in 1 .. k + 1 : x = log'[i]
        BY <1>1, <1>2 DEF Sent
      <3>2. i \in 1 .. k
        BY <1>1, <3>1
      <3> QED BY <1>1, <3>1, <3>2 DEF Sent
    <2>2. Sent \subseteq Sent'
      <3> SUFFICES ASSUME NEW x \in Sent, x \notin net' PROVE x \in Sent'
        BY DEF Sent
      <3>1. CASE x = e
        <4>1. k + 1 \in 1 .. Len(log')
          BY <1>1
        <4> QED BY <1>1, <3>1, <4>1 DEF Sent
      <3>2. CASE x # e
        <4>1. PICK i \in 1 .. k : x = log[i]
          BY <1>1, <1>2, <3>2 DEF Sent
        <4>2. i \in 1 .. Len(log') /\ x = log'[i]
          BY <1>1, <4>1
        <4> QED BY <4>2 DEF Sent
      <3> QED BY <3>1, <3>2
    <2> QED BY <2>1, <2>2
  <1>8. Numbered' = Numbered
    BY <1>7 DEF Numbered
  <1>9. z.lease.seq \in {s.lease.seq, s.lease.seq + 1}
    <2>1. CASE b = a
      BY <1>6, <2>1
    <2>2. CASE b # a
      <3>1. PICK n \in Idx : ProposedUnder(e, LeaseAt(n))
        BY <1>2, <2>2
      <3>2. e.lease.seq \in {LeaseAt(n).seq, LeaseAt(n).seq + 1} /\ e.seq = LeaseAt(n).seq
        BY <3>1 DEF ProposedUnder, Extends, TakesOver, Renews, Transfers
      <3> QED BY <1>2, <1>6, <2>2, <3>2
    <2> QED BY <2>1, <2>2
  <1>10. \/ z.lai = s.lai /\ z.ct = s.ct /\ ~ (Verdict(s, e) = "ok" /\ e.kind # "request")
         \/ /\ e \in Numbered /\ e.seq = s.lease.seq /\ s.lai < e.mli /\ After(s.ct, e)
            /\ z.lai = e.mli /\ z.ct = e.ct
    <2>1. CASE Verdict(s, e) # "ok"
      BY <1>5, <2>1 DEF ApplyEntry
    <2>2. CASE Verdict(s, e) = "ok" /\ e.kind = "request"
      <3>1. e.ct = 0
        BY <2>2 DEF LeaseInv, RequestsOK, ProposedUnder
      <3> QED BY <1>5, <2>2, <3>1 DEF ApplyEntry
    <2>3. CASE Verdict(s, e) = "ok" /\ e.kind # "request"
      <3>1. e.seq = s.lease.seq /\ ~ (e.mli <= s.lai)
        BY <2>3 DEF Verdict, LeaseMismatch, StaleIndex
      <3>2. e.mli \in Nat /\ e.ct \in Nat
        BY <1>1, LeaseEntryFields
      <3>3. s.lai < e.mli /\ e.mli # 0
        BY <1>6, <3>1, <3>2
      <3>4. e \in Numbered
        BY <2>3, <3>3 DEF Numbered, Sent
      <3>5. After(s.ct, e)
        <4>1. k \in Idx /\ StateAt(k) = s /\ LeaseAt(k).seq = e.seq /\ Current(e)
          BY <1>2, <1>3, <1>4, <1>5, <1>6, <3>1, Zenon DEF Current
        <4> QED BY <3>3, <3>4, <4>1 DEF EntryInv, AboveStates
      <3>6. z.lai = e.mli /\ z.ct = IF e.ct # 0 THEN e.ct ELSE s.ct
        BY <1>5, <2>3 DEF ApplyEntry
      <3>7. z.ct = e.ct
        BY <1>6, <3>2, <3>5, <3>6 DEF After
      <3> QED BY <3>1, <3>3, <3>4, <3>5, <3>6, <3>7
    <2> QED BY <2>1, <2>2, <2>3
  <1>11. UNCHANGED <<ap, batch, cmd, assigned, low, ver, minVer, inst, side, pub>>
    BY <1>1 DEF proposer, leases, transport, bounds
  <1>12. /\ k = Len(log) /\ s = StateAt(k) /\ s = LastState /\ z = StateAt(k + 1)' /\ z = LastState'
         /\ LeaseAt(k) = s.lease /\ LeaseAt(k + 1)' = z.lease
    BY <1>1, <1>2, <1>3, <1>4, <1>5, <1>6
  <1>13. /\ Idx = 0 .. k /\ Idx' = 0 .. k + 1 /\ k \in Idx
         /\ \A n \in Idx : StateAt(n)' = StateAt(n) /\ LeaseAt(n)' = LeaseAt(n)
         /\ \A r \in Replica : Fx(r)' = Fx(r) /\ LeaseOf(r)' = LeaseOf(r)
         /\ net' = net \ {e}
    BY <1>2, <1>3
  <1>14. Effective(k + 1)' = (Verdict(s, e) = "ok")
    BY <1>1, <1>5 DEF Effective
  <1> QED BY <1>1, <1>7, <1>14, <1>8, <1>9, <1>10, <1>11, <1>12, <1>13, Zenon DEF Grows

LEMMA AppendEntries ==
    ASSUME BaseInv, BaseInv', LeaseInv, LeaseInv', EntryInv, NEW e \in net, AppendEntry(e)
    PROVE EntryInv'
  <1>0. PICK k \in Nat, s \in AppliedState, z \in AppliedState : Grows(e, k, s, z)
    BY AppendGrows
  <1>1. /\ k = Len(log) /\ s = StateAt(k) /\ s = LastState /\ z = StateAt(k + 1)' /\ z = LastState'
        /\ Idx = 0 .. k /\ Idx' = 0 .. k + 1 /\ k \in Idx
        /\ \A n \in Idx : StateAt(n)' = StateAt(n) /\ LeaseAt(n)' = LeaseAt(n)
        /\ LeaseAt(k) = s.lease /\ LeaseAt(k + 1)' = z.lease
        /\ \A r \in Replica : Fx(r)' = Fx(r) /\ LeaseOf(r)' = LeaseOf(r)
        /\ UNCHANGED <<ap, batch, cmd, assigned, low, ver, minVer, inst, side, pub>>
        /\ net' = net \ {e} /\ Sent' = Sent /\ Numbered' = Numbered
        /\ \A i \in 1 .. k : log'[i] = log[i]
        /\ z.lease.seq \in {s.lease.seq, s.lease.seq + 1}
        /\ \/ z.lai = s.lai /\ z.ct = s.ct
           \/ /\ e \in Numbered /\ e.seq = s.lease.seq /\ s.lai < e.mli /\ After(s.ct, e)
              /\ z.lai = e.mli /\ z.ct = e.ct
    BY <1>0 DEF Grows
  <1>2. /\ s.lai \in Nat /\ s.ct \in Nat /\ s.lease.seq \in Nat
        /\ z.lai \in Nat /\ z.ct \in Nat /\ z.lease.seq \in Nat
    BY DEF AppliedState, LeaseRecord
  <1>3. \A n \in Idx : LeaseAt(n).seq \in Nat /\ LeaseAt(n).seq <= s.lease.seq
                       /\ StateAt(n).ct \in Nat /\ StateAt(n).lai \in Nat /\ LeaseAt(n).holder \in Replica
    BY <1>1, NotAfterLast, LeaseAtType, StateType DEF LeaseAt, Idx, BaseInv
  <1>4. \A n \in Idx' : n \in Idx \/ n = k + 1
    BY <1>1
  \* A state of the log in the term of the new one is in the last term.
  <1>5. \A n \in Idx : LeaseAt(n).seq = z.lease.seq => s.lease.seq = z.lease.seq
    BY <1>1, <1>2, <1>3
  <1>6. s.ct <= z.ct
    BY <1>1, <1>2 DEF After
  <1>7. SentOK'
    <2>1. ASSUME NEW f \in Numbered PROVE Known(f.seq)'
      <3>1. PICK n \in Idx : LeaseAt(n).seq = f.seq /\ f.seq <= LeaseOf(LeaseAt(n).holder).seq
        BY DEF EntryInv, SentOK, Known
      <3>2. n \in Idx' /\ LeaseAt(n)' = LeaseAt(n) /\ LeaseOf(LeaseAt(n).holder)' = LeaseOf(LeaseAt(n).holder)
        <4>1. PICK h \in Replica : h = LeaseAt(n).holder
          BY <1>3
        <4>2. LeaseAt(n)' = LeaseAt(n) /\ LeaseOf(h)' = LeaseOf(h) /\ n \in Idx'
          BY <1>1
        <4>3. LeaseOf(LeaseAt(n).holder)' = LeaseOf(h)'
          BY <4>1, <4>2 DEF LeaseOf
        <4> QED BY <4>1, <4>2, <4>3
      <3> QED BY <3>1, <3>2 DEF Known
    <2>2. ASSUME NEW c \in Cmd, cmd'[c].mli # 0 PROVE Write(c)' \in Sent'
      BY <1>1, <2>2 DEF Write, FirstLease, EntryInv, SentOK
    <2> QED BY <1>1, <2>1, <2>2 DEF SentOK
  <1>8. AdmittedOK'
    <2> SUFFICES ASSUME NEW c \in Cmd PROVE AdmittedC(c)'
      BY DEF AdmittedOK, AdmittedC
    <2>1. AdmittedC(c)
      BY DEF EntryInv, AdmittedOK, AdmittedC
    <2>2. ASSUME cmd[c].phase # "new"
          PROVE \E n \in 0 .. Fx(cmd[c].home)' : LeaseAt(n)'.seq = cmd[c].seq /\ LeaseAt(n)'.holder = cmd[c].home
      <3>1. PICK n \in 0 .. Fx(cmd[c].home) : LeaseAt(n).seq = cmd[c].seq /\ LeaseAt(n).holder = cmd[c].home
        BY <2>1, <2>2 DEF AdmittedC
      <3>2. PICK r \in Replica : r = cmd[c].home
        BY CmdType DEF BaseInv
      <3>3. Fx(r) \in Idx /\ Fx(r)' = Fx(r) /\ Fx(cmd[c].home)' = Fx(r)'
        BY <1>1, <3>2, LeaseOfIs DEF Fx
      <3>4. n \in Idx
        BY <1>1, <3>1, <3>2, <3>3
      <3> QED BY <1>1, <3>1, <3>2, <3>3, <3>4
    <2> QED BY <1>1, <2>1, <2>2 DEF AdmittedC
  <1>9. \A r \in Replica : Alive(r)' <=> Alive(r)
    BY <1>1 DEF Alive, Claims
  <1>10. MemoryOK'
    <2> SUFFICES ASSUME NEW r \in Replica, Alive(r) PROVE AboveTerm(r)'
      BY <1>9 DEF MemoryOK
    <2>1. AboveTerm(r)
      BY DEF EntryInv, MemoryOK
    <2>2. Fx(r) \in Idx /\ LeaseOf(r) = LeaseAt(Fx(r)) /\ assigned[r].ct \in Nat
      BY LeaseOfIs, ReplicaType DEF BaseInv
    <2>3. ASSUME z.lease.seq = LeaseOf(r).seq PROVE z.ct <= assigned[r].ct
      <3>1. s.lease.seq = LeaseOf(r).seq
        BY <1>5, <2>2, <2>3
      <3>2. s.ct <= assigned[r].ct
        BY <1>1, <2>1, <3>1, Zenon DEF AboveTerm
      <3>3. e \in Numbered /\ e.seq = s.lease.seq => e.ct <= assigned[r].ct
        BY <2>1, <3>1 DEF AboveTerm
      <3> QED BY <1>1, <3>2, <3>3
    <2>4. \A n \in Idx' : LeaseAt(n)'.seq = LeaseOf(r).seq => StateAt(n)'.ct <= assigned[r].ct
      BY <1>1, <1>4, <2>1, <2>3 DEF AboveTerm
    <2> QED BY <1>1, <2>1, <2>4 DEF AboveTerm
  <1>11. ClosedGrows'
    <2> SUFFICES ASSUME NEW m \in Idx', NEW n \in Idx', m <= n PROVE StateAt(m)'.ct <= StateAt(n)'.ct
      BY DEF ClosedGrows
    <2>1. CASE n \in Idx
      <3>1. m \in Idx
        BY <1>1, <2>1
      <3> QED BY <1>1, <2>1, <3>1 DEF EntryInv, ClosedGrows
    <2>2. CASE n = k + 1 /\ m \in Idx
      <3>0. m <= k
        BY <1>1, <2>2
      <3>1. StateAt(m).ct <= s.ct
        BY <1>1, <2>2, <3>0, Zenon DEF EntryInv, ClosedGrows
      <3> QED BY <1>1, <1>2, <1>3, <1>6, <2>2, <3>1
    <2>3. CASE n = k + 1 /\ m = k + 1
      BY <1>1, <1>2, <2>3
    <2> QED BY <1>4, <2>1, <2>2, <2>3
  <1>12. Quiet'
    \* A state of the term of the new one that differs from it.
    <2>1. ASSUME NEW m \in Idx, LeaseAt(m).seq = z.lease.seq,
                 StateAt(m).ct # z.ct \/ StateAt(m).lai # z.lai
          PROVE LeaseAt(m).seq <= LeaseOf(LeaseAt(m).holder).seq
      <3>1. s.lease.seq = z.lease.seq
        BY <1>5, <2>1
      <3>2. CASE z.lai = s.lai /\ z.ct = s.ct
        BY <1>1, <2>1, <3>1, <3>2, Zenon DEF EntryInv, Quiet
      <3>3. CASE e \in Numbered /\ e.seq = s.lease.seq
        <4>1. PICK j \in Idx : LeaseAt(j).seq = e.seq /\ e.seq <= LeaseOf(LeaseAt(j).holder).seq
          BY <3>3 DEF EntryInv, SentOK, Known
        <4>2. LeaseAt(j).holder = LeaseAt(m).holder
          BY <2>1, <3>1, <3>3, <4>1, OneTerm DEF SameTerm, LeaseInv
        <4> QED BY <2>1, <3>1, <3>3, <4>1, <4>2
      <3> QED BY <1>1, <3>2, <3>3
    <2>2. \A m \in Idx : LeaseOf(LeaseAt(m).holder)' = LeaseOf(LeaseAt(m).holder)
      <3> TAKE m \in Idx
      <3>1. PICK h \in Replica : h = LeaseAt(m).holder
        BY <1>3
      <3>2. LeaseAt(m)' = LeaseAt(m) /\ LeaseOf(h)' = LeaseOf(h)
        BY <1>1
      <3>3. LeaseOf(LeaseAt(m).holder)' = LeaseOf(h)'
        BY <3>1, <3>2 DEF LeaseOf
      <3> QED BY <3>1, <3>2, <3>3
    <2> SUFFICES ASSUME NEW m \in Idx', NEW n \in Idx', LeaseAt(m)'.seq = LeaseAt(n)'.seq,
                        StateAt(m)'.ct # StateAt(n)'.ct \/ StateAt(m)'.lai # StateAt(n)'.lai
                 PROVE LeaseAt(m)'.seq <= LeaseOf(LeaseAt(m).holder)'.seq
      BY DEF Quiet
    <2>3. CASE m \in Idx /\ n \in Idx
      BY <1>1, <2>2, <2>3 DEF EntryInv, Quiet
    <2>4. CASE m \in Idx /\ n = k + 1
      BY <1>1, <2>1, <2>2, <2>4
    <2>5. CASE m = k + 1 /\ n \in Idx
      <3>1. LeaseAt(n).seq <= LeaseOf(LeaseAt(n).holder).seq
        BY <1>1, <2>1, <2>5
      <3>2. n <= m
        BY <1>1, <2>5
      <3>3. LeaseAt(n)'.holder = LeaseAt(m)'.holder
        BY <3>2 DEF LeaseInv, LeasesOK, SameTerm
      <3>4. PICK h \in Replica : h = LeaseAt(n).holder
        BY <1>3, <2>5
      <3>5. LeaseAt(m)'.holder = h /\ LeaseAt(m)'.seq = LeaseAt(n).seq /\ LeaseOf(h)' = LeaseOf(h)
        BY <1>1, <2>5, <3>3, <3>4
      <3>6. LeaseOf(LeaseAt(m).holder)' = LeaseOf(h)'
        BY <3>5 DEF LeaseOf
      <3> QED BY <3>1, <3>4, <3>5, <3>6
    <2>6. CASE m = k + 1 /\ n = k + 1
      BY <2>6
    <2> QED BY <1>4, <2>3, <2>4, <2>5, <2>6
  <1>13. \A f \in Numbered : Current(f)' => Current(f) /\ s.lease.seq = z.lease.seq
    <2> SUFFICES ASSUME NEW f \in Numbered, f.seq = z.lease.seq PROVE f.seq = s.lease.seq
      BY <1>1 DEF Current
    <2>1. f.seq <= s.lease.seq /\ f.seq \in Nat
      BY <1>1, NumberedNotAfter, NumberedType DEF EntryInv
    <2> QED BY <1>1, <1>2, <2>1
  <1>14. InOrder'
    BY <1>1, <1>13 DEF EntryInv, InOrder, After
  <1>15. AboveStates'
    <2> SUFFICES ASSUME NEW f \in Numbered, Current(f)', NEW n \in Idx', LeaseAt(n)'.seq = f.seq,
                        StateAt(n)'.lai < f.mli
                 PROVE After(StateAt(n)'.ct, f)
      BY <1>1 DEF AboveStates, After
    <2>1. Current(f)
      BY <1>13
    <2>2. CASE n \in Idx
      BY <1>1, <2>1, <2>2 DEF EntryInv, AboveStates
    <2>3. CASE n = k + 1
      <3>1. z.lai < f.mli /\ StateAt(n)'.ct = z.ct
        BY <1>1, <2>3
      <3>2. CASE z.lai = s.lai /\ z.ct = s.ct
        <4>1. LeaseAt(k).seq = f.seq
          BY <1>1, <2>1 DEF Current
        <4> QED BY <1>1, <2>1, <3>1, <3>2, <4>1, Zenon DEF EntryInv, AboveStates
      <3>3. CASE e \in Numbered /\ e.seq = s.lease.seq /\ z.lai = e.mli /\ z.ct = e.ct
        <4>1. Current(e)
          BY <1>1, <3>3 DEF Current
        <4> QED BY <2>1, <3>1, <3>3, <4>1 DEF EntryInv, InOrder
      <3> QED BY <1>1, <3>2, <3>3
    <2> QED BY <1>4, <2>2, <2>3
  <1>16. InFlight'
    <2> SUFFICES ASSUME NEW f \in Numbered, f.kind = "write", Ahead(f, cmd[f.id].home)'
                 PROVE Holds(f.id, f.mli)'
      BY <1>1 DEF InFlight, InHand
    <2>1. PICK r \in Replica : r = cmd[f.id].home
      BY NumberedType
    <2>2. Fx(r) \in Idx
      BY LeaseOfIs
    <2>3. StateAt(Fx(r))' = StateAt(Fx(r))
      <3>1. PICK n \in Idx : n = Fx(r) /\ n = Fx(r)'
        BY <1>1, <2>2
      <3>2. StateAt(Fx(r))' = StateAt(n)'
        BY <3>1 DEF StateAt
      <3> QED BY <1>1, <3>1, <3>2
    <2>4. Ahead(f, r)'
      <3>1. cmd'[f.id].home = r
        BY <1>1, <2>1
      <3> QED BY <3>1 DEF Ahead, Alive, Claims, LeaseOf, Fx
    <2>5. Ahead(f, r)
      BY <1>1, <1>9, <2>3, <2>4 DEF Ahead
    <2>6. Holds(f.id, f.mli)
      BY <2>1, <2>5 DEF EntryInv, InFlight, InHand
    <2>7. InBatch(f.id, f.mli) => InBatch(f.id, f.mli)'
      <3> SUFFICES ASSUME InBatch(f.id, f.mli) PROVE InBatch(f.id, f.mli)'
        OBVIOUS
      <3>1. batch[r] # Idle
        BY <2>1 DEF InBatch
      <3>2. PICK i \in batch[r].bound : i > batch[r].fx /\ log[i].id = f.id /\ log[i].mli = f.mli
        BY <2>1 DEF InBatch
      <3>3. i \in 1 .. batch[r].to /\ batch[r].to <= Len(log)
        BY <3>1, <3>2 DEF BaseInv, BatchesOK, BatchOK
      <3>4. batch[r].to \in Nat
        BY ReplicaType DEF BaseInv
      <3>5. log'[i] = log[i]
        BY <1>1, <3>3, <3>4
      <3> QED BY <1>1, <2>1, <3>1, <3>2, <3>5 DEF InBatch
    <2> QED BY <1>1, <2>6, <2>7 DEF Holds
  <1> QED BY <1>7, <1>8, <1>10, <1>11, <1>12, <1>14, <1>15, <1>16 DEF EntryInv

LEMMA InitEntries == Init => EntryInv
  <1> SUFFICES ASSUME Init PROVE EntryInv
    OBVIOUS
  <1>1. inst \in Instance /\ First \in Replica /\ BaseInv
    BY ClosedTimestampsAssumption, InitBase DEF Init
  <1>2. /\ net = {} /\ log = <<>> /\ st = <<[lai |-> 1, ct |-> 0, lease |-> FirstLease]>>
        /\ cmd = [c \in Cmd |-> NewCmd]
        /\ assigned = [r \in Replica |-> [lai |-> IF r = First THEN 1 ELSE 0, ct |-> 0]]
        /\ low = [r \in Replica |-> 0]
    BY DEF Init
  <1>3. Idx = {0} /\ StateAt(0) = [lai |-> 1, ct |-> 0, lease |-> FirstLease] /\ LeaseAt(0) = FirstLease
    BY <1>2 DEF Idx, LeaseAt, StateAt
  <1>4. FirstLease.sum = 0 /\ StateAt(0).ct = 0
    BY <1>1, <1>3 DEF FirstLease, Lease
  <1>5. Sent = {} /\ Numbered = {}
    BY <1>2 DEF Sent, Numbered
  <1>6. \A c \in Cmd : cmd[c].phase = "new" /\ cmd[c].mli = 0 /\ cmd[c].trk = 0 /\ cmd[c].wts = 0
    BY <1>2 DEF NewCmd
  <1>7. SentOK /\ AdmittedOK /\ InOrder /\ AboveStates /\ InFlight
    BY <1>5, <1>6 DEF SentOK, AdmittedOK, InOrder, AboveStates, InFlight
  <1>8. ClosedGrows /\ Quiet
    BY <1>3, <1>4 DEF ClosedGrows, Quiet
  <1>9. MemoryOK
    <2> SUFFICES ASSUME NEW r \in Replica PROVE AboveTerm(r)
      BY DEF MemoryOK
    <2>1. LeaseOf(r) = FirstLease
      BY <1>1, <1>3, LeaseOfIs
    <2>2. low[r] = 0 /\ assigned[r].ct = 0
      BY <1>2
    <2> QED BY <1>3, <1>4, <1>5, <1>6, <2>1, <2>2 DEF AboveTerm
  <1> QED BY <1>7, <1>8, <1>9 DEF EntryInv

LEMMA EntryNext ==
    ASSUME BaseInv, BaseInv', LeaseInv, EntryInv, Steady,
           UNCHANGED vars \/ (Next /\ ~ \E e \in net : AppendEntry(e))
    PROVE EntryInv' /\ Recalled
  <1>0. LeasesOK
    BY DEF LeaseInv
  <1>1. CASE UNCHANGED vars
    <2>1. UNCHANGED <<net, raft, ap, batch, cmd, assigned, low, inst>>
      BY <1>1 DEF vars, proposer, leases, bounds
    <2> QED BY <1>0, <2>1, StutterEntries
  <1>2. ASSUME NEW r \in Replica, NEW m, GetClosedTimestamp(r, m) PROVE EntryInv' /\ Recalled
    <2>1. UNCHANGED <<net, raft, ap, batch, cmd, assigned, low, inst>>
      BY <1>2 DEF GetClosedTimestamp, proposer, leases, bounds
    <2> QED BY <1>0, <2>1, StutterEntries
  <1>3. CASE Next /\ ~ \E e \in net : AppendEntry(e)
    BY <1>0, <1>2, <1>3, AdmitEntries, TrackEntries, FlushNewEntries, FlushedAgainEntries,
       RefreshEntries, DecodeEntries, ApplyBatchEntries, SideEffectsEntries, SnapshotEntries,
       RestartEntries, RequestEntries, TransferEntries, BumpEntries DEF Next
  <1> QED BY <1>1, <1>3

LEMMA IdleIsSteady ==
    ASSUME BaseInv, UNCHANGED vars PROVE Steady
  <1>1. UNCHANGED <<raft, ap, batch, minVer, ver>>
    BY DEF vars, leases
  <1>2. \A r \in Replica : Fx(r)' = Fx(r) /\ Fx(r) \in 0 .. Len(log)
    BY <1>1, FxType DEF BaseInv, Fx
  <1>3. ver \in Nat /\ minVer \in [Replica -> Nat]
    BY DEF BaseInv, TypeOK
  <1> QED BY <1>1, <1>2, <1>3 DEF Steady

LEMMA EntryStep == BaseInv /\ LeaseInv /\ EntryInv /\ [Next]_vars => EntryInv'
  <1> SUFFICES ASSUME BaseInv, LeaseInv, EntryInv, [Next]_vars PROVE EntryInv'
    OBVIOUS
  <1>0. BaseInv' /\ LeaseInv'
    BY BaseStep, LeaseStep
  <1>1. CASE UNCHANGED vars
    BY <1>0, <1>1, IdleIsSteady, EntryNext
  <1>2. CASE \E e \in net : AppendEntry(e)
    BY <1>0, <1>2, AppendEntries
  <1>3. CASE Next /\ ~ \E e \in net : AppendEntry(e)
    BY <1>0, <1>3, StepSteady, EntryNext
  <1> QED BY <1>1, <1>2, <1>3

-----------------------------------------------------------------------------
(* What was published.                                                     *)

LEMMA PubType ==
    ASSUME BaseInv, NEW m \in pub
    PROVE m.from \in Replica /\ m.seq \in Nat /\ m.ts \in Nat /\ m.lai \in Nat
  <1>1. pub \subseteq [from : Replica, seq : Nat, ts : Ts0, lai : Nat] /\ inst.maxTs \in Nat
    BY DEF BaseInv, TypeOK, Instance
  <1>2. m \in [from : Replica, seq : Nat, ts : Ts0, lai : Nat]
    BY <1>1
  <1>3. m.from \in Replica /\ m.seq \in Nat /\ m.ts \in Ts0 /\ m.lai \in Nat
    BY <1>2
  <1> QED BY <1>1, <1>3 DEF Ts0

\* What was published belongs to a state its publisher has installed.
LEMMA PubState ==
    ASSUME BaseInv, PubOK, NEW m \in pub
    PROVE \E n \in Idx :
          /\ n <= Fx(m.from) /\ LeaseAt(n).seq = m.seq /\ LeaseAt(n).holder = m.from
          /\ StateAt(n).lai = m.lai /\ m.ts < LeaseAt(n).exp
          /\ m.seq <= LeaseOf(m.from).seq /\ m.seq <= LastState.lease.seq
  <1>1. PICK n \in 0 .. Fx(m.from) :
          /\ LeaseAt(n).seq = m.seq /\ LeaseAt(n).holder = m.from
          /\ StateAt(n).lai = m.lai /\ m.ts < LeaseAt(n).exp
    BY DEF PubOK
  <1>2. Fx(m.from) \in Idx /\ LeaseOf(m.from) = LeaseAt(Fx(m.from))
    BY PubType, LeaseOfIs
  <1>3. n \in 0 .. Len(log) /\ n <= Fx(m.from) /\ Fx(m.from) \in 0 .. Len(log) /\ Len(log) \in Nat
    BY <1>2, LogType DEF Idx
  <1>4. StateAt(n).lease.seq <= StateAt(Fx(m.from)).lease.seq
    BY <1>3, Ordered
  <1>5. StateAt(n).lease.seq <= StateAt(Len(log)).lease.seq
    BY <1>3, Ordered
  <1> QED BY <1>1, <1>2, <1>3, <1>4, <1>5 DEF LeaseAt, LastState, Idx

\* Published pairs are ordered as their terms are.
LEMMA PubOrder ==
    ASSUME BaseInv, PubOK, PubGrows, NEW m \in pub, NEW k \in pub
    PROVE /\ m.seq < k.seq => m.lai <= k.lai
          /\ m.lai < k.lai => m.ts <= k.ts
  <1>1. /\ m.seq \in Nat /\ k.seq \in Nat /\ m.lai \in Nat /\ k.lai \in Nat
    BY PubType
  <1>2. ASSUME NEW x \in pub, NEW y \in pub, x.seq < y.seq PROVE x.lai <= y.lai
    <2>1. PICK i \in Idx : LeaseAt(i).seq = x.seq /\ StateAt(i).lai = x.lai
      BY PubState
    <2>2. PICK j \in Idx : LeaseAt(j).seq = y.seq /\ StateAt(j).lai = y.lai
      BY PubState
    <2>3. j <= i \/ i <= j
      BY DEF Idx
    <2>4. j <= i => StateAt(j).lease.seq <= StateAt(i).lease.seq
      BY Ordered DEF Idx
    <2>5. i <= j => StateAt(i).lai <= StateAt(j).lai
      BY Ordered DEF Idx
    <2>6. x.seq \in Nat /\ y.seq \in Nat
      BY PubType
    <2> QED BY <1>2, <2>1, <2>2, <2>3, <2>4, <2>5, <2>6 DEF LeaseAt
  <1>3. m.seq < k.seq => m.lai <= k.lai
    BY <1>2
  <1>4. k.seq < m.seq => k.lai <= m.lai
    BY <1>2
  <1> QED BY <1>1, <1>3, <1>4 DEF PubGrows

LEMMA EffectiveIndex ==
    ASSUME BaseInv, NEW i \in 1 .. Len(log), log[i].kind = "write", Effective(i)
    PROVE /\ i - 1 \in 0 .. Len(log) /\ log[i].seq = LeaseAt(i - 1).seq
          /\ log[i].mli \in Nat /\ log[i].wts \in Nat /\ log[i].seq \in Nat
          /\ StateAt(i - 1).lai < log[i].mli /\ log[i].mli = StateAt(i).lai
          /\ log[i] \in Numbered
  <1>1. i - 1 \in 0 .. Len(log) /\ log[i] \in Entry /\ i \in 0 .. Len(log) /\ i \in 1 .. Len(log)
    BY LogType
  <1>2. StateAt(i - 1) \in AppliedState /\ StateAt(i - 1).lai \in Nat
        /\ StateAt(i) = ApplyEntry(StateAt(i - 1), log[i])
    BY <1>1, StateType DEF BaseInv, StatesOK
  <1>3. Verdict(StateAt(i - 1), log[i]) = "ok" /\ (log[i].kind # "write" => FALSE)
    BY DEF Effective, VerdictAt
  <1>4. /\ ApplyEntry(StateAt(i - 1), log[i]).lai = log[i].mli /\ StateAt(i - 1).lai < log[i].mli
        /\ log[i].seq = StateAt(i - 1).lease.seq
    BY <1>1, <1>2, <1>3, ApplyEntryFacts
  <1>5. log[i].mli \in Nat /\ log[i].wts \in Nat /\ log[i].seq \in Nat
    BY <1>1, LeaseEntryFields
  <1>6. log[i] \in Numbered
    BY <1>2, <1>4, <1>5 DEF Numbered, Sent
  <1> QED BY <1>1, <1>2, <1>4, <1>5, <1>6 DEF LeaseAt

\* What the replicas hold closed is below all that they have yet to apply.
LEMMA ClosedIsBelow ==
    ASSUME BaseInv, PubInv
    PROVE NoWriteBelowClosed
  <1> SUFFICES ASSUME NEW r \in Replica, NEW i \in ap[r] + 1 .. Len(log),
                      log[i].kind = "write", Effective(i)
               PROVE log[i].wts > Closed(r)
    BY DEF NoWriteBelowClosed
  <1>0. ap[r] \in 0 .. Len(log) /\ Len(log) \in Nat
    BY LeaseOfIs, LogType DEF Idx
  <1>1. i \in 1 .. Len(log) /\ ap[r] <= i - 1 /\ ap[r] \in 0 .. i - 1
    BY <1>0
  <1>2. /\ i - 1 \in 0 .. Len(log) /\ log[i].mli \in Nat /\ log[i].wts \in Nat
        /\ StateAt(i - 1).lai < log[i].mli
    BY <1>1, EffectiveIndex
  <1>3. AbovePub(log[i]) /\ State(r).ct < log[i].wts
    BY <1>1 DEF PubInv, WritesAbove, State
  <1>4. State(r).lai <= StateAt(i - 1).lai /\ State(r).lai \in Nat /\ StateAt(i - 1).lai \in Nat
    BY <1>0, <1>1, <1>2, Ordered, Zenon DEF State
  <1>5. FromPub(side[r].cur, pub) /\ side[r].cur.lai <= State(r).lai
    BY DEF PubInv, SideOK
  <1>6. side[r].cur.lai \in Nat /\ side[r].cur.ts \in Nat /\ State(r).ct \in Nat
    BY ReplicaType, LeaseType DEF BaseInv, Promise
  <1>7. side[r].cur.ts < log[i].wts
    <2>1. CASE side[r].cur.ts = 0
      BY <1>2, <1>3, <1>6, <2>1
    <2>2. CASE side[r].cur.ts # 0
      <3>1. PICK m \in pub : side[r].cur.ts = m.ts /\ side[r].cur.lai = m.lai
        BY <1>5, <2>2 DEF FromPub
      <3>2. m.lai < log[i].mli
        BY <1>2, <1>4, <1>5, <1>6, <3>1
      <3> QED BY <1>3, <3>1, <3>2 DEF AbovePub
    <2> QED BY <2>1, <2>2
  <1> QED BY <1>2, <1>3, <1>6, <1>7 DEF Closed, Larger

LEMMA NoRegression ==
    ASSUME BaseInv, PubInv
    PROVE NoSideTransportRegression
  <1>1. ASSUME NEW m \in pub, NEW p \in Promise, FromPub(p, pub), p.lai # 0
        PROVE ~ Regression(p, m)
    <2>1. PICK k \in pub : p.ts = k.ts /\ p.lai = k.lai
      BY <1>1 DEF FromPub
    <2>2. (m.lai < k.lai => m.ts <= k.ts) /\ (k.lai < m.lai => k.ts <= m.ts)
      BY PubOrder DEF PubInv
    <2>3. m.ts \in Nat /\ m.lai \in Nat /\ k.ts \in Nat /\ k.lai \in Nat
      BY PubType
    <2> QED BY <2>1, <2>2, <2>3 DEF Regression
  <1>2. \A r \in Replica : /\ side[r].cur \in Promise /\ side[r].next \in Promise
                           /\ FromPub(side[r].cur, pub) /\ FromPub(side[r].next, pub)
    BY ReplicaType DEF BaseInv, PubInv, SideOK
  <1> QED BY <1>1, <1>2 DEF NoSideTransportRegression

LEMMA MergeFrom ==
    ASSUME NEW S, NEW a \in Promise, NEW b \in Promise, FromPub(a, S), FromPub(b, S)
    PROVE /\ Merge(a, b) \in Promise /\ FromPub(Merge(a, b), S)
          /\ Merge(a, b).lai = Larger(a.lai, b.lai)
  <1>1. CASE a.lai = b.lai
    <2>1. Merge(a, b) = [a EXCEPT !.ts = Larger(@, b.ts)]
      BY <1>1 DEF Merge
    <2>2. Merge(a, b).lai = a.lai /\ Merge(a, b).ts \in {a.ts, b.ts} /\ Merge(a, b) \in Promise
      BY <2>1 DEF Promise, Larger
    <2>3. Larger(a.lai, b.lai) = a.lai
      BY <1>1 DEF Larger
    <2> QED BY <1>1, <2>2, <2>3 DEF FromPub
  <1>2. CASE a.lai # b.lai
    BY <1>2 DEF Merge, Larger, Promise
  <1> QED BY <1>1, <1>2

\* sidetransportAccess keeps published pairs only, and uses what is applied only.
LEMMA ForwardFrom ==
    ASSUME NEW S, NEW sd \in [cur : Promise, next : Promise], NEW up \in Promise, NEW b \in BOOLEAN,
           NEW L \in Nat, FromPub(sd.cur, S), FromPub(sd.next, S), FromPub(up, S),
           sd.cur.lai <= L, b => up.lai <= L
    PROVE /\ FromPub(Forward(sd, up, b).cur, S) /\ FromPub(Forward(sd, up, b).next, S)
          /\ Forward(sd, up, b).cur.lai <= L
  <1>0. sd.cur \in Promise /\ sd.next \in Promise /\ sd.cur.lai \in Nat /\ sd.next.lai \in Nat
        /\ up.lai \in Nat
    BY DEF Promise
  <1>1. CASE b \/ up.lai <= sd.cur.lai
    <2> DEFINE reached == up.lai >= sd.next.lai
               x == IF reached THEN Merge(up, sd.next) ELSE up
    <2>1. Forward(sd, up, b) = [cur  |-> Merge(sd.cur, x), next |-> IF reached THEN NoClosed ELSE sd.next]
      BY <1>1 DEF Forward
    <2>2. up.lai <= L
      BY <1>0, <1>1
    <2>3. /\ Merge(up, sd.next) \in Promise /\ FromPub(Merge(up, sd.next), S)
          /\ Merge(up, sd.next).lai = Larger(up.lai, sd.next.lai)
      BY <1>0, MergeFrom
    <2>4. x \in Promise /\ FromPub(x, S) /\ x.lai <= L
      BY <1>0, <2>2, <2>3 DEF Larger
    <2> HIDE DEF x
    <2>5. FromPub(Merge(sd.cur, x), S) /\ Merge(sd.cur, x).lai = Larger(sd.cur.lai, x.lai)
      BY <1>0, <2>4, MergeFrom
    <2>6. FromPub(NoClosed, S)
      BY DEF FromPub, NoClosed
    <2> QED BY <1>0, <2>1, <2>4, <2>5, <2>6 DEF Larger
  <1>2. CASE ~ (b \/ up.lai <= sd.cur.lai)
    <2>1. Forward(sd, up, b) = [sd EXCEPT !.next = Merge(@, up)]
      BY <1>2 DEF Forward
    <2>2. FromPub(Merge(sd.next, up), S)
      BY <1>0, MergeFrom
    <2> QED BY <2>1, <2>2
  <1> QED BY <1>1, <1>2

\* A replica goes on from the states it applied.
LEMMA AppliedGrows ==
    ASSUME BaseInv, BaseInv', Next, NEW r \in Replica
    PROVE State(r).lai <= State(r)'.lai /\ State(r).lai \in Nat /\ State(r)'.lai \in Nat
  <1>0. ap \in [Replica -> Nat] /\ ap[r] \in Nat
    BY DEF BaseInv, TypeOK
  <1>1. ASSUME UNCHANGED raft, ap'[r] = ap[r] \/ ap'[r] > ap[r]
        PROVE State(r).lai <= State(r)'.lai /\ State(r).lai \in Nat /\ State(r)'.lai \in Nat
    <2>1. State(r)' = StateAt(ap'[r])
      BY <1>1 DEF State, StateAt, raft
    <2>2. ap[r] \in 0 .. Len(log)
      BY LeaseOfIs DEF Idx
    <2>3. ap'[r] \in 0 .. Len(log)
      <3>1. ap' \in [Replica -> Nat] /\ ap'[r] <= Len(log')
        BY DEF BaseInv, TypeOK, BatchesOK, BatchOK
      <3> QED BY <1>1, <3>1, LogType DEF raft
    <2>4. ap[r] <= ap'[r]
      BY <1>1, <2>2, <2>3
    <2> QED BY <2>1, <2>2, <2>3, <2>4, Ordered DEF State
  <1>2. CASE \E e \in net : AppendEntry(e)
    <2>1. PICK k \in Nat : k = Len(log) /\ (\A n \in 0 .. k : StateAt(n)' = StateAt(n)) /\ ap' = ap
      BY <1>2, AppendFacts
    <2>2. ap[r] \in 0 .. Len(log)
      BY LeaseOfIs DEF Idx
    <2>3. (\A n \in 0 .. k : st'[n + 1] = st[n + 1]) /\ ap'[r] = ap[r]
      BY <2>1 DEF StateAt
    <2>4. State(r)' = State(r)
      BY <2>1, <2>2, <2>3 DEF State, StateAt
    <2>5. State(r).lai \in Nat
      BY LeaseType DEF BaseInv
    <2> QED BY <2>4, <2>5
  <1>3. CASE \E q \in Replica : \E n : ApplyBatch(q, n)
    <2>1. PICK q \in Replica, n \in Nat :
            n \in ap[q] + 1 .. batch[q].to /\ ap' = [ap EXCEPT ![q] = n] /\ UNCHANGED raft
      <3>1. PICK q \in Replica : \E n : ApplyBatch(q, n)
        BY <1>3
      <3>2. ap[q] \in Nat /\ batch[q].to \in Nat
        BY ReplicaType DEF BaseInv
      <3>3. PICK n : n \in ap[q] + 1 .. batch[q].to /\ ap' = [ap EXCEPT ![q] = n] /\ UNCHANGED raft
        BY <3>1, Zenon DEF ApplyBatch
      <3>4. n \in Nat
        BY <3>2, <3>3
      <3> QED BY <3>3, <3>4, Zenon
    <2>2. ap[q] \in Nat /\ batch[q].to \in Nat
      BY ReplicaType DEF BaseInv
    <2>3. ap'[r] = ap[r] \/ ap'[r] > ap[r]
      BY <1>0, <2>1, <2>2
    <2> QED BY <1>1, <2>1, <2>3
  <1>4. CASE \E q, p \in Replica : ApplySnapshot(q, p)
    <2>1. PICK q \in Replica, p \in Replica :
            ap' = [ap EXCEPT ![q] = ap[p]] /\ ap[p] > ap[q] /\ UNCHANGED raft
      BY <1>4, Zenon DEF ApplySnapshot
    <2>2. ap'[r] = ap[r] \/ ap'[r] > ap[r]
      BY <1>0, <2>1
    <2> QED BY <1>1, <2>1, <2>2
  <1>5. CASE UNCHANGED <<raft, ap>>
    BY <1>1, <1>5
  <1>6. \/ \E e \in net : AppendEntry(e)
        \/ \E q \in Replica : \E n : ApplyBatch(q, n)
        \/ \E q, p \in Replica : ApplySnapshot(q, p)
        \/ UNCHANGED <<raft, ap>>
    <2>1. ASSUME NEW q \in Replica, RequestLease(q) PROVE UNCHANGED <<raft, ap>>
      BY <2>1, RequestLeaseFacts
    <2>2. ASSUME NEW q \in Replica, NEW p \in Replica, TransferLease(q, p) PROVE UNCHANGED <<raft, ap>>
      BY <2>2, TransferLeaseFacts
    <2>3. ASSUME NEW q \in Replica, NEW x,
                 \/ \E c \in Cmd : Admit(q, c)
                 \/ Refresh(q) \/ Decode(q, x) \/ SideEffects(q) \/ Restart(q)
          PROVE UNCHANGED <<raft, ap>>
      BY <2>3, Zenon DEF Admit, Refresh, Decode, SideEffects, Restart
    <2>4. ASSUME NEW q \in Replica, NEW x,
                 BumpSideTransportClosed(q, x) \/ GetClosedTimestamp(q, x)
          PROVE UNCHANGED <<raft, ap>>
      BY <2>4, Zenon DEF BumpSideTransportClosed, GetClosedTimestamp
    <2>5. ASSUME NEW c \in Cmd, NEW x,
                 Track(c, x) \/ FlushNew(c, x) \/ FlushReproposal(c) \/ FlushAfterError(c)
          PROVE UNCHANGED <<raft, ap>>
      BY <2>5, Zenon DEF Track, FlushNew, FlushReproposal, FlushAfterError
    <2> QED BY <2>1, <2>2, <2>3, <2>4, <2>5, Zenon DEF Next
  <1> QED BY <1>2, <1>3, <1>4, <1>5, <1>6

LEMMA FromMore ==
    ASSUME NEW S, NEW T, S \subseteq T, NEW p, FromPub(p, S)
    PROVE FromPub(p, T)
  BY DEF FromPub

LEMMA SideStep ==
    ASSUME BaseInv, BaseInv', SideOK, Next
    PROVE SideOK'
  <1>0. /\ side \in [Replica -> [cur : Promise, next : Promise]]
        /\ \A r \in Replica : side[r] \in [cur : Promise, next : Promise]
    BY DEF BaseInv, TypeOK
  <1>1. \A r \in Replica :
           State(r).lai <= State(r)'.lai /\ State(r).lai \in Nat /\ State(r)'.lai \in Nat
    BY AppliedGrows
  <1>2. \A r \in Replica : side[r].cur.lai \in Nat
    BY <1>0 DEF Promise
  <1>3. ASSUME NEW r \in Replica, pub \subseteq pub', side'[r] = side[r]
        PROVE /\ FromPub(side'[r].cur, pub') /\ FromPub(side'[r].next, pub')
              /\ side'[r].cur.lai <= State(r)'.lai
    <2>1. /\ FromPub(side[r].cur, pub) /\ FromPub(side[r].next, pub)
          /\ side[r].cur.lai <= State(r).lai
      BY DEF SideOK
    <2>2. FromPub(side[r].cur, pub') /\ FromPub(side[r].next, pub')
      BY <1>3, <2>1, FromMore
    <2> QED BY <1>1, <1>2, <1>3, <2>1, <2>2
  <1>4. CASE UNCHANGED <<side, pub>>
    <2>1. \A r \in Replica : side'[r] = side[r]
      BY <1>4
    <2>2. pub \subseteq pub'
      BY <1>4
    <2> QED BY <1>3, <2>1, <2>2 DEF SideOK
  <1>5. CASE \E r \in Replica : Restart(r)
    <2>1. PICK r \in Replica : /\ pub' = pub
                               /\ side' = [side EXCEPT ![r] = [cur |-> NoClosed, next |-> NoClosed]]
      BY <1>5, Zenon DEF Restart
    <2>2. side'[r].cur = NoClosed /\ side'[r].next = NoClosed
          /\ \A q \in Replica \ {r} : side'[q] = side[q]
      BY <1>0, <2>1
    <2>3. /\ FromPub(side'[r].cur, pub') /\ FromPub(side'[r].next, pub')
          /\ side'[r].cur.lai <= State(r)'.lai
      BY <1>1, <2>2 DEF FromPub, NoClosed
    <2>4. \A q \in Replica \ {r} : /\ FromPub(side'[q].cur, pub') /\ FromPub(side'[q].next, pub')
                                   /\ side'[q].cur.lai <= State(q)'.lai
      BY <1>3, <2>1, <2>2
    <2> QED BY <2>3, <2>4 DEF SideOK
  <1>6. CASE \E r \in Replica : \E target \in Ts : BumpSideTransportClosed(r, target)
    <2>1. PICK r \in Replica, target \in Ts : BumpSideTransportClosed(r, target)
      BY <1>6
    <2> DEFINE up == [ts |-> target, lai |-> State(r).lai]
    <2>2. /\ side' = [side EXCEPT ![r] = Forward(@, up, TRUE)]
          /\ pub' = pub \cup {[from |-> r, seq |-> LeaseOf(r).seq, ts |-> target, lai |-> State(r).lai]}
      BY <2>1 DEF BumpSideTransportClosed
    <2>3. target \in Nat
      BY DEF Ts, BaseInv, TypeOK, Instance
    <2>4. up \in Promise /\ up.lai = State(r).lai
      BY <1>1, <2>3 DEF Promise
    <2>5. FromPub(up, pub')
      <3> DEFINE m == [from |-> r, seq |-> LeaseOf(r).seq, ts |-> target, lai |-> State(r).lai]
      <3>1. m \in pub' /\ up.ts = m.ts /\ up.lai = m.lai
        BY <2>2
      <3> HIDE DEF m
      <3> QED BY <3>1 DEF FromPub
    <2>6. side'[r] = Forward(side[r], up, TRUE) /\ \A q \in Replica \ {r} : side'[q] = side[q]
      BY <1>0, <2>2
    <2> HIDE DEF up
    <2>7. pub \subseteq pub'
      BY <2>2
    <2>8. FromPub(side[r].cur, pub') /\ FromPub(side[r].next, pub') /\ side[r].cur.lai <= State(r).lai
      BY <2>7, FromMore DEF SideOK
    <2>9. /\ FromPub(side'[r].cur, pub') /\ FromPub(side'[r].next, pub')
          /\ side'[r].cur.lai <= State(r).lai
      <3>1. State(r).lai \in Nat /\ up.lai <= State(r).lai /\ up \in Promise
        BY <1>1, <2>4
      <3>2. /\ FromPub(Forward(side[r], up, TRUE).cur, pub')
            /\ FromPub(Forward(side[r], up, TRUE).next, pub')
            /\ Forward(side[r], up, TRUE).cur.lai <= State(r).lai
        BY <1>0, <2>5, <2>8, <3>1, ForwardFrom, Zenon
      <3> QED BY <2>6, <3>2, Zenon
    <2>10. side'[r].cur.lai \in Nat
      BY Zenon DEF BaseInv, TypeOK, Promise
    <2>11. \A q \in Replica \ {r} : /\ FromPub(side'[q].cur, pub') /\ FromPub(side'[q].next, pub')
                                    /\ side'[q].cur.lai <= State(q)'.lai
      BY <1>3, <2>6, <2>7
    <2>12. side'[r].cur.lai <= State(r)'.lai
      BY <1>1, <2>9, <2>10
    <2> QED BY <2>9, <2>11, <2>12 DEF SideOK
  <1>7. CASE \E r \in Replica : \E m \in pub : GetClosedTimestamp(r, m)
    <2>1. PICK r \in Replica, m \in pub : GetClosedTimestamp(r, m)
      BY <1>7
    <2> DEFINE up == [ts |-> m.ts, lai |-> m.lai]
               promoted == IF side[r].next.lai # 0
                           THEN Forward(side[r], side[r].next, TRUE) ELSE side[r]
               L == State(r).lai
    <2>2. /\ side[r].next.lai <= L /\ pub' = pub
          /\ side' = [side EXCEPT ![r] = IF m.ts <= promoted.cur.ts THEN promoted
                                         ELSE Forward(promoted, up, KnownApplied(r, m))]
      BY <2>1 DEF GetClosedTimestamp
    <2>3. up \in Promise /\ up.lai = m.lai /\ FromPub(up, pub)
      BY PubType DEF Promise, FromPub
    <2>4. FromPub(side[r].cur, pub) /\ FromPub(side[r].next, pub) /\ side[r].cur.lai <= L
      BY DEF SideOK
    <2>5. side[r].next \in Promise /\ L \in Nat
      BY <1>0, <1>1
    <2>6. promoted \in [cur : Promise, next : Promise]
      BY <1>0, <2>5, ForwardType, Zenon
    <2>7. FromPub(promoted.cur, pub) /\ FromPub(promoted.next, pub) /\ promoted.cur.lai <= L
      <3>1. CASE side[r].next.lai # 0
        BY <1>0, <2>2, <2>4, <2>5, <3>1, ForwardFrom, Zenon
      <3>2. CASE side[r].next.lai = 0
        BY <2>4, <3>2
      <3> QED BY <3>1, <3>2, Zenon
    <2> HIDE DEF promoted, up, L
    <2>8. KnownApplied(r, m) \in BOOLEAN /\ (KnownApplied(r, m) => up.lai <= L)
      BY <2>3 DEF KnownApplied, L
    <2> DEFINE f == Forward(promoted, up, KnownApplied(r, m))
    <2>9. FromPub(f.cur, pub) /\ FromPub(f.next, pub) /\ f.cur.lai <= L
      BY <2>3, <2>5, <2>6, <2>7, <2>8, ForwardFrom
    <2> HIDE DEF f
    <2>10. side'[r] \in {promoted, f} /\ \A q \in Replica \ {r} : side'[q] = side[q]
      BY <1>0, <2>2 DEF f
    <2>11. FromPub(side'[r].cur, pub') /\ FromPub(side'[r].next, pub') /\ side'[r].cur.lai <= L
      BY <2>2, <2>7, <2>9, <2>10
    <2>12. side'[r].cur.lai \in Nat
      BY Zenon DEF BaseInv, TypeOK, Promise
    <2>13. side'[r].cur.lai <= State(r)'.lai
      BY <1>1, <2>11, <2>12 DEF L
    <2>14. \A q \in Replica \ {r} : /\ FromPub(side'[q].cur, pub') /\ FromPub(side'[q].next, pub')
                                    /\ side'[q].cur.lai <= State(q)'.lai
      BY <1>3, <2>2, <2>10
    <2> QED BY <2>11, <2>13, <2>14 DEF SideOK
  <1>8. \/ UNCHANGED <<side, pub>> \/ \E r \in Replica : Restart(r)
        \/ \E r \in Replica : \E target \in Ts : BumpSideTransportClosed(r, target)
        \/ \E r \in Replica : \E m \in pub : GetClosedTimestamp(r, m)
    <2>1. ASSUME NEW q \in Replica, RequestLease(q) PROVE UNCHANGED <<side, pub>>
      BY <2>1, RequestLeaseFacts DEF transport
    <2>2. ASSUME NEW q \in Replica, NEW p \in Replica, TransferLease(q, p) PROVE UNCHANGED <<side, pub>>
      BY <2>2, TransferLeaseFacts DEF transport
    <2>3. ASSUME NEW q \in Replica, NEW x,
                 \/ \E c \in Cmd : Admit(q, c)
                 \/ Refresh(q) \/ Decode(q, x) \/ SideEffects(q) \/ ApplyBatch(q, x)
                 \/ ApplySnapshot(q, x)
          PROVE UNCHANGED <<side, pub>>
      BY <2>3, Zenon DEF Admit, Refresh, Decode, SideEffects, ApplyBatch, ApplySnapshot, transport
    <2>4. ASSUME NEW c \in Cmd, NEW x,
                 Track(c, x) \/ FlushNew(c, x) \/ FlushReproposal(c) \/ FlushAfterError(c)
          PROVE UNCHANGED <<side, pub>>
      BY <2>4, Zenon DEF Track, FlushNew, FlushReproposal, FlushAfterError, transport
    <2>5. ASSUME NEW e \in net, AppendEntry(e) PROVE UNCHANGED <<side, pub>>
      BY <2>5 DEF AppendEntry, transport
    <2> QED BY <2>1, <2>2, <2>3, <2>4, <2>5, Zenon DEF Next
  <1> QED BY <1>4, <1>5, <1>6, <1>7, <1>8

\* A replica keeps in mind what was published, also when it installs a lease.
Minds(r) ==
    \/ LeaseOf(r)' = LeaseOf(r) /\ assigned[r].ct <= assigned'[r].ct /\ low[r] <= low'[r]
    \/ \A m \in pub : m.ts <= low'[r]
    \/ \E n \in Idx : n = Fx(r)' /\ InstallLease(r, LeaseOf(r), StateAt(n))
Heeds(c) ==
    \/ cmd'[c].wts = cmd[c].wts /\ cmd'[c].home = cmd[c].home /\ cmd'[c].seq = cmd[c].seq
    \/ cmd'[c].wts = 0
    \/ cmd'[c].seq = LeaseOf(cmd[c].home)'.seq => TermBelow(c)'

\* Only its holder publishes under a lease, and only when it has installed it.
LEMMA PublisherHolds ==
    ASSUME BaseInv, LeasesOK, PubOK, NEW m \in pub, NEW n \in Idx, LeaseAt(n).seq = m.seq
    PROVE /\ m.from = LeaseAt(n).holder /\ m.seq <= LeaseOf(LeaseAt(n).holder).seq
          /\ m.from \in Replica
  <1>1. PICK j \in Idx : /\ LeaseAt(j).seq = m.seq /\ LeaseAt(j).holder = m.from
                         /\ m.seq <= LeaseOf(m.from).seq
    BY PubState
  <1>2. SameTerm(LeaseAt(j), LeaseAt(n))
    BY <1>1, OneTerm
  <1> QED BY <1>1, <1>2, PubType, Zenon DEF SameTerm

LEMMA InstallFields ==
    ASSUME BaseInv, NEW r \in Replica, NEW n \in Idx, InstallLease(r, LeaseOf(r), StateAt(n)),
           LeaseAt(n).holder = r
    PROVE /\ assigned[r].ct <= assigned'[r].ct /\ StateAt(n).ct <= assigned'[r].ct
          /\ low[r] <= low'[r]
          /\ LeaseAt(n).seq # LeaseOf(r).seq => LeaseAt(n).sum <= low'[r]
  <1>1. /\ assigned[r].ct \in Nat /\ assigned[r].lai \in Nat /\ low[r] \in Nat
        /\ StateAt(n).ct \in Nat /\ StateAt(n).lai \in Nat /\ LeaseAt(n).sum \in Nat
    BY ReplicaType, StateType DEF BaseInv, Idx, LeaseAt
  <1>2. assigned \in [Replica -> [lai : Nat, ct : Nat]] /\ low \in [Replica -> Nat]
    BY DEF BaseInv, TypeOK
  <1>3. assigned'[r] = OnLeaseChange(r, StateAt(n)) /\ low'[r] = LowWater(r, LeaseOf(r), LeaseAt(n))
    BY <1>2 DEF InstallLease, LeaseAt
  <1>4. assigned'[r].ct = Larger(assigned[r].ct, StateAt(n).ct)
    BY <1>3 DEF OnLeaseChange, LeaseAt
  <1>5. low'[r] = IF LeaseAt(n).seq # LeaseOf(r).seq THEN Larger(low[r], LeaseAt(n).sum) ELSE low[r]
    BY <1>3 DEF LowWater
  <1> QED BY <1>1, <1>4, <1>5 DEF Larger

LEMMA RememberedSteady ==
    ASSUME BaseInv, BaseInv', LeaseInv, Steady, PubInv, NEW r \in Replica, Minds(r),
           LeaseOf(r)'.holder = r, NEW m \in pub, m.seq <= LeaseOf(r)'.seq
    PROVE m.ts <= assigned'[r].ct \/ m.ts <= low'[r] \/ m.ts <= LeaseOf(r)'.start
  <1>0. /\ m.ts \in Nat /\ m.seq \in Nat /\ assigned[r].ct \in Nat /\ low[r] \in Nat
        /\ assigned'[r].ct \in Nat /\ low'[r] \in Nat
    <2>1. assigned' \in [Replica -> [lai : Nat, ct : Nat]] /\ low' \in [Replica -> Nat]
      BY Zenon DEF BaseInv, TypeOK
    <2>2. assigned'[r].ct \in Nat /\ low'[r] \in Nat
      BY <2>1
    <2> QED BY <2>2, PubType, ReplicaType DEF BaseInv
  <1>1. CASE LeaseOf(r)' = LeaseOf(r) /\ assigned[r].ct <= assigned'[r].ct /\ low[r] <= low'[r]
    <2>1. m.ts <= assigned[r].ct \/ m.ts <= low[r] \/ m.ts <= LeaseOf(r).start
      BY <1>1 DEF PubInv, Remembered
    <2> QED BY <1>0, <1>1, <2>1
  <1>2. CASE \A k \in pub : k.ts <= low'[r]
    BY <1>2
  <1>3. ASSUME NEW n \in Idx, n = Fx(r)', InstallLease(r, LeaseOf(r), StateAt(n))
        PROVE m.ts <= assigned'[r].ct \/ m.ts <= low'[r] \/ m.ts <= LeaseOf(r)'.start
    <2>1. LeaseOf(r)' = LeaseAt(n) /\ Fx(r) <= n /\ LeaseOf(r).seq <= LeaseAt(n).seq
      BY <1>3, SteadyLeaseOf
    <2>2. Fx(r) \in Idx /\ LeaseOf(r) = LeaseAt(Fx(r))
      BY LeaseOfIs
    <2>3. /\ assigned[r].ct <= assigned'[r].ct /\ StateAt(n).ct <= assigned'[r].ct
          /\ low[r] <= low'[r]
          /\ LeaseAt(n).seq # LeaseOf(r).seq => LeaseAt(n).sum <= low'[r]
      BY <1>3, <2>1, InstallFields
    <2>4. /\ LeaseAt(n).seq \in Nat /\ LeaseOf(r).seq \in Nat /\ LeaseAt(n).sum \in Nat
          /\ StateAt(n).ct \in Nat /\ LeaseAt(n).start \in Nat /\ LeaseOf(r).start \in Nat
      BY <2>2, StateType, LeaseAtType DEF BaseInv, Idx
    <2>5. ASSUME LeaseOf(r).holder = r, m.seq <= LeaseOf(r).seq, LeaseOf(r).start <= LeaseAt(n).start
          PROVE m.ts <= assigned'[r].ct \/ m.ts <= low'[r] \/ m.ts <= LeaseAt(n).start
      <3>1. m.ts <= assigned[r].ct \/ m.ts <= low[r] \/ m.ts <= LeaseOf(r).start
        BY <2>5 DEF PubInv, Remembered
      <3> QED BY <1>0, <2>3, <2>4, <2>5, <3>1
    <2>6. CASE LeaseAt(n).seq = LeaseOf(r).seq
      <3>1. SameTerm(LeaseAt(Fx(r)), LeaseAt(n))
        BY <2>2, <2>6, OneTerm DEF LeaseInv
      <3>2. LeaseOf(r).holder = r /\ LeaseOf(r).start <= LeaseAt(n).start
        BY <2>1, <2>2, <2>4, <3>1 DEF SameTerm
      <3> QED BY <2>1, <2>5, <2>6, <3>2
    <2>7. CASE LeaseAt(n).seq # LeaseOf(r).seq
      <3>1. m.seq # LeaseAt(n).seq
        <4>1. LeaseAt(n).seq = m.seq => m.seq <= LeaseOf(r).seq
          BY <2>1, PublisherHolds DEF LeaseInv, PubInv
        <4> QED BY <1>0, <2>1, <2>4, <2>7, <4>1
      <3>2. m.seq < LeaseAt(n).seq
        BY <1>0, <2>1, <2>4, <3>1
      <3>3. Renewed(n) \/ m.ts <= LeaseAt(n).sum \/ m.ts <= StateAt(n).ct
        BY <3>2 DEF PubInv, PubBelow
      <3>4. CASE Renewed(n)
        <4>1. PICK j \in 0 .. n : LeaseAt(j).seq + 1 = LeaseAt(n).seq /\ LeaseAt(j).holder = LeaseAt(n).holder
          BY <3>4 DEF Renewed
        <4>2. j \in Idx
          BY DEF Idx
        <4>3. LeaseAt(n).seq <= LeaseOf(r).seq + 1
          BY <2>1, <3>4 DEF LeaseInv, RenewalsKnown
        <4>4. LeaseAt(j).seq \in Nat
          BY <4>2, LeaseAtType DEF BaseInv
        <4>5. LeaseAt(j).seq = LeaseAt(Fx(r)).seq /\ m.seq <= LeaseOf(r).seq
          BY <1>0, <2>1, <2>2, <2>4, <2>7, <3>2, <4>1, <4>3, <4>4
        <4>6. LeaseOf(r).holder = r
          BY <2>1, <2>2, <4>1, <4>2, <4>5, OneTerm, Zenon DEF LeaseInv, SameTerm
        <4>7. LeaseAt(Fx(r)).seq < LeaseAt(n).seq
          BY <2>1, <2>2, <2>4, <2>7
        <4>8. LeaseAt(Fx(r)).start < LeaseAt(n).start
          BY <2>1, <2>2, <4>7 DEF LeaseInv, LeasesOK
        <4> QED BY <2>1, <2>2, <2>4, <2>5, <4>5, <4>6, <4>8
      <3> QED BY <1>0, <2>3, <2>4, <2>7, <3>3, <3>4, <2>1
    <2> QED BY <2>6, <2>7
  <1> QED BY <1>1, <1>2, <1>3 DEF Minds

LEMMA AssignedSteady ==
    ASSUME BaseInv, BaseInv', LeaseInv, EntryInv, Steady, PubInv, NEW r \in Replica, Recalls(r),
           Alive(r)', NEW m \in pub, m.seq = LeaseOf(r)'.seq
    PROVE m.ts <= assigned'[r].ct
  <1>0. /\ m.ts \in Nat /\ m.seq \in Nat /\ assigned[r].ct \in Nat /\ assigned'[r].ct \in Nat
    <2>1. assigned' \in [Replica -> [lai : Nat, ct : Nat]]
      BY DEF BaseInv, TypeOK
    <2>2. assigned'[r].ct \in Nat
      BY <2>1
    <2> QED BY <2>2, PubType, ReplicaType DEF BaseInv
  <1>1. /\ LeaseOf(r)' = LeaseAt(Fx(r)') /\ Fx(r)' \in Idx /\ LeaseOf(r).seq <= LeaseOf(r)'.seq
        /\ LeaseOf(r).seq \in Nat /\ LeaseOf(r)'.seq \in Nat
    BY SteadyLeaseOf, LeaseType DEF BaseInv
  <1>2. LeaseOf(r)'.holder = r
    BY DEF Alive
  <1>3. LeaseOf(r)'.seq = LeaseOf(r).seq
    <2>1. m.seq <= LeaseOf(r).seq
      BY <1>1, <1>2, PublisherHolds DEF LeaseInv, PubInv
    <2> QED BY <1>0, <1>1, <2>1
  <1>4. \A c \in Cmd : Claims(c, r)' => Alive(r)
    BY <1>3 DEF Recalls
  <1>5. Alive(r)
    BY <1>3, <1>4, AliveKept DEF LeaseInv
  <1>6. assigned[r].ct <= assigned'[r].ct
    BY <1>3, <1>5 DEF Recalls, EntryInv, MemoryOK
  <1>7. m.ts <= assigned[r].ct
    BY <1>3, <1>5 DEF PubInv, PubAssigned
  <1> QED BY <1>0, <1>6, <1>7

LEMMA HomeLease ==
    ASSUME NEW c \in Cmd, NEW h, cmd'[c].home = h
    PROVE LeaseOf(cmd[c].home)' = LeaseOf(h)'
  BY DEF LeaseOf

LEMMA CommandSteady ==
    ASSUME BaseInv, BaseInv', LeaseInv, EntryInv, Steady, PubInv, pub' = pub,
           NEW c \in Cmd, Heeds(c), cmd'[c].wts # 0, cmd'[c].seq = LeaseOf(cmd[c].home)'.seq
    PROVE TermBelow(c)'
  <1> SUFFICES ASSUME cmd'[c].wts = cmd[c].wts, cmd'[c].home = cmd[c].home, cmd'[c].seq = cmd[c].seq
               PROVE TermBelow(c)'
    BY DEF Heeds
  <1>1. PICK h \in Replica : h = cmd[c].home
    BY CmdType DEF BaseInv
  <1>2. LeaseOf(cmd[c].home)' = LeaseOf(h)'
    BY <1>1, HomeLease
  <1>3. /\ LeaseOf(h)' = LeaseAt(Fx(h)') /\ Fx(h)' \in Idx /\ LeaseOf(h).seq <= LeaseOf(h)'.seq
        /\ LeaseOf(h).seq \in Nat /\ LeaseOf(h)'.seq \in Nat
    BY SteadyLeaseOf, LeaseType DEF BaseInv
  <1>4. cmd[c].phase = "proposed" /\ cmd[c].seq \in Nat
    BY CmdType DEF BaseInv, EntryInv, AdmittedOK
  <1>5. cmd[c].seq <= LeaseOf(h).seq
    BY <1>1, <1>4, FxType DEF BaseInv, CmdsOK, CmdOK
  <1>6. Fx(h) \in Idx /\ LeaseOf(h) = LeaseAt(Fx(h))
    BY LeaseOfIs
  <1>7. LeaseOf(h).seq = LeaseOf(h)'.seq /\ cmd[c].seq = LeaseOf(h).seq
    BY <1>2, <1>3, <1>4, <1>5
  <1>8. LeaseOf(h)'.sum = LeaseOf(h).sum
    BY <1>3, <1>6, <1>7, OneTerm DEF LeaseInv, SameTerm
  <1>9. TermBelow(c)
    BY <1>1, <1>7 DEF PubInv, CommandsAbove
  <1> QED BY <1>1, <1>2, <1>8, <1>9 DEF TermBelow

Warns(e) ==
    \A m \in pub : m.seq <= e.seq =>
        /\ m.ts <= e.lease.sum \/ m.ts <= e.ct
        /\ m.seq = e.seq => m.ts < e.lease.exp

\* A step that publishes nothing and leaves the log alone.
LEMMA PubSteady ==
    ASSUME BaseInv, BaseInv', LeaseInv, EntryInv, Steady, PubInv, Recalled, pub' = pub, SideOK',
           \A r \in Replica : Minds(r), \A c \in Cmd : Heeds(c),
           \A e \in net' \ net : e.kind = "transfer" => Warns(e),
           \A f \in Numbered' \ Numbered : Current(f) /\ f.kind = "write" => AbovePub(f)
    PROVE PubInv'
  <1>0. Idx' = Idx /\ \A n : LeaseAt(n)' = LeaseAt(n) /\ StateAt(n)' = StateAt(n)
    BY SteadyLog
  <1>1. /\ LastState' = LastState /\ log' = log
        /\ \A i : Effective(i)' = Effective(i)
    BY SameLog DEF Steady, raft
  <1>2. PubOK'
    <2> SUFFICES ASSUME NEW m \in pub
                 PROVE \E n \in 0 .. (Fx(m.from)') :
                          /\ LeaseAt(n)'.seq = m.seq /\ LeaseAt(n)'.holder = m.from
                          /\ StateAt(n)'.lai = m.lai /\ m.ts < LeaseAt(n)'.exp
      BY DEF PubOK
    <2>1. PICK n \in 0 .. Fx(m.from) :
            /\ LeaseAt(n).seq = m.seq /\ LeaseAt(n).holder = m.from
            /\ StateAt(n).lai = m.lai /\ m.ts < LeaseAt(n).exp
      BY DEF PubInv, PubOK
    <2>2. Fx(m.from)' \in Fx(m.from) .. Len(log) /\ Fx(m.from) \in 0 .. Len(log) /\ Len(log) \in Nat
      BY PubType, LeaseOfIs, LogType DEF Steady, Idx
    <2>3. n \in 0 .. (Fx(m.from)')
      BY <2>1, <2>2
    <2> QED BY <1>0, <2>1, <2>3
  <1>3. PubBelow'
    <2>1. \A n \in Idx : Renewed(n)' = Renewed(n)
      BY <1>0 DEF Renewed
    <2> QED BY <1>0, <2>1 DEF PubInv, PubBelow
  <1>4. TransfersAbove'
    <2> SUFFICES ASSUME NEW e \in net', e.kind = "transfer" PROVE Warns(e)
      BY DEF TransfersAbove, Warns
    <2> QED BY DEF PubInv, TransfersAbove, Warns
  <1>5. Remembered'
    BY RememberedSteady DEF Remembered
  <1>6. PubAssigned'
    BY AssignedSteady DEF PubAssigned, Recalled
  <1>7. PubGrows'
    BY DEF PubInv, PubGrows
  <1>8. CommandsAbove'
    BY CommandSteady DEF CommandsAbove
  <1>9. WritesAbove'
    <2>1. \A e : AbovePub(e)' = AbovePub(e)
      BY <1>0 DEF AbovePub
    <2>2. \A e : Current(e)' = Current(e)
      BY <1>1 DEF Current
    <2>3. \A e \in Numbered' : Current(e) /\ e.kind = "write" => AbovePub(e)
      BY DEF PubInv, WritesAbove
    <2>4. \A i \in 1 .. Len(log) : log[i].kind = "write" /\ Effective(i) =>
             AbovePub(log[i]) /\ \A n \in 0 .. i - 1 : StateAt(n).ct < log[i].wts
      BY DEF PubInv, WritesAbove
    <2> QED BY <1>0, <1>1, <2>1, <2>2, <2>3, <2>4 DEF WritesAbove
  <1> QED BY <1>2, <1>3, <1>4, <1>5, <1>6, <1>7, <1>8, <1>9 DEF PubInv

\* What the steps below start from: all but what they do to what was published.
Poised ==
    /\ BaseInv /\ BaseInv' /\ LeaseInv /\ EntryInv /\ PubInv
    /\ Steady /\ Recalled /\ pub' = pub /\ SideOK'

LEMMA MindsSame ==
    ASSUME Poised, NEW r \in Replica, Fx(r)' = Fx(r), assigned'[r] = assigned[r], low'[r] = low[r]
    PROVE Minds(r)
  <1>1. LeaseOf(r)' = LeaseOf(r)
    <2>1. PICK k : k = Fx(r) /\ k = Fx(r)'
      OBVIOUS
    <2> QED BY <2>1, LeaseOfIs, SteadyLeaseOf DEF Poised
  <1>2. assigned[r].ct \in Nat /\ low[r] \in Nat
    BY ReplicaType DEF Poised, BaseInv
  <1> QED BY <1>1, <1>2 DEF Minds

\* Nobody learns anything new.
LEMMA CalmPub ==
    ASSUME Poised, UNCHANGED <<assigned, low>>, \A r \in Replica : Fx(r)' = Fx(r),
           \A c \in Cmd : Heeds(c),
           \A e \in net' \ net : e.kind # "transfer", Numbered' \subseteq Numbered
    PROVE PubInv'
  <1>1. \A r \in Replica : Minds(r)
    BY MindsSame
  <1> QED BY <1>1, PubSteady DEF Poised

LEMMA ConstantHeeds == ASSUME NEW c \in Cmd, Constant(c) PROVE Heeds(c)
  BY DEF Constant, Heeds

LEMMA SameHeeds == ASSUME NEW c \in Cmd, cmd'[c] = cmd[c] PROVE Heeds(c)
  BY DEF Heeds

LEMMA StillPub ==
    ASSUME Poised, UNCHANGED <<net, assigned, low, cmd>>, \A r \in Replica : Fx(r)' = Fx(r)
    PROVE PubInv'
  <1>1. Numbered' \subseteq Numbered
    BY SentSame DEF Poised, Steady
  <1> QED BY <1>1, CalmPub, SameHeeds

LEMMA AdmitPub ==
    ASSUME Poised, NEW r \in Replica, NEW c \in Cmd, Admit(r, c) PROVE PubInv'
  <1>0. cmd \in [Cmd -> Command]
    BY DEF Poised, BaseInv, TypeOK
  <1>1. /\ cmd[c].phase = "new"
        /\ cmd' = [cmd EXCEPT ![c].phase = "admitted", ![c].home = r,
                              ![c].seq = LeaseOf(r).seq, ![c].ub = LeaseOf(r).exp - 1]
        /\ UNCHANGED <<net, raft, ap, batch, assigned, low>>
    BY DEF Admit, leases
  <1>2. cmd'[c].wts = cmd[c].wts /\ \A d \in Cmd \ {c} : cmd'[d] = cmd[d]
    BY <1>0, <1>1
  <1>3. cmd[c].wts = 0
    BY <1>1 DEF Poised, EntryInv, AdmittedOK
  <1>4. \A d \in Cmd : Heeds(d)
    BY <1>2, <1>3 DEF Heeds
  <1>5. Numbered' \subseteq Numbered
    BY <1>1, SentSame
  <1>6. \A q \in Replica : Fx(q)' = Fx(q)
    BY <1>1 DEF Fx
  <1> QED BY <1>1, <1>4, <1>5, <1>6, CalmPub

LEMMA FlushedAgainPub ==
    ASSUME Poised, NEW c \in Cmd, FlushReproposal(c) \/ FlushAfterError(c) PROVE PubInv'
  <1>1. /\ Constant(c) /\ \A d \in Cmd \ {c} : cmd'[d] = cmd[d]
        /\ UNCHANGED <<raft, ap, batch, leases, assigned>>
        /\ \A e \in net' : e \in net \/ e = Write(c)
    BY FlushReproposalFacts, Zenon DEF Poised
  <1>2. Write(c).mli = cmd[c].mli /\ Write(c).kind = "write"
    BY DEF Write
  <1>3. Numbered' \subseteq Numbered
    <2>1. cmd[c].mli # 0 => Write(c) \in Sent
      BY DEF Poised, EntryInv, SentOK
    <2>2. log' = log
      BY <1>1 DEF raft
    <2> QED BY <1>1, <1>2, <2>1, <2>2 DEF Numbered, Sent
  <1>4. \A d \in Cmd : Heeds(d)
    BY <1>1, ConstantHeeds, SameHeeds
  <1>5. \A q \in Replica : Fx(q)' = Fx(q)
    BY <1>1 DEF Fx
  <1> QED BY <1>1, <1>2, <1>3, <1>4, <1>5, CalmPub DEF leases

LEMMA HandlingPub ==
    ASSUME Poised, NEW r \in Replica, NEW n, Refresh(r) \/ Decode(r, n) \/ ApplyBatch(r, n)
    PROVE PubInv'
  <1>1. UNCHANGED <<net, raft, assigned, low>>
    BY Zenon DEF Refresh, Decode, ApplyBatch, proposer, leases
  <1>2. \A d \in Cmd : Heeds(d)
    <2>1. CASE Refresh(r)
      BY <2>1, RefreshedFacts, ConstantHeeds DEF Refresh, Poised, BaseInv
    <2>2. CASE Decode(r, n)
      BY <2>2, DecodeFacts, ConstantHeeds DEF Poised
    <2>3. CASE ApplyBatch(r, n)
      BY <2>3, SameHeeds DEF ApplyBatch, proposer
    <2> QED BY <2>1, <2>2, <2>3
  <1>3. \A q \in Replica : Fx(q)' = Fx(q)
    <2>1. CASE Refresh(r)
      BY <2>1 DEF Refresh, Fx
    <2>2. CASE Decode(r, n)
      BY <2>2, DecodeFacts DEF Poised
    <2>3. CASE ApplyBatch(r, n)
      <3>1. batch[r] # Idle /\ ap' = [ap EXCEPT ![r] = n] /\ UNCHANGED <<raft, batch, leases>>
        BY <2>3 DEF ApplyBatch
      <3>2. ap \in [Replica -> Nat]
        BY DEF Poised, BaseInv, TypeOK
      <3> QED BY <3>1, <3>2 DEF Fx
    <2> QED BY <2>1, <2>2, <2>3
  <1>4. Numbered' \subseteq Numbered
    BY <1>1, SentSame
  <1> QED BY <1>1, <1>2, <1>3, <1>4, CalmPub

LEMMA RequestPub ==
    ASSUME Poised, NEW r \in Replica, RequestLease(r) PROVE PubInv'
  <1>1. UNCHANGED <<raft, ap, batch, cmd, assigned, low>>
    BY RequestLeaseFacts DEF proposer, Poised
  <1>2. PICK f \in Entry : net' = net \cup {f} /\ f.kind = "request"
    BY RequestEntry DEF Poised
  <1>3. Numbered' \subseteq Numbered
    <2>1. log' = log
      BY <1>1 DEF raft
    <2> QED BY <1>2, <2>1 DEF Numbered, Sent
  <1>4. \A q \in Replica : Fx(q)' = Fx(q)
    BY <1>1 DEF Fx
  <1> QED BY <1>1, <1>2, <1>3, <1>4, CalmPub, SameHeeds

LEMMA GetPub ==
    ASSUME Poised, NEW r \in Replica, NEW m, GetClosedTimestamp(r, m) PROVE PubInv'
  <1>1. UNCHANGED <<net, ap, batch, cmd, assigned, low>>
    BY DEF GetClosedTimestamp, proposer, leases
  <1>2. \A q \in Replica : Fx(q)' = Fx(q)
    BY <1>1 DEF Fx
  <1> QED BY <1>1, <1>2, StillPub

LEMMA SideEffectsPub ==
    ASSUME Poised, NEW r \in Replica, SideEffects(r) PROVE PubInv'
  <1>0. BaseInv /\ BaseInv' /\ Steady
    BY DEF Poised
  <1>1. PICK i \in 1 .. Len(log) :
          /\ i = batch[r].fx + 1 /\ Fx(r) = batch[r].fx /\ Fx(r)' = i
          /\ \A q \in Replica \ {r} : batch'[q] = batch[q] /\ Fx(q)' = Fx(q)
          /\ UNCHANGED <<net, raft>>
    BY <1>0, SideEffectsFacts
  <1>2. WriteStep(r, i) \/ InstallStep(r, i)
    BY <1>0, <1>1, SideEffectsSteps
  <1>3. i \in Idx /\ i - 1 = Fx(r)
    <2>1. Len(log) \in Nat /\ batch[r].fx \in Nat
      BY <1>0, ReplicaType, LogType DEF BaseInv
    <2> QED BY <1>1, <2>1 DEF Idx
  <1>4. \A d \in Cmd : Heeds(d)
    BY <1>2, ConstantHeeds, SameHeeds DEF WriteStep, InstallStep, DoneStep, AgainStep
  <1>5. Numbered' \subseteq Numbered
    BY <1>1, SentSame
  <1>6. Minds(r)
    <2>1. CASE InstallStep(r, i)
      BY <1>1, <1>3, <2>1 DEF InstallStep, Minds
    <2>2. CASE WriteStep(r, i)
      <3>1. LeaseOf(r)' = LeaseAt(i)
        BY <1>0, <1>1, SteadyLeaseOf
      <3>2. LeaseOf(r) = LeaseAt(i - 1)
        BY <1>0, <1>3, LeaseOfIs
      <3>3. assigned[r].ct \in Nat /\ low[r] \in Nat
        BY <1>0, ReplicaType DEF BaseInv
      <3> QED BY <2>2, <3>1, <3>2, <3>3 DEF WriteStep, Minds
    <2> QED BY <1>2, <2>1, <2>2
  <1>7. \A q \in Replica \ {r} : Minds(q)
    <2> TAKE q \in Replica \ {r}
    <2>1. assigned'[q] = assigned[q] /\ low'[q] = low[q]
      BY <1>0, <1>2, Zenon DEF WriteStep, InstallStep, InstallLease, BaseInv, TypeOK
    <2> QED BY <1>1, <2>1, MindsSame
  <1> QED BY <1>1, <1>4, <1>5, <1>6, <1>7, PubSteady DEF Poised

LEMMA SnapshotPub ==
    ASSUME Poised, NEW r \in Replica, NEW p \in Replica, ApplySnapshot(r, p) PROVE PubInv'
  <1>0. BaseInv /\ BaseInv' /\ Steady
    BY DEF Poised
  <1>1. /\ Fx(r)' = ap[p] /\ \A q \in Replica \ {r} : Fx(q)' = Fx(q)
        /\ UNCHANGED <<net, raft>>
        /\ \A d \in Cmd : Constant(d)
    BY <1>0, SnapshotFacts
  <1>2. InstallLease(r, LeaseOf(r), StateAt(ap[p])) /\ ap[p] \in Idx
    BY <1>0, LeaseOfIs DEF ApplySnapshot, State
  <1>3. Minds(r)
    BY <1>1, <1>2 DEF Minds
  <1>4. \A q \in Replica \ {r} : Minds(q)
    <2> TAKE q \in Replica \ {r}
    <2>1. assigned'[q] = assigned[q] /\ low'[q] = low[q]
      BY <1>0, <1>2 DEF InstallLease, BaseInv, TypeOK
    <2> QED BY <1>1, <2>1, MindsSame
  <1>5. Numbered' \subseteq Numbered /\ \A d \in Cmd : Heeds(d)
    BY <1>1, SentSame, ConstantHeeds
  <1> QED BY <1>1, <1>3, <1>4, <1>5, PubSteady DEF Poised

LEMMA RestartPub ==
    ASSUME Poised, NEW r \in Replica, Restart(r) PROVE PubInv'
  <1>0. BaseInv /\ BaseInv' /\ Steady /\ inst.maxTs \in Nat
    BY Zenon DEF Poised, BaseInv, TypeOK, Instance
  <1>1. /\ \A q \in Replica \ {r} : Fx(q)' = Fx(q)
        /\ \A d \in Cmd : /\ d \notin Mine(r) => cmd'[d] = cmd[d]
                          /\ d \in Mine(r) =>
                                /\ cmd'[d].home = cmd[d].home
                                /\ cmd'[d].seq = cmd[d].seq /\ cmd'[d].wts = cmd[d].wts
        /\ UNCHANGED <<net, raft>>
    BY <1>0, RestartFacts, Zenon
  <1>2. /\ assigned' = [assigned EXCEPT ![r] = [lai |-> 0, ct |-> 0]]
        /\ low' = [low EXCEPT ![r] = Max({low[r]} \cup {m.ts : m \in pub})]
        /\ assigned \in [Replica -> [lai : Nat, ct : Nat]] /\ low \in [Replica -> Nat]
    BY <1>0, Zenon DEF Restart, BaseInv, TypeOK
  <1>3. Minds(r)
    <2> DEFINE S == {low[r]} \cup {m.ts : m \in pub}
               b == low[r] + inst.maxTs
    <2>1. low[r] \in Nat /\ b \in Nat
      BY <1>0, <1>2
    <2>2. \A m \in pub : m.ts \in Nat /\ m.ts <= inst.maxTs
      <3>1. pub \subseteq [from : Replica, seq : Nat, ts : Ts0, lai : Nat]
        BY <1>0 DEF BaseInv, TypeOK
      <3>2. \A m \in pub : m.ts \in Ts0
        BY <3>1
      <3> QED BY <1>0, <3>2 DEF Ts0
    <2>3. S \in SUBSET Nat /\ S # {} /\ \A x \in S : x <= b
      BY <1>0, <2>1, <2>2
    <2>4. low'[r] = Max(S)
      BY <1>2
    <2>5. \A m \in pub : m.ts \in S
      OBVIOUS
    <2> HIDE DEF S, b
    <2>6. \A x \in S : x <= Max(S)
      BY <2>1, <2>3, GreatestNat
    <2> QED BY <2>4, <2>5, <2>6 DEF Minds
  <1>4. \A q \in Replica \ {r} : Minds(q)
    <2> TAKE q \in Replica \ {r}
    <2>1. assigned'[q] = assigned[q] /\ low'[q] = low[q]
      BY <1>2
    <2> QED BY <1>1, <2>1, MindsSame
  <1>5. Numbered' \subseteq Numbered
    BY <1>1, SentSame
  <1>6. \A d \in Cmd : Heeds(d)
    BY <1>1 DEF Heeds
  <1> QED BY <1>1, <1>3, <1>4, <1>5, <1>6, PubSteady DEF Poised

LEMMA TrackPub ==
    ASSUME Poised, NEW c \in Cmd, NEW w \in Ts, Track(c, w) PROVE PubInv'
  <1>0. BaseInv /\ BaseInv' /\ Steady /\ LeasesOK /\ EntryInv
    BY DEF Poised, LeaseInv
  <1>1. PICK r \in Replica :
          /\ r = cmd[c].home /\ cmd[c].phase = "admitted"
          /\ cmd'[c].home = r /\ cmd'[c].seq = cmd[c].seq /\ cmd[c].applied = FALSE
          /\ cmd'[c].trk \in Nat /\ cmd'[c].wts \in Nat
          /\ assigned[r].ct < cmd'[c].trk /\ cmd'[c].trk <= cmd'[c].wts /\ low[r] < cmd'[c].wts
          /\ \A d \in Cmd \ {c} : cmd'[d] = cmd[d]
          /\ UNCHANGED <<net, raft, ap, batch, assigned, leases>>
    BY <1>0, TrackFacts, Zenon
  <1>2. LeaseOf(r)' = LeaseOf(r) /\ LeaseOf(cmd[c].home)' = LeaseOf(r)'
    BY <1>1, HomeLease DEF LeaseOf, StateAt, raft
  <1>3. ASSUME cmd'[c].seq = LeaseOf(r).seq PROVE TermBelow(c)'
    <2>1. Claims(c, r)
      BY <1>1, <1>3 DEF Claims
    <2>2. LeaseOf(r).holder = r /\ LeaseOf(r).sum <= low[r]
      BY <1>0, <2>1, ClaimsAlive DEF EntryInv, MemoryOK, AboveTerm, Alive
    <2>3. Fx(r) \in Idx /\ LeaseOf(r) = LeaseAt(Fx(r))
      BY <1>0, LeaseOfIs
    <2>4. LeaseOf(r).start <= LeaseOf(r).sum
      BY <1>0, <2>3 DEF LeasesOK
    <2>5. LeaseOf(r).start \in Nat /\ LeaseOf(r).sum \in Nat /\ low[r] \in Nat /\ assigned[r].ct \in Nat
          /\ LeaseOf(r).seq \in Nat
      BY <1>0, LeaseType, ReplicaType DEF BaseInv
    <2>6. ASSUME NEW m \in pub, m.seq < cmd'[c].seq PROVE m.ts < cmd'[c].wts
      <3>1. m.ts \in Nat /\ m.seq \in Nat /\ m.seq <= LeaseOf(r).seq
        BY <1>0, <1>3, <2>5, <2>6, PubType
      <3>2. m.ts <= assigned[r].ct \/ m.ts <= low[r] \/ m.ts <= LeaseOf(r).start
        BY <2>2, <3>1 DEF Poised, PubInv, Remembered
      <3> QED BY <1>1, <2>2, <2>4, <2>5, <3>1, <3>2
    <2>7. LeaseOf(r).sum < cmd'[c].wts
      BY <1>1, <2>2, <2>5
    <2>8. pub' = pub
      BY DEF Poised
    <2> QED BY <1>2, <2>6, <2>7, <2>8 DEF TermBelow
  <1>4. \A d \in Cmd : Heeds(d)
    BY <1>1, <1>2, <1>3, SameHeeds DEF Heeds
  <1>5. Numbered' \subseteq Numbered
    BY <1>1, SentSame
  <1>6. \A q \in Replica : Fx(q)' = Fx(q)
    BY <1>1 DEF Fx
  <1> QED BY <1>1, <1>4, <1>5, <1>6, CalmPub DEF leases

LEMMA MindsAssigned ==
    ASSUME Poised, NEW r \in Replica, \A q \in Replica : LeaseOf(q)' = LeaseOf(q) /\ Fx(q)' = Fx(q),
           UNCHANGED low, \A q \in Replica \ {r} : assigned'[q] = assigned[q],
           assigned[r].ct <= assigned'[r].ct
    PROVE \A q \in Replica : Minds(q)
  <1>1. low[r] <= low'[r]
    BY ReplicaType DEF Poised, BaseInv
  <1>2. Minds(r)
    BY <1>1 DEF Minds
  <1>3. \A q \in Replica \ {r} : Minds(q)
    BY MindsSame
  <1> QED BY <1>2, <1>3

LEMMA FlushNewPub ==
    ASSUME Poised, NEW c \in Cmd, NEW target \in Ts0, FlushNew(c, target) PROVE PubInv'
  <1>0. BaseInv /\ BaseInv' /\ Steady /\ LeasesOK /\ EntryInv
    BY DEF Poised, LeaseInv
  <1>1. PICK f \in Entry, r \in Replica :
          /\ r = cmd[c].home /\ net' = net \cup {f}
          /\ f.kind = "write" /\ f.id = c /\ f.seq = cmd[c].seq /\ f.wts = cmd[c].wts
          /\ assigned[r].ct <= f.ct
          /\ assigned' = [assigned EXCEPT ![r] = [lai |-> f.mli, ct |-> f.ct]]
    BY <1>0, FlushNewEntry
  <1>2. /\ cmd[c].trk # 0 /\ cmd[c].phase = "proposed" /\ Constant(c)
        /\ \A d \in Cmd \ {c} : cmd'[d] = cmd[d]
        /\ UNCHANGED <<raft, ap, batch, leases>>
    BY <1>0, FlushNewFacts, Zenon
  <1>3. /\ UNCHANGED low /\ log' = log
        /\ \A q \in Replica : LeaseOf(q)' = LeaseOf(q) /\ Fx(q)' = Fx(q)
    BY <1>2 DEF leases, raft, LeaseOf, StateAt, Fx
  <1>4. \A d \in Cmd : Heeds(d)
    BY <1>2, ConstantHeeds, SameHeeds
  <1>5. /\ assigned[r].ct \in Nat /\ cmd[c].trk \in Nat /\ cmd[c].wts \in Nat /\ cmd[c].seq \in Nat
        /\ assigned \in [Replica -> [lai : Nat, ct : Nat]]
    <2>1. assigned \in [Replica -> [lai : Nat, ct : Nat]]
      BY <1>0 DEF BaseInv, TypeOK
    <2> QED BY <1>0, <2>1, ReplicaType, CmdType DEF BaseInv
  <1>6. assigned'[r].ct = f.ct /\ \A q \in Replica \ {r} : assigned'[q] = assigned[q]
    BY <1>1, <1>5
  <1>7. \A q \in Replica : Minds(q)
    BY <1>1, <1>3, <1>6, MindsAssigned
  <1>8. \A g \in Numbered' \ Numbered : g = f
    BY <1>1, <1>3 DEF Numbered, Sent
  <1>9. ASSUME Current(f) PROVE AbovePub(f)
    <2>1. cmd[c].seq <= LeaseOf(r).seq /\ LeaseOf(r).seq \in Nat
      <3>1. cmd[c].seq <= StateAt(Fx(r)).lease.seq
        BY <1>0, <1>1, <1>2 DEF BaseInv, CmdsOK, CmdOK
      <3> QED BY <1>0, <3>1, FxType, LeaseType DEF BaseInv
    <2>2. cmd[c].seq = LeaseOf(r).seq /\ LastState.lease.seq = LeaseOf(r).seq
      <3>1. LeaseOf(r).seq <= LastState.lease.seq /\ LastState.lease.seq \in Nat
        BY <1>0, FxType, NotAfterLast DEF BaseInv
      <3> QED BY <1>1, <1>5, <1>9, <2>1, <3>1 DEF Current
    <2>3. Alive(r) /\ AboveTerm(r)
      <3>1. Claims(c, r)
        BY <1>1, <1>2, <2>2 DEF Claims
      <3> QED BY <1>0, <3>1, ClaimsAlive DEF EntryInv, MemoryOK
    <2>4. assigned[r].ct < cmd[c].trk /\ cmd[c].trk <= cmd[c].wts
      BY <1>0, <1>1, <1>2, <2>2, <2>3 DEF AboveTerm, EntryInv, AdmittedOK
    <2>5. cmd[c].wts # 0
      BY <1>2, <1>5, <2>4
    <2>6. TermBelow(c)
      BY <1>1, <2>2, <2>5 DEF Poised, PubInv, CommandsAbove
    <2>7. ASSUME NEW m \in pub PROVE m.ts < f.wts
      <3>1. m.seq \in Nat /\ m.ts \in Nat /\ m.seq <= LeaseOf(r).seq
        BY <1>0, <2>2, PubType, PubState DEF Poised, PubInv
      <3>2. CASE m.seq < cmd[c].seq
        BY <1>1, <2>6, <3>2 DEF TermBelow
      <3>3. CASE m.seq = LeaseOf(r).seq
        <4>1. m.ts <= assigned[r].ct
          BY <2>3, <3>3 DEF Poised, PubInv, PubAssigned
        <4> QED BY <1>1, <1>5, <2>4, <3>1, <4>1
      <3> QED BY <1>5, <2>1, <2>2, <3>1, <3>2, <3>3
    <2>8. ASSUME NEW n \in Idx, LeaseAt(n).seq = f.seq PROVE LeaseAt(n).sum < f.wts
      <3>1. Fx(r) \in Idx /\ LeaseOf(r) = LeaseAt(Fx(r))
        BY <1>0, LeaseOfIs
      <3>2. SameTerm(LeaseAt(n), LeaseAt(Fx(r)))
        BY <1>0, <1>1, <2>2, <2>8, <3>1, OneTerm
      <3> QED BY <1>1, <2>6, <3>1, <3>2 DEF SameTerm, TermBelow
    <2> QED BY <2>7, <2>8 DEF AbovePub
  <1> QED BY <1>1, <1>4, <1>7, <1>8, <1>9, PubSteady DEF Poised

LEMMA TransferPub ==
    ASSUME Poised, NEW r \in Replica, NEW q \in Replica, TransferLease(r, q) PROVE PubInv'
  <1>0. BaseInv /\ BaseInv' /\ Steady /\ LeasesOK
    BY DEF Poised, LeaseInv
  <1>1. PICK f \in Entry :
          /\ net' = net \cup {f} /\ f.kind = "transfer" /\ assigned[r].ct <= f.ct
          /\ assigned' = [assigned EXCEPT ![r] = [lai |-> f.mli, ct |-> f.ct]]
          /\ f.seq = LeaseOf(r).seq /\ LeaseOf(r).start < f.lease.start
          /\ LeaseOf(r).exp <= f.lease.exp
          /\ f.lease.start <= f.lease.sum /\ low[r] <= f.lease.sum /\ OwnsLease(r)
    BY <1>0, TransferEntry
  <1>2. UNCHANGED <<raft, ap, batch, cmd, low>>
    BY <1>0, TransferLeaseFacts
  <1>3. log' = log /\ \A p \in Replica : LeaseOf(p)' = LeaseOf(p) /\ Fx(p)' = Fx(p)
    BY <1>2 DEF raft, LeaseOf, StateAt, Fx
  <1>4. assigned \in [Replica -> [lai : Nat, ct : Nat]]
    BY <1>0 DEF BaseInv, TypeOK
  <1>5. assigned'[r].ct = f.ct /\ \A p \in Replica \ {r} : assigned'[p] = assigned[p]
    BY <1>1, <1>4
  <1>6. \A p \in Replica : Minds(p)
    BY <1>1, <1>2, <1>3, <1>5, MindsAssigned
  <1>7. \A g \in Numbered' \ Numbered : g = f
    BY <1>1, <1>3 DEF Numbered, Sent
  <1>8. /\ assigned[r].ct \in Nat /\ low[r] \in Nat /\ f.ct \in Nat /\ f.lease.sum \in Nat
        /\ f.lease.start \in Nat /\ f.lease.exp \in Nat /\ LeaseOf(r).start \in Nat
        /\ LeaseOf(r).exp \in Nat
    BY <1>0, ReplicaType, LeaseEntryFields, LeaseType DEF BaseInv
  <1>9. Warns(f)
    <2> SUFFICES ASSUME NEW m \in pub, m.seq <= f.seq
                 PROVE /\ m.ts <= f.lease.sum \/ m.ts <= f.ct
                       /\ m.seq = f.seq => m.ts < f.lease.exp
      BY DEF Warns
    <2>1. m.ts \in Nat
      BY <1>0, PubType
    <2>2. m.ts <= assigned[r].ct \/ m.ts <= low[r] \/ m.ts <= LeaseOf(r).start
      BY <1>1 DEF OwnsLease, Poised, PubInv, Remembered
    <2>3. ASSUME m.seq = f.seq PROVE m.ts < f.lease.exp
      <3>1. Fx(r) \in Idx /\ LeaseOf(r) = LeaseAt(Fx(r))
        BY <1>0, LeaseOfIs
      <3>2. m.from = r
        BY <1>0, <1>1, <2>3, <3>1, PublisherHolds DEF OwnsLease, Poised, PubInv
      <3>3. PICK n \in Idx : n <= Fx(r) /\ LeaseAt(n).seq = m.seq /\ m.ts < LeaseAt(n).exp
        BY <1>0, <3>2, PubState DEF Poised, PubInv
      <3>4. LeaseAt(n).exp <= LeaseOf(r).exp
        BY <1>0, <1>1, <2>3, <3>1, <3>3 DEF LeasesOK
      <3>5. LeaseAt(n).exp \in Nat
        BY <1>0, LeaseAtType DEF BaseInv
      <3> QED BY <1>1, <1>8, <2>1, <3>3, <3>4, <3>5
    <2> QED BY <1>1, <1>8, <2>1, <2>2, <2>3
  <1> QED BY <1>1, <1>2, <1>6, <1>7, <1>9, PubSteady, SameHeeds DEF Poised

\* What was published so far is below the end of the last lease.
LEMMA PubEnds ==
    ASSUME BaseInv, LeasesOK, PubOK, PubBelow, NEW k \in Idx, k = Len(log),
           NEW m \in pub, m.seq <= LeaseAt(k).seq
    PROVE m.ts < LeaseAt(k).exp
  <1>0. m.ts \in Nat /\ m.seq \in Nat /\ LeaseAt(k).seq \in Nat /\ LeaseAt(k).exp \in Nat
    BY PubType, LeaseAtType DEF BaseInv
  <1>1. CASE m.seq < LeaseAt(k).seq
    BY <1>1 DEF PubBelow
  <1>2. CASE m.seq = LeaseAt(k).seq
    <2>1. PICK n \in Idx : LeaseAt(n).seq = m.seq /\ m.ts < LeaseAt(n).exp
      BY PubState
    <2>2. n <= k
      BY DEF Idx
    <2>3. LeaseAt(n).exp <= LeaseAt(k).exp
      BY <1>2, <2>1, <2>2 DEF LeasesOK
    <2>4. LeaseAt(n).exp \in Nat
      BY LeaseAtType DEF BaseInv
    <2> QED BY <1>0, <2>1, <2>3, <2>4
  <1> QED BY <1>0, <1>1, <1>2

\* The holder of a new lease learns of what was published.
LEMMA NewLeaseAbove ==
    ASSUME BaseInv, BaseInv', LeaseInv, EntryInv, PubInv, NEW e \in net, AppendEntry(e),
           NEW k \in Nat, NEW s \in AppliedState, NEW z \in AppliedState, Grows(e, k, s, z),
           NEW m \in pub, m.seq < z.lease.seq
    PROVE /\ m.ts < z.lease.exp
          /\ Renewed(k + 1)' \/ m.ts <= z.lease.sum \/ m.ts <= z.ct
  <1>0. /\ k = Len(log) /\ k \in Idx /\ LeaseAt(k) = s.lease /\ LeaseAt(k + 1)' = z.lease
        /\ StateAt(k) = s /\ Idx = 0 .. k /\ Idx' = 0 .. k + 1
        /\ \A n \in Idx : LeaseAt(n)' = LeaseAt(n)
        /\ s.ct \in Nat /\ z.ct \in Nat /\ s.ct <= z.ct
    <2>1. /\ k = Len(log) /\ k \in Idx /\ LeaseAt(k) = s.lease /\ LeaseAt(k + 1)' = z.lease
          /\ StateAt(k) = s /\ Idx = 0 .. k /\ Idx' = 0 .. k + 1
          /\ \A n \in Idx : LeaseAt(n)' = LeaseAt(n)
          /\ z.ct = s.ct \/ (After(s.ct, e) /\ z.ct = e.ct)
      BY DEF Grows
    <2>2. s.ct \in Nat /\ z.ct \in Nat
      BY DEF AppliedState
    <2> QED BY <2>1, <2>2 DEF After
  <1>1. /\ m.ts \in Nat /\ m.seq \in Nat
        /\ s.lease.seq \in Nat /\ s.lease.exp \in Nat /\ s.lease.sum \in Nat /\ s.lease.start \in Nat
        /\ z.lease.seq \in Nat /\ z.lease.exp \in Nat /\ z.lease.sum \in Nat /\ z.lease.start \in Nat
    BY PubType DEF AppliedState, LeaseRecord
  <1>2. m.seq <= s.lease.seq => m.ts < s.lease.exp
    BY <1>0, PubEnds DEF PubInv, LeaseInv
  <1>3. ASSUME NEW j \in Idx, LeaseAt(j).seq + 1 = z.lease.seq, LeaseAt(j).holder = z.lease.holder
        PROVE Renewed(k + 1)'
    <2>1. j \in 0 .. k + 1 /\ LeaseAt(j)' = LeaseAt(j)
      BY <1>0
    <2> QED BY <1>0, <1>3, <2>1 DEF Renewed
  <1>4. ASSUME SameTerm(z.lease, s.lease), z.lease.seq = s.lease.seq, s.lease.exp <= z.lease.exp
        PROVE /\ m.ts < z.lease.exp
              /\ Renewed(k + 1)' \/ m.ts <= z.lease.sum \/ m.ts <= z.ct
    <2>1. /\ m.ts < s.lease.exp
          /\ Renewed(k) \/ m.ts <= s.lease.sum \/ m.ts <= s.ct
      BY <1>0, <1>4 DEF PubInv, PubBelow
    <2>2. ASSUME Renewed(k) PROVE Renewed(k + 1)'
      <3>1. PICK j \in 0 .. k : LeaseAt(j).seq + 1 = s.lease.seq /\ LeaseAt(j).holder = s.lease.holder
        BY <1>0, <2>2 DEF Renewed
      <3> QED BY <1>0, <1>3, <1>4, <3>1 DEF SameTerm
    <2>3. z.lease.sum = s.lease.sum
      BY <1>4 DEF SameTerm
    <2> QED BY <1>0, <1>1, <1>4, <2>1, <2>2, <2>3
  <1>5. \/ z.lease = s.lease
        \/ /\ z.lease = e.lease /\ e.kind # "write" /\ Verdict(LastState, e) = "ok"
           /\ e.seq = s.lease.seq
           /\ \E n \in Idx : /\ ProposedUnder(e, LeaseAt(n)) /\ SameTerm(LeaseAt(n), s.lease)
                             /\ e.kind = "request" => LeaseAt(n) = s.lease
    <2>1. PICK h \in Nat : \E a, b \in LeaseRecord :
            /\ h = Len(log) /\ a = LeaseAt(h) /\ b = LeaseAt(h + 1)'
            /\ \/ b = a
               \/ /\ b = e.lease /\ e.kind # "write" /\ Verdict(LastState, e) = "ok"
                  /\ e.seq = a.seq
                  /\ \E n \in Idx : /\ ProposedUnder(e, LeaseAt(n)) /\ SameTerm(LeaseAt(n), a)
                                    /\ e.kind = "request" => LeaseAt(n) = a
      BY AppendLease
    <2>2. h = k
      BY <1>0, <2>1
    <2> QED BY <1>0, <2>1, <2>2
  <1>6. CASE z.lease = s.lease
    BY <1>1, <1>4, <1>6 DEF SameTerm
  <1>7. ASSUME z.lease = e.lease, e.kind # "write", Verdict(LastState, e) = "ok", e.seq = s.lease.seq,
               NEW n \in Idx, ProposedUnder(e, LeaseAt(n)), SameTerm(LeaseAt(n), s.lease),
               e.kind = "request" => LeaseAt(n) = s.lease
        PROVE /\ m.ts < z.lease.exp
              /\ Renewed(k + 1)' \/ m.ts <= z.lease.sum \/ m.ts <= z.ct
    <2>0. z.lease.start < z.lease.exp /\ z.lease.start <= z.lease.sum /\ LeaseAt(n).seq = s.lease.seq
      BY <1>7 DEF ProposedUnder
    <2>1. CASE Extends(e, LeaseAt(n))
      <3>1. LeaseAt(n) = s.lease
        BY <1>7, <2>1 DEF Extends
      <3>2. SameTerm(z.lease, s.lease) /\ z.lease.seq = s.lease.seq /\ s.lease.exp < z.lease.exp
        BY <1>7, <2>1, <3>1 DEF Extends
      <3> QED BY <1>1, <1>4, <3>2
    <2>2. CASE TakesOver(e, LeaseAt(n))
      <3>1. LeaseAt(n) = s.lease
        BY <1>7, <2>2 DEF TakesOver
      <3>2. z.lease.seq = s.lease.seq + 1 /\ s.lease.exp <= z.lease.start
        BY <1>7, <2>2, <3>1 DEF TakesOver
      <3> QED BY <1>1, <1>2, <2>0, <3>2
    <2>3. CASE Renews(e, LeaseAt(n))
      <3>1. LeaseAt(n) = s.lease
        BY <1>7, <2>3 DEF Renews
      <3>2. /\ z.lease.seq = s.lease.seq + 1 /\ s.lease.exp <= z.lease.exp
            /\ z.lease.holder = s.lease.holder
        BY <1>7, <2>3, <3>1 DEF Renews
      <3>3. Renewed(k + 1)'
        BY <1>0, <1>3, <3>2
      <3> QED BY <1>1, <1>2, <3>2, <3>3
    <2>4. CASE Transfers(e, LeaseAt(n))
      <3>1. e.kind = "transfer" /\ z.lease.seq = e.seq + 1 /\ LeaseAt(n).exp <= z.lease.exp
        BY <1>7, <2>0, <2>4 DEF Transfers
      <3>2. z.ct = e.ct
        BY <1>7, <3>1 DEF Grows
      <3>3. m.seq <= e.seq
        BY <1>1, <1>7, <3>1
      <3>4. /\ m.ts <= z.lease.sum \/ m.ts <= z.ct
            /\ m.seq = e.seq => m.ts < z.lease.exp
        BY <1>7, <3>1, <3>2, <3>3 DEF PubInv, TransfersAbove
      <3>5. m.seq < LeaseAt(n).seq => m.ts < LeaseAt(n).exp
        BY DEF PubInv, PubBelow
      <3>6. LeaseAt(n).exp \in Nat
        BY LeaseAtType DEF BaseInv
      <3> QED BY <1>1, <1>7, <2>0, <3>1, <3>3, <3>4, <3>5, <3>6
    <2> QED BY <1>7, <2>1, <2>2, <2>3, <2>4 DEF ProposedUnder
  <1> QED BY <1>5, <1>6, <1>7

LEMMA AppendPub ==
    ASSUME BaseInv, BaseInv', LeaseInv, LeaseInv', EntryInv, PubInv, NEW e \in net, AppendEntry(e)
    PROVE PubInv'
  <1>0. PICK k \in Nat : \E s, z \in AppliedState : Grows(e, k, s, z)
    BY AppendGrows
  <1>1. PICK s \in AppliedState, z \in AppliedState : Grows(e, k, s, z)
    BY <1>0
  <1>2. /\ k = Len(log) /\ k \in Idx /\ LeaseAt(k) = s.lease /\ LeaseAt(k + 1)' = z.lease
        /\ StateAt(k) = s /\ StateAt(k + 1)' = z /\ Idx = 0 .. k /\ Idx' = 0 .. k + 1
        /\ s = LastState /\ z = LastState'
    BY <1>1 DEF Grows
  <1>3. \A n \in Idx : LeaseAt(n)' = LeaseAt(n) /\ StateAt(n)' = StateAt(n)
    BY <1>1 DEF Grows
  <1>4. /\ \A r \in Replica : Fx(r)' = Fx(r) /\ LeaseOf(r)' = LeaseOf(r)
        /\ UNCHANGED <<cmd, assigned, low, minVer, side, pub>>
        /\ net' = net \ {e} /\ Numbered' = Numbered
    BY <1>1 DEF Grows
  <1>5. /\ Len(log') = k + 1 /\ log'[k + 1] = e /\ \A i \in 1 .. k : log'[i] = log[i]
        /\ \A i \in 1 .. k : Effective(i)' = Effective(i)
        /\ Effective(k + 1)' = (Verdict(s, e) = "ok")
    BY <1>1 DEF Grows
  <1>6. PubOK'
    <2> SUFFICES ASSUME NEW m \in pub
                 PROVE \E n \in 0 .. (Fx(m.from)') :
                          /\ LeaseAt(n)'.seq = m.seq /\ LeaseAt(n)'.holder = m.from
                          /\ StateAt(n)'.lai = m.lai /\ m.ts < LeaseAt(n)'.exp
      BY <1>4 DEF PubOK
    <2>1. PICK n \in 0 .. Fx(m.from) :
            /\ LeaseAt(n).seq = m.seq /\ LeaseAt(n).holder = m.from
            /\ StateAt(n).lai = m.lai /\ m.ts < LeaseAt(n).exp
      BY DEF PubInv, PubOK
    <2>2. Fx(m.from)' = Fx(m.from) /\ Fx(m.from) \in Idx
      BY <1>4, PubType, LeaseOfIs
    <2>3. n \in Idx
      BY <1>2, <2>1, <2>2
    <2> QED BY <1>3, <2>1, <2>2, <2>3
  <1>7. PubBelow'
    <2> SUFFICES ASSUME NEW m \in pub, NEW n \in 0 .. k + 1, m.seq < LeaseAt(n)'.seq
                 PROVE /\ m.ts < LeaseAt(n)'.exp
                       /\ Renewed(n)' \/ m.ts <= LeaseAt(n)'.sum \/ m.ts <= StateAt(n)'.ct
      BY <1>2, <1>4 DEF PubBelow
    <2>1. CASE n \in Idx
      <3>1. \A j \in 0 .. n : LeaseAt(j)' = LeaseAt(j)
        BY <1>2, <1>3, <2>1
      <3>2. Renewed(n) => Renewed(n)'
        BY <1>3, <2>1, <3>1 DEF Renewed
      <3> QED BY <1>3, <2>1, <3>2 DEF PubInv, PubBelow
    <2>2. CASE n = k + 1
      BY <1>1, <1>2, <2>2, NewLeaseAbove
    <2> QED BY <1>2, <2>1, <2>2
  <1>8. TransfersAbove'
    BY <1>4 DEF PubInv, TransfersAbove
  <1>9. Remembered'
    BY <1>4 DEF PubInv, Remembered
  <1>10. PubAssigned'
    <2>1. \A r \in Replica : Alive(r)' => Alive(r)
      BY <1>4 DEF Alive, Claims
    <2> QED BY <1>4, <2>1 DEF PubInv, PubAssigned
  <1>11. PubGrows'
    BY <1>4 DEF PubInv, PubGrows
  <1>12. CommandsAbove'
    <2> SUFFICES ASSUME NEW c \in Cmd, cmd'[c].wts # 0, cmd'[c].seq = LeaseOf(cmd[c].home)'.seq
                 PROVE TermBelow(c)'
      BY DEF CommandsAbove
    <2>1. PICK h \in Replica : h = cmd[c].home
      BY CmdType DEF BaseInv
    <2>2. LeaseOf(cmd[c].home)' = LeaseOf(h)' /\ LeaseOf(h)' = LeaseOf(h)
      BY <1>4, <2>1, HomeLease
    <2>3. TermBelow(c)
      BY <1>4, <2>1, <2>2 DEF PubInv, CommandsAbove
    <2> QED BY <1>4, <2>1, <2>2, <2>3 DEF TermBelow
  <1>13. ASSUME NEW f \in Entry, NEW j \in Idx, LeaseAt(j).seq = f.seq, AbovePub(f) PROVE AbovePub(f)'
    <2> SUFFICES ASSUME NEW n \in 0 .. k + 1, LeaseAt(n)'.seq = f.seq
                 PROVE LeaseAt(n)'.sum < f.wts
      BY <1>2, <1>4, <1>13 DEF AbovePub
    <2>1. CASE n \in Idx
      BY <1>3, <1>13, <2>1 DEF AbovePub
    <2>2. CASE n = k + 1
      <3>1. LeasesOK' /\ j \in Idx' /\ n \in Idx' /\ j <= n /\ LeaseAt(j)' = LeaseAt(j)
        BY <1>2, <1>3, <2>2 DEF LeaseInv
      <3>2. SameTerm(LeaseAt(j)', LeaseAt(n)')
        BY <1>13, <3>1 DEF LeasesOK, SameTerm
      <3> QED BY <1>13, <3>1, <3>2 DEF SameTerm, AbovePub
    <2> QED BY <1>2, <2>1, <2>2
  <1>14. ASSUME NEW f \in Numbered, f.seq = z.lease.seq, f.kind = "write" PROVE AbovePub(f)'
    <2>1. f \in Entry /\ f.seq \in Nat /\ f.seq <= s.lease.seq
      BY <1>2, NumberedType, NumberedNotAfter DEF EntryInv
    <2>2. z.lease.seq \in {s.lease.seq, s.lease.seq + 1} /\ s.lease.seq \in Nat
      BY <1>1 DEF Grows, AppliedState, LeaseRecord
    <2>3. f.seq = s.lease.seq
      BY <1>14, <2>1, <2>2
    <2>4. AbovePub(f)
      BY <1>2, <1>14, <2>3 DEF Current, PubInv, WritesAbove
    <2> QED BY <1>2, <1>13, <2>1, <2>3, <2>4
  <1>15. ASSUME NEW i \in 1 .. k + 1, log'[i].kind = "write", Effective(i)'
         PROVE AbovePub(log[i])' /\ \A n \in 0 .. i - 1 : StateAt(n)'.ct < log'[i].wts
    <2>1. CASE i \in 1 .. k
      <3>1. log'[i] = log[i] /\ Effective(i) /\ i \in 1 .. Len(log) /\ log[i] \in Entry
        BY <1>2, <1>5, <1>15, <2>1, LogType
      <3>2. AbovePub(log[i]) /\ \A n \in 0 .. i - 1 : StateAt(n).ct < log[i].wts
        BY <1>15, <3>1 DEF PubInv, WritesAbove
      <3>3. i - 1 \in Idx /\ LeaseAt(i - 1).seq = log[i].seq
        BY <1>15, <3>1, EffectiveIndex DEF Idx
      <3>4. AbovePub(log[i])'
        <4>1. PICK f \in Entry : f = log[i]
          BY <3>1
        <4>2. AbovePub(f)'
          BY <1>13, <3>2, <3>3, <4>1
        <4> QED BY <3>1, <4>1, <4>2 DEF AbovePub
      <3>5. \A n \in 0 .. i - 1 : StateAt(n)' = StateAt(n)
        BY <1>2, <1>3, <2>1
      <3> QED BY <3>1, <3>2, <3>4, <3>5
    <2>2. CASE i = k + 1
      <3>1. log'[i] = e /\ Verdict(s, e) = "ok" /\ e.kind = "write"
        BY <1>5, <1>15, <2>2, Zenon
      <3>2. e \in Numbered /\ e.seq = s.lease.seq /\ After(s.ct, e)
        BY <1>1, <3>1 DEF Grows
      <3>3. AbovePub(e)
        BY <1>2, <3>1, <3>2 DEF Current, PubInv, WritesAbove
      <3>4. e \in Entry /\ e.wts \in Nat
        BY <3>2, NumberedType
      <3>5. AbovePub(e)'
        BY <1>2, <1>13, <3>2, <3>3, <3>4
      <3>6. s.ct < e.wts /\ s.ct \in Nat
        BY <3>1, <3>2 DEF After, AppliedState
      <3>7. ASSUME NEW n \in 0 .. k PROVE StateAt(n)'.ct < e.wts
        <4>1. StateAt(n).ct <= s.ct /\ StateAt(n)' = StateAt(n) /\ StateAt(n).ct \in Nat
          BY <1>2, <1>3, StateType DEF EntryInv, ClosedGrows, BaseInv
        <4> QED BY <3>4, <3>6, <4>1
      <3>8. AbovePub(log[i])' = AbovePub(e)'
        BY <3>1 DEF AbovePub
      <3> QED BY <2>2, <3>1, <3>5, <3>7, <3>8
    <2> QED BY <2>1, <2>2
  <1>16. WritesAbove'
    <2>1. \A f \in Numbered' : Current(f)' /\ f.kind = "write" => AbovePub(f)'
      BY <1>2, <1>4, <1>14 DEF Current
    <2> QED BY <1>5, <1>15, <2>1 DEF WritesAbove
  <1>17. SideOK'
    BY SideStep DEF Next, PubInv
  <1> QED BY <1>6, <1>7, <1>8, <1>9, <1>10, <1>11, <1>12, <1>16, <1>17 DEF PubInv

\* A lease that its holder may use ends before the next one starts.
LEMMA NextStartsLater ==
    ASSUME BaseInv, LeasesOK, NEW r \in Replica, OwnsLease(r), NEW n \in Idx,
           LeaseOf(r).seq < LeaseAt(n).seq
    PROVE /\ LeaseOf(r).exp <= LeaseAt(n).start /\ LeaseAt(n).start <= LeaseAt(n).sum
          /\ LeaseAt(n).start < LeaseAt(n).exp
          /\ LeaseOf(r).exp \in Nat /\ LeaseAt(n).start \in Nat /\ LeaseAt(n).sum \in Nat
          /\ LeaseAt(n).exp \in Nat
  <1>1. Fx(r) \in Idx /\ LeaseOf(r) = LeaseAt(Fx(r))
    BY LeaseOfIs
  <1>2. LeaseOf(r).seq \in Nat /\ LeaseAt(n).seq \in Nat /\ LeaseOf(r).ver \in Nat /\ minVer[r] \in Nat
        /\ LeaseOf(r).exp \in Nat /\ LeaseAt(n).start \in Nat /\ LeaseAt(n).sum \in Nat
        /\ LeaseAt(n).exp \in Nat
    BY LeaseAtType, LeaseType, ReplicaType DEF BaseInv
  <1>3. Fx(r) <= n
    <2>1. n <= Fx(r) => LeaseAt(n).seq <= LeaseAt(Fx(r)).seq
      BY <1>1, Ordered DEF LeaseAt, Idx
    <2>2. n <= Fx(r) \/ Fx(r) <= n
      BY <1>1 DEF Idx
    <2> QED BY <1>1, <1>2, <2>1, <2>2
  <1>4. LeaseOf(r).exp <= LeaseAt(n).start \/ LeaseOf(r).ver < minVer[LeaseOf(r).holder]
    BY <1>1, <1>3 DEF LeasesOK
  <1>5. LeaseOf(r).holder = r /\ ~ (LeaseOf(r).ver < minVer[r])
    BY DEF OwnsLease, Proscribed
  <1> QED BY <1>2, <1>4, <1>5 DEF LeasesOK

Publishes(r, t, p) ==
    /\ OwnsLease(r) /\ t \in Nat /\ t < LeaseOf(r).exp /\ FollowsClock(r, t)
    /\ batch[r] = Idle /\ Pending(r) = {} /\ assigned[r].ct < t
    /\ pub' = pub \cup {p}
    /\ p.from = r /\ p.seq = LeaseOf(r).seq /\ p.ts = t /\ p.lai = State(r).lai
    /\ Fx(r) = ap[r] /\ assigned'[r].ct = t /\ \A q \in Replica \ {r} : assigned'[q] = assigned[q]
    /\ \A q \in Replica : LeaseOf(q)' = LeaseOf(q) /\ Fx(q)' = Fx(q)
    /\ UNCHANGED <<net, log, st, cmd, batch, minVer, low>>

LEMMA BumpFacts ==
    ASSUME BaseInv, NEW r \in Replica, NEW target \in Ts, BumpSideTransportClosed(r, target)
    PROVE \E p : Publishes(r, target, p)
  <1> DEFINE p == [from |-> r, seq |-> LeaseOf(r).seq, ts |-> target, lai |-> State(r).lai]
  <1>1. /\ OwnsLease(r) /\ target < LeaseOf(r).exp /\ FollowsClock(r, target)
        /\ batch[r] = Idle /\ Pending(r) = {} /\ target > assigned[r].ct
        /\ assigned' = [assigned EXCEPT ![r].ct = target] /\ pub' = pub \cup {p}
        /\ UNCHANGED <<net, raft, ap, batch, cmd, leases>>
    BY DEF BumpSideTransportClosed, MayPublish, Advances, NothingInFlight
  <1>2. target \in Nat
    <2>1. inst.maxTs \in Nat
      BY DEF BaseInv, TypeOK, Instance
    <2> QED BY <2>1 DEF Ts
  <1>3. assigned \in [Replica -> [lai : Nat, ct : Nat]]
    BY DEF BaseInv, TypeOK
  <1>4. assigned'[r].ct = target /\ \A q \in Replica \ {r} : assigned'[q] = assigned[q]
    BY <1>1, <1>3
  <1>5. \A q \in Replica : LeaseOf(q)' = LeaseOf(q) /\ Fx(q)' = Fx(q)
    BY <1>1 DEF LeaseOf, StateAt, raft, Fx
  <1>6. Fx(r) = ap[r]
    BY <1>1 DEF Fx
  <1>7. UNCHANGED <<net, log, st, cmd, batch, minVer, low>>
    BY <1>1 DEF raft, leases
  <1>8. p.from = r /\ p.seq = LeaseOf(r).seq /\ p.ts = target /\ p.lai = State(r).lai
    OBVIOUS
  <1>9. assigned[r].ct < target
    BY <1>1, <1>2, <1>3
  <1> HIDE DEF p
  <1>10. Publishes(r, target, p)
    BY <1>1, <1>2, <1>4, <1>5, <1>6, <1>7, <1>8, <1>9 DEF Publishes
  <1> QED BY <1>10

\* A write that the published index does not cover is above the published timestamp.
LEMMA UncoveredIsAbove ==
    ASSUME BaseInv, LeaseInv, EntryInv, NEW r \in Replica, NEW t, NEW p, Publishes(r, t, p),
           NEW e \in Numbered, e.kind = "write", AbovePub(e), NEW n \in Idx, LeaseAt(n).seq = e.seq,
           LeaseOf(r).seq <= e.seq, State(r).lai < e.mli
    PROVE t < e.wts
  <1>0. /\ e.id \in Cmd /\ e.seq \in Nat /\ e.wts \in Nat /\ cmd[e.id].phase = "proposed"
        /\ cmd[e.id].home \in Replica /\ e.seq = cmd[e.id].seq /\ LeaseOf(r).seq \in Nat
    BY NumberedType, LeaseType DEF BaseInv
  <1>1. OwnsLease(r) /\ t \in Nat /\ t < LeaseOf(r).exp
    BY DEF Publishes
  <1>2. CASE LeaseOf(r).seq < e.seq
    <2>1. LeaseAt(n).sum < e.wts
      BY DEF AbovePub
    <2>2. /\ LeaseOf(r).exp <= LeaseAt(n).start /\ LeaseAt(n).start <= LeaseAt(n).sum
          /\ LeaseOf(r).exp \in Nat /\ LeaseAt(n).start \in Nat /\ LeaseAt(n).sum \in Nat
      BY <1>1, <1>2, NextStartsLater DEF LeaseInv
    <2> QED BY <1>0, <1>1, <2>1, <2>2
  <1>3. CASE LeaseOf(r).seq = e.seq
    <2>1. Fx(r) \in Idx /\ LeaseOf(r) = LeaseAt(Fx(r))
      BY LeaseOfIs
    <2>2. PICK j \in 0 .. Fx(cmd[e.id].home) :
            LeaseAt(j).seq = e.seq /\ LeaseAt(j).holder = cmd[e.id].home
      BY <1>0 DEF EntryInv, AdmittedOK
    <2>3. j \in Idx
      BY <1>0, LeaseOfIs DEF Idx
    <2>4. cmd[e.id].home = r
      BY <1>1, <1>3, <2>1, <2>2, <2>3, OneTerm, Zenon DEF LeaseInv, SameTerm, OwnsLease
    <2>5. Alive(r)
      <3>1. LeaseOf(r).ver \in Nat /\ minVer[r] \in Nat
        BY LeaseType, ReplicaType DEF BaseInv
      <3> QED BY <1>1, <3>1 DEF OwnsLease, Proscribed, Alive
    <2>6. StateAt(Fx(r)).lai < e.mli
      BY DEF Publishes, State
    <2>7. Ahead(e, cmd[e.id].home)
      BY <1>3, <2>4, <2>5, <2>6 DEF Ahead
    <2>8. Holds(e.id, e.mli)
      BY <2>7 DEF EntryInv, InFlight, InHand
    <2>9. ~ cmd[e.id].inMap
      BY <1>0, <2>4 DEF Publishes, Pending, Mine
    <2>10. ~ InBatch(e.id, e.mli)
      BY <2>4 DEF Publishes, InBatch
    <2> QED BY <2>8, <2>9, <2>10 DEF Holds
  <1> QED BY <1>0, <1>2, <1>3

LEMMA BumpPub ==
    ASSUME BaseInv, BaseInv', LeaseInv, EntryInv, PubInv, SideOK',
           NEW r \in Replica, NEW t \in Ts, BumpSideTransportClosed(r, t)
    PROVE PubInv'
  <1>0. PICK p : Publishes(r, t, p)
    BY BumpFacts
  <1>1. /\ OwnsLease(r) /\ t \in Nat /\ t < LeaseOf(r).exp /\ FollowsClock(r, t) /\ assigned[r].ct < t
        /\ pub' = pub \cup {p}
        /\ p.from = r /\ p.seq = LeaseOf(r).seq /\ p.ts = t /\ p.lai = State(r).lai
        /\ Fx(r) = ap[r] /\ assigned'[r].ct = t /\ \A q \in Replica \ {r} : assigned'[q] = assigned[q]
        /\ \A q \in Replica : LeaseOf(q)' = LeaseOf(q) /\ Fx(q)' = Fx(q)
        /\ UNCHANGED <<net, log, st, cmd, batch, minVer, low>>
    BY <1>0 DEF Publishes
  <1>2. /\ Idx' = Idx /\ (\A n : LeaseAt(n)' = LeaseAt(n) /\ StateAt(n)' = StateAt(n))
        /\ LastState' = LastState /\ Numbered' = Numbered /\ \A i : Effective(i)' = Effective(i)
    <2>1. UNCHANGED <<net, raft>>
      BY <1>1 DEF raft
    <2> QED BY <2>1, SameLog, SentSame DEF raft, Idx, LeaseAt, StateAt
  <1>3. LeaseOf(r).holder = r /\ Fx(r) \in Idx /\ LeaseOf(r) = LeaseAt(Fx(r)) /\ State(r) = StateAt(Fx(r))
    BY <1>1, LeaseOfIs DEF OwnsLease, State
  <1>4. LeaseOf(r).seq \in Nat /\ assigned[r].ct \in Nat /\ State(r).lai \in Nat /\ LeaseOf(r).exp \in Nat
    BY LeaseType, ReplicaType DEF BaseInv
  <1>5. Alive(r)
    <2>1. LeaseOf(r).ver \in Nat /\ minVer[r] \in Nat
      BY LeaseType, ReplicaType DEF BaseInv
    <2> QED BY <1>1, <2>1 DEF OwnsLease, Proscribed, Alive
  <1>6. ASSUME NEW n \in Idx, LeaseOf(r).seq < LeaseAt(n).seq
        PROVE /\ t < LeaseAt(n).start /\ t < LeaseAt(n).sum /\ t < LeaseAt(n).exp
              /\ LeaseAt(n).start <= LeaseAt(n).sum
              /\ LeaseAt(n).start \in Nat /\ LeaseAt(n).sum \in Nat /\ LeaseAt(n).exp \in Nat
    <2>1. /\ LeaseOf(r).exp <= LeaseAt(n).start /\ LeaseAt(n).start <= LeaseAt(n).sum
          /\ LeaseAt(n).start < LeaseAt(n).exp
          /\ LeaseOf(r).exp \in Nat /\ LeaseAt(n).start \in Nat /\ LeaseAt(n).sum \in Nat
          /\ LeaseAt(n).exp \in Nat
      BY <1>1, <1>6, NextStartsLater DEF LeaseInv
    <2> QED BY <1>1, <2>1
  <1>7. ASSUME NEW q \in Replica, LeaseOf(q).holder = q, LeaseOf(q).seq = LeaseOf(r).seq PROVE q = r
    <2>1. Fx(q) \in Idx /\ LeaseOf(q) = LeaseAt(Fx(q))
      BY LeaseOfIs
    <2> QED BY <1>3, <1>7, <2>1, OneTerm DEF LeaseInv, SameTerm
  <1>8. \A q \in Replica : assigned[q].ct \in Nat /\ assigned'[q].ct \in Nat
                           /\ assigned[q].ct <= assigned'[q].ct
    BY <1>1, ReplicaType DEF BaseInv
  <1>9. PubOK'
    <2> SUFFICES ASSUME NEW m \in pub'
                 PROVE \E n \in 0 .. Fx(m.from) :
                          /\ LeaseAt(n).seq = m.seq /\ LeaseAt(n).holder = m.from
                          /\ StateAt(n).lai = m.lai /\ m.ts < LeaseAt(n).exp
      <3>1. \A m \in pub' : m.from \in Replica
        BY <1>1, PubType
      <3> QED BY <1>1, <1>2, <3>1 DEF PubOK
    <2>1. CASE m \in pub
      BY <2>1 DEF PubInv, PubOK
    <2>2. CASE m = p
      <3>1. Fx(r) \in 0 .. Fx(r)
        BY <1>3 DEF Idx
      <3> QED BY <1>1, <1>3, <2>2, <3>1
    <2> QED BY <1>1, <2>1, <2>2
  <1>10. PubBelow'
    <2> SUFFICES ASSUME NEW m \in pub', NEW n \in Idx, m.seq < LeaseAt(n).seq
                 PROVE /\ m.ts < LeaseAt(n).exp
                       /\ Renewed(n) \/ m.ts <= LeaseAt(n).sum \/ m.ts <= StateAt(n).ct
      <3>1. \A n \in Idx : Renewed(n)' = Renewed(n)
        BY <1>2 DEF Renewed
      <3> QED BY <1>2, <3>1 DEF PubBelow
    <2>1. CASE m \in pub
      BY <2>1 DEF PubInv, PubBelow
    <2>2. CASE m = p
      BY <1>1, <1>6, <2>2
    <2> QED BY <1>1, <2>1, <2>2
  <1>11. TransfersAbove'
    <2> SUFFICES ASSUME NEW e \in net, e.kind = "transfer", NEW m \in pub', m.seq <= e.seq
                 PROVE /\ m.ts <= e.lease.sum \/ m.ts <= e.ct
                       /\ m.seq = e.seq => m.ts < e.lease.exp
      BY <1>1 DEF TransfersAbove
    <2>1. CASE m \in pub
      BY <2>1 DEF PubInv, TransfersAbove
    <2>2. CASE m = p
      <3>1. e \in Entry
        BY DEF BaseInv, TypeOK
      <3>2. e.seq \in Nat /\ e.lease.sum \in Nat /\ e.lease.start \in Nat
        BY <3>1, LeaseEntryFields
      <3>3. e.seq # LeaseOf(r).seq
        BY <1>1, <1>3, TransferredIsProscribed DEF OwnsLease
      <3>4. LeaseOf(r).seq < e.seq
        BY <1>1, <1>4, <2>2, <3>2, <3>3
      <3>5. PICK n \in Idx : ProposedUnder(e, LeaseAt(n))
        BY DEF LeaseInv, RequestsOK
      <3>6. /\ e.seq = LeaseAt(n).seq /\ e.lease.start <= e.lease.sum
            /\ LeaseAt(n).start < e.lease.start
        BY <3>5 DEF ProposedUnder, Extends, TakesOver, Renews, Transfers
      <3>7. t < LeaseAt(n).start /\ LeaseAt(n).start \in Nat
        BY <1>6, <3>4, <3>6
      <3>8. t <= e.lease.sum
        BY <1>1, <3>2, <3>6, <3>7
      <3> QED BY <1>1, <2>2, <3>3, <3>8
    <2> QED BY <1>1, <2>1, <2>2
  <1>12. Remembered'
    <2> SUFFICES ASSUME NEW q \in Replica, LeaseOf(q).holder = q, NEW m \in pub', m.seq <= LeaseOf(q).seq
                 PROVE m.ts <= assigned'[q].ct \/ m.ts <= low[q] \/ m.ts <= LeaseOf(q).start
      BY <1>1 DEF Remembered
    <2>1. CASE m \in pub
      <3>1. m.ts <= assigned[q].ct \/ m.ts <= low[q] \/ m.ts <= LeaseOf(q).start
        BY <2>1 DEF PubInv, Remembered
      <3>2. m.ts \in Nat
        BY <2>1, PubType
      <3> QED BY <1>8, <3>1, <3>2
    <2>2. CASE m = p
      <3>1. Fx(q) \in Idx /\ LeaseOf(q) = LeaseAt(Fx(q)) /\ LeaseOf(q).seq \in Nat
        BY LeaseOfIs, LeaseType DEF BaseInv
      <3>2. CASE LeaseOf(q).seq = LeaseOf(r).seq
        BY <1>1, <1>7, <2>2, <3>2
      <3>3. CASE LeaseOf(r).seq < LeaseOf(q).seq
        <4>1. t < LeaseOf(q).start /\ LeaseOf(q).start \in Nat
          BY <1>6, <3>1, <3>3
        <4> QED BY <1>1, <2>2, <4>1
      <3> QED BY <1>1, <1>4, <2>2, <3>1, <3>2, <3>3
    <2> QED BY <1>1, <2>1, <2>2
  <1>13. PubAssigned'
    <2> SUFFICES ASSUME NEW q \in Replica, Alive(q), NEW m \in pub', m.seq = LeaseOf(q).seq
                 PROVE m.ts <= assigned'[q].ct
      <3>1. \A q \in Replica : Alive(q)' = Alive(q)
        BY <1>1 DEF Alive, Claims
      <3> QED BY <1>1, <3>1 DEF PubAssigned
    <2>1. CASE m \in pub
      <3>1. m.ts <= assigned[q].ct /\ m.ts \in Nat
        BY <2>1, PubType DEF PubInv, PubAssigned
      <3> QED BY <1>8, <3>1
    <2>2. CASE m = p
      BY <1>1, <1>7, <2>2 DEF Alive
    <2> QED BY <1>1, <2>1, <2>2
  <1>14. ASSUME NEW m \in pub PROVE /\ m.seq < p.seq => m.ts <= p.ts
                                    /\ m.seq = p.seq => m.ts <= p.ts /\ m.lai <= p.lai
                                    /\ p.seq < m.seq => p.ts <= m.ts
    <2>1. m.seq \in Nat /\ m.ts \in Nat /\ m.lai \in Nat
      BY PubType
    <2>2. (m.seq < p.seq => m.ts <= p.ts) /\ (p.seq < m.seq => p.ts <= m.ts)
      <3>1. p.seq < m.seq => m.seq > p.seq
        BY <1>1, <1>4, <2>1
      <3> QED BY <1>1, <3>1 DEF FollowsClock
    <2>3. ASSUME m.seq = p.seq PROVE m.ts <= p.ts /\ m.lai <= p.lai
      <3>1. m.ts <= assigned[r].ct
        BY <1>1, <1>5, <2>3 DEF PubInv, PubAssigned
      <3>2. m.from = r
        BY <1>1, <1>3, <2>3, PublisherHolds DEF PubInv, LeaseInv
      <3>3. PICK n \in Idx : n <= Fx(r) /\ StateAt(n).lai = m.lai
        BY <3>2, PubState DEF PubInv
      <3>4. StateAt(n).lai <= StateAt(Fx(r)).lai
        BY <1>3, <3>3, Ordered DEF Idx
      <3> QED BY <1>1, <1>3, <1>4, <2>1, <3>1, <3>3, <3>4
    <2> QED BY <2>2, <2>3
  <1>15. PubGrows'
    <2> SUFFICES ASSUME NEW m \in pub', NEW k \in pub'
                 PROVE /\ m.seq < k.seq => m.ts <= k.ts
                       /\ m.seq = k.seq /\ m.lai < k.lai => m.ts <= k.ts
      BY DEF PubGrows
    <2>1. CASE m \in pub /\ k \in pub
      BY <2>1 DEF PubInv, PubGrows
    <2>2. CASE m \in pub /\ k = p
      BY <1>14, <2>2
    <2>3. CASE m = p /\ k \in pub
      <3>1. /\ k.seq = p.seq => k.lai <= p.lai
            /\ p.seq < k.seq => p.ts <= k.ts
        BY <1>14, <2>3
      <3>2. k.lai \in Nat /\ p.lai \in Nat
        BY <1>1, <1>4, <2>3, PubType
      <3> QED BY <2>3, <3>1, <3>2
    <2>4. CASE m = p /\ k = p
      BY <1>1, <1>4, <2>4
    <2> QED BY <1>1, <2>1, <2>2, <2>3, <2>4
  <1>16. CommandsAbove'
    <2> SUFFICES ASSUME NEW c \in Cmd, cmd[c].wts # 0, NEW h \in Replica, h = cmd[c].home,
                        cmd[c].seq = LeaseOf(h).seq
                 PROVE \A m \in pub' : m.seq < cmd[c].seq => m.ts < cmd[c].wts
      <3> SUFFICES ASSUME NEW c \in Cmd, cmd'[c].wts # 0, cmd'[c].seq = LeaseOf(cmd[c].home)'.seq
                   PROVE TermBelow(c)'
        BY DEF CommandsAbove
      <3>1. PICK h \in Replica : h = cmd[c].home
        BY CmdType DEF BaseInv
      <3>2. LeaseOf(cmd[c].home)' = LeaseOf(h)' /\ LeaseOf(h)' = LeaseOf(h)
        BY <1>1, <3>1, HomeLease
      <3>3. TermBelow(c)
        BY <1>1, <3>1, <3>2 DEF PubInv, CommandsAbove
      <3>4. \A m \in pub' : m.seq < cmd[c].seq => m.ts < cmd[c].wts
        BY <1>1, <3>1, <3>2
      <3> QED BY <1>1, <3>1, <3>2, <3>3, <3>4 DEF TermBelow
    <2>1. TermBelow(c)
      BY DEF PubInv, CommandsAbove
    <2> TAKE m \in pub'
    <2> HAVE m.seq < cmd[c].seq
    <2>2. CASE m \in pub
      BY <2>1, <2>2 DEF TermBelow
    <2>3. CASE m = p
      <3>1. Fx(h) \in Idx /\ LeaseOf(h) = LeaseAt(Fx(h))
        BY LeaseOfIs
      <3>2. t < LeaseOf(h).sum /\ LeaseOf(h).sum \in Nat
        BY <1>1, <1>6, <2>3, <3>1
      <3>3. LeaseOf(h).sum < cmd[c].wts /\ cmd[c].wts \in Nat
        BY <2>1, CmdType DEF TermBelow, BaseInv
      <3> QED BY <1>1, <2>3, <3>2, <3>3
    <2> QED BY <1>1, <2>2, <2>3
  <1>17. ASSUME NEW e \in Numbered, e.kind = "write", AbovePub(e), NEW n \in Idx, LeaseAt(n).seq = e.seq,
                p.lai < e.mli => LeaseOf(r).seq <= e.seq
         PROVE AbovePub(e)'
    <2>1. p.lai < e.mli => t < e.wts
      BY <1>0, <1>1, <1>17, UncoveredIsAbove
    <2> QED BY <1>1, <1>2, <1>17, <2>1 DEF AbovePub
  <1>18. ASSUME NEW e \in Numbered, Current(e), e.kind = "write" PROVE AbovePub(e)'
    <2>1. AbovePub(e)
      BY <1>18 DEF PubInv, WritesAbove
    <2>2. Len(log) \in Idx /\ LeaseAt(Len(log)).seq = e.seq
      BY <1>18, LogType DEF Idx, LeaseAt, Current, LastState
    <2>3. LeaseOf(r).seq <= e.seq
      BY <1>18, FxType, NotAfterLast DEF BaseInv, Current
    <2> QED BY <1>17, <1>18, <2>1, <2>2, <2>3
  <1>19. ASSUME NEW i \in 1 .. Len(log), log[i].kind = "write", Effective(i)
         PROVE AbovePub(log[i])'
    <2>1. AbovePub(log[i])
      BY <1>19 DEF PubInv, WritesAbove
    <2>2. /\ i - 1 \in Idx /\ log[i].seq = LeaseAt(i - 1).seq /\ log[i].mli = StateAt(i).lai
          /\ log[i] \in Numbered /\ log[i].seq \in Nat /\ log[i].mli \in Nat
      BY <1>19, EffectiveIndex DEF Idx
    <2>3. ASSUME p.lai < log[i].mli PROVE LeaseOf(r).seq <= log[i].seq
      <3>1. i <= Fx(r) => StateAt(i).lai <= StateAt(Fx(r)).lai
        BY <1>3, Ordered DEF Idx
      <3>2. Fx(r) <= i - 1 => LeaseAt(Fx(r)).seq <= LeaseAt(i - 1).seq
        BY <1>3, <2>2, Ordered DEF Idx, LeaseAt
      <3>3. i <= Fx(r) \/ Fx(r) <= i - 1
        BY <1>3 DEF Idx
      <3> QED BY <1>1, <1>3, <1>4, <2>2, <2>3, <3>1, <3>2, <3>3
    <2>4. PICK e \in Numbered : e = log[i]
      BY <2>2
    <2>5. AbovePub(e)'
      BY <1>17, <1>19, <2>1, <2>2, <2>3, <2>4
    <2>6. log'[i] = e
      BY <1>1, <2>4
    <2> QED BY <2>5, <2>6 DEF AbovePub
  <1>20. WritesAbove'
    <2>1. \A e \in Numbered' : Current(e)' /\ e.kind = "write" => AbovePub(e)'
      BY <1>2, <1>18 DEF Current
    <2>2. \A i \in 1 .. Len(log) : log[i].kind = "write" /\ Effective(i) =>
             \A n \in 0 .. i - 1 : StateAt(n).ct < log[i].wts
      BY DEF PubInv, WritesAbove
    <2> QED BY <1>1, <1>2, <1>19, <2>1, <2>2 DEF WritesAbove
  <1> QED BY <1>9, <1>10, <1>11, <1>12, <1>13, <1>15, <1>16, <1>20 DEF PubInv

LEMMA InitPub == Init => PubInv
  <1> SUFFICES ASSUME Init PROVE PubInv
    OBVIOUS
  <1>1. /\ net = {} /\ log = <<>> /\ pub = {} /\ cmd = [c \in Cmd |-> NewCmd]
        /\ side = [r \in Replica |-> [cur |-> NoClosed, next |-> NoClosed]]
    BY DEF Init
  <1>2. Len(log) = 0 /\ Numbered = {}
    BY <1>1 DEF Numbered, Sent
  <1>3. PubOK /\ PubBelow /\ TransfersAbove /\ Remembered /\ PubAssigned /\ PubGrows
    BY <1>1 DEF PubOK, PubBelow, TransfersAbove, Remembered, PubAssigned, PubGrows
  <1>4. CommandsAbove
    BY <1>1 DEF CommandsAbove, NewCmd
  <1>5. WritesAbove
    BY <1>2 DEF WritesAbove
  <1>6. SideOK
    <2> SUFFICES ASSUME NEW r \in Replica
                 PROVE /\ FromPub(side[r].cur, pub) /\ FromPub(side[r].next, pub)
                       /\ side[r].cur.lai <= State(r).lai
      BY DEF SideOK
    <2>1. side[r].cur = NoClosed /\ side[r].next = NoClosed
      BY <1>1
    <2>2. State(r).lai \in Nat
      BY InitBase, LeaseType DEF BaseInv
    <2> QED BY <2>1, <2>2 DEF FromPub, NoClosed
  <1> QED BY <1>3, <1>4, <1>5, <1>6 DEF PubInv

LEMMA PubStep == BaseInv /\ LeaseInv /\ EntryInv /\ PubInv /\ [Next]_vars => PubInv'
  <1> SUFFICES ASSUME BaseInv, LeaseInv, EntryInv, PubInv, [Next]_vars PROVE PubInv'
    OBVIOUS
  <1>0. BaseInv' /\ LeaseInv'
    BY BaseStep, LeaseStep
  <1>1. CASE UNCHANGED vars
    <2>1. UNCHANGED <<net, raft, ap, batch, cmd, assigned, low, side, pub>>
      BY <1>1 DEF vars, proposer, leases, transport
    <2>2. SideOK'
      <3>1. \A r \in Replica : State(r)' = State(r)
        BY <2>1 DEF State, StateAt, raft
      <3> QED BY <2>1, <3>1 DEF PubInv, SideOK
    <2>3. Poised
      BY <1>0, <1>1, <2>1, <2>2, IdleIsSteady, EntryNext DEF Poised
    <2>4. \A r \in Replica : Fx(r)' = Fx(r)
      BY <2>1 DEF Fx
    <2> QED BY <2>1, <2>3, <2>4, StillPub
  <1>2. CASE \E e \in net : AppendEntry(e)
    BY <1>0, <1>2, AppendPub
  <1>3. CASE \E r \in Replica, t \in Ts : BumpSideTransportClosed(r, t)
    <2>1. SideOK'
      BY <1>0, <1>3, SideStep DEF Next, PubInv
    <2> QED BY <1>0, <1>3, <2>1, BumpPub
  <1>4. CASE /\ Next /\ ~ \E e \in net : AppendEntry(e)
             /\ ~ \E r \in Replica, t \in Ts : BumpSideTransportClosed(r, t)
    <2>1. SideOK'
      BY <1>0, <1>4, SideStep DEF PubInv
    <2>2. Steady
      BY <1>0, <1>4, StepSteady
    <2>3. Recalled
      BY <1>0, <1>4, <2>2, EntryNext
    <2>4. pub' = pub
      <3>1. ASSUME NEW q \in Replica, RequestLease(q) PROVE pub' = pub
        BY <3>1, RequestLeaseFacts DEF transport
      <3>2. ASSUME NEW q \in Replica, NEW p \in Replica, TransferLease(q, p) PROVE pub' = pub
        BY <3>2, TransferLeaseFacts DEF transport
      <3>3. ASSUME NEW q \in Replica, NEW x,
                   \/ \E c \in Cmd : Admit(q, c)
                   \/ Refresh(q) \/ Decode(q, x) \/ SideEffects(q) \/ ApplyBatch(q, x)
                   \/ ApplySnapshot(q, x) \/ Restart(q) \/ GetClosedTimestamp(q, x)
            PROVE pub' = pub
        BY <3>3, Zenon DEF Admit, Refresh, Decode, SideEffects, ApplyBatch, ApplySnapshot, Restart,
                    GetClosedTimestamp, transport
      <3>4. ASSUME NEW c \in Cmd, NEW x,
                   Track(c, x) \/ FlushNew(c, x) \/ FlushReproposal(c) \/ FlushAfterError(c)
            PROVE pub' = pub
        BY <3>4, Zenon DEF Track, FlushNew, FlushReproposal, FlushAfterError, transport
      <3> QED BY <1>4, <3>1, <3>2, <3>3, <3>4, Zenon DEF Next
    <2>5. Poised
      BY <1>0, <2>1, <2>2, <2>3, <2>4 DEF Poised
    <2> QED
      BY <1>4, <2>5, AdmitPub, TrackPub, FlushNewPub, FlushedAgainPub, HandlingPub, SideEffectsPub,
         SnapshotPub, RestartPub, RequestPub, TransferPub, GetPub DEF Next
  <1> QED BY <1>1, <1>2, <1>3, <1>4

LEMMA ClosedInvariant == Spec => []ClosedInv
  <1>1. Init => ClosedInv
    BY InitBase, InitLease, InitEntries, InitPub DEF ClosedInv
  <1>2. ClosedInv /\ [Next]_vars => ClosedInv'
    BY BaseStep, LeaseStep, EntryStep, PubStep DEF ClosedInv
  <1> QED BY <1>1, <1>2, PTL DEF Spec

\* No replica ever applies a write at or below a timestamp it holds closed, whatever the
\* leases, restarts, snapshots and reproposals on the way: the promise of
\* propBuf.allocateLAIAndClosedTimestampLocked and BumpSideTransportClosed.
THEOREM NoWriteBelowClosedHolds == Spec => []NoWriteBelowClosed
  <1>1. ClosedInv => NoWriteBelowClosed
    BY ClosedIsBelow DEF ClosedInv
  <1> QED BY <1>1, ClosedInvariant, PTL

\* The side transport never brings a pair that sidetransportAccess.assertNoRegression
\* would crash the node for.
THEOREM NoSideTransportRegressionHolds == Spec => []NoSideTransportRegression
  <1>1. ClosedInv => NoSideTransportRegression
    BY NoRegression DEF ClosedInv
  <1> QED BY <1>1, ClosedInvariant, PTL
====
