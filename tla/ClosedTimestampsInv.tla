------------------------- MODULE ClosedTimestampsInv -------------------------
(***************************************************************************)
(* The invariants of ClosedTimestamps.  Those of a write's copies and      *)
(* answers (OnceInv, RejectInv) and those of what is closed (ClosedInv)    *)
(* share a base: the order of states along the log, and what entries,      *)
(* batches and commands are.                                               *)
(***************************************************************************)
EXTENDS ClosedTimestamps

\* The state the whole log makes, and up to where r has handled side effects.
LastState == StateAt(Len(log))
Fx(r) == IF batch[r] = Idle THEN ap[r] ELSE batch[r].fx
Of(e, c) == e.kind = "write" /\ e.id = c

\* Indexes and lease sequences only grow along the log.
StatesOK ==
    /\ \A n \in 1 .. Len(log) : StateAt(n) = ApplyEntry(StateAt(n - 1), log[n])
    /\ \A m, n \in 0 .. Len(log) :
          m <= n => /\ StateAt(m).lai <= StateAt(n).lai
                    /\ StateAt(m).lease.seq <= StateAt(n).lease.seq
\* A lease follows the one it was proposed under; a write is that of a command that
\* was proposed under the lease it carries.
EntryOK(e) ==
    /\ e.kind # "write" => e.lease.seq \in {e.seq, e.seq + 1}
    /\ e.kind = "write" => cmd[e.id].phase = "proposed" /\ e.seq = cmd[e.id].seq
EntriesOK == (\A e \in net : EntryOK(e)) /\ (\A i \in 1 .. Len(log) : EntryOK(log[i]))
\* What r works on.
BatchOK(r) ==
    /\ ap[r] <= Len(log)
    /\ batch[r] # Idle =>
          /\ batch[r].fx <= ap[r] /\ ap[r] <= batch[r].to
          /\ batch[r].fx < batch[r].to /\ batch[r].to <= Len(log)
          /\ \A i \in batch[r].bound :
                i \in 1 .. batch[r].to /\ log[i].kind = "write" /\ cmd[log[i].id].home = r
BatchesOK == \A r \in Replica : BatchOK(r)
CmdOK(c) ==
    /\ cmd[c].phase # "proposed" =>
          /\ ~ cmd[c].inMap /\ cmd[c].buf = 0 /\ cmd[c].trk = 0 /\ cmd[c].mli = 0
          /\ ~ cmd[c].applied /\ cmd[c].told = "nothing"
    /\ cmd[c].trk # 0 => cmd[c].mli = 0
    /\ cmd[c].applied => cmd[c].told # "nothing"
    /\ cmd[c].phase # "new" => cmd[c].seq <= StateAt(Fx(cmd[c].home)).lease.seq
CmdsOK == \A c \in Cmd : CmdOK(c)

\* An entry that cannot take effect any more.
Dead(e) == e.seq < LastState.lease.seq \/ e.mli <= LastState.lai
\* The proposer may still hand the command to Raft, or act on an entry of it.
Live(c) ==
    \/ cmd[c].inMap \/ cmd[c].buf > 0 \/ cmd[c].trk # 0
    \/ \E i \in batch[cmd[c].home].bound : i > batch[cmd[c].home].fx /\ log[i].id = c
Outdated(e, c) == Of(e, c) /\ (e.mli # cmd[c].mli \/ cmd[c].trk # 0)
\* Only the last index a command was given can take effect.
OldCopiesDead ==
    \A c \in Cmd :
        /\ \A e \in net : Outdated(e, c) => Dead(e)
        /\ \A i \in 1 .. Len(log) : Outdated(log[i], c) => ~ Effective(i)
\* A live command that its proposer does not hold for applied has not taken effect as
\* far as the proposer has looked, and what it has in hand is known to be its own.
Unapplied ==
    \A c \in Cmd : ~ cmd[c].applied /\ Live(c) =>
        \A i \in 1 .. Fx(cmd[c].home) : Of(log[i], c) => ~ Effective(i)
Recognised ==
    \A c \in Cmd : ~ cmd[c].applied /\ Live(c) /\ batch[cmd[c].home] # Idle =>
        \A i \in batch[cmd[c].home].fx + 1 .. batch[cmd[c].home].to :
            Of(log[i], c) /\ Effective(i) => i \in batch[cmd[c].home].bound
\* A rejected command that was never proposed without an index is over.
Over(c) ==
    \/ cmd[c].seq < LastState.lease.seq
    \/ cmd[c].applied /\ cmd[c].trk = 0 /\ cmd[c].mli <= LastState.lai
RejectedIsOver == \A c \in Cmd : cmd[c].told = "rejected" /\ ~ Unindexed(c) => Over(c)

BaseInv == TypeOK /\ StatesOK /\ EntriesOK /\ BatchesOK /\ CmdsOK
OnceInv == BaseInv /\ ~ inst.leaderChange /\ OldCopiesDead /\ Unapplied /\ Recognised
RejectInv == OnceInv /\ RejectedIsOver /\ RejectedUnlessUnindexed

-----------------------------------------------------------------------------
(* The leases of the log and of the requests for them.                     *)

LeaseAt(n) == StateAt(n).lease
Idx == 0 .. Len(log)
SameTerm(l, k) == l.holder = k.holder /\ l.start = k.start /\ l.sum = k.sum

\* Along the log versions and start times grow; the leases of one sequence number
\* are one lease, extended; and the next one starts after its end unless its holder
\* gave it up or lost its memory of it.
LeasesOK ==
    /\ \A r \in Replica : minVer[r] <= ver + 1
    /\ \A n \in Idx : /\ LeaseAt(n).start < LeaseAt(n).exp
                      /\ LeaseAt(n).start <= LeaseAt(n).sum /\ LeaseAt(n).ver <= ver
    /\ \A m, n \in Idx : m <= n =>
          /\ LeaseAt(m).ver <= LeaseAt(n).ver
          /\ LeaseAt(m).ver = LeaseAt(n).ver => LeaseAt(m) = LeaseAt(n)
          /\ LeaseAt(m).seq = LeaseAt(n).seq =>
                /\ SameTerm(LeaseAt(m), LeaseAt(n)) /\ LeaseAt(m).exp <= LeaseAt(n).exp
                /\ minVer[LeaseAt(n).holder] <= LeaseAt(n).ver
                      => minVer[LeaseAt(n).holder] <= LeaseAt(m).ver
          /\ LeaseAt(m).seq < LeaseAt(n).seq =>
                /\ LeaseAt(m).start < LeaseAt(n).start
                /\ \/ LeaseAt(m).exp <= LeaseAt(n).start
                   \/ LeaseAt(m).ver < minVer[LeaseAt(m).holder]

\* The four ways to propose a lease under the lease l.
Extends(e, l) ==
    /\ e.kind = "request" /\ e.lease.seq = l.seq /\ SameTerm(e.lease, l) /\ l.exp < e.lease.exp
    /\ minVer[l.holder] <= e.lease.ver => minVer[l.holder] <= l.ver
TakesOver(e, l) ==
    /\ e.kind = "request" /\ e.lease.seq = l.seq + 1 /\ e.lease.holder # l.holder
    /\ l.exp <= e.lease.start
Renews(e, l) ==
    /\ e.kind = "request" /\ e.lease.seq = l.seq + 1 /\ e.lease.holder = l.holder
    /\ l.start < e.lease.start /\ l.exp <= e.lease.exp /\ l.ver < minVer[l.holder]
    /\ l.seq <= LeaseOf(l.holder).seq
Transfers(e, l) ==
    /\ e.kind = "transfer" /\ e.lease.seq = l.seq + 1 /\ e.lease.holder # l.holder
    /\ l.start < e.lease.start /\ l.exp <= e.lease.exp /\ e.lease.ver <= minVer[l.holder]
    /\ l.seq <= LeaseOf(l.holder).seq
ProposedUnder(e, l) ==
    /\ e.seq = l.seq /\ e.prev = l.ver /\ l.ver < e.lease.ver /\ e.lease.ver <= ver
    /\ e.lease.start < e.lease.exp /\ e.lease.start <= e.lease.sum
    /\ e.kind = "request" => e.ct = 0
    /\ Extends(e, l) \/ TakesOver(e, l) \/ Renews(e, l) \/ Transfers(e, l)
RequestsOK == \A e \in net : e.kind # "write" => \E n \in Idx : ProposedUnder(e, LeaseAt(n))

\* Nobody extends a lease that its holder has proposed to transfer.
LastOfTerm(e) ==
    /\ \A n \in Idx : LeaseAt(n).seq = e.seq => LeaseAt(n).ver < e.lease.ver
    /\ \A f \in net : f.kind = "request" /\ f.seq = e.seq /\ f.lease.seq = e.seq
                         => f.lease.ver < e.lease.ver
TransfersLast == \A e \in net : e.kind = "transfer" => LastOfTerm(e)

\* A lease whose holder had the one before, which it knew when it asked for this one.
Renewed(n) ==
    \E j \in 0 .. n : LeaseAt(j).seq + 1 = LeaseAt(n).seq /\ LeaseAt(j).holder = LeaseAt(n).holder
RenewalsKnown ==
    \A n \in Idx : Renewed(n) => LeaseAt(n).seq <= LeaseOf(LeaseAt(n).holder).seq + 1

LeaseInv == LeasesOK /\ RequestsOK /\ TransfersLast /\ RenewalsKnown

-----------------------------------------------------------------------------
(* The entries of a term, and what its leaseholder remembers of them.      *)

Sent == net \cup {log[i] : i \in 1 .. Len(log)}
Numbered == {e \in Sent : e.kind # "request" /\ e.mli # 0}
\* The holder of the leases numbered q has installed one of them.
Known(q) == \E n \in Idx : LeaseAt(n).seq = q /\ q <= LeaseOf(LeaseAt(n).holder).seq
SentOK ==
    /\ \A e \in Numbered : Known(e.seq)
    /\ \A c \in Cmd : cmd[c].mli # 0 => Write(c) \in Sent
AdmittedOK ==
    \A c \in Cmd :
        /\ cmd[c].phase # "new" =>
              \E n \in 0 .. Fx(cmd[c].home) :
                  LeaseAt(n).seq = cmd[c].seq /\ LeaseAt(n).holder = cmd[c].home
        /\ cmd[c].trk # 0 => cmd[c].trk <= cmd[c].wts
        /\ cmd[c].wts # 0 => cmd[c].phase = "proposed"

\* r acts on the lease it installed: it may use it, or it works on a write under it.
Claims(c, r) ==
    /\ cmd[c].phase # "new" /\ cmd[c].home = r /\ cmd[c].seq = LeaseOf(r).seq
    /\ ~ cmd[c].applied \/ cmd[c].trk # 0
Alive(r) ==
    /\ LeaseOf(r).holder = r
    /\ minVer[r] <= LeaseOf(r).ver \/ \E c \in Cmd : Claims(c, r)
\* While it does, what it has assigned is above all there is of the term.
AboveTerm(r) ==
    /\ LeaseOf(r).sum <= low[r]
    /\ \A n \in Idx : LeaseAt(n).seq = LeaseOf(r).seq => StateAt(n).ct <= assigned[r].ct
    /\ \A e \in Numbered : e.seq = LeaseOf(r).seq
                              => e.ct <= assigned[r].ct /\ e.mli <= assigned[r].lai
    /\ \A c \in Cmd : cmd[c].home = r /\ cmd[c].seq = LeaseOf(r).seq /\ cmd[c].trk # 0
                              => assigned[r].ct < cmd[c].trk
MemoryOK == \A r \in Replica : Alive(r) => AboveTerm(r)

\* Closed timestamps grow along the log.
ClosedGrows == \A m, n \in Idx : m <= n => StateAt(m).ct <= StateAt(n).ct
\* Nothing was proposed in a term its holder has not installed.
Quiet ==
    \A m, n \in Idx :
        LeaseAt(m).seq = LeaseAt(n).seq
        /\ (StateAt(m).ct # StateAt(n).ct \/ StateAt(m).lai # StateAt(n).lai)
            => LeaseAt(m).seq <= LeaseOf(LeaseAt(m).holder).seq
Current(e) == e.seq = LastState.lease.seq
After(ct, e) == ct <= e.ct /\ (e.kind = "write" => ct < e.wts)
\* And with the indexes of the last term: a write is above what is closed before it.
InOrder ==
    \A e, f \in Numbered : Current(e) /\ Current(f) /\ e.mli < f.mli => After(e.ct, f)
AboveStates ==
    \A e \in Numbered : Current(e) =>
        \A n \in Idx : LeaseAt(n).seq = e.seq /\ StateAt(n).lai < e.mli => After(StateAt(n).ct, e)

\* A write that may still take effect is in its proposer's map or batch.
InBatch(c, x) ==
    LET b == batch[cmd[c].home] IN
    b # Idle /\ \E i \in b.bound : i > b.fx /\ log[i].id = c /\ log[i].mli = x
Ahead(e, r) == Alive(r) /\ e.seq = LeaseOf(r).seq /\ StateAt(Fx(r)).lai < e.mli
Holds(c, x) == x = cmd[c].mli /\ cmd[c].trk = 0 /\ (cmd[c].inMap \/ InBatch(c, x))
InHand(e) == Ahead(e, cmd[e.id].home) => Holds(e.id, e.mli)
InFlight == \A e \in Numbered : e.kind = "write" => InHand(e)

EntryInv ==
    /\ SentOK /\ AdmittedOK /\ MemoryOK /\ ClosedGrows /\ Quiet /\ InOrder /\ AboveStates
    /\ InFlight

-----------------------------------------------------------------------------
(* What was published.                                                     *)

\* It was published under a lease its publisher had installed, before its end.
PubOK ==
    \A m \in pub : \E n \in 0 .. Fx(m.from) :
        /\ LeaseAt(n).seq = m.seq /\ LeaseAt(n).holder = m.from
        /\ StateAt(n).lai = m.lai /\ m.ts < LeaseAt(n).exp
\* A later leaseholder learns of it from its lease or from the log, unless it was
\* the leaseholder before.
PubBelow ==
    \A m \in pub : \A n \in Idx : m.seq < LeaseAt(n).seq =>
        /\ m.ts < LeaseAt(n).exp
        /\ Renewed(n) \/ m.ts <= LeaseAt(n).sum \/ m.ts <= StateAt(n).ct
TransfersAbove ==
    \A e \in net : e.kind = "transfer" =>
        \A m \in pub : m.seq <= e.seq =>
            /\ m.ts <= e.lease.sum \/ m.ts <= e.ct
            /\ m.seq = e.seq => m.ts < e.lease.exp
Remembered ==
    \A r \in Replica : LeaseOf(r).holder = r =>
        \A m \in pub : m.seq <= LeaseOf(r).seq =>
            m.ts <= assigned[r].ct \/ m.ts <= low[r] \/ m.ts <= LeaseOf(r).start
PubAssigned ==
    \A r \in Replica : Alive(r) => \A m \in pub : m.seq = LeaseOf(r).seq => m.ts <= assigned[r].ct
PubGrows ==
    \A m, k \in pub : /\ m.seq < k.seq => m.ts <= k.ts
                      /\ m.seq = k.seq /\ m.lai < k.lai => m.ts <= k.ts
\* Writes are above it, unless it waits for them to be applied.
TermBelow(c) ==
    /\ LeaseOf(cmd[c].home).sum < cmd[c].wts
    /\ \A m \in pub : m.seq < cmd[c].seq => m.ts < cmd[c].wts
CommandsAbove ==
    \A c \in Cmd : cmd[c].wts # 0 /\ cmd[c].seq = LeaseOf(cmd[c].home).seq => TermBelow(c)
AbovePub(e) ==
    /\ \A m \in pub : m.lai < e.mli => m.ts < e.wts
    /\ \A n \in Idx : LeaseAt(n).seq = e.seq => LeaseAt(n).sum < e.wts
WritesAbove ==
    /\ \A e \in Numbered : Current(e) /\ e.kind = "write" => AbovePub(e)
    /\ \A i \in 1 .. Len(log) : log[i].kind = "write" /\ Effective(i) =>
          AbovePub(log[i]) /\ \A n \in 0 .. i - 1 : StateAt(n).ct < log[i].wts
FromPub(p, S) == (p.ts = 0 /\ p.lai = 0) \/ \E m \in S : p.ts = m.ts /\ p.lai = m.lai
SideOK ==
    \A r \in Replica : /\ FromPub(side[r].cur, pub) /\ FromPub(side[r].next, pub)
                       /\ side[r].cur.lai <= State(r).lai

PubInv ==
    /\ PubOK /\ PubBelow /\ TransfersAbove /\ Remembered /\ PubAssigned /\ PubGrows
    /\ CommandsAbove /\ WritesAbove /\ SideOK

ClosedInv == BaseInv /\ LeaseInv /\ EntryInv /\ PubInv
=============================================================================
