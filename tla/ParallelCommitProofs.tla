------------------------ MODULE ParallelCommitProofs ------------------------
(***************************************************************************)
(* A transaction that commits in parallel commits at one instant, whatever *)
(* is delayed, sent again, pushed or recovered meanwhile.                  *)
(***************************************************************************)
EXTENDS ParallelCommit, WellFoundedInduction, TLAPS

\* A write of the transaction at k in epoch e at or below t.
Has(k, e, t) == HasIntent(k) /\ intent[k].epoch = e /\ intent[k].ts <= t
\* There is none, and there never will be.
Blocked(k, e, t) == readTs[k] >= t /\ ~ Has(k, e, t)
SomeBlocked(e, t) == \E k \in Key : Blocked(k, e, t)
Staged == rec.status \in {"STAGING", "COMMITTED"}
StagedAt(e, t) == Staged /\ rec.epoch = e /\ rec.ts = t
\* The record is gone for good.
Dead == rec.status = "ABORTED" \/ (rec.status = "none" /\ tomb = "set")
AllAt(t) == \A k \in Key : value[k] = t
Nothing == rec.status # "COMMITTED" /\ AllAt(0)
IsStage(m, e) == m.op = "stage" /\ m.epoch = e
\* The coordinator has given the parallel commit of epoch e at t up.
Past(e, t) ==
    \/ epoch > e
    \/ epoch = e /\ (rts > t \/ pc \in {"retry", "restart"} \/ told = "aborted")

EpochsOK ==
    /\ rec.epoch <= epoch
    /\ \A k \in Key : intent[k].epoch <= epoch
    /\ \A m \in net : m.epoch <= epoch
TimesOK ==
    /\ rts <= wts
    /\ pc \in {"commit", "prefix", "endtxn"} => rts = wts
    /\ pc \in {"retry", "again"} => rts < wts
    /\ told \in {"committed", "error"} => rts = wts
    /\ pc \in {"commit", "retry", "prefix"} => built \in Ts /\ built <= rts
    /\ pc = "commit" => built = rts
PhaseOK ==
    /\ pc = "done" <=> told # "nothing"
    /\ pc \notin {"commit", "endtxn"} => et = NoCall
    /\ pc \in {"retry", "restart", "again", "endtxn"} => sub = [k \in Key |-> NoCall]
    /\ pc = "run" => \A k \in Key : sub[k] = NoCall \/ sub[k] = Call("piped", 0, 0)
    /\ pc \in {"commit", "endtxn"} => et.st \notin {"none", "piped", "missing"}
    /\ pc \in {"commit", "prefix"} => \A k \in Key : sub[k].st \notin {"none", "piped", "aborted"}
NetAt(m) ==
    /\ m.rts <= m.wts /\ m.wts <= wts /\ m.rts <= rts
    /\ m.op \in {"stage", "commit", "qi"} => m.rts = m.wts
    /\ m.op = "put" /\ m.key \notin Pipelined => m.rts = m.wts
    /\ m.op = "qi" => m.qts <= m.rts
    /\ m.op = "qi" /\ m.epoch = epoch => pc # "run" /\ (pc = "commit" => m.qts = rts)
    /\ m.op = "put" /\ m.key \notin Pipelined /\ m.epoch = epoch =>
          pc # "run" /\ (pc = "commit" => m.rts = rts /\ (m.att = 2 => m.prot))
    /\ IsStage(m, epoch) => pc # "run" /\ (pc = "commit" => m.rts = rts)
                            /\ (pc \in {"prefix", "again", "endtxn"} => m.rts < rts)
    /\ m.op = "abort" => pc = "done" /\ told # "committed"
    /\ m.op = "commit" =>
          pc \in {"endtxn", "done"} /\ told # "aborted" /\ m.epoch = epoch /\ m.rts = rts
NetOK == \A m \in net : NetAt(m)
RecOK ==
    /\ rec.status # "none" => tomb = "set"
    /\ Staged => rec.ts <= rts /\ rec.ts # 0
    /\ Staged /\ rec.epoch = epoch => pc # "run" /\ (pc = "commit" => rec.ts = rts)
    /\ rec.status = "STAGING" /\ rec.epoch = epoch /\ pc \in {"prefix", "again", "endtxn"} => rec.ts < rts
PastOK ==
    /\ rec.status = "STAGING" /\ Past(rec.epoch, rec.ts) => SomeBlocked(rec.epoch, rec.ts)
    /\ \A m \in net : m.op = "stage" /\ Past(m.epoch, m.rts) => SomeBlocked(m.epoch, m.rts)
AfterCommit == pc \in {"commit", "endtxn", "done"} /\ told # "aborted"
CommittedOK ==
    rec.status = "COMMITTED" =>
        /\ rec.epoch = epoch /\ rec.ts = rts /\ AfterCommit
        /\ \A k \in Key : \/ value[k] = rts /\ ~ HasIntent(k)
                          \/ value[k] = 0 /\ Has(k, epoch, rts)
GoneOK ==
    rec.status # "COMMITTED" =>
        \/ AllAt(0)
        \/ /\ AllAt(rts) /\ Dead /\ AfterCommit
           /\ \A k \in Key : ~ HasIntent(k)
           /\ told # "error" => rec.status = "none"
\* Where the timestamps of intents come from.
Justified(k, t) == t <= wts \/ t <= readTs[k] + 1 \/ (~ Staged /\ t <= push)
IntentsOK == \A k \in Key : Justified(k, intent[k].ts)
\* An intent at k was seen at t: there is none below it, and there never will be.
SeenHigh(k, t) == t <= readTs[k] + 1 /\ (HasIntent(k) => intent[k].ts >= t)
SeenJustified(k, t) == t <= wts \/ SeenHigh(k, t) \/ (~ Staged /\ t <= push)
SeenOK(p) ==
    /\ seen[p].epoch <= epoch /\ work[p].epoch <= epoch
    /\ SeenJustified(seen[p].key, seen[p].ts)
    /\ ppc[p] \in {"idle", "push"} => found[p] = {}
WorkOK(p) ==
    ppc[p] = "resolve" =>
        /\ work[p].status # "none"
        /\ work[p].status = "ABORTED" => Dead
        /\ work[p].status = "COMMITTED" =>
              \/ rec = work[p]
              \/ (AllAt(work[p].ts) /\ Dead)
        /\ work[p].status = "PENDING" => work[p].ts <= push /\ (Staged => work[p].ts <= rec.ts)
        /\ work[p].status = "STAGING" => work[p].ts <= rts /\ (Dead \/ (Staged /\ work[p].ts <= rec.ts))
Probes(p, e, t) ==
    /\ t # 0 /\ (ppc[p] = "recover" => todo[p] = {})
    /\ Staged \/ Dead
    /\ Staged => rec.epoch > e \/ (rec.epoch = e /\ rec.ts >= t)
    /\ Prevented(p) => SomeBlocked(e, t)
    /\ ~ Prevented(p) =>
          \/ StagedAt(e, t) /\ \A k \in Key \ todo[p] : Has(k, e, t) \/ value[k] = t
          \/ AllAt(t) /\ Dead
          \/ \E k \in todo[p] \cap Key : Blocked(k, e, t)
ProbeOK(p) == ppc[p] \in {"probe", "recover"} => Probes(p, work[p].epoch, work[p].ts)
PromisedOK ==
    /\ Dead \/ Staged \/ promised <= push
    /\ Staged => promised <= rec.ts
\* The parallel commit that is under way.
Confirmed(k) == sub[k].st = "ok" /\ sub[k].ts <= rts
NeverStaged == ~ (Staged /\ rec.epoch = epoch) /\ Nothing
StageOK ==
    pc = "commit" =>
        /\ et = Waiting(1) => NeverStaged /\ \A m \in net : IsStage(m, epoch) => m.att = 1
        /\ et.st \in {"retry", "aborted"} => NeverStaged /\ \A m \in net : ~ IsStage(m, epoch)
        /\ et.st = "retry" => et.ts > rts
        /\ et.st = "aborted" => Dead
        /\ et.st = "ok" => /\ et.ts = rts
                           /\ \/ StagedAt(epoch, rts)
                              \/ AllAt(rts)
                              \/ Dead /\ \E k \in Key : Blocked(k, epoch, rts) /\ ~ Confirmed(k)
WritesOK(k) ==
    pc = "commit" =>
        /\ sub[k] = Waiting(1) /\ k \notin Pipelined =>
              /\ value[k] = 0 /\ ~ (HasIntent(k) /\ intent[k].epoch = epoch)
              /\ \A m \in net : m.op = "put" /\ m.key = k /\ m.epoch = epoch => m.att = 1
        /\ Confirmed(k) => \/ Has(k, epoch, rts) \/ value[k] = rts
                           \/ ~ (Staged /\ rec.epoch = epoch) /\ (Dead \/ push > rts)
        /\ (sub[k].st = "ok" /\ sub[k].ts > rts) \/ sub[k].st = "retry" => Blocked(k, epoch, rts) /\ Nothing
        /\ sub[k].st = "missing" => k \in Pipelined /\ sub[k].ts <= rts /\ Blocked(k, epoch, rts)
        /\ sub[k].st = "retry" => sub[k].ts > rts
\* The commit that follows a refresh.
InPlace(k, t) ==
    \/ Dead
    \/ /\ HasIntent(k) /\ intent[k].epoch = epoch
       /\ intent[k].ts <= t \/ (rec.status \in {"none", "PENDING"} /\ intent[k].ts <= push)
PrefixOK ==
    pc = "prefix" => \A k \in Key :
        /\ sub[k].st = "ok" => sub[k].ts >= rts /\ InPlace(k, sub[k].ts)
        /\ sub[k].st = "retry" => sub[k].ts > rts
ReadyOK ==
    pc \in {"endtxn", "again"} \/ (\E m \in net : m.op = "commit") =>
        rec.status = "COMMITTED" \/ AllAt(rts) \/ \A k \in Key : InPlace(k, rts)
EndTxnOK ==
    pc = "endtxn" =>
        /\ et = Waiting(1) => Nothing /\ \A m \in net : m.op = "commit" => m.att = 1
        /\ et.st \in {"retry", "aborted"} => Nothing /\ \A m \in net : m.op # "commit"
        /\ et.st = "retry" => et.ts > rts
        /\ et.st = "ok" => rec.status = "COMMITTED" \/ AllAt(rts)
\* The writes of the commit batch have not been sent in this epoch yet.
UnsentOK ==
    pc = "run" => \A k \in Key \ Pipelined : ~ (HasIntent(k) /\ intent[k].epoch = epoch)
ToldOK ==
    told = "committed" =>
        \/ rec.status = "COMMITTED" \/ AllAt(rts)
        \/ StagedAt(epoch, rts) /\ \A k \in Key : Has(k, epoch, rts)
\* The inductive invariant, in three parts: the record and the store; the calls of the
\* batch that is under way; and the other transactions.
CoreInv ==
    /\ EpochsOK /\ TimesOK /\ NetOK /\ RecOK /\ PastOK /\ CommittedOK /\ GoneOK
    /\ IntentsOK /\ PromisedOK /\ ReadyOK /\ UnsentOK /\ ToldOK
CallInv == PhaseOK /\ StageOK /\ PrefixOK /\ EndTxnOK /\ \A k \in Key : WritesOK(k)
PusherInv(p) == SeenOK(p) /\ WorkOK(p) /\ ProbeOK(p)
IInv == TypeOK /\ CoreInv /\ CallInv /\ \A p \in Pusher : PusherInv(p)

CoordStill == UNCHANGED <<pc, epoch, rts, wts, built, told>>
PusherStill(p) ==
    /\ ppc'[p] = ppc[p] /\ seen'[p] = seen[p] /\ work'[p] = work[p]
    /\ todo'[p] = todo[p] /\ found'[p] = found[p]
ReadsGrow == \A k \in Key : readTs'[k] \in Nat /\ readTs'[k] >= readTs[k]
BlockedStays ==
    \A k \in Key, e \in Nat, t \in Nat : Blocked(k, e, t) => Blocked(k, e, t)'
SeenStays == \A k \in Key, t \in Nat : SeenHigh(k, t) => SeenHigh(k, t)'
\* The coordinator's bookkeeping of a key.
PrefixAt(k) ==
    pc = "prefix" =>
        /\ sub[k].st = "ok" => sub[k].ts >= rts /\ InPlace(k, sub[k].ts)
        /\ sub[k].st = "retry" => sub[k].ts > rts

-----------------------------------------------------------------------------
(* Greatest elements.                                                      *)

LEMMA LeastNat ==
    ASSUME NEW S \in SUBSET Nat, S # {}
    PROVE Min(S) \in S /\ \A x \in S : Min(S) <= x
  <1> DEFINE R == {p \in Nat \X Nat : p[1] < p[2]}
  <1>1. R = OpToRel(<, Nat)
    BY Zenon DEF OpToRel
  <1>2. IsWellFoundedOn(R, Nat)
    BY <1>1, NatLessThanWellFounded
  <1>3. PICK x \in S : \A y \in S : ~ (<<y, x>> \in R)
    <2> HIDE DEF R
    <2> QED
      BY <1>2, WFMin
  <1>4. \A y, z \in Nat : y < z => <<y, z>> \in R
    BY Zenon
  <1>5. \A y \in S : x <= y
    <2> HIDE DEF R
    <2> TAKE y \in S
    <2>1. y \in Nat /\ x \in Nat
      OBVIOUS
    <2>2. ~ (y < x)
      BY <1>3, <1>4, <2>1, Zenon
    <2> QED
      BY <2>1, <2>2
  <1> QED
    BY <1>5 DEF Min

LEMMA GreatestNat ==
    ASSUME NEW S \in SUBSET Nat, S # {}, NEW b \in Nat, \A x \in S : x <= b
    PROVE Max(S) \in S /\ \A x \in S : x <= Max(S)
  <1> DEFINE T == {b - x : x \in S}
  <1>1. T \in SUBSET Nat /\ T # {}
    <2>1. \A x \in S : x \in Nat /\ b - x \in Nat
      OBVIOUS
    <2> QED
      BY <2>1, Zenon
  <1>2. Min(T) \in T /\ \A y \in T : Min(T) <= y
    BY <1>1, LeastNat
  <1>3. PICK x \in S : Min(T) = b - x
    BY <1>2
  <1>4. \A y \in S : y <= x
    <2> TAKE y \in S
    <2>1. b - x <= b - y
      BY <1>2, <1>3
    <2> QED
      BY <2>1
  <1> QED
    BY <1>4 DEF Max

-----------------------------------------------------------------------------
(* Types.                                                                  *)

LEMMA Consts ==
    /\ MaxTs \in Nat /\ MaxTs >= 1 /\ MaxEpoch \in Nat /\ Key # {} /\ TheRecord \notin Key
    /\ Pipelined \subseteq Key /\ Ts \subseteq Ts0 /\ Ts0 \subseteq Nat /\ Epoch \subseteq Nat
    /\ 1 \in Ts /\ 0 \in Ts0 /\ 0 \in Epoch
    /\ \A t \in Nat : t <= MaxTs => t \in Ts0 /\ (t # 0 => t \in Ts)
    /\ \A t \in Ts0 : t \in Nat /\ t <= MaxTs
    /\ \A t \in Ts : t \in Nat /\ t <= MaxTs /\ t # 0
    /\ \A b \in Budget : b.ts \in Nat /\ b.ts <= MaxTs /\ b.restarts \in Nat /\ b.restarts <= MaxEpoch
  BY ParallelCommitAssumption DEF Ts, Ts0, Epoch, Budget

LEMMA ForwardNat ==
    ASSUME NEW s \in Nat, NEW t \in Nat
    PROVE /\ Forward(s, t) \in Nat /\ Forward(s, t) >= s /\ Forward(s, t) >= t
          /\ Forward(s, t) = s \/ Forward(s, t) = t
  BY DEF Forward
LEMMA ForwardFacts ==
    ASSUME NEW s \in Nat, NEW t \in Nat
    PROVE /\ Forward(s, t) \in Nat /\ Forward(s, t) >= s /\ Forward(s, t) >= t
          /\ Forward(s, t) = s \/ Forward(s, t) = t
          /\ s \in Ts0 /\ t \in Ts0 => Forward(s, t) \in Ts0
          /\ s \in Ts0 /\ t \in Ts => Forward(s, t) \in Ts
          /\ s \in Ts /\ t \in Ts0 => Forward(s, t) \in Ts
  BY Consts DEF Forward, Ts, Ts0

LEMMA RequestTypes ==
    ASSUME NEW m \in Requests
    PROVE /\ m.op \in {"put", "qi", "stage", "commit", "abort"}
          /\ m.epoch \in Epoch /\ m.rts \in Ts /\ m.wts \in Ts /\ m.att \in 1 .. 2
          /\ m.epoch \in Nat /\ m.rts \in Nat /\ m.wts \in Nat
          /\ m.op \in {"put", "qi"} => m.key \in Key
          /\ m.op = "put" => m.prot \in BOOLEAN
          /\ m.op = "qi" => m.qts \in Ts /\ m.qts \in Nat
  BY Consts DEF Requests

LEMMA StateTypes ==
    ASSUME TypeOK
    PROVE /\ rec.status \in Status \cup {"none"} /\ rec.epoch \in Nat /\ rec.ts \in Nat /\ push \in Nat
          /\ promised \in Nat /\ epoch \in Nat /\ rts \in Nat /\ wts \in Nat /\ rts # 0 /\ wts # 0
          /\ rts \in Ts /\ wts \in Ts /\ built \in Nat
          /\ \A k \in Key : /\ intent[k].epoch \in Nat /\ intent[k].ts \in Nat
                            /\ value[k] \in Nat /\ readTs[k] \in Nat
                            /\ sub[k].ts \in Nat /\ sub[k].st \in CallState
          /\ et.ts \in Nat /\ et.st \in CallState
          /\ left.ts \in Nat /\ left.ts <= MaxTs
          /\ \A p \in Pusher : /\ seen[p].key \in Key /\ seen[p].epoch \in Nat /\ seen[p].ts \in Nat
                               /\ work[p].status \in Status \cup {"none"}
                               /\ work[p].epoch \in Nat /\ work[p].ts \in Nat
                               /\ todo[p] \subseteq Key \cup {TheRecord}
          /\ \A m \in net : m \in Requests
  <1> USE Consts DEF TypeOK
  <1>1. /\ rec.status \in Status \cup {"none"} /\ rec.epoch \in Nat /\ rec.ts \in Nat /\ push \in Nat
        /\ promised \in Nat /\ epoch \in Nat /\ rts \in Nat /\ wts \in Nat /\ rts # 0 /\ wts # 0
        /\ rts \in Ts /\ wts \in Ts /\ built \in Nat
    OBVIOUS
  <1>2. ASSUME NEW k \in Key
        PROVE /\ intent[k].epoch \in Nat /\ intent[k].ts \in Nat
              /\ value[k] \in Nat /\ readTs[k] \in Nat
              /\ sub[k].ts \in Nat /\ sub[k].st \in CallState
    OBVIOUS
  <1>3. et.ts \in Nat /\ et.st \in CallState /\ left.ts \in Nat /\ left.ts <= MaxTs
    OBVIOUS
  <1>4. ASSUME NEW p \in Pusher
        PROVE /\ seen[p].key \in Key /\ seen[p].epoch \in Nat /\ seen[p].ts \in Nat
              /\ work[p].status \in Status \cup {"none"}
              /\ work[p].epoch \in Nat /\ work[p].ts \in Nat
              /\ todo[p] \subseteq Key \cup {TheRecord}
    OBVIOUS
  <1> QED
    BY <1>1, <1>2, <1>3, <1>4

LEMMA AnswerKeyType ==
    ASSUME TypeOK, NEW m \in net, m.key \in Key, NEW s \in CallState, NEW t \in Ts0, AnswerKey(m, s, t)
    PROVE sub' \in [Key -> [st : CallState, att : 0 .. 2, ts : Ts0]] /\ net' \subseteq Requests
  <1>1. Verdict(s, m.att) \in CallState
    BY DEF Verdict, CallState
  <1>2. m \in Requests /\ m.att \in 0 .. 2
    BY RequestTypes DEF TypeOK
  <1>3. Call(Verdict(s, m.att), m.att, t) \in [st : CallState, att : 0 .. 2, ts : Ts0]
    BY <1>1, <1>2 DEF Call
  <1> QED
    BY <1>3 DEF AnswerKey, TypeOK

LEMMA AnswerEndTxnType ==
    ASSUME TypeOK, NEW m \in net, NEW s \in CallState, NEW t \in Ts0, AnswerEndTxn(m, s, t)
    PROVE et' \in [st : CallState, att : 0 .. 2, ts : Ts0] /\ net' \subseteq Requests
  <1>1. Verdict(s, m.att) \in CallState
    BY DEF Verdict, CallState
  <1>2. m \in Requests /\ m.att \in 0 .. 2
    BY RequestTypes DEF TypeOK
  <1>3. Call(Verdict(s, m.att), m.att, t) \in [st : CallState, att : 0 .. 2, ts : Ts0]
    BY <1>1, <1>2 DEF Call
  <1> QED
    BY <1>3 DEF AnswerEndTxn, TypeOK

LEMMA BumpedType ==
    ASSUME TypeOK, NEW k \in Key, NEW t \in Ts
    PROVE /\ Bumped(k, t) \in Nat /\ Bumped(k, t) >= t /\ Bumped(k, t) > readTs[k] /\ Bumped(k, t) # 0
          /\ Bumped(k, t) = t \/ Bumped(k, t) = readTs[k] + 1
          /\ Bumped(k, t) <= left.ts => Bumped(k, t) \in Ts
  <1>1. readTs[k] + 1 \in Nat /\ t \in Nat /\ t # 0 /\ readTs[k] \in Nat /\ left.ts \in Nat /\ left.ts <= MaxTs
    BY Consts, StateTypes
  <1>2. /\ Bumped(k, t) \in Nat /\ Bumped(k, t) >= t /\ Bumped(k, t) >= readTs[k] + 1
        /\ Bumped(k, t) = t \/ Bumped(k, t) = readTs[k] + 1
    BY <1>1, ForwardNat DEF Bumped
  <1>3. Bumped(k, t) > readTs[k] /\ Bumped(k, t) # 0 /\ (Bumped(k, t) <= left.ts => Bumped(k, t) <= MaxTs)
    BY <1>1, <1>2, Consts
  <1> QED
    BY <1>2, <1>3, Consts

LEMMA SetIntentType ==
    ASSUME TypeOK, NEW k \in Key, NEW e \in Epoch, NEW t \in Nat, t # 0, SetIntent(k, e, t)
    PROVE /\ intent' \in [Key -> [epoch : Epoch, ts : Ts0]]
          /\ intent'[k].epoch = e /\ intent'[k].ts = t
          /\ \A q \in Key : q # k => intent'[q] = intent[q]
          /\ value' = value /\ readTs' = readTs
  <1>1. t \in Ts0
    BY Consts, StateTypes DEF SetIntent
  <1>2. Intent(e, t) \in [epoch : Epoch, ts : Ts0] /\ Intent(e, t).epoch = e /\ Intent(e, t).ts = t
    BY <1>1 DEF Intent
  <1> QED
    BY <1>2 DEF SetIntent, TypeOK

LEMMA MarkReadType ==
    ASSUME TypeOK, NEW k \in Key, NEW t \in Ts0, MarkRead(k, t)
    PROVE /\ readTs' \in [Key -> Ts0] /\ readTs'[k] >= t
          /\ \A q \in Key : readTs'[q] >= readTs[q]
          /\ intent' = intent /\ value' = value
  <1>1. readTs[k] \in Ts0 /\ \A q \in Key : readTs[q] \in Nat
    BY StateTypes DEF TypeOK
  <1>2. Forward(readTs[k], t) \in Ts0 /\ Forward(readTs[k], t) >= readTs[k] /\ Forward(readTs[k], t) >= t
    BY <1>1, Consts, ForwardFacts
  <1> QED
    BY <1>1, <1>2 DEF MarkRead, TypeOK

\* What each way of evaluating a write does.
PutFrame(m) ==
    /\ m.key \in Key /\ m.op = "put"
    /\ UNCHANGED <<record, pusher, promised, left, value, readTs>>
    /\ UNCHANGED <<pc, epoch, rts, wts, et, built, told>>
    /\ net' = net \ {m}
PutReplayed(m) ==
    /\ UNCHANGED intent /\ HasIntent(m.key) /\ intent[m.key].epoch = m.epoch
    /\ ReplayAllowed(m) /\ AnswerKey(m, "ok", Bumped(m.key, m.wts)) /\ Bumped(m.key, m.wts) \in Ts0
PutFailed(m) == UNCHANGED intent /\ \E t \in Ts0 : AnswerKey(m, "fail", t)
PutTooOld(m) ==
    /\ UNCHANGED intent /\ AboveValue(m) \in Ts0 /\ AnswerKey(m, "retry", AboveValue(m))
    /\ AboveValue(m) > m.rts /\ value[m.key] >= m.rts
PutWritten(m) ==
    /\ ~ (HasIntent(m.key) /\ intent[m.key].epoch >= m.epoch)
    /\ HasIntent(m.key) \/ value[m.key] < m.rts
    /\ AnswerKey(m, "ok", Bumped(m.key, m.wts)) /\ Bumped(m.key, m.wts) \in Ts0
    /\ intent' \in [Key -> [epoch : Epoch, ts : Ts0]]
    /\ intent'[m.key].epoch = m.epoch
    /\ intent'[m.key].ts >= Bumped(m.key, m.wts)
    /\ intent'[m.key].ts = Bumped(m.key, m.wts) \/ (intent'[m.key].ts = intent[m.key].ts /\ HasIntent(m.key))
    /\ \A q \in Key : q # m.key => intent'[q] = intent[q]

LEMMA PutFacts ==
    ASSUME TypeOK, Blind = {}, NEW m \in net, Put(m)
    PROVE PutFrame(m) /\ (PutReplayed(m) \/ PutFailed(m) \/ PutTooOld(m) \/ PutWritten(m))
  <1> DEFINE k == m.key
             b == Bumped(m.key, m.wts)
  <1>1. /\ m \in Requests /\ m.op = "put" /\ k \in Key /\ m.wts \in Ts /\ m.rts \in Nat /\ m.epoch \in Epoch
        /\ m.epoch \in Nat /\ m.wts \in Ts0
    BY StateTypes, RequestTypes, Consts DEF Put
  <1>2. b \in Nat /\ b # 0 /\ (b <= left.ts => b \in Ts0)
    BY <1>1, BumpedType, Consts
  <1>3. /\ UNCHANGED <<record, pusher, promised, left>>
        /\ intent[k].epoch \in Nat /\ intent[k].ts \in Nat /\ value[k] \in Nat /\ readTs[k] \in Nat
        /\ left.ts \in Nat /\ left.ts <= MaxTs
    BY <1>1, StateTypes DEF Put
  <1>4. ASSUME NEW s, NEW t, AnswerKey(m, s, t), UNCHANGED <<value, readTs>>
        PROVE PutFrame(m)
    <2>1. net' = net \ {m} /\ UNCHANGED <<pc, epoch, rts, wts, et, built, told>>
      BY <1>4 DEF AnswerKey
    <2> QED
      BY <1>1, <1>3, <1>4, <2>1 DEF PutFrame
  <1>5. UNCHANGED store => UNCHANGED intent /\ UNCHANGED <<value, readTs>>
    BY DEF store
  <1> HIDE DEF k, b
  <1>6. CASE Replay(m)
    <2>1. UNCHANGED store /\ b <= left.ts /\ HasIntent(k) /\ intent[k].epoch = m.epoch
      BY <1>6 DEF Replay, k, b
    <2>2. CASE ReplayAllowed(m)
      <3>1. AnswerKey(m, "ok", b)
        BY <1>6, <2>2 DEF Replay, b
      <3> QED
        BY <1>2, <1>4, <1>5, <2>1, <2>2, <3>1 DEF PutReplayed, k, b
    <2>3. CASE ~ ReplayAllowed(m)
      <3>1. AnswerKey(m, "fail", b)
        BY <1>6, <2>3 DEF Replay, b
      <3> QED
        BY <1>2, <1>4, <1>5, <2>1, <3>1 DEF PutFailed
    <2> QED
      BY <2>2, <2>3
  <1>7. CASE StaleEpoch(m)
    <2>1. UNCHANGED store /\ AnswerKey(m, "fail", m.wts)
      BY <1>7 DEF StaleEpoch
    <2> QED
      BY <1>1, <1>4, <1>5, <2>1 DEF PutFailed
  <1>8. CASE Rewrite(m)
    <2> DEFINE f == Forward(b, intent[k].ts)
    <2>1. f \in Nat /\ f # 0 /\ f >= b /\ (f = b \/ f = intent[k].ts)
      <3>1. f \in Nat /\ f >= b /\ (f = b \/ f = intent[k].ts)
        BY <1>2, <1>3, ForwardNat
      <3> QED
        BY <1>2, <3>1
    <2>2. SetIntent(k, m.epoch, f) /\ AnswerKey(m, "ok", b) /\ HasIntent(k) /\ intent[k].epoch < m.epoch
      BY <1>8 DEF Rewrite, k, b
    <2>3. f <= left.ts
      BY <2>2 DEF SetIntent
    <2>4. b \in Ts0
      BY <1>2, <1>3, <2>1, <2>3
    <2> HIDE DEF f
    <2>5. /\ intent' \in [Key -> [epoch : Epoch, ts : Ts0]]
          /\ intent'[k].epoch = m.epoch /\ intent'[k].ts = f
          /\ \A q \in Key : q # k => intent'[q] = intent[q]
          /\ UNCHANGED <<value, readTs>>
      BY <1>1, <2>1, <2>2, SetIntentType DEF k
    <2>6. PutFrame(m)
      BY <1>4, <2>2, <2>5
    <2>7. ~ (intent[k].epoch >= m.epoch)
      BY <1>1, <1>3, <2>2
    <2>8. PutWritten(m)
      BY <2>1, <2>2, <2>4, <2>5, <2>7 DEF PutWritten, k, b
    <2> QED
      BY <2>6, <2>8
  <1>9. CASE FirstWrite(m)
    <2>1. SetIntent(k, m.epoch, b) /\ AnswerKey(m, "ok", b) /\ ~ HasIntent(k) /\ value[k] < m.rts
      BY <1>9 DEF FirstWrite, k, b
    <2>2. b <= left.ts /\ b \in Ts0
      BY <1>2, <2>1 DEF SetIntent
    <2>3. /\ intent' \in [Key -> [epoch : Epoch, ts : Ts0]]
          /\ intent'[k].epoch = m.epoch /\ intent'[k].ts = b
          /\ \A q \in Key : q # k => intent'[q] = intent[q]
          /\ UNCHANGED <<value, readTs>>
      BY <1>1, <1>2, <2>1, SetIntentType DEF k
    <2>4. PutFrame(m)
      BY <1>4, <2>1, <2>3
    <2>5. PutWritten(m)
      BY <1>2, <2>1, <2>2, <2>3 DEF PutWritten, k, b
    <2> QED
      BY <2>4, <2>5
  <1>10. CASE DeferWriteTooOld(m)
    BY <1>10 DEF DeferWriteTooOld
  <1>11. CASE WriteTooOld(m)
    <2> DEFINE f == AboveValue(m)
    <2>1. f \in Nat /\ f >= value[k] + 1
      <3>1. value[k] + 1 \in Nat
        BY <1>3
      <3> QED
        BY <1>2, <3>1, ForwardNat DEF AboveValue, k, b
    <2>2. f <= left.ts /\ value[k] >= m.rts /\ UNCHANGED store /\ AnswerKey(m, "retry", f)
      BY <1>11 DEF WriteTooOld, FindsNewerValue, k
    <2>3. f \in Ts0 /\ f > m.rts
      BY <1>1, <1>3, <2>1, <2>2, Consts
    <2>4. PutTooOld(m)
      BY <1>5, <2>2, <2>3 DEF PutTooOld, k
    <2> QED
      BY <1>4, <1>5, <2>2, <2>4
  <1> QED
    BY <1>6, <1>7, <1>8, <1>9, <1>10, <1>11 DEF Put

-----------------------------------------------------------------------------
(* Reads that are noted, or nothing happens to the record and the store.   *)

ReadStep ==
    /\ UNCHANGED <<rec, tomb, push, promised, intent, value>> /\ ReadsGrow
    /\ CoordStill /\ net' \subseteq net

LEMMA ReadFrame ==
    ASSUME TypeOK, ReadStep
    PROVE /\ \A k \in Key : HasIntent(k)' = HasIntent(k)
          /\ \A k \in Key, e \in Nat, t \in Nat : Has(k, e, t)' = Has(k, e, t)
          /\ \A t \in Nat : AllAt(t)' = AllAt(t)
          /\ Staged' = Staged /\ Dead' = Dead /\ Nothing' = Nothing /\ NeverStaged' = NeverStaged
          /\ \A e \in Nat, t \in Nat : StagedAt(e, t)' = StagedAt(e, t) /\ Past(e, t)' = Past(e, t)
          /\ \A k \in Key, t \in Nat : InPlace(k, t)' = InPlace(k, t)
          /\ AfterCommit' = AfterCommit
          /\ BlockedStays
  <1> USE DEF ReadStep, CoordStill, HasIntent, Has, AllAt, Staged, Dead, Nothing, StagedAt, Past, InPlace, AfterCommit
  <1>1. /\ \A k \in Key : HasIntent(k)' = HasIntent(k)
        /\ \A k \in Key, e \in Nat, t \in Nat : Has(k, e, t)' = Has(k, e, t)
    OBVIOUS
  <1>2. \A t \in Nat : AllAt(t)' = AllAt(t)
    OBVIOUS
  <1>3. Staged' = Staged /\ Dead' = Dead /\ Nothing' = Nothing
    OBVIOUS
  <1>4. NeverStaged' = NeverStaged
    BY DEF NeverStaged
  <1>5. \A e \in Nat, t \in Nat : StagedAt(e, t)' = StagedAt(e, t) /\ Past(e, t)' = Past(e, t)
    OBVIOUS
  <1>6. \A k \in Key, t \in Nat : InPlace(k, t)' = InPlace(k, t)
    OBVIOUS
  <1>7. AfterCommit' = AfterCommit
    OBVIOUS
  <1>8. BlockedStays
    BY StateTypes DEF BlockedStays, Blocked, ReadsGrow
  <1> QED
    BY <1>1, <1>2, <1>3, <1>4, <1>5, <1>6, <1>7, <1>8

LEMMA BlockedSome ==
    ASSUME BlockedStays, NEW e \in Nat, NEW t \in Nat, SomeBlocked(e, t)
    PROVE SomeBlocked(e, t)'
  <1>1. PICK k \in Key : Blocked(k, e, t)
    BY DEF SomeBlocked
  <1>2. Blocked(k, e, t)'
    BY <1>1 DEF BlockedStays
  <1> QED
    BY <1>2 DEF SomeBlocked

LEMMA TimesSame == ASSUME TimesOK, CoordStill PROVE TimesOK'
  BY DEF TimesOK, CoordStill
LEMMA NetSame == ASSUME NetOK, CoordStill, net' \subseteq net PROVE NetOK'
  BY DEF NetOK, NetAt, CoordStill, IsStage

LEMMA ReadCore == ASSUME IInv, ReadStep PROVE CoreInv'
  <1> USE DEF IInv, CoreInv
  <1>1. TimesOK' /\ NetOK'
    BY TimesSame, NetSame DEF ReadStep
  <1>2. EpochsOK'
    BY DEF EpochsOK, ReadStep, CoordStill
  <1>3. RecOK'
    BY DEF RecOK, ReadStep, CoordStill, Staged
  <1>4. PastOK'
    <2>1. \A m \in net : m.epoch \in Nat /\ m.rts \in Nat
      BY StateTypes, RequestTypes
    <2>2. rec.epoch \in Nat /\ rec.ts \in Nat /\ rec' = rec /\ net' \subseteq net
      BY StateTypes DEF ReadStep
    <2> QED
      BY <2>1, <2>2, ReadFrame, BlockedSome DEF PastOK
  <1>5. CommittedOK'
    BY ReadFrame, StateTypes DEF CommittedOK, ReadStep, CoordStill
  <1>6. GoneOK'
    <2>1. rts \in Nat /\ 0 \in Nat
      BY StateTypes
    <2> QED
      BY <2>1, ReadFrame DEF GoneOK, ReadStep, CoordStill
  <1>7. IntentsOK'
    BY StateTypes DEF IntentsOK, Justified, ReadStep, CoordStill, ReadsGrow, Staged
  <1>8. PromisedOK'
    BY DEF PromisedOK, ReadStep, Dead, Staged
  <1>9. ReadyOK'
    <2>1. rts \in Nat
      BY StateTypes
    <2> QED
      BY <2>1, ReadFrame DEF ReadyOK, ReadStep, CoordStill
  <1>11. UnsentOK'
    BY ReadFrame DEF UnsentOK, ReadStep, CoordStill
  <1>10. ToldOK'
    <2>1. rts \in Nat /\ epoch \in Nat
      BY StateTypes
    <2> QED
      BY <2>1, ReadFrame DEF ToldOK, ReadStep, CoordStill
  <1> QED
    BY <1>1, <1>2, <1>3, <1>4, <1>5, <1>6, <1>7, <1>8, <1>9, <1>10, <1>11

LEMMA ReadCall == ASSUME IInv, ReadStep, UNCHANGED <<sub, et>> PROVE CallInv'
  <1> USE DEF IInv, CallInv
  <1>0. rts \in Nat /\ epoch \in Nat /\ \A k \in Key : sub[k].ts \in Nat
    BY StateTypes
  <1>1. PhaseOK'
    BY DEF PhaseOK, ReadStep, CoordStill
  <1>2. StageOK'
    <2>1. \A k \in Key : Confirmed(k)' = Confirmed(k)
      BY DEF Confirmed, ReadStep, CoordStill
    <2> QED
      BY <1>0, <2>1, ReadFrame DEF StageOK, ReadStep, CoordStill, IsStage, BlockedStays
  <1>3. PrefixOK'
    BY <1>0, ReadFrame DEF PrefixOK, ReadStep, CoordStill
  <1>4. EndTxnOK'
    BY <1>0, ReadFrame DEF EndTxnOK, ReadStep, CoordStill
  <1>5. ASSUME NEW k \in Key PROVE WritesOK(k)'
    <2>1. Confirmed(k)' = Confirmed(k)
      BY DEF Confirmed, ReadStep, CoordStill
    <2> QED
      BY <1>0, <2>1, ReadFrame DEF WritesOK, ReadStep, CoordStill, BlockedStays
  <1> QED
    BY <1>1, <1>2, <1>3, <1>4, <1>5

LEMMA ReadPusher ==
    ASSUME IInv, ReadStep, NEW p \in Pusher, PusherStill(p) PROVE PusherInv(p)'
  <1> USE DEF IInv, PusherInv
  <1>0. /\ work[p].epoch \in Nat /\ work[p].ts \in Nat /\ seen[p].key \in Key /\ seen[p].ts \in Nat
        /\ todo[p] \subseteq Key \cup {TheRecord}
    BY StateTypes
  <1>1. SeenOK(p)'
    <2>1. PICK q \in Key, t \in Nat : q = seen[p].key /\ t = seen[p].ts
      BY <1>0
    <2>2. SeenJustified(q, t) => SeenJustified(q, t)'
      BY StateTypes DEF SeenJustified, SeenHigh, HasIntent, ReadStep, CoordStill, ReadsGrow, Staged
    <2>3. PusherStill(p) /\ epoch' = epoch
      BY DEF ReadStep, CoordStill
    <2> QED
      BY <2>1, <2>2, <2>3 DEF SeenOK, PusherStill
  <1>2. WorkOK(p)'
    <2>1. /\ work'[p] = work[p] /\ rec' = rec /\ push' = push /\ rts' = rts /\ value' = value
          /\ ppc'[p] = ppc[p] /\ Dead' = Dead /\ Staged' = Staged
      BY ReadFrame DEF ReadStep, CoordStill, PusherStill
    <2> QED
      BY <2>1 DEF WorkOK, AllAt
  <1>3. ProbeOK(p)'
    <2>1. PICK e \in Nat, t \in Nat : e = work[p].epoch /\ t = work[p].ts
      BY <1>0
    <2>2. SomeBlocked(e, t) => SomeBlocked(e, t)'
      BY ReadFrame, BlockedSome
    <2>3. Prevented(p)' = Prevented(p)
      BY DEF Prevented, PusherStill
    <2>4. (\E k \in todo[p] \cap Key : Blocked(k, e, t)) => \E k \in todo[p] \cap Key : Blocked(k, e, t)'
      BY <1>0, ReadFrame DEF BlockedStays
    <2>5. Probes(p, e, t) => Probes(p, e, t)'
      BY <1>0, <2>2, <2>3, <2>4, ReadFrame DEF Probes, PusherStill, ReadStep
    <2> QED
      BY <2>1, <2>5 DEF ProbeOK, PusherStill
  <1> QED
    BY <1>1, <1>2, <1>3

-----------------------------------------------------------------------------
(* An intent is written, raised or removed.                                *)

KeyStep(k) ==
    /\ UNCHANGED <<rec, tomb, push, promised, value>> /\ ReadsGrow /\ BlockedStays /\ SeenStays
    /\ UNCHANGED <<pc, epoch, rts, built, told>> /\ net' \subseteq net
    /\ wts' \in Nat /\ wts' >= wts /\ (wts' # wts => pc = "run")
    /\ \A q \in Key : q # k => intent'[q] = intent[q]
    /\ intent'[k].epoch \in Nat /\ intent'[k].epoch <= epoch /\ Justified(k, intent[k].ts)'
    /\ IF rec.status = "COMMITTED" THEN HasIntent(k) ELSE AllAt(0)
    /\ Staged /\ Has(k, rec.epoch, rec.ts) =>
          Has(k, rec.epoch, rec.ts)' \/ (rec.status = "STAGING" /\ rec.epoch < epoch)
    /\ pc # "run" => \A t \in Nat : t >= rts /\ InPlace(k, t) => InPlace(k, t)'
    /\ pc = "run" /\ k \notin Pipelined /\ HasIntent(k)' /\ intent'[k].epoch = epoch =>
          HasIntent(k) /\ intent[k].epoch = epoch

LEMMA KeyFrame ==
    ASSUME TypeOK, NEW k \in Key, KeyStep(k)
    PROVE /\ \A q \in Key \ {k} : HasIntent(q)' = HasIntent(q)
          /\ \A q \in Key \ {k}, e \in Nat, t \in Nat : Has(q, e, t)' = Has(q, e, t)
          /\ \A t \in Nat : AllAt(t)' = AllAt(t)
          /\ Staged' = Staged /\ Dead' = Dead /\ Nothing' = Nothing /\ NeverStaged' = NeverStaged
          /\ \A e \in Nat, t \in Nat : StagedAt(e, t)' = StagedAt(e, t) /\ Past(e, t)' = Past(e, t)
          /\ pc # "run" => \A q \in Key, t \in Nat : t >= rts /\ InPlace(q, t) => InPlace(q, t)'
          /\ AfterCommit' = AfterCommit
          /\ \A e \in Nat, t \in Nat : SomeBlocked(e, t) => SomeBlocked(e, t)'
  <1> USE DEF KeyStep, HasIntent, Has, AllAt, Staged, Dead, Nothing, StagedAt, Past, AfterCommit
  <1>1. /\ \A q \in Key \ {k} : HasIntent(q)' = HasIntent(q)
        /\ \A q \in Key \ {k}, e \in Nat, t \in Nat : Has(q, e, t)' = Has(q, e, t)
    OBVIOUS
  <1>2. \A t \in Nat : AllAt(t)' = AllAt(t)
    OBVIOUS
  <1>3. Staged' = Staged /\ Dead' = Dead /\ Nothing' = Nothing
    OBVIOUS
  <1>4. NeverStaged' = NeverStaged
    BY DEF NeverStaged
  <1>5. \A e \in Nat, t \in Nat : StagedAt(e, t)' = StagedAt(e, t) /\ Past(e, t)' = Past(e, t)
    OBVIOUS
  <1>6. ASSUME pc # "run", NEW q \in Key, NEW t \in Nat, t >= rts, InPlace(q, t) PROVE InPlace(q, t)'
    <2>1. CASE q = k
      BY <1>6, <2>1
    <2>2. CASE q # k
      BY <1>6, <2>2 DEF InPlace
    <2> QED
      BY <2>1, <2>2
  <1>7. AfterCommit' = AfterCommit
    OBVIOUS
  <1>8. \A e \in Nat, t \in Nat : SomeBlocked(e, t) => SomeBlocked(e, t)'
    BY BlockedSome
  <1> QED
    BY <1>1, <1>2, <1>3, <1>4, <1>5, <1>6, <1>7, <1>8

\* What the record names stays in place, unless the coordinator has given it up.
LEMMA KeyKept ==
    ASSUME IInv, NEW k \in Key, KeyStep(k), Staged, NEW e \in Nat, NEW t \in Nat, StagedAt(e, t),
           NEW q \in Key, Has(q, e, t)
    PROVE Has(q, e, t)' \/ (rec.status = "STAGING" /\ e < epoch /\ SomeBlocked(e, t))
  <1>1. CASE q # k
    BY <1>1, KeyFrame DEF IInv
  <1>2. CASE q = k
    <2>1. rec.epoch = e /\ rec.ts = t
      BY DEF StagedAt
    <2>2. Has(q, e, t)' \/ (rec.status = "STAGING" /\ e < epoch)
      BY <1>2, <2>1 DEF KeyStep
    <2>3. e < epoch => Past(e, t)
      BY StateTypes DEF Past, IInv
    <2> QED
      BY <2>1, <2>2, <2>3 DEF IInv, CoreInv, PastOK
  <1> QED
    BY <1>1, <1>2

LEMMA KeyCore == ASSUME IInv, NEW k \in Key, KeyStep(k) PROVE CoreInv'
  <1> USE DEF IInv, CoreInv
  <1>0. rts \in Nat /\ epoch \in Nat /\ wts \in Nat /\ 0 \in Nat /\ rec.epoch \in Nat /\ rec.ts \in Nat
    BY StateTypes
  <1>1. TimesOK'
    BY <1>0 DEF TimesOK, KeyStep, CallInv, PhaseOK
  <1>2. NetOK'
    <2>1. ASSUME NEW m \in net' PROVE m \in net /\ m.rts \in Nat /\ m.wts \in Nat
      BY StateTypes, RequestTypes DEF KeyStep
    <2> QED
      BY <1>0, <2>1 DEF NetOK, NetAt, KeyStep, IsStage
  <1>3. EpochsOK'
    BY DEF EpochsOK, KeyStep
  <1>4. RecOK'
    BY DEF RecOK, KeyStep, Staged
  <1>5. PastOK'
    <2>1. \A m \in net : m.epoch \in Nat /\ m.rts \in Nat
      BY StateTypes, RequestTypes
    <2>2. rec' = rec /\ net' \subseteq net
      BY DEF KeyStep
    <2> QED
      BY <1>0, <2>1, <2>2, KeyFrame DEF PastOK
  <1>6. CommittedOK'
    <2> SUFFICES ASSUME rec'.status = "COMMITTED" PROVE CommittedOK'
      BY DEF CommittedOK
    <2>1. rec.status = "COMMITTED" /\ HasIntent(k) /\ rec' = rec /\ epoch' = epoch /\ rts' = rts /\ value' = value
      BY DEF KeyStep
    <2>2. /\ rec.epoch = epoch /\ rec.ts = rts /\ AfterCommit
          /\ \A q \in Key : \/ value[q] = rts /\ ~ HasIntent(q)
                            \/ value[q] = 0 /\ Has(q, epoch, rts)
      BY <2>1 DEF CommittedOK
    <2>3. Staged /\ StagedAt(epoch, rts)
      BY <2>1, <2>2 DEF Staged, StagedAt
    <2>4. \A q \in Key : Has(q, epoch, rts) => Has(q, epoch, rts)'
      BY <1>0, <2>1, <2>3, KeyKept
    <2>5. \A q \in Key : q # k => HasIntent(q)' = HasIntent(q)
      BY KeyFrame
    <2>6. AfterCommit'
      BY <2>2, KeyFrame
    <2> QED
      BY <2>1, <2>2, <2>4, <2>5, <2>6 DEF CommittedOK
  <1>7. GoneOK'
    BY KeyFrame, <1>0 DEF GoneOK, KeyStep
  <1>8. IntentsOK'
    <2> SUFFICES ASSUME NEW q \in Key PROVE Justified(q, intent[q].ts)'
      BY DEF IntentsOK
    <2>1. CASE q = k
      BY <2>1 DEF KeyStep
    <2>2. CASE q # k
      BY <2>2, StateTypes DEF IntentsOK, Justified, KeyStep, ReadsGrow, Staged
    <2> QED
      BY <2>1, <2>2
  <1>9. PromisedOK'
    BY DEF PromisedOK, KeyStep, Dead, Staged
  <1>10. ReadyOK'
    <2>1. pc \in {"endtxn", "again"} \/ (\E m \in net : m.op = "commit") => pc # "run"
      BY DEF NetOK, NetAt
    <2>2. /\ pc # "run" => \A q \in Key : InPlace(q, rts) => InPlace(q, rts)'
          /\ AllAt(rts) => AllAt(rts)'
          /\ rec' = rec /\ rts' = rts /\ pc' = pc /\ net' \subseteq net
      BY <1>0, KeyFrame DEF KeyStep
    <2> QED
      BY <2>1, <2>2 DEF ReadyOK
  <1>12. UnsentOK'
    BY DEF UnsentOK, KeyStep, HasIntent
  <1>11. ToldOK'
    <2>1. PICK e \in Nat, t \in Nat : e = epoch /\ t = rts
      BY <1>0
    <2>2. rec' = rec /\ rts' = t /\ epoch' = e /\ told' = told
      BY <2>1 DEF KeyStep
    <2>3. AllAt(t) => AllAt(t)'
      BY KeyFrame
    <2>4. StagedAt(e, t) => StagedAt(e, t)' /\ \A q \in Key : Has(q, e, t) => Has(q, e, t)'
      <3>1. StagedAt(e, t) => StagedAt(e, t)' /\ Staged
        BY KeyFrame DEF StagedAt
      <3>2. ~ (e < epoch)
        BY <2>1
      <3> QED
        BY <3>1, <3>2, KeyKept
    <2> QED
      BY <2>1, <2>2, <2>3, <2>4 DEF ToldOK
  <1> QED
    BY <1>1, <1>2, <1>3, <1>4, <1>5, <1>6, <1>7, <1>8, <1>9, <1>10, <1>11, <1>12

\* A write that a recovery found and that is gone is not the one that prevents it.
LEMMA ProbeLost ==
    ASSUME IInv, NEW p \in Pusher, NEW e \in Nat, NEW t \in Nat, t # 0, rec.status = "STAGING",
           StagedAt(e, t), \A k \in Key \ todo[p] : Has(k, e, t) \/ value[k] = t, SomeBlocked(e, t)
    PROVE \E k \in todo[p] \cap Key : Blocked(k, e, t)
  <1>1. AllAt(0)
    BY DEF IInv, CoreInv, GoneOK, Dead
  <1>2. PICK k \in Key : Blocked(k, e, t)
    BY DEF SomeBlocked
  <1>3. ~ Has(k, e, t) /\ value[k] # t
    BY <1>1, <1>2 DEF Blocked, AllAt
  <1> QED
    BY <1>2, <1>3

LEMMA KeyPusher ==
    ASSUME IInv, NEW k \in Key, KeyStep(k), NEW p \in Pusher, PusherStill(p) PROVE PusherInv(p)'
  <1> USE DEF IInv, PusherInv
  <1>0. /\ work[p].epoch \in Nat /\ work[p].ts \in Nat /\ seen[p].key \in Key /\ seen[p].ts \in Nat
        /\ todo[p] \subseteq Key \cup {TheRecord} /\ wts \in Nat
    BY StateTypes
  <1>1. SeenOK(p)'
    <2>1. PICK q \in Key, t \in Nat : q = seen[p].key /\ t = seen[p].ts
      BY <1>0
    <2>2. SeenJustified(q, t) => SeenJustified(q, t)'
      BY <1>0 DEF SeenJustified, SeenStays, KeyStep, Staged
    <2>3. PusherStill(p) /\ epoch' = epoch
      BY DEF KeyStep
    <2> QED
      BY <2>1, <2>2, <2>3 DEF SeenOK, PusherStill
  <1>2. WorkOK(p)'
    <2>1. /\ work'[p] = work[p] /\ rec' = rec /\ push' = push /\ rts' = rts /\ value' = value
          /\ ppc'[p] = ppc[p] /\ Dead' = Dead /\ Staged' = Staged
      BY KeyFrame DEF KeyStep, PusherStill
    <2> QED
      BY <2>1 DEF WorkOK, AllAt
  <1>3. ProbeOK(p)'
    <2>1. PICK e \in Nat, t \in Nat : e = work[p].epoch /\ t = work[p].ts
      BY <1>0
    <2>2. SomeBlocked(e, t) => SomeBlocked(e, t)'
      BY KeyFrame
    <2>3. Prevented(p)' = Prevented(p)
      BY DEF Prevented, PusherStill
    <2>4. (\E q \in todo[p] \cap Key : Blocked(q, e, t)) => \E q \in todo[p] \cap Key : Blocked(q, e, t)'
      BY <1>0 DEF KeyStep, BlockedStays
    <2>5. ASSUME t # 0, StagedAt(e, t), \A q \in Key \ todo[p] : Has(q, e, t) \/ value[q] = t
          PROVE \/ StagedAt(e, t)' /\ \A q \in Key \ todo[p] : Has(q, e, t)' \/ value'[q] = t
                \/ \E q \in todo[p] \cap Key : Blocked(q, e, t)'
      <3>1. StagedAt(e, t)' /\ value' = value
        BY <2>5, KeyFrame DEF KeyStep
      <3>2. Staged
        BY <2>5 DEF StagedAt
      <3>3. CASE \A q \in Key \ todo[p] : Has(q, e, t) => Has(q, e, t)'
        BY <2>5, <3>1, <3>3
      <3>4. CASE ~ (\A q \in Key \ todo[p] : Has(q, e, t) => Has(q, e, t)')
        <4>1. rec.status = "STAGING" /\ SomeBlocked(e, t)
          BY <2>5, <3>2, <3>4, KeyKept
        <4> QED
          BY <2>4, <2>5, <4>1, ProbeLost
      <3> QED
        BY <3>3, <3>4
    <2>6. /\ AllAt(t)' = AllAt(t) /\ Staged' = Staged /\ Dead' = Dead /\ rec' = rec
          /\ todo'[p] = todo[p] /\ ppc'[p] = ppc[p]
      BY KeyFrame DEF KeyStep, PusherStill
    <2>7. Probes(p, e, t) => Probes(p, e, t)'
      BY <2>2, <2>3, <2>4, <2>5, <2>6 DEF Probes
    <2> QED
      BY <2>1, <2>7 DEF ProbeOK, PusherStill
  <1> QED
    BY <1>1, <1>2, <1>3

-----------------------------------------------------------------------------
(* The answer to a request for a key.                                      *)

KeyStill(k) ==
    /\ UNCHANGED <<rec, tomb, push, value, et>> /\ CoordStill /\ net' \subseteq net /\ BlockedStays
    /\ \A q \in Key : q # k => sub'[q] = sub[q] /\ intent'[q] = intent[q]
    /\ pc \notin {"commit", "prefix"} => sub' = sub
    /\ pc \in {"commit", "prefix"} => sub'[k].st \notin {"none", "piped", "aborted"}
    /\ pc = "commit" /\ Confirmed(k)' => Confirmed(k) \/ ~ Blocked(k, epoch, rts)

LEMMA KeyCall ==
    ASSUME IInv, NEW k \in Key, KeyStill(k), WritesOK(k)', PrefixAt(k)'
    PROVE CallInv'
  <1> USE DEF IInv, CallInv
  <1>1. PICK e \in Nat, t \in Nat : e = epoch /\ t = rts
    BY StateTypes
  <1>2. epoch' = e /\ rts' = t /\ pc' = pc /\ rec' = rec /\ et' = et /\ net' \subseteq net /\ value' = value
    BY <1>1 DEF KeyStill, CoordStill
  <1>3. Staged' = Staged /\ Dead' = Dead /\ push' = push
    BY DEF KeyStill, Staged, Dead
  <1>4. \A u \in Nat : AllAt(u)' = AllAt(u)
    BY <1>2 DEF AllAt
  <1>5. Nothing' = Nothing
    BY <1>2, <1>4 DEF Nothing
  <1>6. NeverStaged' = NeverStaged
    BY <1>1, <1>2, <1>3, <1>5 DEF NeverStaged
  <1>7. StagedAt(e, t)' = StagedAt(e, t)
    BY <1>2, <1>3 DEF StagedAt
  <1>8. \A q \in Key : Blocked(q, e, t) => Blocked(q, e, t)'
    BY DEF KeyStill, BlockedStays
  <1>9. \A q \in Key : q # k => Confirmed(q)' = Confirmed(q)
    BY <1>1, <1>2 DEF Confirmed, KeyStill
  <1>10. PhaseOK'
    <2>1. told' = told
      BY DEF KeyStill, CoordStill
    <2> QED
      BY <1>2, <2>1 DEF PhaseOK, KeyStill
  <1>11. StageOK'
    <2>1. pc = "commit" /\ Dead /\ (\E q \in Key : Blocked(q, e, t) /\ ~ Confirmed(q))
             => \E q \in Key : Blocked(q, e, t)' /\ ~ Confirmed(q)'
      BY <1>1, <1>8, <1>9 DEF KeyStill
    <2>2. \A m \in net' : IsStage(m, e)' = IsStage(m, e)
      BY DEF IsStage
    <2> QED
      BY <1>1, <1>2, <1>3, <1>4, <1>6, <1>7, <2>1, <2>2 DEF StageOK
  <1>12. PrefixOK'
    <2> SUFFICES ASSUME pc = "prefix", NEW q \in Key
                 PROVE /\ sub'[q].st = "ok" => sub'[q].ts >= t /\ InPlace(q, sub[q].ts)'
                       /\ sub'[q].st = "retry" => sub'[q].ts > t
      BY <1>2 DEF PrefixOK
    <2>1. CASE q = k
      BY <1>2, <2>1 DEF PrefixAt
    <2>2. CASE q # k
      <3>1. sub'[q] = sub[q] /\ intent'[q] = intent[q]
        BY <2>2 DEF KeyStill
      <3>2. InPlace(q, sub[q].ts) => InPlace(q, sub[q].ts)'
        BY <1>1, <1>2, <1>3, <3>1 DEF InPlace, HasIntent
      <3> QED
        BY <1>1, <3>1, <3>2 DEF PrefixOK
    <2> QED
      BY <2>1, <2>2
  <1>13. EndTxnOK'
    BY <1>1, <1>2, <1>4, <1>5 DEF EndTxnOK
  <1>14. ASSUME NEW q \in Key PROVE WritesOK(q)'
    <2>1. CASE q = k
      BY <2>1
    <2>2. CASE q # k
      <3>1. sub'[q] = sub[q] /\ intent'[q] = intent[q]
        BY <2>2 DEF KeyStill
      <3>2. Has(q, e, t)' = Has(q, e, t) /\ HasIntent(q)' = HasIntent(q)
        BY <3>1 DEF Has, HasIntent
      <3> QED
        BY <1>1, <1>2, <1>3, <1>5, <1>8, <1>9, <2>2, <3>1, <3>2 DEF WritesOK
    <2> QED
      BY <2>1, <2>2
  <1> QED
    BY <1>10, <1>11, <1>12, <1>13, <1>14

\* The request is not the one the coordinator waits for.
LEMMA KeyUnanswered ==
    ASSUME IInv, NEW k \in Key, KeyStill(k), sub' = sub,
           pc = "commit" /\ Confirmed(k) /\ Has(k, epoch, rts) =>
              \/ intent'[k] = intent[k]
              \/ ~ (Staged /\ rec.epoch = epoch) /\ (Dead \/ push > rts),
           pc = "commit" /\ sub[k] = Waiting(1) /\ k \notin Pipelined =>
              ~ (HasIntent(k)' /\ intent'[k].epoch = epoch),
           pc = "prefix" => \A t \in Nat : t >= rts /\ InPlace(k, t) => InPlace(k, t)'
    PROVE CallInv'
  <1> USE DEF IInv, CallInv
  <1>1. PICK e \in Nat, t \in Nat : e = epoch /\ t = rts
    BY StateTypes
  <1>2. epoch' = e /\ rts' = t /\ pc' = pc /\ rec' = rec /\ net' \subseteq net /\ value' = value
    BY <1>1 DEF KeyStill, CoordStill
  <1>3. Staged' = Staged /\ Dead' = Dead /\ push' = push
    BY DEF KeyStill, Staged, Dead
  <1>4. Nothing' = Nothing
    BY <1>2 DEF Nothing, AllAt
  <1>5. Blocked(k, e, t) => Blocked(k, e, t)'
    BY DEF KeyStill, BlockedStays
  <1>6. Confirmed(k)' = Confirmed(k)
    BY <1>1, <1>2 DEF Confirmed
  <1>7. intent'[k] = intent[k] => Has(k, e, t)' = Has(k, e, t)
    BY DEF Has, HasIntent
  <1>8. WritesOK(k)'
    BY <1>1, <1>2, <1>3, <1>4, <1>5, <1>6, <1>7 DEF WritesOK
  <1>9. PrefixAt(k)'
    <2> SUFFICES ASSUME pc = "prefix"
                 PROVE /\ sub[k].st = "ok" => sub[k].ts >= t /\ InPlace(k, sub[k].ts)'
                       /\ sub[k].st = "retry" => sub[k].ts > t
      BY <1>2 DEF PrefixAt
    <2>1. PICK u \in Nat : u = sub[k].ts
      BY StateTypes
    <2>2. InPlace(k, u) /\ u >= t => InPlace(k, u)'
      BY <1>1
    <2>3. sub[k].st = "ok" => u >= t /\ InPlace(k, u)
      BY <1>1, <2>1 DEF PrefixOK
    <2>4. sub'[k].ts = u
      BY <2>1
    <2> QED
      BY <1>1, <2>1, <2>2, <2>3, <2>4 DEF PrefixOK
  <1> QED
    BY <1>8, <1>9, KeyCall

Answered(m, s, t) ==
    /\ AwaitsKey(m) /\ m.key \in Key
    /\ sub'[m.key].ts = t
    /\ \/ sub'[m.key].st = s /\ (s # "ok" /\ pc = "commit" => m.att = 1)
       \/ sub'[m.key].st = "amb"

LEMMA AnswerKeyFacts ==
    ASSUME TypeOK, NEW m \in net, m.key \in Key, NEW s, NEW t, AnswerKey(m, s, t)
    PROVE /\ net' = net \ {m} /\ CoordStill /\ et' = et
          /\ \A q \in Key : q # m.key => sub'[q] = sub[q]
          /\ (~ AwaitsKey(m) /\ sub' = sub) \/ Answered(m, s, t)
  <1>1. net' = net \ {m} /\ CoordStill /\ et' = et /\ \A q \in Key : q # m.key => sub'[q] = sub[q]
    BY DEF AnswerKey, CoordStill, TypeOK
  <1>2. m.att \in 1 .. 2
    BY RequestTypes, StateTypes
  <1>3. CASE AwaitsKey(m)
    <2>1. sub'[m.key] = Call(Verdict(s, m.att), m.att, t)
      BY <1>3 DEF AnswerKey, TypeOK
    <2>2. \/ Verdict(s, m.att) = s /\ (s # "ok" /\ pc = "commit" => m.att = 1)
          \/ Verdict(s, m.att) = "amb"
      BY <1>2 DEF Verdict, WithCommit, IsError
    <2> QED
      BY <1>1, <1>3, <2>1, <2>2 DEF Answered, Call
  <1>4. CASE ~ AwaitsKey(m)
    BY <1>1, <1>4 DEF AnswerKey
  <1> QED
    BY <1>3, <1>4

\* The facts about a request that is awaited.
LEMMA Awaited ==
    ASSUME IInv, NEW m \in net, m.key \in Key, AwaitsKey(m)
    PROVE /\ pc \in {"commit", "prefix"} /\ m.epoch = epoch /\ m.rts = rts /\ m.wts = rts /\ wts = rts
          /\ m.op \in {"put", "qi"} /\ (m.op = "put" <=> m.key \notin Pipelined)
          /\ sub[m.key].st = "wait" /\ (m.att = 1 => sub[m.key] = Waiting(1))
          /\ pc = "commit" /\ m.op = "put" /\ m.att = 2 => m.prot
          /\ m.op = "qi" => m.qts \in Nat /\ m.qts <= rts /\ (pc = "commit" => m.qts = rts)
  <1> USE DEF IInv, CoreInv
  <1>1. /\ pc \in {"commit", "prefix"} /\ m.epoch = epoch /\ m.rts = rts
        /\ m.op \in {"put", "qi"} /\ (m.op = "put" <=> m.key \notin Pipelined)
        /\ sub[m.key] = Waiting(m.att)
    BY DEF AwaitsKey
  <1>2. sub[m.key].st = "wait" /\ (m.att = 1 => sub[m.key] = Waiting(1))
    BY <1>1 DEF Waiting, Call
  <1>3. m.wts = rts /\ wts = rts
    BY <1>1 DEF NetOK, NetAt, TimesOK
  <1>4. pc = "commit" /\ m.op = "put" /\ m.att = 2 => m.prot
    BY <1>1 DEF NetOK, NetAt
  <1>5. m.op = "qi" => m.qts \in Nat /\ m.qts <= rts /\ (pc = "commit" => m.qts = rts)
    BY <1>1, StateTypes, RequestTypes DEF NetOK, NetAt
  <1> QED
    BY <1>1, <1>2, <1>3, <1>4, <1>5

\* An intent of the current epoch above the commit timestamp: no commit happened.
LEMMA HighNothing ==
    ASSUME IInv, NEW k \in Key, HasIntent(k), intent[k].ts > rts PROVE Nothing
  <1> USE DEF IInv, CoreInv
  <1>1. rts \in Nat /\ intent[k].ts \in Nat
    BY StateTypes
  <1>2. rec.status # "COMMITTED"
    BY <1>1 DEF CommittedOK, Has
  <1> QED
    BY <1>2 DEF GoneOK, Nothing

\* Where an intent above the timestamps the request is written at comes from.
LEMMA HighIntent ==
    ASSUME IInv, NEW k \in Key, NEW t \in Nat, wts <= t, readTs[k] + 1 <= t, intent[k].ts > t
    PROVE ~ Staged /\ intent[k].ts <= push
  BY StateTypes DEF IInv, CoreInv, IntentsOK, Justified
LEMMA BumpedAbove ==
    ASSUME IInv, NEW k \in Key, NEW t, t = Bumped(k, wts)
    PROVE t \in Nat /\ wts <= t /\ readTs[k] + 1 <= t /\ (t = wts \/ t = readTs[k] + 1)
  <1>1. wts \in Nat /\ readTs[k] + 1 \in Nat
    BY StateTypes DEF IInv
  <1> QED
    BY <1>1, ForwardNat DEF Bumped

\* The conditions of KeyCall on an answered request.
KeyAnswer(m) ==
    /\ sub'[m.key].st \notin {"none", "piped", "aborted", "wait"}
    /\ CoordStill
    /\ pc = "commit" /\ Confirmed(m.key)' => ~ Blocked(m.key, epoch, rts)
    /\ WritesOK(m.key)' /\ PrefixAt(m.key)'

LEMMA FailAnswer ==
    ASSUME TypeOK, NEW m, Answered(m, "fail", sub'[m.key].ts), CoordStill PROVE KeyAnswer(m)
  BY DEF Answered, KeyAnswer, WritesOK, PrefixAt, Confirmed, Waiting, Call
LEMMA TooOldAnswer ==
    ASSUME IInv, NEW m \in net, m.op = "put", Answered(m, "retry", AboveValue(m)), CoordStill, PutTooOld(m)
    PROVE KeyAnswer(m)
  <1> DEFINE k == m.key
  <1>1. k \in Key
    BY DEF Answered
  <1>2. AwaitsKey(m)
    BY DEF Answered
  <1>3. pc \in {"commit", "prefix"} /\ m.rts = rts /\ k \notin Pipelined /\ (m.att = 1 => sub[k] = Waiting(1))
    BY <1>1, <1>2, Awaited
  <1>4. rts \in Nat /\ rts # 0 /\ value[k] \in Nat /\ value[k] >= rts
    BY <1>1, <1>3, StateTypes DEF PutTooOld, IInv
  <1>5. ~ (pc = "commit" /\ m.att = 1)
    BY <1>1, <1>3, <1>4 DEF IInv, CallInv, WritesOK
  <1>6. /\ sub'[k].st \notin {"none", "piped", "aborted", "wait", "ok", "missing"}
        /\ pc = "commit" => sub'[k].st # "retry"
        /\ sub'[k].ts > rts /\ rts' = rts /\ pc' = pc
    BY <1>3, <1>5 DEF Answered, PutTooOld, CoordStill
  <1> HIDE DEF k
  <1>7. sub'[k] # Waiting(1)
    BY <1>6 DEF Waiting, Call
  <1>8. WritesOK(k)' /\ PrefixAt(k)' /\ ~ Confirmed(k)'
    BY <1>6, <1>7 DEF WritesOK, PrefixAt, Confirmed
  <1> QED
    BY <1>6, <1>8 DEF KeyAnswer, k

LEMMA OkAnswer ==
    ASSUME IInv, NEW m, m.key \in Key, NEW t \in Nat, Answered(m, "ok", t), t >= rts,
           CoordStill, UNCHANGED <<rec, tomb, push, value>>,
           pc = "commit" /\ t <= rts =>
              /\ ~ Blocked(m.key, epoch, rts)
              /\ Has(m.key, epoch, rts)' \/ (~ (Staged /\ rec.epoch = epoch) /\ (Dead \/ push > rts)),
           pc = "commit" /\ t > rts => Blocked(m.key, epoch, rts)' /\ Nothing,
           pc = "prefix" => InPlace(m.key, t)'
    PROVE KeyAnswer(m)
  <1> DEFINE k == m.key
  <1>1. PICK e \in Nat, r \in Nat : e = epoch /\ r = rts
    BY StateTypes DEF IInv
  <1>2. epoch' = e /\ rts' = r /\ pc' = pc /\ rec' = rec /\ value' = value /\ push' = push
    BY <1>1 DEF CoordStill
  <1>3. Staged' = Staged /\ Dead' = Dead /\ Nothing' = Nothing
    BY DEF Staged, Dead, Nothing, AllAt
  <1>4. sub'[k].ts = t /\ sub'[k].st \in {"ok", "amb"}
    BY DEF Answered
  <1> HIDE DEF k
  <1>5. sub'[k] # Waiting(1) /\ (Confirmed(k)' => t <= r)
    BY <1>2, <1>4 DEF Waiting, Call, Confirmed
  <1>6. WritesOK(k)'
    BY <1>1, <1>2, <1>3, <1>4, <1>5 DEF WritesOK, k
  <1>7. PrefixAt(k)'
    BY <1>1, <1>2, <1>4 DEF PrefixAt, k
  <1> QED
    BY <1>1, <1>4, <1>5, <1>6, <1>7 DEF KeyAnswer, k

LEMMA ReplayAnswer ==
    ASSUME IInv, NEW m \in net, PutFrame(m), PutReplayed(m), AwaitsKey(m) PROVE KeyAnswer(m)
  <1> USE DEF IInv
  <1> DEFINE k == m.key
  <1>1. k \in Key /\ m.op = "put" /\ UNCHANGED <<rec, tomb, push, value, intent, readTs>>
    BY DEF PutFrame, PutReplayed, record
  <1>2. /\ pc \in {"commit", "prefix"} /\ m.epoch = epoch /\ m.rts = rts /\ m.wts = rts /\ wts = rts
        /\ k \notin Pipelined /\ (m.att = 1 => sub[k] = Waiting(1))
        /\ pc = "commit" /\ m.att = 2 => m.prot
    BY <1>1, Awaited
  <1>3. HasIntent(k) /\ intent[k].epoch = epoch
    BY <1>2 DEF PutReplayed
  <1>4. PICK t : t = Bumped(k, m.wts)
    OBVIOUS
  <1>5. t \in Nat /\ wts <= t /\ readTs[k] + 1 <= t /\ (t = wts \/ t = readTs[k] + 1)
    BY <1>1, <1>2, <1>4, BumpedAbove
  <1>12. AnswerKey(m, "ok", t) /\ m.att \in 1 .. 2
    BY <1>4, StateTypes, RequestTypes DEF PutReplayed
  <1>6. pc = "commit" => t = intent[k].ts
    <2>1. pc = "commit" => m.att = 2
      BY <1>1, <1>2, <1>3, <1>12 DEF CallInv, WritesOK
    <2> QED
      BY <1>2, <1>4, <2>1 DEF PutReplayed, ReplayAllowed
  <1> HIDE DEF k
  <1>7. CoordStill /\ Answered(m, "ok", t)
    BY <1>1, <1>2, <1>12, AnswerKeyFacts DEF k
  <1>8. rts \in Nat /\ readTs[k] \in Nat /\ intent[k].ts \in Nat
    BY <1>1, StateTypes
  <1>9. pc = "commit" /\ t <= rts => ~ Blocked(k, epoch, rts) /\ Has(k, epoch, rts)'
    <2>1. PICK e \in Nat, r \in Nat : e = epoch /\ r = rts
      BY StateTypes
    <2>2. epoch' = e /\ rts' = r /\ intent' = intent
      BY <1>1, <1>7, <2>1 DEF CoordStill
    <2>3. pc = "commit" /\ t <= rts => Has(k, e, r)
      BY <1>3, <1>6, <2>1 DEF Has
    <2>4. Has(k, e, r)' = Has(k, e, r)
      BY <2>2 DEF Has, HasIntent
    <2> QED
      BY <2>1, <2>2, <2>3, <2>4 DEF Blocked
  <1>10. pc = "commit" /\ t > rts => Blocked(k, epoch, rts)' /\ Nothing
    <2>1. t > rts => readTs[k] >= rts
      BY <1>2, <1>5, <1>8
    <2>2. pc = "commit" /\ t > rts => ~ (intent[k].ts <= rts)
      BY <1>5, <1>6, <1>8
    <2>3. readTs' = readTs /\ intent' = intent /\ rts' = rts
      BY <1>1, <1>7 DEF CoordStill
    <2>4. pc = "commit" /\ t > rts => Blocked(k, epoch, rts)'
      BY <2>1, <2>2, <2>3 DEF Blocked, Has
    <2>5. pc = "commit" /\ t > rts => Nothing
      BY <1>1, <1>3, <1>6, HighNothing
    <2> QED
      BY <2>4, <2>5
  <1>11. InPlace(k, t)'
    <2>1. intent[k].ts > t => ~ Staged /\ intent[k].ts <= push
      BY <1>1, <1>5, HighIntent
    <2>2. ~ Staged => rec.status \in {"none", "PENDING"} \/ Dead
      BY StateTypes DEF Staged, Dead, Status
    <2>3. InPlace(k, t)
      BY <1>3, <1>5, <1>8, <2>1, <2>2 DEF InPlace
    <2>4. InPlace(k, t)' = InPlace(k, t)
      BY <1>1, <1>7 DEF InPlace, HasIntent, Dead, CoordStill
    <2> QED
      BY <2>3, <2>4
  <1> QED
    BY <1>1, <1>2, <1>5, <1>7, <1>9, <1>10, <1>11, OkAnswer DEF k

LEMMA WrittenAnswer ==
    ASSUME IInv, NEW m \in net, PutFrame(m), PutWritten(m), AwaitsKey(m), Nothing PROVE KeyAnswer(m)
  <1> USE DEF IInv
  <1> DEFINE k == m.key
  <1>1. k \in Key /\ m.op = "put" /\ UNCHANGED <<rec, tomb, push, value, readTs>>
    BY DEF PutFrame, record
  <1>2. /\ pc \in {"commit", "prefix"} /\ m.epoch = epoch /\ m.wts = rts /\ wts = rts
    BY <1>1, Awaited
  <1>13. PICK t : t = Bumped(k, m.wts)
    OBVIOUS
  <1>3. AnswerKey(m, "ok", t)
    BY <1>13 DEF PutWritten
  <1>4. t \in Nat /\ wts <= t /\ readTs[k] + 1 <= t /\ (t = wts \/ t = readTs[k] + 1)
    BY <1>1, <1>2, <1>13, BumpedAbove
  <1>5. /\ intent'[k].epoch = epoch /\ intent'[k].ts >= t
        /\ intent'[k].ts = t \/ intent'[k].ts = intent[k].ts
    BY <1>2, <1>13 DEF PutWritten
  <1> HIDE DEF k
  <1>6. CoordStill /\ Answered(m, "ok", t)
    BY <1>1, <1>2, <1>3, AnswerKeyFacts DEF k
  <1>7. rts \in Nat /\ readTs[k] \in Nat /\ intent[k].ts \in Nat /\ wts \in Nat /\ wts # 0
        /\ epoch' = epoch /\ rts' = rts /\ push \in Nat
    BY <1>1, <1>6, StateTypes DEF CoordStill
  <1>8. intent'[k].ts = t \/ (intent'[k].ts > t /\ ~ Staged /\ intent'[k].ts <= push)
    <2>1. intent[k].ts > t => ~ Staged /\ intent[k].ts <= push
      BY <1>1, <1>4, HighIntent
    <2> QED
      BY <1>4, <1>5, <1>7, <2>1
  <1>9. HasIntent(k)' /\ intent'[k].ts \in Nat
    BY <1>4, <1>5, <1>7 DEF HasIntent
  <1>10. pc = "commit" /\ t <= rts =>
            /\ ~ Blocked(k, epoch, rts)
            /\ Has(k, epoch, rts)' \/ (~ (Staged /\ rec.epoch = epoch) /\ (Dead \/ push > rts))
    <2>1. t <= rts => ~ Blocked(k, epoch, rts)
      BY <1>4, <1>7 DEF Blocked
    <2>2. t <= rts => intent'[k].ts <= rts \/ (~ Staged /\ push > rts)
      BY <1>2, <1>4, <1>7, <1>8, <1>9
    <2>3. intent'[k].ts <= rts => Has(k, epoch, rts)'
      BY <1>5, <1>7, <1>9 DEF Has
    <2> QED
      BY <2>1, <2>2, <2>3
  <1>11. pc = "commit" /\ t > rts => Blocked(k, epoch, rts)' /\ Nothing
    <2>1. t > rts => readTs'[k] >= rts' /\ ~ (intent'[k].ts <= rts')
      BY <1>1, <1>2, <1>4, <1>5, <1>7, <1>9
    <2> QED
      BY <2>1 DEF Blocked, Has
  <1>12. InPlace(k, t)'
    <2>1. ~ Staged => rec.status \in {"none", "PENDING"} \/ Dead
      BY StateTypes DEF Staged, Dead, Status
    <2>2. Dead' = Dead
      BY <1>1 DEF Dead
    <2>3. intent'[k].ts <= t \/ (~ Staged /\ intent'[k].ts <= push)
      BY <1>4, <1>8
    <2> QED
      BY <1>1, <1>5, <1>7, <1>9, <2>1, <2>2, <2>3 DEF InPlace
  <1> QED
    BY <1>1, <1>2, <1>4, <1>6, <1>10, <1>11, <1>12, OkAnswer DEF k

LEMMA KeyDone ==
    ASSUME IInv, NEW m \in net, m.key \in Key, NEW s, NEW t, AnswerKey(m, s, t),
           UNCHANGED <<rec, tomb, push, value>>, BlockedStays,
           \A q \in Key : q # m.key => intent'[q] = intent[q],
           AwaitsKey(m) => KeyAnswer(m),
           ~ AwaitsKey(m) =>
              \/ intent'[m.key] = intent[m.key]
              \/ /\ pc = "commit" => ~ Has(m.key, epoch, rts)
                 /\ pc = "commit" /\ sub[m.key] = Waiting(1) /\ m.key \notin Pipelined =>
                       ~ (HasIntent(m.key)' /\ intent'[m.key].epoch = epoch)
                 /\ \A u \in Nat : InPlace(m.key, u) => InPlace(m.key, u)'
    PROVE CallInv'
  <1> USE DEF IInv
  <1> DEFINE k == m.key
  <1>1. /\ net' = net \ {m} /\ CoordStill /\ et' = et
        /\ \A q \in Key : q # k => sub'[q] = sub[q]
        /\ (~ AwaitsKey(m) /\ sub' = sub) \/ Answered(m, s, t)
    BY AnswerKeyFacts
  <1>2. CASE AwaitsKey(m)
    <2>1. KeyStill(k)
      BY <1>1, <1>2, Awaited DEF KeyStill, KeyAnswer
    <2> QED
      BY <1>2, <2>1, KeyCall DEF KeyAnswer
  <1>3. CASE ~ AwaitsKey(m)
    <2>1. sub' = sub
      BY <1>1, <1>3 DEF Answered
    <2>2. Confirmed(k)' = Confirmed(k)
      BY <1>1, <2>1 DEF Confirmed, CoordStill
    <2>3. \A q \in Key : pc \in {"commit", "prefix"} => sub[q].st \notin {"none", "piped", "aborted"}
      BY DEF CallInv, PhaseOK
    <2>4. KeyStill(k)
      BY <1>1, <2>1, <2>2, <2>3 DEF KeyStill
    <2>5. CASE intent'[k] = intent[k]
      <3>1. HasIntent(k)' = HasIntent(k) /\ Dead' = Dead /\ epoch' = epoch
        BY <1>1, <2>5 DEF HasIntent, Dead, CoordStill
      <3>2. \A u \in Nat : InPlace(k, u) => InPlace(k, u)'
        BY <2>5, <3>1 DEF InPlace
      <3>3. pc = "commit" /\ sub[k] = Waiting(1) /\ k \notin Pipelined =>
                ~ (HasIntent(k)' /\ intent'[k].epoch = epoch)
        BY <2>5, <3>1 DEF CallInv, WritesOK
      <3> QED
        BY <2>1, <2>4, <2>5, <3>2, <3>3, KeyUnanswered
    <2>6. CASE intent'[k] # intent[k]
      BY <1>3, <2>1, <2>4, <2>6, KeyUnanswered
    <2> QED
      BY <2>5, <2>6
  <1> QED
    BY <1>2, <1>3

\* A write that leaves an intent.
LEMMA WrittenStep ==
    ASSUME IInv, NEW m \in net, PutFrame(m), PutWritten(m)
    PROVE /\ Nothing /\ KeyStep(m.key)
          /\ ~ Has(m.key, epoch, rts)
          /\ \A u \in Nat : InPlace(m.key, u) => InPlace(m.key, u)'
  <1> USE DEF IInv, CoreInv
  <1> DEFINE k == m.key
  <1>1. /\ k \in Key /\ UNCHANGED <<rec, tomb, push, promised, value, readTs>> /\ CoordStill /\ net' \subseteq net
    BY DEF PutFrame, record, CoordStill
  <1>2. /\ m.epoch \in Nat /\ m.rts \in Nat /\ m.wts \in Ts /\ m.wts \in Nat /\ m.epoch <= epoch
        /\ m.rts <= rts /\ m.wts <= wts
    BY StateTypes, RequestTypes DEF EpochsOK, NetOK, NetAt
  <1>3. /\ rts \in Nat /\ rts # 0 /\ epoch \in Nat /\ wts \in Nat /\ intent[k].epoch \in Nat /\ intent[k].ts \in Nat
        /\ value[k] \in Nat /\ readTs[k] \in Nat /\ rec.epoch \in Nat /\ rec.ts \in Nat
    BY <1>1, StateTypes
  <1>4. /\ ~ (HasIntent(k) /\ intent[k].epoch >= m.epoch)
        /\ HasIntent(k) \/ value[k] < m.rts
        /\ \A q \in Key : q # k => intent'[q] = intent[q]
        /\ intent'[k].epoch = m.epoch
    BY DEF PutWritten
  <1>5. PICK b : b = Bumped(k, m.wts)
    OBVIOUS
  <1>6. b \in Nat /\ b > readTs[k] /\ (b = m.wts \/ b = readTs[k] + 1)
    BY <1>1, <1>2, <1>5, BumpedType
  <1>7. /\ intent'[k].ts >= b /\ (intent'[k].ts = b \/ intent'[k].ts = intent[k].ts)
    BY <1>5 DEF PutWritten
  <1> HIDE DEF k
  <1>8. ~ (HasIntent(k) /\ intent[k].epoch = epoch)
    BY <1>2, <1>3, <1>4
  <1>9. rec.status # "COMMITTED"
    <2> SUFFICES ASSUME rec.status = "COMMITTED" PROVE FALSE
      OBVIOUS
    <2>1. \/ value[k] = rts /\ ~ HasIntent(k)
          \/ value[k] = 0 /\ Has(k, epoch, rts)
      BY <1>1 DEF CommittedOK
    <2> QED
      BY <1>2, <1>3, <1>4, <1>8, <2>1 DEF Has
  <1>10. AllAt(0)
    <2> SUFFICES ASSUME ~ AllAt(0) PROVE FALSE
      OBVIOUS
    <2>1. value[k] = rts /\ ~ HasIntent(k)
      BY <1>1, <1>9 DEF GoneOK, AllAt
    <2> QED
      BY <1>2, <1>3, <1>4, <2>1
  <1>11. BlockedStays
    <2> SUFFICES ASSUME NEW q \in Key, NEW e \in Nat, NEW t \in Nat, Blocked(q, e, t)
                 PROVE Blocked(q, e, t)'
      BY DEF BlockedStays
    <2>1. CASE q = k
      <3>1. readTs[k] >= t /\ ~ (intent'[k].ts <= t)
        BY <1>3, <1>6, <1>7, <2>1 DEF Blocked
      <3> QED
        BY <1>1, <2>1, <3>1 DEF Blocked, Has
    <2>2. CASE q # k
      <3>1. intent'[q] = intent[q]
        BY <1>4, <2>2
      <3> QED
        BY <1>1, <3>1 DEF Blocked, Has, HasIntent
    <2> QED
      BY <2>1, <2>2
  <1>12. Justified(k, intent[k].ts)'
    <2>1. wts' = wts /\ readTs' = readTs /\ push' = push /\ Staged' = Staged
      BY <1>1 DEF CoordStill, Staged
    <2>2. CASE intent'[k].ts = b
      <3>1. b <= wts \/ b <= readTs[k] + 1
        BY <1>2, <1>3, <1>6
      <3> QED
        BY <2>1, <2>2, <3>1 DEF Justified
    <2>3. CASE intent'[k].ts = intent[k].ts
      BY <1>1, <2>1, <2>3 DEF IntentsOK, Justified
    <2> QED
      BY <1>7, <2>2, <2>3
  <1>13. Staged /\ Has(k, rec.epoch, rec.ts) => rec.status = "STAGING" /\ rec.epoch < epoch
    BY <1>2, <1>3, <1>4, <1>9 DEF Staged, Has
  <1>14. ASSUME NEW u \in Nat, InPlace(k, u) PROVE InPlace(k, u)'
    BY <1>1, <1>8, <1>14 DEF InPlace, Dead
  <1>15. ReadsGrow /\ wts' \in Nat /\ wts' >= wts /\ wts' = wts
    BY <1>1, <1>3, StateTypes DEF ReadsGrow, CoordStill
  <1>17. SeenStays
    <2> SUFFICES ASSUME NEW q \in Key, NEW t \in Nat, SeenHigh(q, t) PROVE SeenHigh(q, t)'
      BY DEF SeenStays
    <2>1. CASE q = k
      <3>1. t <= readTs[k] + 1 /\ intent'[k].ts >= t
        BY <1>3, <1>6, <1>7, <2>1 DEF SeenHigh
      <3> QED
        BY <1>1, <2>1, <3>1 DEF SeenHigh
    <2>2. CASE q # k
      BY <1>1, <1>4, <2>2 DEF SeenHigh, HasIntent
    <2> QED
      BY <2>1, <2>2
  <1>18. pc = "run" /\ k \notin Pipelined => m.epoch # epoch
    BY DEF NetOK, NetAt, PutFrame, k
  <1>16. KeyStep(k)
    BY <1>17, <1>18, <1>1, <1>2, <1>4, <1>9, <1>10, <1>11, <1>12, <1>13, <1>14, <1>15 DEF KeyStep, CoordStill
  <1> QED
    BY <1>8, <1>9, <1>10, <1>14, <1>16 DEF k, Nothing, Has

LEMMA PushersStill == ASSUME UNCHANGED pusher, NEW p PROVE PusherStill(p)
  BY DEF pusher, PusherStill

\* A step that changes nothing but what a request for a key may change.
LEMMA KeyType ==
    ASSUME TypeOK, UNCHANGED <<record, pusher, promised, left, value>>, CoordStill, et' = et,
           intent' \in [Key -> [epoch : Epoch, ts : Ts0]], readTs' \in [Key -> Ts0],
           sub' \in [Key -> [st : CallState, att : 0 .. 2, ts : Ts0]], net' \subseteq Requests
    PROVE TypeOK'
  BY DEF TypeOK, record, pusher, CoordStill

LEMMA PutInv == ASSUME IInv, Blind = {}, NEW m \in net, Put(m) PROVE IInv'
  <1> USE DEF IInv
  <1> DEFINE k == m.key
  <1>1. PutFrame(m) /\ (PutReplayed(m) \/ PutFailed(m) \/ PutTooOld(m) \/ PutWritten(m))
    BY PutFacts
  <1>2. /\ k \in Key /\ m.op = "put" /\ UNCHANGED <<record, pusher, promised, left, value, readTs>>
        /\ CoordStill /\ et' = et /\ net' \subseteq net
    BY <1>1 DEF PutFrame, CoordStill
  <1>3. UNCHANGED <<rec, tomb, push>>
    BY <1>2 DEF record
  <1>4. \A p \in Pusher : PusherStill(p)
    BY <1>2, PushersStill
  <1>5. intent \in [Key -> [epoch : Epoch, ts : Ts0]] /\ readTs' \in [Key -> Ts0]
    BY <1>2 DEF TypeOK
  <1>6. CASE ~ PutWritten(m)
    <2>1. UNCHANGED intent
      BY <1>1, <1>6 DEF PutReplayed, PutFailed, PutTooOld
    <2>2. ReadStep
      BY <1>2, <1>3, <2>1, StateTypes DEF ReadStep, ReadsGrow
    <2>3. BlockedStays
      BY <2>2, ReadFrame
    <2>4. PICK s \in CallState, t \in Ts0 : AnswerKey(m, s, t) /\ (AwaitsKey(m) => KeyAnswer(m))
      <3>1. CASE PutReplayed(m)
        BY <1>1, <3>1, ReplayAnswer DEF PutReplayed, CallState
      <3>2. CASE PutFailed(m)
        <4>1. PICK t \in Ts0 : AnswerKey(m, "fail", t)
          BY <3>2 DEF PutFailed
        <4>2. AwaitsKey(m) => Answered(m, "fail", sub'[k].ts)
          BY <1>2, <4>1, AnswerKeyFacts DEF Answered
        <4>3. AwaitsKey(m) => KeyAnswer(m)
          BY <1>2, <4>2, FailAnswer
        <4> QED
          BY <4>1, <4>3 DEF CallState
      <3>3. CASE PutTooOld(m)
        <4>1. AboveValue(m) \in Ts0 /\ AnswerKey(m, "retry", AboveValue(m))
          BY <3>3 DEF PutTooOld
        <4>2. AwaitsKey(m) => Answered(m, "retry", AboveValue(m))
          BY <1>2, <4>1, AnswerKeyFacts
        <4>3. AwaitsKey(m) => KeyAnswer(m)
          BY <1>2, <3>3, <4>2, TooOldAnswer
        <4> QED
          BY <4>1, <4>3 DEF CallState
      <3> QED
        BY <1>1, <1>6, <3>1, <3>2, <3>3
    <2>5. CallInv'
      BY <1>2, <1>3, <2>1, <2>3, <2>4, KeyDone
    <2>6. TypeOK'
      BY <1>2, <1>5, <2>1, <2>4, AnswerKeyType, KeyType
    <2>7. CoreInv' /\ \A p \in Pusher : PusherInv(p)'
      BY <1>4, <2>2, ReadCore, ReadPusher
    <2> QED
      BY <2>5, <2>6, <2>7
  <1>7. CASE PutWritten(m)
    <2>1. /\ Nothing /\ KeyStep(k) /\ ~ Has(k, epoch, rts)
          /\ \A u \in Nat : InPlace(k, u) => InPlace(k, u)'
      BY <1>1, <1>7, WrittenStep
    <2>2. /\ Bumped(k, m.wts) \in Ts0 /\ AnswerKey(m, "ok", Bumped(k, m.wts))
          /\ intent' \in [Key -> [epoch : Epoch, ts : Ts0]] /\ intent'[k].epoch = m.epoch
          /\ \A q \in Key : q # k => intent'[q] = intent[q]
      BY <1>7 DEF PutWritten
    <2>3. AwaitsKey(m) => KeyAnswer(m)
      BY <1>1, <1>7, <2>1, WrittenAnswer
    <2>4. ~ AwaitsKey(m) /\ pc = "commit" /\ sub[k] = Waiting(1) /\ k \notin Pipelined => intent'[k].epoch # epoch
      <3> SUFFICES ASSUME pc = "commit", sub[k] = Waiting(1), k \notin Pipelined, m.epoch = epoch
                   PROVE AwaitsKey(m)
        BY <2>2
      <3>1. m.att = 1
        BY <1>2 DEF CallInv, WritesOK
      <3>2. m.rts = rts
        BY <1>2 DEF CoreInv, NetOK, NetAt
      <3> QED
        BY <1>2, <3>1, <3>2 DEF AwaitsKey
    <2>5. BlockedStays
      BY <2>1 DEF KeyStep
    <2>6. CallInv'
      BY <1>2, <1>3, <2>1, <2>2, <2>3, <2>4, <2>5, KeyDone
    <2>7. "ok" \in CallState
      BY DEF CallState
    <2>8. TypeOK'
      BY <1>2, <1>5, <2>2, <2>7, AnswerKeyType, KeyType
    <2>9. CoreInv' /\ \A p \in Pusher : PusherInv(p)'
      BY <1>2, <1>4, <2>1, KeyCore, KeyPusher
    <2> QED
      BY <2>6, <2>8, <2>9
  <1> QED
    BY <1>6, <1>7

\* A QueryIntent of the transaction finds its write in place, above the
\* timestamp it was written at, or not at all.
LEMMA QueryOwnInv == ASSUME IInv, NEW m \in net, QueryOwnIntent(m) PROVE IInv'
  <1> USE DEF IInv
  <1> DEFINE k == m.key
             mine == intent[k].ts # 0 /\ intent[k].epoch = m.epoch
             f == Forward(m.qts, m.wts)
             Fits == mine /\ intent[k].ts <= f /\ UNCHANGED store /\ AnswerKey(m, "ok", m.wts)
             Late == mine /\ intent[k].ts > f /\ MarkRead(k, m.qts) /\ AnswerKey(m, "retry", intent[k].ts)
             Lost == ~ mine /\ MarkRead(k, m.qts) /\ AnswerKey(m, "missing", m.wts)
  <1>1. m.op = "qi" /\ (Fits \/ Late \/ Lost) /\ UNCHANGED <<record, pusher, promised, left>>
    BY DEF QueryOwnIntent
  <1>2. /\ k \in Key /\ m.wts \in Ts0 /\ m.qts \in Ts0 /\ m.qts \in Nat /\ m.wts \in Nat /\ intent[k].ts \in Ts0
        /\ intent[k].ts \in Nat
    BY <1>1, StateTypes, RequestTypes, Consts DEF TypeOK
  <1>3. UNCHANGED <<intent, value>> /\ readTs' \in [Key -> Ts0] /\ ReadsGrow /\ (Late \/ Lost => readTs'[k] >= m.qts)
    <2>1. CASE Fits
      <3>1. UNCHANGED <<intent, value, readTs>> /\ ~ Late /\ ~ Lost
        BY <1>2, <2>1, ForwardNat DEF store
      <3> QED
        BY <3>1, StateTypes DEF ReadsGrow, TypeOK
    <2>2. CASE MarkRead(k, m.qts)
      <3>1. /\ readTs' \in [Key -> Ts0] /\ readTs'[k] >= m.qts /\ UNCHANGED <<intent, value>>
            /\ \A q \in Key : readTs'[q] >= readTs[q]
        BY <1>2, <2>2, MarkReadType
      <3> QED
        BY <3>1, Consts DEF ReadsGrow
    <2> QED
      BY <1>1, <2>1, <2>2
  <1>4. PICK s \in {"ok", "retry", "missing"}, t \in Ts0 :
            /\ AnswerKey(m, s, t)
            /\ s = "ok" => Fits /\ t = m.wts
            /\ s = "retry" => Late /\ t = intent[k].ts
            /\ s = "missing" => Lost /\ t = m.wts
    BY <1>1, <1>2
  <1>5. /\ net' = net \ {m} /\ CoordStill /\ et' = et
        /\ (~ AwaitsKey(m) /\ sub' = sub) \/ Answered(m, s, t)
    BY <1>2, <1>4, AnswerKeyFacts
  <1>6. UNCHANGED <<rec, tomb, push>>
    BY <1>1 DEF record
  <1>7. ReadStep
    BY <1>1, <1>3, <1>5, <1>6 DEF ReadStep
  <1>8. BlockedStays
    BY <1>7, ReadFrame
  <1>9. ASSUME AwaitsKey(m) PROVE KeyAnswer(m)
    <2>1. /\ pc \in {"commit", "prefix"} /\ m.epoch = epoch /\ m.wts = rts /\ wts = rts
          /\ m.qts <= rts /\ (pc = "commit" => m.qts = rts)
      BY <1>1, <1>2, <1>9, Awaited
    <2>2. f = rts
      BY <1>2, <2>1 DEF Forward
    <2>3. PICK e \in Nat, r \in Nat : e = epoch /\ r = rts
      BY StateTypes
    <2>4. epoch' = e /\ rts' = r /\ pc' = pc
      BY <1>5, <2>3 DEF CoordStill
    <2>5. mine <=> HasIntent(k) /\ intent[k].epoch = e
      BY <2>1, <2>3 DEF HasIntent
    <2>6. Has(k, e, r)' = Has(k, e, r)
      BY <1>3 DEF Has, HasIntent
    <2> HIDE DEF k, mine, f
    <2>7. CASE s = "ok"
      <3>1. mine /\ intent[k].ts <= r /\ t = r
        BY <1>4, <2>1, <2>2, <2>3, <2>7
      <3>2. Has(k, e, r)
        BY <2>5, <3>1 DEF Has
      <3>3. ~ Blocked(k, e, r)
        BY <3>2 DEF Blocked
      <3>4. InPlace(k, r)
        BY <2>3, <2>5, <3>1 DEF InPlace
      <3>5. InPlace(k, r)' = InPlace(k, r)
        BY <1>3, <1>6, <2>3, <2>4 DEF InPlace, Dead, HasIntent
      <3>6. Answered(m, "ok", r)
        BY <1>5, <1>9, <2>7, <3>1
      <3>7. pc = "commit" /\ r <= rts =>
               /\ ~ Blocked(m.key, epoch, rts)
               /\ Has(m.key, epoch, rts)' \/ (~ (Staged /\ rec.epoch = epoch) /\ (Dead \/ push > rts))
        BY <2>3, <2>4, <2>6, <3>2, <3>3 DEF k
      <3>8. ~ (r > rts) /\ r >= rts
        BY <2>3
      <3>9. InPlace(m.key, r)'
        BY <3>4, <3>5 DEF k
      <3> QED
        BY <1>2, <1>3, <1>5, <1>6, <3>6, <3>7, <3>8, <3>9, OkAnswer DEF k
    <2>8. CASE s = "retry"
      <3>1. /\ mine /\ intent[k].ts > r /\ t = intent[k].ts
            /\ pc = "commit" => readTs'[k] >= r
        BY <1>3, <1>4, <2>1, <2>2, <2>3, <2>8
      <3>2. ~ (intent[k].ts <= r)
        BY <1>2, <3>1 DEF k
      <3>3. pc = "commit" => Blocked(k, e, r)'
        BY <1>3, <3>1, <3>2 DEF Blocked, Has
      <3>4. Nothing
        BY <1>2, <2>3, <2>5, <3>1, HighNothing DEF k
      <3>5. Nothing' = Nothing
        BY <1>7, ReadFrame
      <3>6. sub'[k].ts = t /\ sub'[k].st \in {"retry", "amb"}
        BY <1>5, <1>9, <2>8 DEF Answered, k
      <3>7. ~ Confirmed(k)' /\ sub'[k] # Waiting(1)
        BY <3>6 DEF Confirmed, Waiting, Call
      <3>8. WritesOK(k)' /\ PrefixAt(k)'
        BY <2>4, <3>1, <3>3, <3>4, <3>5, <3>6, <3>7 DEF WritesOK, PrefixAt
      <3> QED
        BY <1>5, <3>6, <3>7, <3>8 DEF KeyAnswer, k
    <2>9. CASE s = "missing"
      <3>1. ~ mine /\ (pc = "commit" => readTs'[k] >= r)
        BY <1>3, <1>4, <2>1, <2>3, <2>9
      <3>2. ~ Has(k, e, r)'
        BY <2>5, <2>6, <3>1 DEF Has
      <3>3. pc = "commit" => Blocked(k, e, r)'
        BY <3>1, <3>2 DEF Blocked
      <3>4. sub'[k].st \in {"missing", "amb"}
        BY <1>5, <1>9, <2>9 DEF Answered, k
      <3>5. ~ Confirmed(k)' /\ sub'[k] # Waiting(1)
        BY <3>4 DEF Confirmed, Waiting, Call
      <3>7. k \in Pipelined /\ (sub'[k].st = "missing" => sub'[k].ts <= r)
        <4>1. t = m.wts
          BY <1>4, <2>9
        <4> QED
          BY <1>1, <1>2, <1>5, <1>9, <2>1, <2>3, <4>1 DEF Answered, AwaitsKey, k
      <3>6. WritesOK(k)' /\ PrefixAt(k)'
        BY <2>4, <3>3, <3>4, <3>5, <3>7 DEF WritesOK, PrefixAt
      <3> QED
        BY <1>5, <3>4, <3>5, <3>6 DEF KeyAnswer, k
    <2> QED
      BY <2>7, <2>8, <2>9
  <1> HIDE DEF mine, f, Fits, Late, Lost
  <1>10. CallInv'
    BY <1>2, <1>3, <1>4, <1>6, <1>8, <1>9, KeyDone
  <1>11. TypeOK'
    <2>1. intent' \in [Key -> [epoch : Epoch, ts : Ts0]] /\ s \in CallState
      BY <1>3 DEF TypeOK, CallState
    <2> QED
      BY <1>1, <1>2, <1>3, <1>4, <1>5, <2>1, AnswerKeyType, KeyType
  <1>12. CoreInv' /\ \A p \in Pusher : PusherInv(p)'
    BY <1>1, <1>7, ReadCore, ReadPusher, PushersStill
  <1> QED
    BY <1>10, <1>11, <1>12

-----------------------------------------------------------------------------
(* Intent resolution.                                                      *)

StoreStep(k) ==
    /\ UNCHANGED <<rec, tomb, push, promised, readTs, sub, et, net>> /\ CoordStill
    /\ intent' \in [Key -> [epoch : Epoch, ts : Ts0]] /\ value' \in [Key -> Ts0]
    /\ \A q \in Key : q # k => intent'[q] = intent[q] /\ value'[q] = value[q]
Preserved ==
    /\ CoreInv' /\ CallInv' /\ \A p \in Pusher : PusherStill(p) => PusherInv(p)'
    /\ \A k \in Key, t \in Nat : SeenJustified(k, t) => SeenJustified(k, t)'

\* What is known of the transaction an intent is resolved with.
Verdicts(w) ==
    /\ w.status \in Status /\ w.epoch \in Nat /\ w.ts \in Nat /\ w.epoch <= epoch
    /\ w.status = "ABORTED" => Dead
    /\ w.status = "COMMITTED" => rec = w \/ (AllAt(w.ts) /\ Dead)
    /\ w.status = "PENDING" => w.ts <= push /\ (Staged => w.ts <= rec.ts)
    /\ w.status = "STAGING" => w.ts <= rts /\ (Dead \/ (Staged /\ w.ts <= rec.ts))

LEMMA ResolveKey ==
    ASSUME IInv, NEW k \in Key, StoreStep(k), KeyStep(k),
           pc = "commit" /\ Has(k, epoch, rts) =>
              Has(k, epoch, rts)' \/ (~ (Staged /\ rec.epoch = epoch) /\ (Dead \/ push > rts)),
           HasIntent(k)' => HasIntent(k) /\ intent'[k].epoch = intent[k].epoch
    PROVE Preserved
  <1> USE DEF IInv
  <1>1. CoreInv' /\ \A p \in Pusher : PusherStill(p) => PusherInv(p)'
    BY KeyCore, KeyPusher
  <1>2. PICK e \in Nat, t \in Nat : e = epoch /\ t = rts
    BY StateTypes
  <1>3. epoch' = e /\ rts' = t /\ pc' = pc /\ rec' = rec /\ net' = net /\ value' = value /\ push' = push
        /\ sub' = sub
    BY <1>2 DEF KeyStep, StoreStep
  <1>4. Confirmed(k)' = Confirmed(k) /\ Staged' = Staged /\ Dead' = Dead /\ Nothing' = Nothing
    BY <1>2, <1>3, KeyFrame DEF Confirmed
  <1>5. KeyStill(k)
    BY <1>4 DEF KeyStill, KeyStep, StoreStep, CallInv, PhaseOK
  <1>6. Blocked(k, e, t) => Blocked(k, e, t)'
    BY DEF KeyStep, BlockedStays
  <1>7. WritesOK(k)'
    BY <1>2, <1>3, <1>4, <1>6 DEF WritesOK, CallInv
  <1>8. PrefixAt(k)'
    <2> SUFFICES ASSUME pc = "prefix"
                 PROVE /\ sub[k].st = "ok" => sub[k].ts >= t /\ InPlace(k, sub[k].ts)'
                       /\ sub[k].st = "retry" => sub[k].ts > t
      BY <1>3 DEF PrefixAt
    <2>1. PICK u \in Nat : u = sub[k].ts
      BY StateTypes
    <2>2. InPlace(k, u) /\ u >= t => InPlace(k, u)'
      BY <1>2 DEF KeyStep
    <2>3. sub[k].st = "ok" => u >= t /\ InPlace(k, u)
      BY <1>2, <2>1 DEF PrefixOK, CallInv
    <2>4. sub'[k].ts = u
      BY <1>3, <2>1
    <2> QED
      BY <1>2, <2>1, <2>2, <2>3, <2>4 DEF PrefixOK, CallInv
  <1>9. \A q \in Key, u \in Nat : SeenJustified(q, u) => SeenJustified(q, u)'
    <2>1. wts' = wts /\ push' = push
      BY DEF StoreStep, CoordStill
    <2> QED
      BY <1>4, <2>1 DEF SeenJustified, SeenStays, KeyStep
  <1> QED
    BY <1>1, <1>5, <1>7, <1>8, <1>9, KeyCall DEF Preserved

\* The transaction is in progress: the intent is moved to its timestamp.
LEMMA ResolveRaise ==
    ASSUME IInv, NEW k \in Key, StoreStep(k), NEW w, Verdicts(w), w.status \in {"PENDING", "STAGING"},
           HasIntent(k), value' = value, intent'[k].epoch = intent[k].epoch,
           intent'[k].ts = Forward(intent[k].ts, w.ts)
    PROVE Preserved
  <1> USE DEF IInv, CoreInv
  <1>1. /\ rts \in Nat /\ wts \in Nat /\ rts <= wts /\ epoch \in Nat /\ intent[k].ts \in Nat /\ intent[k].epoch \in Nat
        /\ rec.ts \in Nat /\ push \in Nat /\ rec.epoch \in Nat /\ w.ts \in Nat /\ readTs[k] \in Nat
        /\ intent[k].epoch <= epoch
    BY StateTypes DEF Verdicts, TimesOK, EpochsOK
  <1>2. intent'[k].ts \in Nat /\ intent'[k].ts >= intent[k].ts /\ (intent'[k].ts = intent[k].ts \/ intent'[k].ts = w.ts)
    BY <1>1, ForwardNat
  <1>3. /\ UNCHANGED <<rec, tomb, push, promised, readTs, net, value>> /\ CoordStill
        /\ \A q \in Key : q # k => intent'[q] = intent[q]
    BY DEF StoreStep
  <1>4. HasIntent(k)' /\ HasIntent(k)
    BY <1>1, <1>2 DEF HasIntent
  <1>5. Staged => w.ts <= rec.ts /\ rec.ts <= rts
    BY DEF Verdicts, RecOK, Dead, Staged
  <1>6. ~ Staged => w.ts <= push \/ w.ts <= rts
    BY DEF Verdicts
  <1>7. BlockedStays
    <2> SUFFICES ASSUME NEW q \in Key, NEW e \in Nat, NEW t \in Nat, Blocked(q, e, t)
                 PROVE Blocked(q, e, t)'
      BY DEF BlockedStays
    <2>1. Has(q, e, t)' => Has(q, e, t)
      <3>1. CASE q = k
        BY <1>1, <1>2, <1>4, <3>1 DEF Has
      <3>2. CASE q # k
        BY <1>3, <3>2 DEF Has, HasIntent
      <3> QED
        BY <3>1, <3>2
    <2> QED
      BY <1>3, <2>1 DEF Blocked
  <1>8. Justified(k, intent[k].ts)'
    <2>1. wts' = wts /\ readTs' = readTs /\ push' = push /\ Staged' = Staged
      BY <1>3 DEF CoordStill, Staged
    <2>2. Justified(k, intent[k].ts)
      BY DEF IntentsOK
    <2>3. CASE intent'[k].ts = intent[k].ts
      BY <2>1, <2>2, <2>3 DEF Justified
    <2>4. CASE intent'[k].ts = w.ts
      <3>1. w.ts <= wts \/ (~ Staged /\ w.ts <= push)
        BY <1>1, <1>5, <1>6
      <3> QED
        BY <2>1, <2>4, <3>1 DEF Justified
    <2> QED
      BY <1>2, <2>3, <2>4
  <1>9. IF rec.status = "COMMITTED" THEN HasIntent(k) ELSE AllAt(0)
    BY DEF GoneOK
  <1>10. Staged /\ Has(k, rec.epoch, rec.ts) => Has(k, rec.epoch, rec.ts)'
    BY <1>1, <1>2, <1>3, <1>4, <1>5 DEF Has
  <1>11. ASSUME NEW t \in Nat, t >= rts, InPlace(k, t) PROVE InPlace(k, t)'
    <2>1. Dead' = Dead
      BY <1>3 DEF Dead
    <2>2. epoch' = epoch
      BY <1>3 DEF CoordStill
    <2>3. CASE Dead
      BY <2>1, <2>3 DEF InPlace
    <2>4. CASE ~ Dead
      <3>1. /\ intent[k].epoch = epoch
            /\ intent[k].ts <= t \/ (rec.status \in {"none", "PENDING"} /\ intent[k].ts <= push)
        BY <1>11, <2>4 DEF InPlace
      <3>2. rec.status \in {"none", "PENDING"} \/ Staged
        BY <2>4, StateTypes DEF Dead, Staged, Status
      <3>3. w.ts <= t \/ (rec.status \in {"none", "PENDING"} /\ w.ts <= push)
        BY <1>1, <1>5, <1>6, <1>11, <3>2
      <3>4. intent'[k].ts <= t \/ (rec.status \in {"none", "PENDING"} /\ intent'[k].ts <= push)
        BY <1>2, <3>1, <3>3
      <3> QED
        BY <1>3, <1>4, <2>2, <3>1, <3>4 DEF InPlace
    <2> QED
      BY <2>3, <2>4
  <1>12. ReadsGrow /\ wts' = wts /\ wts' \in Nat /\ wts' >= wts
    BY <1>1, <1>3, StateTypes DEF ReadsGrow, CoordStill
  <1>15. SeenStays
    <2> SUFFICES ASSUME NEW q \in Key, NEW t \in Nat, SeenHigh(q, t) PROVE SeenHigh(q, t)'
      BY DEF SeenStays
    <2>1. CASE q = k
      BY <1>1, <1>2, <1>3, <2>1 DEF SeenHigh
    <2>2. CASE q # k
      BY <1>3, <2>2 DEF SeenHigh, HasIntent
    <2> QED
      BY <2>1, <2>2
  <1>13. KeyStep(k)
    BY <1>15, <1>1, <1>3, <1>4, <1>7, <1>8, <1>9, <1>10, <1>11, <1>12 DEF KeyStep, CoordStill
  <1>14. pc = "commit" /\ Has(k, epoch, rts) =>
            Has(k, epoch, rts)' \/ (~ (Staged /\ rec.epoch = epoch) /\ (Dead \/ push > rts))
    <2>1. epoch' = epoch /\ rts' = rts
      BY <1>3 DEF CoordStill
    <2>2. Has(k, epoch, rts) => intent[k].epoch = epoch /\ intent[k].ts <= rts
      BY DEF Has
    <2>3. intent[k].ts <= rts => intent'[k].ts <= rts \/ (~ Staged /\ push > rts)
      BY <1>1, <1>2, <1>5, <1>6
    <2> QED
      BY <1>4, <2>1, <2>2, <2>3 DEF Has
  <1> QED
    BY <1>4, <1>13, <1>14, ResolveKey

\* The intent belongs to an earlier epoch, or the transaction is aborted.
LEMMA ResolveRemove ==
    ASSUME IInv, NEW k \in Key, StoreStep(k), Dead \/ intent[k].epoch < epoch,
           HasIntent(k), value' = value, intent'[k] = NoIntent
    PROVE Preserved
  <1> USE DEF IInv, CoreInv
  <1>1. /\ rts \in Nat /\ wts \in Nat /\ epoch \in Nat /\ intent[k].epoch \in Nat /\ rec.epoch \in Nat
    BY StateTypes
  <1>2. intent'[k].ts = 0 /\ intent'[k].epoch = 0 /\ ~ HasIntent(k)'
    BY DEF NoIntent, Intent, HasIntent
  <1>3. /\ UNCHANGED <<rec, tomb, push, promised, readTs, net, value>> /\ CoordStill
        /\ \A q \in Key : q # k => intent'[q] = intent[q]
    BY DEF StoreStep
  <1>4. Dead \/ intent[k].epoch # epoch
    BY <1>1
  <1>5. rec.status # "COMMITTED"
    BY <1>4 DEF CommittedOK, Dead, Has
  <1>6. AllAt(0)
    BY <1>5 DEF GoneOK
  <1>7. BlockedStays
    <2> SUFFICES ASSUME NEW q \in Key, NEW e \in Nat, NEW t \in Nat, Blocked(q, e, t)
                 PROVE Blocked(q, e, t)'
      BY DEF BlockedStays
    <2>1. Has(q, e, t)' => Has(q, e, t)
      <3>1. CASE q = k
        BY <1>2, <3>1 DEF Has
      <3>2. CASE q # k
        BY <1>3, <3>2 DEF Has, HasIntent
      <3> QED
        BY <3>1, <3>2
    <2> QED
      BY <1>3, <2>1 DEF Blocked
  <1>8. Justified(k, intent[k].ts)'
    BY <1>1, <1>2, <1>3 DEF Justified, CoordStill
  <1>9. Staged /\ Has(k, rec.epoch, rec.ts) => rec.status = "STAGING" /\ rec.epoch < epoch
    BY <1>1, <1>5 DEF Staged, Has, Dead
  <1>10. ASSUME NEW t \in Nat, t >= rts, InPlace(k, t) PROVE InPlace(k, t)'
    BY <1>3, <1>4, <1>10 DEF InPlace, Dead
  <1>11. ReadsGrow /\ wts' = wts /\ wts' \in Nat /\ wts' >= wts
    BY <1>1, <1>3, StateTypes DEF ReadsGrow, CoordStill
  <1>15. SeenStays
    <2> SUFFICES ASSUME NEW q \in Key, NEW t \in Nat, SeenHigh(q, t) PROVE SeenHigh(q, t)'
      BY DEF SeenStays
    <2>1. CASE q = k
      BY <1>1, <1>2, <1>3, <2>1 DEF SeenHigh
    <2>2. CASE q # k
      BY <1>3, <2>2 DEF SeenHigh, HasIntent
    <2> QED
      BY <2>1, <2>2
  <1>12. KeyStep(k)
    BY <1>15, <1>1, <1>2, <1>3, <1>5, <1>6, <1>7, <1>8, <1>9, <1>10, <1>11 DEF KeyStep, CoordStill
  <1>13. Has(k, epoch, rts) => ~ (Staged /\ rec.epoch = epoch) /\ Dead
    BY <1>4 DEF Has, Dead, Staged
  <1> QED
    BY <1>2, <1>12, <1>13, ResolveKey

\* The transaction is committed: the intent becomes its value.
LEMMA ResolveApply ==
    ASSUME IInv, NEW k \in Key, StoreStep(k), rec.status = "COMMITTED",
           HasIntent(k), value'[k] = rts, intent'[k] = NoIntent
    PROVE Preserved
  <1> USE DEF IInv, CoreInv
  <1>1. PICK e \in Nat, t \in Nat : e = epoch /\ t = rts
    BY StateTypes
  <1>2. t # 0 /\ wts \in Nat
    BY <1>1, StateTypes
  <1>3. /\ rec.epoch = e /\ rec.ts = t /\ AfterCommit
        /\ \A q \in Key : \/ value[q] = t /\ ~ HasIntent(q)
                          \/ value[q] = 0 /\ Has(q, e, t)
    BY <1>1 DEF CommittedOK
  <1>4. value[k] = 0 /\ Has(k, e, t)
    BY <1>3
  <1>5. /\ UNCHANGED <<rec, tomb, push, promised, readTs, net, sub, et>> /\ CoordStill
        /\ \A q \in Key : q # k => intent'[q] = intent[q] /\ value'[q] = value[q]
    BY DEF StoreStep
  <1>6. /\ pc' = pc /\ epoch' = e /\ rts' = t /\ wts' = wts /\ built' = built /\ told' = told
        /\ value'[k] = t /\ ~ HasIntent(k)' /\ intent'[k].ts = 0 /\ intent'[k].epoch = 0
    BY <1>1, <1>5 DEF CoordStill, NoIntent, Intent, HasIntent
  <1>7. /\ Staged /\ Staged' /\ ~ Dead /\ ~ Dead' /\ ~ Nothing /\ StagedAt(e, t) /\ StagedAt(e, t)'
        /\ AfterCommit'
    BY <1>3, <1>5, <1>6 DEF Staged, Dead, Nothing, StagedAt, AfterCommit
  <1>8. \A q \in Key : q # k => HasIntent(q)' = HasIntent(q) /\ \A u, v \in Nat : Has(q, u, v)' = Has(q, u, v)
    BY <1>5 DEF Has, HasIntent
  <1>9. BlockedStays
    <2> SUFFICES ASSUME NEW q \in Key, NEW u \in Nat, NEW v \in Nat, Blocked(q, u, v)
                 PROVE Blocked(q, u, v)'
      BY DEF BlockedStays
    <2>1. Has(q, u, v)' => Has(q, u, v)
      BY <1>6, <1>8 DEF Has
    <2> QED
      BY <1>5, <2>1 DEF Blocked
  <1>10. \A u \in Nat \ {0} : AllAt(u) => AllAt(u)'
    BY <1>4 DEF AllAt
  <1>11. ~ (pc \in {"run", "retry", "restart", "prefix", "again"})
    BY <1>3 DEF AfterCommit
  <1>12. CoreInv'
    <2>1. TimesOK' /\ NetOK'
      BY <1>5, TimesSame, NetSame
    <2>2. EpochsOK'
      <3>1. \A q \in Key : intent'[q].epoch <= epoch
        BY <1>1, <1>5, <1>6 DEF EpochsOK
      <3> QED
        BY <1>1, <1>5, <1>6, <3>1 DEF EpochsOK
    <2>3. RecOK'
      BY <1>1, <1>5, <1>6, <1>7 DEF RecOK
    <2>4. PastOK'
      <3>1. \A m \in net : m.epoch \in Nat /\ m.rts \in Nat
        BY StateTypes, RequestTypes
      <3>2. \A u \in Nat, v \in Nat : Past(u, v)' = Past(u, v)
        BY <1>1, <1>6 DEF Past
      <3> QED
        BY <1>5, <1>9, <3>1, <3>2, BlockedSome DEF PastOK
    <2>5. CommittedOK'
      BY <1>3, <1>5, <1>6, <1>7, <1>8 DEF CommittedOK
    <2>6. GoneOK'
      BY <1>5 DEF GoneOK
    <2>7. IntentsOK'
      <3> SUFFICES ASSUME NEW q \in Key PROVE Justified(q, intent[q].ts)'
        BY DEF IntentsOK
      <3>1. CASE q = k
        BY <1>2, <1>6, <3>1 DEF Justified
      <3>2. CASE q # k
        BY <1>5, <1>6, <1>7, <3>2 DEF IntentsOK, Justified
      <3> QED
        BY <3>1, <3>2
    <2>8. PromisedOK'
      BY <1>5, <1>7 DEF PromisedOK
    <2>9. ReadyOK' /\ ToldOK' /\ UnsentOK'
      BY <1>5, <1>6, <1>11 DEF ReadyOK, ToldOK, UnsentOK
    <2> QED
      BY <2>1, <2>2, <2>3, <2>4, <2>5, <2>6, <2>7, <2>8, <2>9
  <1>13. CallInv'
    <2> USE DEF CallInv
    <2>1. PhaseOK'
      BY <1>5, <1>6 DEF PhaseOK
    <2>2. \A q \in Key : Confirmed(q)' = Confirmed(q)
      BY <1>1, <1>5, <1>6 DEF Confirmed
    <2>3. StageOK'
      BY <1>1, <1>5, <1>6, <1>7 DEF StageOK, NeverStaged
    <2>4. PrefixOK'
      BY <1>6, <1>11 DEF PrefixOK
    <2>5. EndTxnOK'
      BY <1>5, <1>6, <1>7 DEF EndTxnOK
    <2>6. ASSUME NEW q \in Key PROVE WritesOK(q)'
      <3>1. \A u \in Nat, v \in Nat : Blocked(q, u, v) => Blocked(q, u, v)'
        BY <1>9 DEF BlockedStays
      <3>2. CASE q = k
        <4>1. Has(k, epoch, rts) /\ HasIntent(k) /\ intent[k].epoch = epoch
          BY <1>1, <1>4 DEF Has
        <4> QED
          BY <1>1, <1>5, <1>6, <1>7, <2>2, <3>1, <3>2, <4>1 DEF WritesOK
      <3>3. CASE q # k
        BY <1>1, <1>5, <1>6, <1>7, <1>8, <2>2, <3>1, <3>3 DEF WritesOK
      <3> QED
        BY <3>2, <3>3
    <2> QED
      BY <2>1, <2>3, <2>4, <2>5, <2>6
  <1>14. ASSUME NEW p \in Pusher, PusherStill(p) PROVE PusherInv(p)'
    <2> USE DEF PusherInv
    <2>0. PusherInv(p) /\ seen[p].key \in Key /\ work[p].ts \in Nat /\ work[p].epoch \in Nat
      BY StateTypes
    <2>1. SeenOK(p)'
      <3>1. PICK q \in Key, u \in Nat : q = seen[p].key /\ u = seen[p].ts
        BY StateTypes
      <3>2. SeenHigh(q, u) => SeenHigh(q, u)'
        BY <1>5, <1>6, <1>8 DEF SeenHigh
      <3>3. SeenJustified(q, u) => SeenJustified(q, u)'
        BY <1>5, <1>6, <1>7, <3>2 DEF SeenJustified
      <3> QED
        BY <1>1, <1>6, <1>14, <2>0, <3>1, <3>3 DEF SeenOK, PusherStill
    <2>2. WorkOK(p)'
      BY <1>1, <1>5, <1>6, <1>7, <1>14, <2>0 DEF WorkOK, PusherStill
    <2>3. ProbeOK(p)'
      <3>1. PICK u \in Nat, v \in Nat : u = work[p].epoch /\ v = work[p].ts
        BY <2>0
      <3>2. SomeBlocked(u, v) => SomeBlocked(u, v)'
        BY <1>9, BlockedSome
      <3>3. Prevented(p)' = Prevented(p)
        BY <1>14 DEF Prevented, PusherStill
      <3>4. (\E q \in todo[p] \cap Key : Blocked(q, u, v)) => \E q \in todo[p] \cap Key : Blocked(q, u, v)'
        BY <1>9 DEF BlockedStays
      <3>5. ASSUME StagedAt(u, v), \A q \in Key \ todo[p] : Has(q, u, v) \/ value[q] = v
            PROVE StagedAt(u, v)' /\ \A q \in Key \ todo[p] : Has(q, u, v)' \/ value'[q] = v
        <4>1. u = e /\ v = t
          BY <1>3, <3>5 DEF StagedAt
        <4> QED
          BY <1>5, <1>6, <1>7, <1>8, <3>5, <4>1
      <3>6. v # 0 /\ AllAt(v) => AllAt(v)'
        BY <1>10
      <3>7. Probes(p, u, v) => Probes(p, u, v)'
        BY <1>5, <1>7, <1>14, <3>2, <3>3, <3>4, <3>5, <3>6 DEF Probes, PusherStill
      <3> QED
        BY <1>14, <2>0, <3>1, <3>7 DEF ProbeOK, PusherStill
    <2> QED
      BY <2>1, <2>2, <2>3
  <1>15. \A q \in Key, u \in Nat : SeenJustified(q, u) => SeenJustified(q, u)'
    <2>1. \A q \in Key, u \in Nat : SeenHigh(q, u) => SeenHigh(q, u)'
      BY <1>5, <1>6, <1>8 DEF SeenHigh
    <2> QED
      BY <1>5, <1>6, <1>7, <2>1 DEF SeenJustified
  <1> QED
    BY <1>12, <1>13, <1>14, <1>15 DEF Preserved

LEMMA ResolveNothing ==
    ASSUME IInv, NEW k \in Key, StoreStep(k), UNCHANGED <<intent, value>> PROVE Preserved
  <1>1. ReadStep /\ UNCHANGED <<sub, et>>
    BY StateTypes DEF ReadStep, StoreStep, ReadsGrow, IInv
  <1>2. \A q \in Key, u \in Nat : SeenJustified(q, u) => SeenJustified(q, u)'
    BY DEF SeenJustified, SeenHigh, HasIntent, StoreStep, CoordStill, Staged
  <1> QED
    BY <1>1, <1>2, ReadCore, ReadCall, ReadPusher DEF Preserved

LEMMA ResolveStep ==
    ASSUME IInv, NEW k \in Key, NEW w, Verdicts(w), w.ts \in Ts0, ResolveIntent(k, w),
           UNCHANGED <<record, coord, net, promised>>
    PROVE StoreStep(k) /\ Preserved
  <1> USE DEF IInv, CoreInv
  <1> DEFINE i == intent[k]
             commit == w.status = "COMMITTED" /\ i.epoch = w.epoch /\ i.ts <= w.ts
             inProgress == w.status \notin Finalized /\ i.epoch >= w.epoch
  <1>1. /\ value' = IF HasIntent(k) /\ commit THEN [value EXCEPT ![k] = w.ts] ELSE value
        /\ intent' = IF ~ HasIntent(k) THEN intent
                     ELSE IF inProgress
                          THEN [intent EXCEPT ![k] = Intent(i.epoch, Forward(i.ts, w.ts))]
                          ELSE [intent EXCEPT ![k] = NoIntent]
        /\ UNCHANGED readTs
    BY DEF ResolveIntent
  <1>2. /\ intent \in [Key -> [epoch : Epoch, ts : Ts0]] /\ value \in [Key -> Ts0]
        /\ i.epoch \in Epoch /\ i.epoch \in Nat /\ i.ts \in Nat /\ i.ts \in Ts0
    BY StateTypes DEF TypeOK
  <1>3. /\ Intent(i.epoch, Forward(i.ts, w.ts)) \in [epoch : Epoch, ts : Ts0]
        /\ NoIntent \in [epoch : Epoch, ts : Ts0]
        /\ Intent(i.epoch, Forward(i.ts, w.ts)).epoch = i.epoch
        /\ Intent(i.epoch, Forward(i.ts, w.ts)).ts = Forward(i.ts, w.ts)
    <2>1. Forward(i.ts, w.ts) \in Ts0
      BY <1>2, ForwardFacts DEF Verdicts
    <2> QED
      BY <1>2, <2>1, Consts DEF Intent, NoIntent
  <1>4. StoreStep(k)
    <2>1. /\ intent' \in [Key -> [epoch : Epoch, ts : Ts0]] /\ value' \in [Key -> Ts0]
          /\ \A q \in Key : q # k => intent'[q] = intent[q] /\ value'[q] = value[q]
      <3> HIDE DEF commit, inProgress, i
      <3> QED
        BY <1>1, <1>2, <1>3
    <2> QED
      BY <1>1, <2>1 DEF StoreStep, record, coord, CoordStill
  <1>5. w.status \in Status /\ w.epoch \in Nat /\ w.ts \in Nat /\ w.epoch <= epoch /\ epoch \in Nat /\ rts \in Nat /\ rts # 0
    BY StateTypes DEF Verdicts
  <1>6. CASE ~ HasIntent(k)
    BY <1>1, <1>4, <1>6, ResolveNothing
  <1>7. CASE HasIntent(k) /\ inProgress
    <2>1. w.status \in {"PENDING", "STAGING"} /\ ~ commit
      BY <1>5, <1>7 DEF Finalized, Status
    <2>2. value' = value /\ intent'[k].epoch = i.epoch /\ intent'[k].ts = Forward(i.ts, w.ts)
      <3> HIDE DEF commit, inProgress, i
      <3> QED
        BY <1>1, <1>2, <1>3, <1>7, <2>1
    <2> QED
      BY <1>4, <1>7, <2>1, <2>2, ResolveRaise
  <1>8. CASE HasIntent(k) /\ ~ inProgress /\ ~ commit
    <2>1. value' = value /\ intent'[k] = NoIntent
      <3> HIDE DEF commit, inProgress, i
      <3> QED
        BY <1>1, <1>2, <1>3, <1>8
    <2>2. Dead \/ intent[k].epoch < epoch
      <3>1. CASE w.status \in {"PENDING", "STAGING"}
        BY <1>2, <1>5, <1>8, <3>1 DEF Finalized
      <3>2. CASE w.status = "ABORTED"
        BY <3>2 DEF Verdicts
      <3>3. CASE w.status = "COMMITTED"
        <4>1. CASE rec = w
          <5>1. i.epoch = w.epoch /\ i.ts <= w.ts
            BY <1>8, <3>3, <4>1 DEF CommittedOK, Has
          <5> QED
            BY <1>8, <3>3, <5>1
        <4> QED
          BY <3>3, <4>1 DEF Verdicts
      <3> QED
        BY <1>5, <3>1, <3>2, <3>3 DEF Status
    <2> QED
      BY <1>4, <1>8, <2>1, <2>2, ResolveRemove
  <1>9. CASE HasIntent(k) /\ commit
    <2>1. rec = w
      <3> SUFFICES ASSUME AllAt(w.ts), Dead PROVE FALSE
        BY <1>9 DEF Verdicts
      <3>1. rec.status # "COMMITTED"
        BY DEF Dead
      <3>2. value[k] = 0
        BY <1>9, <3>1 DEF GoneOK, AllAt
      <3>3. w.ts = 0 /\ i.ts # 0
        BY <1>9, <3>2 DEF AllAt, HasIntent
      <3> QED
        BY <1>2, <1>5, <1>9, <3>3
    <2>2. rec.status = "COMMITTED" /\ w.ts = rts /\ ~ inProgress
      BY <1>9, <2>1 DEF CommittedOK, Finalized
    <2>3. value'[k] = rts /\ intent'[k] = NoIntent
      <3> HIDE DEF commit, inProgress, i
      <3> QED
        BY <1>1, <1>2, <1>9, <2>2
    <2> QED
      BY <1>4, <1>9, <2>2, <2>3, ResolveApply
  <1> QED
    BY <1>4, <1>6, <1>7, <1>8, <1>9

-----------------------------------------------------------------------------
(* Where a pusher goes.                                                    *)

RecType == [status : Status \cup {"none"}, epoch : Epoch, ts : Ts0]
PusherTypes ==
    /\ ppc \in [Pusher -> PusherState]
    /\ seen \in [Pusher -> [key : Key, epoch : Epoch, ts : Ts0]]
    /\ work \in [Pusher -> RecType]
    /\ todo \in [Pusher -> SUBSET (Key \cup {TheRecord})]
    /\ found \in [Pusher -> SUBSET {"missing", "changed"}]
OthersStill(p) == \A q \in Pusher : q # p => PusherStill(q)

LEMMA SmallTypes ==
    /\ AnyKey \in Key /\ NoRec \in RecType /\ NoRec.epoch = 0 /\ NoRec.ts = 0 /\ NoRec.status = "none"
    /\ NobodySeen \in [key : Key, epoch : Epoch, ts : Ts0]
    /\ NobodySeen.key = AnyKey /\ NobodySeen.epoch = 0 /\ NobodySeen.ts = 0
  <1>1. AnyKey \in Key
    BY Consts DEF AnyKey
  <1>2. NoRec \in RecType /\ NoRec.epoch = 0 /\ NoRec.ts = 0 /\ NoRec.status = "none"
    BY Consts DEF NoRec, Rec, RecType
  <1> QED
    BY <1>1, <1>2, Consts DEF NobodySeen, Seen
LEMMA PusherTyped == ASSUME TypeOK PROVE PusherTypes
  BY DEF TypeOK, PusherTypes, RecType

\* A lemma of its own for what EXCEPT does to one pusher's variables.
LEMMA IdleFacts ==
    ASSUME TypeOK, NEW p \in Pusher, GoIdle(p)
    PROVE /\ PusherTypes' /\ OthersStill(p)
          /\ ppc'[p] = "idle" /\ seen'[p] = NobodySeen /\ work'[p] = NoRec /\ found'[p] = {}
  <1>1. PusherTypes
    BY PusherTyped
  <1>2. NobodySeen \in [key : Key, epoch : Epoch, ts : Ts0] /\ NoRec \in RecType /\ "idle" \in PusherState
    BY SmallTypes DEF PusherState
  <1>3. PusherTypes'
    BY <1>1, <1>2 DEF PusherTypes, GoIdle
  <1>4. OthersStill(p)
    BY <1>1 DEF OthersStill, PusherStill, PusherTypes, GoIdle
  <1> QED
    BY <1>1, <1>3, <1>4 DEF PusherTypes, GoIdle
LEMMA GoResolveFacts ==
    ASSUME TypeOK, NEW p \in Pusher, NEW w \in RecType, GoResolve(p, w)
    PROVE /\ PusherTypes' /\ OthersStill(p)
          /\ ppc'[p] = "resolve" /\ seen'[p] = seen[p] /\ work'[p] = w
  <1>1. PusherTypes
    BY PusherTyped
  <1>2. "resolve" \in PusherState
    BY DEF PusherState
  <1>3. PusherTypes'
    BY <1>1, <1>2 DEF PusherTypes, GoResolve
  <1>4. OthersStill(p)
    BY <1>1 DEF OthersStill, PusherStill, PusherTypes, GoResolve
  <1> QED
    BY <1>1, <1>3, <1>4 DEF PusherTypes, GoResolve
LEMMA GoProbeFacts ==
    ASSUME TypeOK, NEW p \in Pusher, NEW w \in RecType, GoProbe(p, w)
    PROVE /\ PusherTypes' /\ OthersStill(p)
          /\ ppc'[p] = "probe" /\ seen'[p] = seen[p] /\ work'[p] = w
          /\ todo'[p] = Key \cup {TheRecord} /\ found'[p] = found[p]
  <1>1. PusherTypes
    BY PusherTyped
  <1>2. "probe" \in PusherState
    BY DEF PusherState
  <1>3. PusherTypes'
    BY <1>1, <1>2 DEF PusherTypes, GoProbe
  <1>4. OthersStill(p)
    BY <1>1 DEF OthersStill, PusherStill, PusherTypes, GoProbe
  <1> QED
    BY <1>1, <1>3, <1>4 DEF PusherTypes, GoProbe
LEMMA ProbedFacts ==
    ASSUME TypeOK, NEW p \in Pusher, NEW x, NEW r \in SUBSET {"missing", "changed"}, Probed(p, x, r)
    PROVE /\ PusherTypes' /\ OthersStill(p)
          /\ ppc'[p] = ppc[p] /\ seen'[p] = seen[p] /\ work'[p] = work[p]
          /\ todo'[p] = todo[p] \ {x} /\ found'[p] = found[p] \cup r
  <1>1. PusherTypes
    BY PusherTyped
  <1>2. PusherTypes'
    BY <1>1 DEF PusherTypes, Probed
  <1>3. OthersStill(p)
    BY <1>1 DEF OthersStill, PusherStill, PusherTypes, Probed
  <1> QED
    BY <1>1, <1>2, <1>3 DEF PusherTypes, Probed
LEMMA GoBackFacts ==
    ASSUME TypeOK, NEW p \in Pusher, GoBack(p)
    PROVE /\ PusherTypes' /\ OthersStill(p)
          /\ ppc'[p] \in {"idle", "push"} /\ seen'[p] \in {seen[p], NobodySeen} /\ work'[p] = NoRec
          /\ found'[p] = {}
  <1>1. PusherTypes
    BY PusherTyped
  <1>2. CASE seen[p].ts = 0
    BY <1>2, IdleFacts DEF GoBack
  <1>3. CASE seen[p].ts # 0
    <2>1. /\ ppc' = [ppc EXCEPT ![p] = "push"] /\ work' = [work EXCEPT ![p] = NoRec]
          /\ todo' = [todo EXCEPT ![p] = {}] /\ found' = [found EXCEPT ![p] = {}] /\ seen' = seen
      BY <1>3 DEF GoBack
    <2>2. "push" \in PusherState /\ NoRec \in RecType
      BY SmallTypes DEF PusherState
    <2>3. PusherTypes'
      BY <1>1, <2>1, <2>2 DEF PusherTypes
    <2>4. OthersStill(p)
      BY <1>1, <2>1 DEF OthersStill, PusherStill, PusherTypes
    <2> QED
      BY <1>1, <2>1, <2>3, <2>4 DEF PusherTypes
  <1> QED
    BY <1>2, <1>3

\* A pusher that is idle or about to push carries nothing but what it saw.
LEMMA RestInv ==
    ASSUME IInv, NEW p \in Pusher, ppc'[p] \in {"idle", "push"}, seen'[p] \in {seen[p], NobodySeen}, work'[p] = NoRec,
           found'[p] = {}, CoordStill,
           \A k \in Key, t \in Nat : SeenJustified(k, t) => SeenJustified(k, t)'
    PROVE PusherInv(p)'
  <1>1. epoch' = epoch /\ wts' = wts /\ epoch \in Nat /\ wts \in Nat
    BY StateTypes DEF CoordStill, IInv
  <1>2. work'[p].epoch <= epoch'
    BY <1>1, SmallTypes
  <1>3. CASE seen'[p] = NobodySeen
    <2>1. seen'[p].epoch <= epoch' /\ seen'[p].ts <= wts'
      BY <1>1, <1>3, SmallTypes
    <2> QED
      BY <1>2, <2>1 DEF PusherInv, SeenOK, WorkOK, ProbeOK, SeenJustified
  <1>4. CASE seen'[p] = seen[p]
    <2>1. PICK k \in Key, t \in Nat : k = seen[p].key /\ t = seen[p].ts
      BY StateTypes DEF IInv
    <2>2. SeenJustified(k, t)'
      BY <2>1 DEF IInv, PusherInv, SeenOK
    <2>3. SeenJustified(seen[p].key, seen[p].ts)'
      BY <1>4, <2>1, <2>2 DEF SeenJustified, SeenHigh
    <2>4. seen'[p].epoch <= epoch'
      BY <1>1, <1>4 DEF IInv, PusherInv, SeenOK
    <2> QED
      BY <1>2, <2>3, <2>4 DEF PusherInv, SeenOK, WorkOK, ProbeOK
  <1> QED
    BY <1>3, <1>4

\* The types that a step of another transaction leaves alone.
LEMMA OthersType ==
    ASSUME TypeOK, UNCHANGED <<coord, net, left>>, PusherTypes', rec' \in RecType, tomb' \in {"clear", "set"},
           push' \in Ts0, promised' \in Ts0, intent' \in [Key -> [epoch : Epoch, ts : Ts0]],
           value' \in [Key -> Ts0], readTs' \in [Key -> Ts0]
    PROVE TypeOK'
  <1>1. /\ pc' \in CoordState /\ epoch' \in Epoch /\ rts' \in Ts /\ wts' \in Ts
        /\ sub' \in [Key -> [st : CallState, att : 0 .. 2, ts : Ts0]]
        /\ et' \in [st : CallState, att : 0 .. 2, ts : Ts0]
        /\ built' \in Ts0 /\ net' \subseteq Requests
        /\ told' \in {"nothing", "committed", "aborted", "error"} /\ left' \in Budget
    BY DEF TypeOK, coord
  <1> QED
    BY <1>1 DEF TypeOK, PusherTypes, RecType

LEMMA ResolveInv == ASSUME IInv, NEW p \in Pusher, Resolve(p) PROVE IInv'
  <1> USE DEF IInv
  <1>1. PICK w, k : w = work[p] /\ k = seen[p].key
    OBVIOUS
  <1>2. /\ ppc[p] = "resolve" /\ ResolveIntent(k, w) /\ GoIdle(p)
        /\ UNCHANGED <<record, coord, net, promised, left>>
    BY <1>1 DEF Resolve
  <1>3. k \in Key /\ w.ts \in Ts0 /\ w.ts \in Nat /\ w.epoch \in Nat /\ w.status \in Status \cup {"none"}
    BY <1>1, StateTypes DEF TypeOK
  <1>4. Verdicts(w)
    BY <1>1, <1>2, <1>3 DEF PusherInv, WorkOK, SeenOK, Verdicts
  <1>5. StoreStep(k) /\ Preserved
    BY <1>2, <1>3, <1>4, ResolveStep
  <1>6. /\ PusherTypes' /\ OthersStill(p)
        /\ ppc'[p] = "idle" /\ seen'[p] = NobodySeen /\ work'[p] = NoRec /\ found'[p] = {}
    BY <1>2, IdleFacts
  <1>7. \A q \in Key, t \in Nat : SeenJustified(q, t) => SeenJustified(q, t)'
    BY <1>5 DEF Preserved
  <1>8. PusherInv(p)'
    BY <1>5, <1>6, <1>7, RestInv DEF StoreStep
  <1>9. \A q \in Pusher : PusherInv(q)'
    BY <1>5, <1>6, <1>8 DEF Preserved, OthersStill
  <1>10. TypeOK'
    <2>1. rec' \in RecType /\ tomb' \in {"clear", "set"} /\ push' \in Ts0 /\ promised' \in Ts0 /\ readTs' \in [Key -> Ts0]
      BY <1>2, <1>5 DEF StoreStep, TypeOK, RecType
    <2> QED
      BY <1>2, <1>5, <1>6, <2>1, OthersType DEF StoreStep
  <1> QED
    BY <1>5, <1>9, <1>10 DEF Preserved

LEMMA ResolveFromRecordInv == ASSUME IInv, NEW k \in Key, ResolveFromRecord(k) PROVE IInv'
  <1> USE DEF IInv
  <1>1. PICK w : w = rec
    OBVIOUS
  <1>2. /\ rec.status \in Finalized /\ ResolveIntent(k, w)
        /\ UNCHANGED <<record, coord, net, pusher, promised, left>>
    BY <1>1 DEF ResolveFromRecord
  <1>3. w.ts \in Ts0 /\ w.ts \in Nat /\ w.epoch \in Nat
    BY <1>1, StateTypes DEF TypeOK
  <1>4. Verdicts(w)
    BY <1>1, <1>2, <1>3 DEF Verdicts, Finalized, Status, Dead, CoreInv, EpochsOK
  <1>5. StoreStep(k) /\ Preserved
    BY <1>2, <1>3, <1>4, ResolveStep
  <1>6. \A q \in Pusher : PusherInv(q)'
    BY <1>2, <1>5, PushersStill DEF Preserved
  <1>7. TypeOK'
    <2>1. rec' \in RecType /\ tomb' \in {"clear", "set"} /\ push' \in Ts0 /\ promised' \in Ts0 /\ readTs' \in [Key -> Ts0]
      BY <1>2, <1>5 DEF StoreStep, TypeOK, RecType
    <2>2. PusherTypes'
      BY <1>2, PusherTyped DEF PusherTypes, pusher
    <2> QED
      BY <1>2, <1>5, <2>1, <2>2, OthersType DEF StoreStep
  <1> QED
    BY <1>5, <1>6, <1>7 DEF Preserved

-----------------------------------------------------------------------------
(* Steps of the record: what a step that writes it must respect.           *)

RecStep == UNCHANGED <<intent, value, readTs, sub>> /\ CoordStill /\ net' \subseteq net
RecGrows ==
    /\ rec' \in RecType /\ rec'.epoch <= epoch /\ push' \in Nat /\ push' >= push
    /\ Dead => Dead'
    /\ Staged => Dead' \/ (Staged' /\ rec'.ts >= rec.ts /\ rec'.epoch >= rec.epoch)
    /\ Staged' => ~ Dead /\ (push <= rec'.ts \/ (Staged /\ rec.epoch = rec'.epoch))
    /\ rec.status = "COMMITTED" => rec' = rec \/ (AllAt(rec.ts) /\ Dead' /\ rec'.status = "none")
    /\ rec'.status = "COMMITTED" =>
          \/ rec' = rec
          \/ rec'.epoch = epoch /\ rec'.ts = rts /\ AfterCommit /\ \A k \in Key : Has(k, epoch, rts)
    /\ \A e \in Nat, t \in Nat : StagedAt(e, t) =>
          \/ StagedAt(e, t)' \/ (AllAt(t) /\ Dead')
          \/ rec.status = "STAGING" /\ SomeBlocked(e, t) /\ (Dead' \/ e # epoch \/ t # rts)
    /\ rec.status = "none" /\ Dead /\ told \notin {"aborted", "error"} => rec'.status = "none"
    /\ rec'.status = "STAGING" /\ Past(rec'.epoch, rec'.ts) => SomeBlocked(rec'.epoch, rec'.ts)

LEMMA RecTypes ==
    ASSUME NEW r \in RecType
    PROVE r.status \in Status \cup {"none"} /\ r.epoch \in Nat /\ r.ts \in Nat /\ r.ts \in Ts0 /\ r.epoch \in Epoch
  BY Consts DEF RecType

LEMMA RecFrame ==
    ASSUME TypeOK, RecStep
    PROVE /\ \A k \in Key : HasIntent(k)' = HasIntent(k) /\ Confirmed(k)' = Confirmed(k)
          /\ \A k \in Key, e \in Nat, t \in Nat : Has(k, e, t)' = Has(k, e, t) /\ Blocked(k, e, t)' = Blocked(k, e, t)
          /\ \A e \in Nat, t \in Nat : Past(e, t)' = Past(e, t) /\ SomeBlocked(e, t)' = SomeBlocked(e, t)
          /\ \A t \in Nat : AllAt(t)' = AllAt(t)
          /\ AfterCommit' = AfterCommit
          /\ ~ (Dead /\ Staged) /\ ~ (Dead /\ Staged)'
  <1> USE DEF RecStep, CoordStill
  <1>1. /\ \A k \in Key : HasIntent(k)' = HasIntent(k) /\ Confirmed(k)' = Confirmed(k)
        /\ \A k \in Key, e \in Nat, t \in Nat : Has(k, e, t)' = Has(k, e, t)
    BY DEF HasIntent, Has, Confirmed
  <1>2. \A k \in Key, e \in Nat, t \in Nat : Blocked(k, e, t)' = Blocked(k, e, t)
    BY <1>1 DEF Blocked
  <1>3. \A e \in Nat, t \in Nat : Past(e, t)' = Past(e, t) /\ SomeBlocked(e, t)' = SomeBlocked(e, t)
    BY <1>2 DEF Past, SomeBlocked
  <1>4. \A t \in Nat : AllAt(t)' = AllAt(t)
    BY DEF AllAt
  <1>5. AfterCommit' = AfterCommit
    BY DEF AfterCommit
  <1>6. ~ (Dead /\ Staged) /\ ~ (Dead /\ Staged)'
    BY DEF Dead, Staged
  <1> QED
    BY <1>1, <1>2, <1>3, <1>4, <1>5, <1>6

LEMMA RecJustified ==
    ASSUME IInv, RecStep, RecGrows, RecOK', NEW k \in Key, NEW t \in Nat, Justified(k, t) PROVE Justified(k, t)'
  <1>1. /\ rts \in Nat /\ wts \in Nat /\ push \in Nat /\ rts <= wts /\ rec'.ts \in Nat
        /\ rts' = rts /\ wts' = wts /\ readTs' = readTs /\ push' >= push /\ push' \in Nat
    BY StateTypes, RecTypes DEF IInv, CoreInv, TimesOK, RecStep, CoordStill, RecGrows
  <1>2. CASE t <= wts \/ t <= readTs[k] + 1
    BY <1>1, <1>2 DEF Justified
  <1>3. CASE ~ Staged /\ t <= push
    <2>1. CASE Staged'
      <3>1. push <= rec'.ts /\ rec'.ts <= rts
        BY <1>1, <1>3, <2>1 DEF RecGrows, RecOK
      <3> QED
        BY <1>1, <1>3, <3>1 DEF Justified
    <2>2. CASE ~ Staged'
      BY <1>1, <1>3, <2>2 DEF Justified
    <2> QED
      BY <2>1, <2>2
  <1> QED
    BY <1>2, <1>3 DEF Justified

LEMMA RecSeen ==
    ASSUME IInv, RecStep, RecGrows, RecOK', NEW k \in Key, NEW t \in Nat, SeenJustified(k, t)
    PROVE SeenJustified(k, t)'
  <1>1. CASE SeenHigh(k, t)
    BY <1>1 DEF SeenJustified, SeenHigh, HasIntent, RecStep
  <1>2. CASE ~ SeenHigh(k, t)
    <2>1. t <= wts \/ (~ Staged /\ t <= push)
      BY <1>2 DEF SeenJustified
    <2>2. /\ rts \in Nat /\ wts \in Nat /\ push \in Nat /\ rts <= wts /\ rec'.ts \in Nat
          /\ rts' = rts /\ wts' = wts /\ push' >= push /\ push' \in Nat
      BY StateTypes, RecTypes DEF IInv, CoreInv, TimesOK, RecStep, CoordStill, RecGrows
    <2>3. Staged' /\ ~ Staged => push <= rts
      BY <2>2 DEF RecGrows, RecOK
    <2> QED
      BY <2>1, <2>2, <2>3 DEF SeenJustified
  <1> QED
    BY <1>1, <1>2

LEMMA RecInPlace ==
    ASSUME IInv, RecStep, RecGrows, RecOK', NEW k \in Key, NEW t \in Nat, t >= rts, InPlace(k, t) PROVE InPlace(k, t)'
  <1>1. /\ rts \in Nat /\ push \in Nat /\ rec'.ts \in Nat /\ intent[k].ts \in Nat
        /\ rts' = rts /\ epoch' = epoch /\ intent' = intent /\ push' >= push /\ push' \in Nat
        /\ HasIntent(k)' = HasIntent(k)
    BY StateTypes, RecTypes, RecFrame DEF IInv, RecStep, CoordStill, RecGrows
  <1>2. CASE Dead
    BY <1>2 DEF InPlace, RecGrows
  <1>3. CASE ~ Dead
    <2>1. /\ HasIntent(k) /\ intent[k].epoch = epoch
          /\ intent[k].ts <= t \/ (rec.status \in {"none", "PENDING"} /\ intent[k].ts <= push)
      BY <1>3 DEF InPlace
    <2>2. CASE intent[k].ts <= t
      BY <1>1, <2>1, <2>2 DEF InPlace
    <2>3. CASE rec.status \in {"none", "PENDING"} /\ intent[k].ts <= push
      <3>1. CASE Staged'
        <4>1. push <= rec'.ts /\ rec'.ts <= rts
          BY <1>1, <2>3, <3>1 DEF RecGrows, RecOK, Staged
        <4>2. intent[k].ts <= t
          BY <1>1, <2>3, <4>1
        <4> QED
          BY <2>2, <4>2
      <3>2. CASE ~ Staged'
        <4>1. rec'.status \in {"none", "PENDING"} \/ Dead'
          BY <3>2, RecTypes DEF RecGrows, Staged, Dead, Status
        <4>2. intent[k].ts <= push'
          BY <1>1, <2>3
        <4> QED
          BY <1>1, <2>1, <4>1, <4>2 DEF InPlace
      <3> QED
        BY <3>1, <3>2
    <2> QED
      BY <2>1, <2>2, <2>3
  <1> QED
    BY <1>2, <1>3

LEMMA RecPromised ==
    ASSUME IInv, RecGrows, promised' = promised PROVE PromisedOK'
  <1>1. /\ promised \in Nat /\ push \in Nat /\ rec.ts \in Nat /\ rec'.ts \in Nat /\ push' \in Nat /\ push' >= push
        /\ ~ (Dead /\ Staged)'
    BY StateTypes, RecTypes DEF IInv, RecGrows, Dead, Staged
  <1>2. /\ Dead \/ Staged \/ promised <= push
        /\ Staged => promised <= rec.ts
    BY DEF IInv, CoreInv, PromisedOK
  <1>3. Staged' => promised <= rec'.ts
    BY <1>1, <1>2 DEF RecGrows
  <1>4. Dead' \/ Staged' \/ promised <= push'
    BY <1>1, <1>2 DEF RecGrows
  <1> QED
    BY <1>3, <1>4 DEF PromisedOK

LEMMA RecCore ==
    ASSUME IInv, RecStep, RecGrows, RecOK', PromisedOK' PROVE CoreInv'
  <1> USE DEF IInv, CoreInv
  <1>0. /\ rts \in Nat /\ rts # 0 /\ epoch \in Nat /\ rec.epoch \in Nat /\ rec.ts \in Nat
        /\ rec'.epoch \in Nat /\ rec'.ts \in Nat
    BY StateTypes, RecTypes DEF RecGrows
  <1>1. TimesOK' /\ NetOK'
    BY TimesSame, NetSame DEF RecStep
  <1>2. EpochsOK'
    BY DEF EpochsOK, RecStep, CoordStill, RecGrows
  <1>3. PastOK'
    <2>1. \A m \in net : m.epoch \in Nat /\ m.rts \in Nat
      BY StateTypes, RequestTypes
    <2>2. PICK e \in Nat, t \in Nat : e = rec'.epoch /\ t = rec'.ts
      BY <1>0
    <2>3. rec'.status = "STAGING" /\ Past(e, t)' => SomeBlocked(e, t)'
      BY <2>2, RecFrame DEF RecGrows
    <2>4. \A m \in net' : m.op = "stage" /\ Past(m.epoch, m.rts)' => SomeBlocked(m.epoch, m.rts)'
      BY <2>1, RecFrame DEF PastOK, RecStep
    <2> QED
      BY <2>2, <2>3, <2>4 DEF PastOK
  <1>4. PICK e \in Nat, t \in Nat : e = epoch /\ t = rts
    BY <1>0
  <1>5. /\ epoch' = e /\ rts' = t /\ pc' = pc /\ told' = told /\ value' = value /\ intent' = intent /\ net' \subseteq net
    BY <1>4 DEF RecStep, CoordStill
  <1>6. rec.status = "COMMITTED" =>
           /\ rec.epoch = e /\ rec.ts = t /\ AfterCommit
           /\ \A k \in Key : (value[k] = t /\ ~ HasIntent(k)) \/ (value[k] = 0 /\ Has(k, e, t))
    BY <1>4 DEF CommittedOK
  <1>7. CommittedOK'
    <2> SUFFICES ASSUME rec'.status = "COMMITTED"
                 PROVE /\ rec'.epoch = e /\ rec'.ts = t /\ AfterCommit'
                       /\ \A k \in Key : (value[k] = t /\ ~ HasIntent(k)') \/ (value[k] = 0 /\ Has(k, e, t)')
      BY <1>5 DEF CommittedOK
    <2>1. CASE rec' = rec
      BY <1>6, <2>1, RecFrame
    <2>2. CASE rec' # rec
      <3>1. rec'.epoch = e /\ rec'.ts = t /\ AfterCommit /\ \A k \in Key : Has(k, e, t)
        BY <1>4, <2>2 DEF RecGrows
      <3>2. rec.status # "COMMITTED"
        BY <2>2 DEF RecGrows, Dead
      <3>3. AllAt(0)
        BY <3>1, <3>2, Consts DEF GoneOK, Has
      <3> QED
        BY <3>1, <3>3, RecFrame DEF AllAt
    <2> QED
      BY <2>1, <2>2
  <1>8. GoneOK'
    <2> SUFFICES ASSUME rec'.status # "COMMITTED", ~ AllAt(0)
                 PROVE /\ AllAt(t)' /\ Dead' /\ AfterCommit'
                       /\ \A k \in Key : ~ HasIntent(k)'
                       /\ told # "error" => rec'.status = "none"
      BY <1>5, RecFrame DEF GoneOK, RecStep, CoordStill
    <2>1. CASE rec.status = "COMMITTED"
      <3>1. AllAt(t) /\ Dead' /\ rec'.status = "none"
        BY <1>6, <2>1 DEF RecGrows
      <3>2. \A k \in Key : ~ HasIntent(k)
        BY <1>0, <1>4, <1>6, <2>1, <3>1 DEF AllAt
      <3> QED
        BY <1>6, <2>1, <3>1, <3>2, RecFrame
    <2>2. CASE rec.status # "COMMITTED"
      <3>1. /\ AllAt(t) /\ Dead /\ AfterCommit /\ \A k \in Key : ~ HasIntent(k)
            /\ told # "error" => rec.status = "none"
        BY <1>4, <2>2 DEF GoneOK
      <3> QED
        BY <3>1, RecFrame DEF RecGrows, AfterCommit
    <2> QED
      BY <2>1, <2>2
  <1>9. IntentsOK'
    <2> SUFFICES ASSUME NEW k \in Key PROVE Justified(k, intent[k].ts)'
      BY DEF IntentsOK
    <2>1. PICK u \in Nat : u = intent[k].ts
      BY StateTypes
    <2>2. Justified(k, u)'
      BY <2>1, RecJustified DEF IntentsOK
    <2> QED
      BY <1>5, <2>1, <2>2 DEF Justified
  <1>10. ReadyOK'
    <2> SUFFICES ASSUME pc \in {"endtxn", "again"} \/ (\E m \in net : m.op = "commit")
                 PROVE rec'.status = "COMMITTED" \/ AllAt(t)' \/ \A k \in Key : InPlace(k, t)'
      BY <1>5 DEF ReadyOK
    <2>1. rec.status = "COMMITTED" \/ AllAt(t) \/ \A k \in Key : InPlace(k, t)
      BY <1>4 DEF ReadyOK
    <2>2. rec.status = "COMMITTED" => rec'.status = "COMMITTED" \/ AllAt(t)
      BY <1>6 DEF RecGrows
    <2>3. \A k \in Key : InPlace(k, t) => InPlace(k, t)'
      BY <1>0, <1>4, RecInPlace
    <2> QED
      BY <2>1, <2>2, <2>3, RecFrame
  <1>12. UnsentOK'
    BY DEF UnsentOK, RecStep, CoordStill, HasIntent
  <1>11. ToldOK'
    <2> SUFFICES ASSUME told = "committed"
                 PROVE \/ rec'.status = "COMMITTED" \/ AllAt(t)'
                       \/ StagedAt(e, t)' /\ \A k \in Key : Has(k, e, t)'
      BY <1>5 DEF ToldOK
    <2>1. rec.status = "COMMITTED" \/ AllAt(t) \/ (StagedAt(e, t) /\ \A k \in Key : Has(k, e, t))
      BY <1>4 DEF ToldOK
    <2>2. rec.status = "COMMITTED" => rec'.status = "COMMITTED" \/ AllAt(t)
      BY <1>6 DEF RecGrows
    <2>3. StagedAt(e, t) /\ (\A k \in Key : Has(k, e, t)) => StagedAt(e, t)' \/ AllAt(t)
      BY DEF RecGrows, SomeBlocked, Blocked
    <2> QED
      BY <2>1, <2>2, <2>3, RecFrame
  <1> QED
    BY <1>1, <1>2, <1>3, <1>7, <1>8, <1>9, <1>10, <1>11, <1>12

LEMMA RecPusher ==
    ASSUME IInv, RecStep, RecGrows, RecOK', NEW p \in Pusher, PusherStill(p) PROVE PusherInv(p)'
  <1> USE DEF IInv, PusherInv
  <1>0. /\ work[p].epoch \in Nat /\ work[p].ts \in Nat /\ seen[p].key \in Key /\ seen[p].ts \in Nat
        /\ rec.epoch \in Nat /\ rec.ts \in Nat /\ rec'.epoch \in Nat /\ rec'.ts \in Nat /\ push \in Nat
        /\ push' \in Nat /\ push' >= push /\ rts \in Nat /\ epoch' = epoch /\ rts' = rts
        /\ ppc'[p] = ppc[p] /\ seen'[p] = seen[p] /\ work'[p] = work[p]
        /\ todo'[p] = todo[p] /\ found'[p] = found[p]
    BY StateTypes, RecTypes DEF RecGrows, RecStep, CoordStill, PusherStill
  <1>1. SeenOK(p)'
    <2>1. PICK k \in Key, t \in Nat : k = seen[p].key /\ t = seen[p].ts
      BY <1>0
    <2>2. SeenJustified(k, t)'
      BY <2>1, RecSeen DEF SeenOK
    <2>3. SeenJustified(seen[p].key, seen[p].ts)'
      BY <1>0, <2>1, <2>2 DEF SeenJustified, SeenHigh
    <2> QED
      BY <1>0, <2>3 DEF SeenOK
  <1>2. WorkOK(p)'
    <2> SUFFICES ASSUME ppc[p] = "resolve" PROVE WorkOK(p)'
      BY <1>0 DEF WorkOK
    <2>1. PICK w : w = work[p]
      OBVIOUS
    <2>2. /\ w.status # "none" /\ w.ts \in Nat /\ work'[p] = w
          /\ w.status = "ABORTED" => Dead
          /\ w.status = "COMMITTED" => rec = w \/ (AllAt(w.ts) /\ Dead)
          /\ w.status = "PENDING" => w.ts <= push /\ (Staged => w.ts <= rec.ts)
          /\ w.status = "STAGING" => w.ts <= rts /\ (Dead \/ (Staged /\ w.ts <= rec.ts))
      BY <1>0, <2>1 DEF WorkOK
    <2>3. w.status = "ABORTED" => Dead'
      BY <2>2 DEF RecGrows
    <2>4. w.status = "COMMITTED" => rec' = w \/ (AllAt(w.ts)' /\ Dead')
      BY <2>2, RecFrame DEF RecGrows
    <2>5. w.status = "PENDING" => w.ts <= push' /\ (Staged' => w.ts <= rec'.ts)
      <3>1. w.status = "PENDING" => w.ts <= push'
        BY <1>0, <2>2
      <3>2. w.status = "PENDING" /\ Staged' => w.ts <= rec'.ts
        BY <1>0, <2>2, RecFrame DEF RecGrows
      <3> QED
        BY <3>1, <3>2
    <2>6. w.status = "STAGING" => w.ts <= rts' /\ (Dead' \/ (Staged' /\ w.ts <= rec'.ts))
      BY <1>0, <2>2 DEF RecGrows
    <2>7. AllAt(w.ts)' => (AllAt(work[p].ts))'
      BY <2>2
    <2> QED
      BY <2>2, <2>3, <2>4, <2>5, <2>6, <2>7 DEF WorkOK
  <1>3. ProbeOK(p)'
    <2>1. PICK e \in Nat, t \in Nat : e = work[p].epoch /\ t = work[p].ts
      BY <1>0
    <2>2. Prevented(p)' = Prevented(p)
      BY <1>0 DEF Prevented
    <2>3. SomeBlocked(e, t)' = SomeBlocked(e, t) /\ AllAt(t)' = AllAt(t)
      BY RecFrame
    <2>4. (\E k \in todo[p] \cap Key : Blocked(k, e, t)) => \E k \in todo[p] \cap Key : Blocked(k, e, t)'
      BY RecFrame
    <2>5. ASSUME t # 0, StagedAt(e, t), \A k \in Key \ todo[p] : Has(k, e, t) \/ value[k] = t
          PROVE \/ StagedAt(e, t)' /\ \A k \in Key \ todo[p] : Has(k, e, t)' \/ value'[k] = t
                \/ AllAt(t)' /\ Dead'
                \/ \E k \in todo[p] \cap Key : Blocked(k, e, t)'
      <3>1. \/ StagedAt(e, t)' \/ (AllAt(t) /\ Dead') \/ (rec.status = "STAGING" /\ SomeBlocked(e, t))
        BY <2>5 DEF RecGrows
      <3>2. value' = value /\ \A k \in Key : Has(k, e, t)' = Has(k, e, t)
        BY RecFrame DEF RecStep
      <3>3. rec.status = "STAGING" /\ SomeBlocked(e, t) => \E k \in todo[p] \cap Key : Blocked(k, e, t)
        BY <2>5, ProbeLost
      <3> QED
        BY <2>3, <2>4, <2>5, <3>1, <3>2, <3>3
    <2>6. ASSUME Staged \/ Dead, Staged => rec.epoch > e \/ (rec.epoch = e /\ rec.ts >= t)
          PROVE /\ Staged' \/ Dead'
                /\ Staged' => rec'.epoch > e \/ (rec'.epoch = e /\ rec'.ts >= t)
      <3>1. Staged' \/ Dead'
        BY <2>6 DEF RecGrows
      <3>2. Staged' => Staged /\ rec'.ts >= rec.ts /\ rec'.epoch >= rec.epoch
        BY <2>6, RecFrame DEF RecGrows
      <3> QED
        BY <1>0, <2>6, <3>1, <3>2
    <2>7. Probes(p, e, t) => Probes(p, e, t)'
      BY <1>0, <2>2, <2>3, <2>4, <2>5, <2>6 DEF Probes, RecGrows
    <2> QED
      BY <1>0, <2>1, <2>7 DEF ProbeOK
  <1> QED
    BY <1>1, <1>2, <1>3

LEMMA RecCall ==
    ASSUME IInv, RecStep, RecGrows, RecOK', PhaseOK', StageOK', EndTxnOK' PROVE CallInv'
  <1> USE DEF IInv, CallInv
  <1>1. PICK e \in Nat, t \in Nat : e = epoch /\ t = rts
    BY StateTypes
  <1>2. /\ epoch' = e /\ rts' = t /\ pc' = pc /\ value' = value /\ intent' = intent /\ net' \subseteq net
        /\ sub' = sub /\ rec.epoch \in Nat /\ rec'.epoch \in Nat /\ rec'.ts \in Nat /\ push \in Nat /\ push' \in Nat
        /\ push' >= push
    BY <1>1, StateTypes, RecTypes DEF RecStep, CoordStill, RecGrows
  <1>3. PrefixOK'
    <2> SUFFICES ASSUME pc = "prefix", NEW q \in Key
                 PROVE /\ sub[q].st = "ok" => sub[q].ts >= t /\ InPlace(q, sub[q].ts)'
                       /\ sub[q].st = "retry" => sub[q].ts > t
      BY <1>2 DEF PrefixOK
    <2>1. PICK u \in Nat : u = sub[q].ts
      BY StateTypes
    <2>2. InPlace(q, u) /\ u >= t => InPlace(q, u)'
      BY <1>1, RecInPlace
    <2>3. sub[q].st = "ok" => u >= t /\ InPlace(q, u)
      BY <1>1, <2>1 DEF PrefixOK
    <2>4. sub'[q].ts = u
      BY <1>2, <2>1
    <2> QED
      BY <1>1, <2>1, <2>2, <2>3, <2>4 DEF PrefixOK
  <1>4. ASSUME NEW k \in Key PROVE WritesOK(k)'
    <2>1. /\ Has(k, e, t)' = Has(k, e, t) /\ Blocked(k, e, t)' = Blocked(k, e, t)
          /\ HasIntent(k)' = HasIntent(k) /\ Confirmed(k)' = Confirmed(k)
      BY RecFrame
    <2>2. ~ (Staged /\ rec.epoch = e) /\ (Dead \/ push > t)
             => ~ (Staged' /\ rec'.epoch = e) /\ (Dead' \/ push' > t)
      <3>1. Dead => Dead' /\ ~ Staged'
        BY RecFrame DEF RecGrows
      <3>2. push > t => push' > t
        BY <1>2
      <3>3. ~ (Staged /\ rec.epoch = e) /\ push > t => ~ (Staged' /\ rec'.epoch = e)
        BY <1>2 DEF RecGrows, RecOK
      <3> QED
        BY <3>1, <3>2, <3>3
    <2>3. Blocked(k, e, t) /\ Nothing => Nothing'
      <3>1. AllAt(0)' = AllAt(0)
        BY RecFrame
      <3>2. Blocked(k, e, t) /\ Nothing => rec'.status # "COMMITTED"
        BY <1>1 DEF RecGrows, Nothing, Blocked
      <3> QED
        BY <3>1, <3>2 DEF Nothing
    <2> QED
      BY <1>1, <1>2, <2>1, <2>2, <2>3 DEF WritesOK
  <1> QED
    BY <1>3, <1>4

\* The coordinator's EndTxn is not answered.
LEMMA RecSame ==
    ASSUME IInv, RecStep, RecGrows, et' = et,
           pc = "commit" /\ NeverStaged /\ (et = Waiting(1) \/ et.st \in {"retry", "aborted"}) => NeverStaged',
           pc = "endtxn" /\ Nothing /\ (et = Waiting(1) \/ et.st \in {"retry", "aborted"}) => Nothing'
    PROVE PhaseOK' /\ StageOK' /\ EndTxnOK'
  <1> USE DEF IInv, CallInv
  <1>1. PICK e \in Nat, t \in Nat : e = epoch /\ t = rts
    BY StateTypes
  <1>2. epoch' = e /\ rts' = t /\ pc' = pc /\ told' = told /\ net' \subseteq net /\ sub' = sub
    BY <1>1 DEF RecStep, CoordStill
  <1>3. PhaseOK'
    BY <1>2 DEF PhaseOK
  <1>4. EndTxnOK'
    <2>1. AllAt(t)' = AllAt(t)
      BY RecFrame
    <2>2. rec.status = "COMMITTED" => rec'.status = "COMMITTED" \/ AllAt(t)
      BY <1>1 DEF RecGrows, CoreInv, CommittedOK
    <2> QED
      BY <1>1, <1>2, <2>1, <2>2 DEF EndTxnOK
  <1>5. StageOK'
    <2> SUFFICES ASSUME pc = "commit" PROVE StageOK'
      BY <1>2 DEF StageOK
    <2>1. \A m \in net' : m \in net /\ (IsStage(m, epoch)' <=> IsStage(m, epoch))
      BY <1>1, <1>2 DEF IsStage
    <2>2. et.st = "aborted" => Dead'
      BY DEF StageOK, RecGrows
    <2>3. ASSUME et.st = "ok"
          PROVE \/ StagedAt(e, t)' \/ AllAt(t)'
                \/ Dead' /\ \E k \in Key : Blocked(k, e, t)' /\ ~ Confirmed(k)'
      <3>1. /\ AllAt(t)' = AllAt(t)
            /\ \A k \in Key : Blocked(k, e, t)' = Blocked(k, e, t) /\ Confirmed(k)' = Confirmed(k)
        BY RecFrame
      <3>2. \/ StagedAt(e, t) \/ AllAt(t)
            \/ Dead /\ \E k \in Key : Blocked(k, e, t) /\ ~ Confirmed(k)
        BY <1>1, <2>3 DEF StageOK
      <3>3. Dead => Dead'
        BY DEF RecGrows
      <3>4. ASSUME StagedAt(e, t), ~ StagedAt(e, t)', ~ AllAt(t)
            PROVE Dead' /\ \E k \in Key : Blocked(k, e, t) /\ ~ Confirmed(k)
        <4>1. rec.status = "STAGING" /\ SomeBlocked(e, t) /\ Dead'
          BY <1>1, <3>4 DEF RecGrows
        <4>2. PICK k \in Key : Blocked(k, e, t)
          BY <4>1 DEF SomeBlocked
        <4>3. AllAt(0)
          BY <4>1 DEF CoreInv, GoneOK, Dead
        <4>4. ~ Has(k, e, t) /\ value[k] # t /\ t # 0
          BY <1>1, <4>2, <4>3, StateTypes DEF Blocked, AllAt
        <4>5. ~ Confirmed(k)
          BY <1>1, <3>4, <4>4 DEF WritesOK, StagedAt
        <4> QED
          BY <4>1, <4>2, <4>5
      <3> QED
        BY <3>1, <3>2, <3>3, <3>4
    <2> QED
      BY <1>1, <1>2, <2>1, <2>2, <2>3 DEF StageOK
  <1> QED
    BY <1>3, <1>4, <1>5

LEMMA RecPreserved ==
    ASSUME IInv, RecStep, RecGrows, RecOK', PromisedOK', PhaseOK', StageOK', EndTxnOK' PROVE Preserved
  BY RecCore, RecCall, RecPusher, RecSeen DEF Preserved

\* The record stays what it is, or the markers rise.
LEMMA KeepGrows ==
    ASSUME IInv, rec' = rec, tomb' \in {tomb, "set"}, push' \in Nat, push' >= push, CoordStill
    PROVE RecGrows /\ RecOK'
  <1> USE DEF IInv, CoreInv
  <1>1. rec.epoch \in Nat /\ rec.ts \in Nat /\ rec \in RecType /\ rec.epoch <= epoch
    BY StateTypes DEF EpochsOK, TypeOK, RecType
  <1>2. Staged' = Staged /\ (Dead => Dead') /\ (Staged => ~ Dead) /\ (Staged => ~ Dead')
    BY DEF Staged, Dead
  <1>3. \A e \in Nat, t \in Nat : StagedAt(e, t) => StagedAt(e, t)'
    BY <1>2 DEF StagedAt
  <1>4. RecOK'
    BY <1>2 DEF RecOK, CoordStill
  <1>5. rec.status = "STAGING" /\ Past(rec.epoch, rec.ts) => SomeBlocked(rec.epoch, rec.ts)
    BY DEF PastOK
  <1>6. rec'.ts >= rec.ts /\ rec'.epoch >= rec.epoch
    BY <1>1
  <1> QED
    BY <1>1, <1>2, <1>3, <1>4, <1>5, <1>6 DEF RecGrows
LEMMA KeepSame ==
    ASSUME IInv, RecStep, RecGrows, et' = et, rec' = rec PROVE PhaseOK' /\ StageOK' /\ EndTxnOK'
  <1>1. Staged' = Staged /\ epoch' = epoch /\ value' = value
    BY DEF Staged, RecStep, CoordStill
  <1>2. Nothing' = Nothing /\ NeverStaged' = NeverStaged
    BY <1>1 DEF Nothing, NeverStaged, AllAt
  <1> QED
    BY <1>2, RecSame

\* The record is aborted: it is not the record of a commit.
LEMMA AbortGrows ==
    ASSUME IInv, rec' \in RecType, rec'.status = "ABORTED", rec'.epoch <= epoch, tomb' = "set", push' = push,
           rec.status # "COMMITTED", rec.status = "STAGING" => SomeBlocked(rec.epoch, rec.ts),
           rec.status = "none" => ~ Dead \/ told \in {"aborted", "error"}
    PROVE RecGrows /\ RecOK'
  <1> USE DEF IInv
  <1>1. Dead' /\ ~ Staged' /\ push \in Nat
    BY StateTypes DEF Dead, Staged
  <1>2. ASSUME NEW e \in Nat, NEW t \in Nat, StagedAt(e, t)
        PROVE rec.status = "STAGING" /\ SomeBlocked(e, t)
    BY <1>2 DEF StagedAt, Staged
  <1>3. push' >= push
    BY <1>1
  <1>4. RecOK'
    BY <1>1 DEF RecOK
  <1> QED
    BY <1>1, <1>2, <1>3, <1>4 DEF RecGrows
LEMMA AbortSame ==
    ASSUME IInv, RecStep, RecGrows, et' = et, rec'.status = "ABORTED" PROVE PhaseOK' /\ StageOK' /\ EndTxnOK'
  <1>1. ~ Staged' /\ value' = value
    BY DEF Staged, RecStep
  <1>2. (Nothing => Nothing') /\ (NeverStaged => NeverStaged')
    BY <1>1 DEF Nothing, NeverStaged, AllAt
  <1> QED
    BY <1>2, RecSame

\* A heartbeat writes the record.
LEMMA PendingGrows ==
    ASSUME IInv, rec' \in RecType, rec'.status = "PENDING", rec'.epoch <= epoch, tomb' = "set", push' = push,
           rec.status = "PENDING" \/ (rec.status = "none" /\ tomb = "clear")
    PROVE RecGrows /\ RecOK'
  <1> USE DEF IInv
  <1>1. ~ Dead /\ ~ Staged /\ ~ Dead' /\ ~ Staged' /\ push \in Nat
    BY StateTypes DEF Dead, Staged
  <1>2. \A e \in Nat, t \in Nat : ~ StagedAt(e, t)
    BY <1>1 DEF StagedAt
  <1>3. push' >= push
    BY <1>1
  <1>4. RecOK'
    BY <1>1 DEF RecOK
  <1> QED
    BY <1>1, <1>2, <1>3, <1>4 DEF RecGrows
LEMMA PendingSame ==
    ASSUME IInv, RecStep, RecGrows, et' = et, rec'.status = "PENDING" PROVE PhaseOK' /\ StageOK' /\ EndTxnOK'
  <1>1. ~ Staged' /\ value' = value
    BY DEF Staged, RecStep
  <1>2. (Nothing => Nothing') /\ (NeverStaged => NeverStaged')
    BY <1>1 DEF Nothing, NeverStaged, AllAt
  <1> QED
    BY <1>2, RecSame

\* The record is removed: it is aborted, or its values are in place.
LEMMA GcGrows ==
    ASSUME IInv, rec' = NoRec, tomb' = tomb, push' = push,
           \/ rec.status = "ABORTED"
           \/ rec.status = "COMMITTED" /\ \A k \in Key : value[k] # 0 \/ ~ HasIntent(k)
    PROVE RecGrows /\ RecOK'
  <1> USE DEF IInv, CoreInv
  <1>1. /\ rec' \in RecType /\ rec'.status = "none" /\ rec'.epoch = 0 /\ rec.ts \in Nat /\ push \in Nat /\ epoch \in Nat
        /\ tomb = "set"
    BY StateTypes, SmallTypes DEF RecOK
  <1>2. Dead' /\ ~ Staged'
    BY <1>1 DEF Dead, Staged
  <1>3. rec.status = "COMMITTED" => AllAt(rec.ts)
    BY StateTypes DEF CommittedOK, AllAt, Has
  <1>4. ASSUME NEW e \in Nat, NEW t \in Nat, StagedAt(e, t) PROVE AllAt(t)
    BY <1>3, <1>4 DEF StagedAt, Staged
  <1>5. push' >= push /\ rec'.epoch <= epoch
    BY <1>1
  <1>6. RecOK'
    BY <1>1, <1>2 DEF RecOK
  <1> QED
    BY <1>1, <1>2, <1>3, <1>4, <1>5, <1>6 DEF RecGrows
LEMMA GcSame ==
    ASSUME IInv, RecStep, RecGrows, et' = et, rec'.status = "none" PROVE PhaseOK' /\ StageOK' /\ EndTxnOK'
  <1>1. ~ Staged' /\ value' = value
    BY DEF Staged, RecStep
  <1>2. (Nothing => Nothing') /\ (NeverStaged => NeverStaged')
    BY <1>1 DEF Nothing, NeverStaged, AllAt
  <1> QED
    BY <1>2, RecSame

\* Only the record, the markers and the set of requests change.
LEMMA RecType1 ==
    ASSUME TypeOK, UNCHANGED <<store, coord, pusher, promised, left>>, net' \subseteq net,
           rec' \in RecType, tomb' \in {"clear", "set"}, push' \in Ts0
    PROVE TypeOK'
  <1>1. /\ pc' \in CoordState /\ epoch' \in Epoch /\ rts' \in Ts /\ wts' \in Ts
        /\ sub' \in [Key -> [st : CallState, att : 0 .. 2, ts : Ts0]]
        /\ et' \in [st : CallState, att : 0 .. 2, ts : Ts0]
        /\ built' \in Ts0 /\ net' \subseteq Requests
        /\ told' \in {"nothing", "committed", "aborted", "error"}
    BY DEF TypeOK, coord
  <1>2. left' \in Budget /\ promised' \in Ts0
    BY DEF TypeOK
  <1>3. PusherTypes'
    BY PusherTyped DEF PusherTypes, pusher
  <1>4. /\ intent' \in [Key -> [epoch : Epoch, ts : Ts0]] /\ value' \in [Key -> Ts0] /\ readTs' \in [Key -> Ts0]
    BY DEF TypeOK, store
  <1> QED
    BY <1>1, <1>2, <1>3, <1>4 DEF TypeOK, PusherTypes, RecType

LEMMA StillFacts ==
    ASSUME UNCHANGED <<store, coord>>, net' \subseteq net PROVE RecStep /\ CoordStill /\ et' = et
  BY DEF store, coord, RecStep, CoordStill

\* What is left of each action's proof.
LEMMA RecordDone ==
    ASSUME IInv, UNCHANGED <<store, coord, pusher, promised, left>>, net' \subseteq net,
           RecGrows, RecOK', PhaseOK' /\ StageOK' /\ EndTxnOK', tomb' \in {"clear", "set"}, push' \in Ts0
    PROVE IInv'
  <1> USE DEF IInv
  <1>1. RecStep
    BY StillFacts
  <1>2. Preserved
    BY <1>1, RecPromised, RecPreserved
  <1>3. TypeOK'
    BY RecType1 DEF RecGrows
  <1> QED
    BY <1>2, <1>3, PushersStill DEF Preserved

LEMMA HeartbeatInv == ASSUME IInv, HeartbeatTxn PROVE IInv'
  <1> USE DEF IInv
  <1>1. UNCHANGED <<store, coord, net, pusher, promised, left>> /\ net' \subseteq net
    BY DEF HeartbeatTxn
  <1>2. /\ rec' \in RecType /\ rec'.status = "PENDING" /\ rec'.epoch <= epoch /\ tomb' = "set" /\ push' = push
        /\ rec.status = "PENDING" \/ (rec.status = "none" /\ tomb = "clear")
    <2>1. /\ rec.epoch \in Epoch /\ epoch \in Epoch /\ wts \in Nat /\ wts \in Ts0 /\ push \in Nat /\ push \in Ts0
          /\ rec.ts \in Ts0 /\ rec.ts \in Nat /\ rec.epoch <= epoch /\ epoch <= epoch
      BY StateTypes, Consts DEF TypeOK, CoreInv, EpochsOK
    <2>2. Forward(wts, push) \in Ts0 /\ Forward(rec.ts, push) \in Ts0
      BY <2>1, ForwardFacts
    <2> QED
      BY <2>1, <2>2 DEF HeartbeatTxn, WriteRec, Rec, RecType, Status, CanCreateTxnRecord, MinTxnCommitTS
  <1>3. RecStep /\ et' = et
    BY <1>1, StillFacts
  <1>4. RecGrows /\ RecOK'
    BY <1>2, PendingGrows
  <1>5. PhaseOK' /\ StageOK' /\ EndTxnOK'
    BY <1>2, <1>3, <1>4, PendingSame
  <1>6. tomb' \in {"clear", "set"} /\ push' \in Ts0
    BY <1>2 DEF TypeOK
  <1> QED
    BY <1>1, <1>4, <1>5, <1>6, RecordDone

LEMMA GcInv == ASSUME IInv, GcRecord PROVE IInv'
  <1> USE DEF IInv
  <1>1. UNCHANGED <<store, coord, pusher, promised, left>> /\ net' \subseteq net /\ tomb' = tomb /\ push' = push
    BY DEF GcRecord
  <1>2. RecGrows /\ RecOK' /\ rec'.status = "none"
    BY <1>1, GcGrows, SmallTypes DEF GcRecord
  <1>3. RecStep /\ et' = et
    BY <1>1, StillFacts
  <1>4. PhaseOK' /\ StageOK' /\ EndTxnOK'
    BY <1>2, <1>3, GcSame
  <1>5. tomb' \in {"clear", "set"} /\ push' \in Ts0
    BY <1>1 DEF TypeOK
  <1> QED
    BY <1>1, <1>2, <1>4, <1>5, RecordDone

LEMMA RollbackTxnInv == ASSUME IInv, NEW m \in net, RollbackTxn(m) PROVE IInv'
  <1> USE DEF IInv
  <1>1. UNCHANGED <<store, coord, pusher, promised, left>> /\ net' \subseteq net /\ m.op = "abort"
    BY DEF RollbackTxn
  <1>2. RecStep /\ et' = et /\ CoordStill
    BY <1>1, StillFacts
  <1>3. push \in Nat /\ push >= push /\ tomb \in {"clear", "set"} /\ push \in Ts0
    BY StateTypes DEF TypeOK
  <1>4. CASE UNCHANGED record
    <2>1. rec' = rec /\ tomb' = tomb /\ push' = push
      BY <1>4 DEF record
    <2>2. RecGrows /\ RecOK'
      BY <1>2, <1>3, <2>1, KeepGrows
    <2>3. PhaseOK' /\ StageOK' /\ EndTxnOK'
      BY <1>2, <2>1, <2>2, KeepSame
    <2> QED
      BY <1>1, <1>3, <2>1, <2>2, <2>3, RecordDone
  <1>5. CASE /\ RollbackWrites(m)
             /\ IF rec.status = "ABORTED" THEN WriteRec("ABORTED", rec.epoch, rec.ts)
                ELSE WriteRec("ABORTED", m.epoch, Forward(rec.ts, m.wts))
    <2>1. /\ m.epoch \in Epoch /\ m.epoch \in Nat /\ m.wts \in Nat /\ m.wts \in Ts0 /\ m.epoch <= epoch
          /\ rec.epoch \in Epoch /\ rec.ts \in Ts0 /\ rec.ts \in Nat /\ rec.epoch <= epoch
          /\ epoch \in Nat /\ rec.epoch \in Nat
      BY StateTypes, RequestTypes, Consts DEF TypeOK, CoreInv, EpochsOK
    <2>2. Forward(rec.ts, m.wts) \in Ts0
      BY <2>1, ForwardFacts
    <2>3. /\ rec' \in RecType /\ rec'.status = "ABORTED" /\ rec'.epoch <= epoch /\ tomb' = "set" /\ push' = push
      BY <1>5, <2>1, <2>2 DEF WriteRec, Rec, RecType, Status
    <2>4. rec.status # "COMMITTED"
      BY <1>5 DEF RollbackWrites, TreatedAsPending
    <2>5. rec.status = "STAGING" => SomeBlocked(rec.epoch, rec.ts)
      <3>1. rec.status = "STAGING" => m.epoch > rec.epoch
        BY <1>5 DEF RollbackWrites, TreatedAsPending
      <3>2. rec.status = "STAGING" => Past(rec.epoch, rec.ts)
        BY <2>1, <3>1 DEF Past
      <3> QED
        BY <3>2 DEF CoreInv, PastOK
    <2>6. told \in {"aborted", "error"}
      BY <1>1 DEF CoreInv, NetOK, NetAt, CallInv, PhaseOK, TypeOK
    <2>7. RecGrows /\ RecOK'
      BY <2>3, <2>4, <2>5, <2>6, AbortGrows
    <2>8. PhaseOK' /\ StageOK' /\ EndTxnOK'
      BY <1>2, <2>3, <2>7, AbortSame
    <2> QED
      BY <1>1, <1>3, <2>3, <2>7, <2>8, RecordDone
  <1> QED
    BY <1>4, <1>5 DEF RollbackTxn

-----------------------------------------------------------------------------
(* EndTxn that stages or commits.                                          *)

EtAnswered(m, s, t) ==
    /\ AwaitsEndTxn(m) /\ et'.ts = t
    /\ \/ et'.st = s /\ (s # "ok" => m.att = 1)
       \/ et'.st = "amb" /\ s # "ok"

LEMMA AnswerEndTxnFacts ==
    ASSUME TypeOK, NEW m \in net, m.op \in {"stage", "commit"}, NEW s, NEW t, AnswerEndTxn(m, s, t)
    PROVE /\ net' = net \ {m} /\ CoordStill /\ sub' = sub
          /\ (~ AwaitsEndTxn(m) /\ et' = et) \/ EtAnswered(m, s, t)
  <1>1. net' = net \ {m} /\ CoordStill /\ sub' = sub
    BY DEF AnswerEndTxn, CoordStill
  <1>2. m.att \in 1 .. 2
    BY RequestTypes, StateTypes
  <1>3. CASE AwaitsEndTxn(m)
    <2>1. et' = Call(Verdict(s, m.att), m.att, t)
      BY <1>3 DEF AnswerEndTxn
    <2>2. pc \in {"commit", "endtxn"}
      BY <1>3 DEF AwaitsEndTxn
    <2>3. \/ Verdict(s, m.att) = s /\ (s # "ok" => m.att = 1)
          \/ Verdict(s, m.att) = "amb" /\ s # "ok"
      BY <1>2, <2>2 DEF Verdict, WithCommit, IsError
    <2> QED
      BY <1>1, <1>3, <2>1, <2>3 DEF EtAnswered, Call
  <1>4. CASE ~ AwaitsEndTxn(m)
    BY <1>1, <1>4 DEF AnswerEndTxn
  <1> QED
    BY <1>3, <1>4

\* The first attempt of an EndTxn is the only one there is.
LEMMA OnlyAttempt ==
    ASSUME IInv, NEW m \in net, m.op \in {"stage", "commit"}, AwaitsEndTxn(m), m.att = 1
    PROVE /\ et = Waiting(1) /\ m.epoch = epoch /\ m.rts = rts /\ m.wts = rts
          /\ pc = "commit" => m.op = "stage" /\ \A n \in net : IsStage(n, epoch) => n = m
          /\ pc = "endtxn" => m.op = "commit" /\ \A n \in net : n.op = "commit" => n = m
  <1> USE DEF IInv, CoreInv
  <1>1. et = Waiting(1) /\ m.epoch = epoch /\ m.rts = rts /\ m.wts = rts
    BY DEF AwaitsEndTxn, NetOK, NetAt
  <1>2. pc = "commit" => m.op = "stage"
    BY DEF AwaitsEndTxn
  <1>3. pc = "endtxn" => m.op = "commit"
    BY DEF AwaitsEndTxn
  <1>4. ASSUME NEW n \in net, n.op = m.op, n.epoch = m.epoch, n.rts = m.rts, n.att = m.att PROVE n = m
    <2>1. n.wts = m.wts
      BY <1>4 DEF NetOK, NetAt
    <2>2. n \in Requests /\ m \in Requests
      BY DEF TypeOK
    <2>3. /\ n = [op |-> n.op, epoch |-> n.epoch, rts |-> n.rts, wts |-> n.wts, att |-> n.att]
          /\ m = [op |-> m.op, epoch |-> m.epoch, rts |-> m.rts, wts |-> m.wts, att |-> m.att]
      BY <1>4, <2>2 DEF Requests
    <2> QED
      BY <1>4, <2>1, <2>3
  <1>5. ASSUME pc = "commit", NEW n \in net, IsStage(n, epoch) PROVE n = m
    <2>1. n.op = "stage" /\ n.epoch = epoch /\ n.rts = rts /\ n.att = 1
      BY <1>1, <1>5 DEF NetOK, NetAt, IsStage, CallInv, StageOK
    <2> QED
      BY <1>1, <1>2, <1>4, <1>5, <2>1
  <1>6. ASSUME pc = "endtxn", NEW n \in net, n.op = "commit" PROVE n = m
    <2>1. n.epoch = epoch /\ n.rts = rts /\ n.att = 1
      BY <1>1, <1>6 DEF NetOK, NetAt, CallInv, EndTxnOK
    <2> QED
      BY <1>1, <1>3, <1>4, <1>6, <2>1
  <1> QED
    BY <1>1, <1>2, <1>3, <1>5, <1>6

\* An error that is awaited.
LEMMA EtError ==
    ASSUME IInv, NEW m \in net, m.op \in {"stage", "commit"}, NEW s, NEW t, EtAnswered(m, s, t),
           s \in {"aborted", "retry", "fail"}, s = "aborted" => Dead, s = "retry" => t > m.rts,
           UNCHANGED <<rec, tomb, push>>, RecStep, net' = net \ {m}
    PROVE PhaseOK' /\ StageOK' /\ EndTxnOK'
  <1> USE DEF IInv, CallInv
  <1>1. /\ pc \in {"commit", "endtxn"} /\ m.rts = rts /\ AwaitsEndTxn(m)
    BY DEF EtAnswered, AwaitsEndTxn
  <1>2. epoch' = epoch /\ rts' = rts /\ pc' = pc /\ told' = told /\ sub' = sub /\ rec' = rec /\ value' = value
    BY DEF RecStep, CoordStill
  <1>3. Staged' = Staged /\ Dead' = Dead
    BY <1>2 DEF Staged, Dead
  <1>4. Nothing' = Nothing /\ NeverStaged' = NeverStaged
    BY <1>2, <1>3 DEF Nothing, NeverStaged, AllAt
  <1>5. CASE et'.st = s /\ m.att = 1
    <2>1. /\ et = Waiting(1)
          /\ pc = "commit" => \A n \in net : IsStage(n, epoch) => n = m
          /\ pc = "endtxn" => \A n \in net : n.op = "commit" => n = m
      BY <1>1, <1>5, OnlyAttempt
    <2>2. et' # Waiting(1) /\ et'.ts = t
      BY <1>5 DEF Waiting, Call, EtAnswered
    <2>3. pc = "commit" => NeverStaged /\ \A n \in net' : ~ IsStage(n, epoch)'
      BY <1>2, <2>1 DEF StageOK, IsStage
    <2>4. pc = "endtxn" => Nothing /\ \A n \in net' : n.op # "commit"
      BY <2>1 DEF EndTxnOK
    <2>5. PhaseOK'
      BY <1>1, <1>2, <1>5 DEF PhaseOK
    <2>6. StageOK'
      BY <1>1, <1>2, <1>3, <1>4, <1>5, <2>2, <2>3 DEF StageOK
    <2>7. EndTxnOK'
      BY <1>1, <1>2, <1>4, <1>5, <2>2, <2>4 DEF EndTxnOK
    <2> QED
      BY <2>5, <2>6, <2>7
  <1>6. CASE et'.st = "amb"
    <2>1. et' # Waiting(1)
      BY <1>6 DEF Waiting, Call
    <2> QED
      BY <1>1, <1>2, <1>6, <2>1 DEF PhaseOK, StageOK, EndTxnOK
  <1> QED
    BY <1>5, <1>6 DEF EtAnswered

\* The provisional commit timestamp is at or above what was promised.
LEMMA Provisional ==
    ASSUME IInv, NEW m \in net, m.op \in {"stage", "commit"}, EndTxnMayCommit(m)
    PROVE /\ ProvisionalTs(m) \in Nat /\ ProvisionalTs(m) \in Ts0 /\ ProvisionalTs(m) >= m.wts
          /\ rec.status # "none" => ProvisionalTs(m) >= rec.ts
          /\ rec.status # "STAGING" \/ m.epoch > rec.epoch => ProvisionalTs(m) >= push
          /\ ~ Dead /\ rec.status # "COMMITTED" /\ AllAt(0)
          /\ rec.status = "STAGING" => m.epoch >= rec.epoch
  <1> USE DEF IInv
  <1>1. /\ rec.ts \in Nat /\ rec.ts \in Ts0 /\ push \in Nat /\ push \in Ts0 /\ m.wts \in Nat /\ m.wts \in Ts0
        /\ m.epoch \in Nat /\ rec.epoch \in Nat
    BY StateTypes, RequestTypes, Consts DEF TypeOK
  <1>2. PICK f : f = Forward(rec.ts, m.wts)
    OBVIOUS
  <1>3. f \in Nat /\ f \in Ts0 /\ f >= rec.ts /\ f >= m.wts
    BY <1>1, <1>2, ForwardFacts
  <1>4. /\ Forward(f, push) \in Nat /\ Forward(f, push) \in Ts0 /\ Forward(f, push) >= f /\ Forward(f, push) >= push
    BY <1>1, <1>3, ForwardFacts
  <1>5. /\ Forward(m.wts, push) \in Nat /\ Forward(m.wts, push) \in Ts0 /\ Forward(m.wts, push) >= m.wts
        /\ Forward(m.wts, push) >= push
    BY <1>1, ForwardFacts
  <1>6. rec.status \in {"none", "PENDING", "STAGING"} /\ ~ Dead
    BY DEF EndTxnMayCommit, Dead, CanCreateTxnRecord
  <1>7. AllAt(0)
    BY <1>6 DEF CoreInv, GoneOK
  <1>8. rec.status = "STAGING" => m.epoch >= rec.epoch
    BY <1>1, <1>6 DEF EndTxnMayCommit, EpochRegression
  <1>9. CASE rec.status = "none"
    BY <1>5, <1>6, <1>7, <1>9 DEF ProvisionalTs, MinTxnCommitTS
  <1>10. CASE rec.status # "none" /\ TreatedAsPending(m)
    <2>1. ProvisionalTs(m) = Forward(f, push)
      BY <1>2, <1>10 DEF ProvisionalTs, MinTxnCommitTS
    <2>2. Forward(f, push) >= rec.ts /\ Forward(f, push) >= m.wts
      BY <1>1, <1>3, <1>4
    <2> QED
      BY <1>4, <1>6, <1>7, <1>8, <2>1, <2>2
  <1>11. CASE rec.status # "none" /\ ~ TreatedAsPending(m)
    <2>1. ProvisionalTs(m) = f /\ rec.status = "STAGING" /\ ~ (m.epoch > rec.epoch)
      BY <1>2, <1>6, <1>11 DEF ProvisionalTs, TreatedAsPending
    <2> QED
      BY <1>3, <1>6, <1>7, <1>8, <2>1
  <1> QED
    BY <1>9, <1>10, <1>11

LEMMA StageGrows ==
    ASSUME IInv, NEW m \in net, m.op = "stage", EndTxnMayCommit(m), ProvisionalTs(m) = m.rts,
           rec' = Rec("STAGING", m.epoch, m.rts), tomb' = "set", push' = push, CoordStill
    PROVE RecGrows /\ RecOK'
  <1> USE DEF IInv, CoreInv
  <1>1. /\ m.epoch \in Epoch /\ m.epoch \in Nat /\ m.rts \in Nat /\ m.rts \in Ts0 /\ m.rts # 0 /\ m.epoch <= epoch
        /\ m.rts <= rts /\ rec.epoch \in Nat /\ rec.ts \in Nat /\ push \in Nat /\ epoch \in Nat /\ rts \in Nat
    BY StateTypes, RequestTypes, Consts DEF NetOK, NetAt, EpochsOK
  <1>2. rec'.status = "STAGING" /\ rec'.epoch = m.epoch /\ rec'.ts = m.rts /\ rec' \in RecType
    BY <1>1 DEF Rec, RecType, Status
  <1>3. /\ rec.status # "none" => m.rts >= rec.ts
        /\ rec.status # "STAGING" \/ m.epoch > rec.epoch => m.rts >= push
        /\ ~ Dead /\ rec.status # "COMMITTED" /\ AllAt(0)
        /\ rec.status = "STAGING" => m.epoch >= rec.epoch
    BY Provisional
  <1>4. Staged' /\ ~ Dead' /\ (Staged => rec.status = "STAGING")
    BY <1>2, <1>3 DEF Staged, Dead
  <1>5. Past(m.epoch, m.rts) => SomeBlocked(m.epoch, m.rts)
    BY DEF PastOK
  <1>6. ASSUME NEW e \in Nat, NEW t \in Nat, StagedAt(e, t)
        PROVE StagedAt(e, t)' \/ (rec.status = "STAGING" /\ SomeBlocked(e, t) /\ (e # epoch \/ t # rts))
    <2>1. rec.status = "STAGING" /\ rec.epoch = e /\ rec.ts = t /\ m.epoch >= e /\ m.rts >= t
      BY <1>3, <1>4, <1>6 DEF StagedAt
    <2>2. CASE m.epoch = e /\ m.rts = t
      BY <1>2, <1>4, <2>2 DEF StagedAt
    <2>3. CASE ~ (m.epoch = e /\ m.rts = t)
      <3>1. epoch > e \/ (epoch = e /\ rts > t)
        BY <1>1, <2>1, <2>3
      <3>2. Past(e, t) /\ (e # epoch \/ t # rts)
        BY <1>1, <3>1 DEF Past
      <3> QED
        BY <2>1, <3>2 DEF PastOK
    <2> QED
      BY <2>2, <2>3
  <1>7. RecOK'
    <2>1. m.epoch = epoch => /\ pc # "run" /\ (pc = "commit" => m.rts = rts)
                             /\ (pc \in {"prefix", "again", "endtxn"} => m.rts < rts)
      BY DEF NetOK, NetAt, IsStage
    <2> QED
      BY <1>1, <1>2, <2>1 DEF RecOK, CoordStill
  <1>8. Staged => rec'.ts >= rec.ts /\ rec'.epoch >= rec.epoch
    BY <1>2, <1>3, <1>4
  <1>9. push <= rec'.ts \/ (Staged /\ rec.epoch = rec'.epoch)
    BY <1>1, <1>2, <1>3 DEF Staged
  <1>10. push' >= push
    BY <1>1
  <1> QED
    BY <1>1, <1>2, <1>3, <1>4, <1>5, <1>6, <1>7, <1>8, <1>9, <1>10 DEF RecGrows

LEMMA CommitGrows ==
    ASSUME IInv, rec' = Rec("COMMITTED", epoch, rts), tomb' = "set", push' = push, CoordStill,
           ~ Dead, rec.status # "COMMITTED", AfterCommit, \A k \in Key : Has(k, epoch, rts),
           push <= rts \/ (Staged /\ rec.epoch = epoch)
    PROVE RecGrows /\ RecOK'
  <1> USE DEF IInv, CoreInv
  <1>1. /\ rec.epoch \in Nat /\ rec.ts \in Nat /\ push \in Nat /\ epoch \in Nat /\ rts \in Nat /\ rts # 0
        /\ epoch \in Epoch /\ rts \in Ts0 /\ rec.epoch <= epoch
    BY StateTypes, Consts DEF TypeOK, EpochsOK
  <1>2. rec'.status = "COMMITTED" /\ rec'.epoch = epoch /\ rec'.ts = rts /\ rec' \in RecType
    BY <1>1 DEF Rec, RecType, Status
  <1>3. Staged' /\ ~ Dead' /\ (Staged => rec.status = "STAGING" /\ rec.ts <= rts)
    BY <1>2 DEF Staged, Dead, RecOK
  <1>4. ASSUME NEW e \in Nat, NEW t \in Nat, StagedAt(e, t)
        PROVE StagedAt(e, t)' \/ (rec.status = "STAGING" /\ SomeBlocked(e, t) /\ (e # epoch \/ t # rts))
    <2>1. rec.status = "STAGING" /\ rec.epoch = e /\ rec.ts = t /\ e <= epoch /\ t <= rts
      BY <1>1, <1>3, <1>4 DEF StagedAt
    <2>2. CASE epoch = e /\ rts = t
      BY <1>2, <1>3, <2>2 DEF StagedAt
    <2>3. CASE ~ (epoch = e /\ rts = t)
      <3>1. epoch > e \/ (epoch = e /\ rts > t)
        BY <1>1, <2>1, <2>3
      <3> QED
        BY <2>1, <2>3, <3>1 DEF Past, PastOK
    <2> QED
      BY <2>2, <2>3
  <1>5. RecOK'
    BY <1>1, <1>2 DEF RecOK, CoordStill, AfterCommit
  <1>6. Staged => rec'.ts >= rec.ts /\ rec'.epoch >= rec.epoch
    BY <1>1, <1>2, <1>3
  <1>7. push' >= push /\ rec'.epoch <= epoch
    BY <1>1, <1>2
  <1> QED
    BY <1>1, <1>2, <1>3, <1>4, <1>5, <1>6, <1>7 DEF RecGrows

LEMMA StageSame ==
    ASSUME IInv, NEW m \in net, m.op = "stage", RecStep, RecGrows, net' = net \ {m},
           rec' = Rec("STAGING", m.epoch, m.rts),
           (~ AwaitsEndTxn(m) /\ et' = et) \/ EtAnswered(m, "ok", m.rts)
    PROVE PhaseOK' /\ StageOK' /\ EndTxnOK'
  <1> USE DEF IInv, CallInv
  <1>1. rec'.status = "STAGING" /\ rec'.epoch = m.epoch /\ rec'.ts = m.rts
    BY DEF Rec
  <1>2. epoch' = epoch /\ rts' = rts /\ pc' = pc /\ told' = told /\ sub' = sub /\ value' = value
    BY DEF RecStep, CoordStill
  <1>3. Nothing => Nothing'
    BY <1>1, <1>2 DEF Nothing, AllAt
  <1>4. CASE ~ AwaitsEndTxn(m) /\ et' = et
    <2>1. ASSUME pc = "commit", NeverStaged, et = Waiting(1) \/ et.st \in {"retry", "aborted"} PROVE NeverStaged'
      <3>1. m.epoch # epoch
        <4> SUFFICES ASSUME m.epoch = epoch PROVE FALSE
          OBVIOUS
        <4>1. IsStage(m, epoch) /\ m.rts = rts
          BY <2>1 DEF IsStage, CoreInv, NetOK, NetAt
        <4>2. et = Waiting(1) /\ m.att = 1
          BY <2>1, <4>1 DEF StageOK
        <4> QED
          BY <1>4, <2>1, <4>1, <4>2 DEF AwaitsEndTxn
      <3> QED
        BY <1>1, <1>2, <1>3, <2>1, <3>1 DEF NeverStaged
    <2> QED
      BY <1>3, <1>4, <2>1, RecSame
  <1>5. CASE EtAnswered(m, "ok", m.rts)
    <2>1. pc = "commit" /\ m.epoch = epoch /\ m.rts = rts
      BY <1>5 DEF EtAnswered, AwaitsEndTxn
    <2>2. et'.st = "ok" /\ et'.ts = rts /\ et' # Waiting(1)
      BY <1>5, <2>1 DEF EtAnswered, Waiting, Call
    <2>3. StagedAt(epoch, rts)'
      BY <1>1, <1>2, <2>1 DEF StagedAt, Staged
    <2> QED
      BY <1>2, <2>1, <2>2, <2>3 DEF PhaseOK, StageOK, EndTxnOK
  <1> QED
    BY <1>4, <1>5

LEMMA CommitSame ==
    ASSUME IInv, NEW m \in net, m.op = "commit", RecStep, RecGrows, net' = net \ {m},
           rec'.status = "COMMITTED",
           (~ AwaitsEndTxn(m) /\ et' = et) \/ EtAnswered(m, "ok", m.rts)
    PROVE PhaseOK' /\ StageOK' /\ EndTxnOK'
  <1> USE DEF IInv, CallInv
  <1>1. pc \in {"endtxn", "done"} /\ m.epoch = epoch /\ m.rts = rts
    BY DEF CoreInv, NetOK, NetAt
  <1>2. epoch' = epoch /\ rts' = rts /\ pc' = pc /\ told' = told /\ sub' = sub
    BY DEF RecStep, CoordStill
  <1>3. CASE ~ AwaitsEndTxn(m) /\ et' = et
    <2>1. ASSUME pc = "endtxn", et = Waiting(1) \/ et.st \in {"retry", "aborted"} PROVE FALSE
      <3>1. et = Waiting(1) /\ m.att = 1
        BY <2>1 DEF EndTxnOK
      <3> QED
        BY <1>1, <1>3, <2>1, <3>1 DEF AwaitsEndTxn
    <2> QED
      BY <1>1, <1>3, <2>1, RecSame
  <1>4. CASE EtAnswered(m, "ok", m.rts)
    <2>1. pc = "endtxn" /\ et'.st = "ok" /\ et' # Waiting(1)
      BY <1>4 DEF EtAnswered, AwaitsEndTxn, Waiting, Call
    <2> QED
      BY <1>2, <2>1 DEF PhaseOK, StageOK, EndTxnOK
  <1> QED
    BY <1>3, <1>4

\* An explicit commit finds every write in place.
LEMMA CommitInPlace ==
    ASSUME IInv, NEW m \in net, m.op = "commit", EndTxnMayCommit(m), ProvisionalTs(m) = m.rts
    PROVE /\ m.epoch = epoch /\ m.rts = rts /\ AfterCommit /\ ~ Dead /\ rec.status # "COMMITTED"
          /\ \A k \in Key : Has(k, epoch, rts)
          /\ push <= rts \/ (Staged /\ rec.epoch = epoch)
  <1> USE DEF IInv, CoreInv
  <1>1. m.epoch = epoch /\ m.rts = rts /\ AfterCommit
    BY DEF NetOK, NetAt, AfterCommit
  <1>2. /\ ~ Dead /\ rec.status # "COMMITTED" /\ AllAt(0)
        /\ rec.status # "STAGING" \/ m.epoch > rec.epoch => m.rts >= push
        /\ rec.status = "STAGING" => m.epoch >= rec.epoch
    BY Provisional
  <1>3. rts \in Nat /\ rts # 0 /\ push \in Nat /\ epoch \in Nat /\ rec.epoch \in Nat
    BY StateTypes
  <1>4. ~ AllAt(rts)
    BY <1>2, <1>3, Consts DEF AllAt
  <1>5. \A k \in Key : InPlace(k, rts)
    BY <1>2, <1>4 DEF ReadyOK
  <1>6. ASSUME NEW k \in Key PROVE Has(k, epoch, rts)
    <2>1. /\ HasIntent(k) /\ intent[k].epoch = epoch
          /\ intent[k].ts <= rts \/ (rec.status \in {"none", "PENDING"} /\ intent[k].ts <= push)
      BY <1>2, <1>5 DEF InPlace
    <2>2. intent[k].ts <= rts
      BY <1>1, <1>2, <1>3, <2>1, StateTypes
    <2> QED
      BY <2>1, <2>2 DEF Has
  <1>7. push <= rts \/ (Staged /\ rec.epoch = epoch)
    BY <1>1, <1>2, <1>3 DEF Staged
  <1> QED
    BY <1>1, <1>2, <1>6, <1>7

LEMMA EndTxnType ==
    ASSUME TypeOK, UNCHANGED <<store, pusher, promised, left>>, CoordStill, sub' = sub,
           et' \in [st : CallState, att : 0 .. 2, ts : Ts0], net' \subseteq net,
           rec' \in RecType, tomb' \in {"clear", "set"}, push' \in Ts0
    PROVE TypeOK'
  <1>1. /\ pc' \in CoordState /\ epoch' \in Epoch /\ rts' \in Ts /\ wts' \in Ts
        /\ sub' \in [Key -> [st : CallState, att : 0 .. 2, ts : Ts0]]
        /\ built' \in Ts0 /\ net' \subseteq Requests
        /\ told' \in {"nothing", "committed", "aborted", "error"}
    BY DEF TypeOK, CoordStill
  <1>2. left' \in Budget /\ promised' \in Ts0
    BY DEF TypeOK
  <1>3. PusherTypes'
    BY PusherTyped DEF PusherTypes, pusher
  <1>4. /\ intent' \in [Key -> [epoch : Epoch, ts : Ts0]] /\ value' \in [Key -> Ts0] /\ readTs' \in [Key -> Ts0]
    BY DEF TypeOK, store
  <1> QED
    BY <1>1, <1>2, <1>3, <1>4 DEF TypeOK, PusherTypes, RecType

LEMMA CommitTxnInv == ASSUME IInv, NEW m \in net, CommitTxn(m) PROVE IInv'
  <1> USE DEF IInv
  <1>1. m.op \in {"stage", "commit"} /\ UNCHANGED <<store, pusher, promised, left>>
    BY DEF CommitTxn
  <1>2. /\ m.epoch \in Epoch /\ m.wts \in Nat /\ m.wts \in Ts0 /\ m.rts \in Nat /\ m.rts <= m.wts
        /\ push \in Nat /\ push >= push /\ push \in Ts0 /\ tomb \in {"clear", "set"}
    BY StateTypes, RequestTypes, Consts DEF TypeOK, CoreInv, NetOK, NetAt
  <1>3. ASSUME NEW s \in CallState, NEW t \in Ts0, AnswerEndTxn(m, s, t)
        PROVE /\ net' = net \ {m} /\ RecStep /\ CoordStill /\ sub' = sub /\ et' \in [st : CallState, att : 0 .. 2, ts : Ts0]
              /\ (~ AwaitsEndTxn(m) /\ et' = et) \/ EtAnswered(m, s, t)
    BY <1>1, <1>3, AnswerEndTxnFacts, AnswerEndTxnType DEF store, RecStep
  <1>4. ASSUME RecStep, CoordStill, et' \in [st : CallState, att : 0 .. 2, ts : Ts0], RecGrows, RecOK',
               PhaseOK' /\ StageOK' /\ EndTxnOK', tomb' \in {"clear", "set"}, push' = push
        PROVE IInv'
    <2>1. Preserved
      BY <1>1, <1>4, RecPromised, RecPreserved
    <2>2. TypeOK'
      BY <1>1, <1>2, <1>4, EndTxnType DEF RecGrows, RecStep
    <2> QED
      BY <1>1, <2>1, <2>2, PushersStill DEF Preserved
  <1>5. ASSUME NEW s \in {"aborted", "fail", "retry"}, NEW t \in Ts0, AnswerEndTxn(m, s, t), UNCHANGED record,
               s = "aborted" => Dead, s = "retry" => t > m.rts
        PROVE IInv'
    <2>1. rec' = rec /\ tomb' = tomb /\ push' = push
      BY <1>5 DEF record
    <2>2. /\ net' = net \ {m} /\ RecStep /\ CoordStill /\ et' \in [st : CallState, att : 0 .. 2, ts : Ts0]
          /\ (~ AwaitsEndTxn(m) /\ et' = et) \/ EtAnswered(m, s, t)
      BY <1>3, <1>5 DEF CallState
    <2>3. RecGrows /\ RecOK'
      BY <1>2, <2>1, <2>2, KeepGrows
    <2>4. PhaseOK' /\ StageOK' /\ EndTxnOK'
      <3>1. CASE et' = et
        BY <2>1, <2>2, <2>3, <3>1, KeepSame
      <3>2. CASE EtAnswered(m, s, t)
        BY <1>1, <1>5, <2>1, <2>2, <3>2, EtError
      <3> QED
        BY <2>2, <3>1, <3>2
    <2> QED
      BY <1>2, <1>4, <2>1, <2>2, <2>3, <2>4
  <1>6. CASE ((rec.status = "none" /\ ~ CanCreateTxnRecord) \/ rec.status = "ABORTED") /\ EndTxnRefused(m, "aborted")
    <2>1. Dead
      BY <1>2, <1>6 DEF Dead, CanCreateTxnRecord
    <2> QED
      BY <1>2, <1>5, <1>6, <2>1 DEF EndTxnRefused
  <1>7. CASE EndTxnRefused(m, "fail")
    BY <1>2, <1>5, <1>7 DEF EndTxnRefused
  <1>8. CASE EndTxnMayCommit(m) /\ IsEndTxnTriggeringRetryError(m) /\ AnswerEndTxn(m, "retry", ProvisionalTs(m)) /\ UNCHANGED record
    <2>1. PICK t : t = ProvisionalTs(m)
      OBVIOUS
    <2>2. t \in Ts0 /\ t > m.rts
      <3>1. t \in Ts0 /\ t \in Nat /\ t >= m.wts /\ t # m.rts
        BY <1>1, <1>8, <2>1, Provisional DEF IsEndTxnTriggeringRetryError
      <3> QED
        BY <1>2, <3>1
    <2> QED
      BY <1>5, <1>8, <2>1, <2>2
  <1>9. CASE /\ EndTxnMayCommit(m) /\ ~ IsEndTxnTriggeringRetryError(m)
             /\ WriteRec(IF m.op = "stage" THEN "STAGING" ELSE "COMMITTED", m.epoch, ProvisionalTs(m))
             /\ AnswerEndTxn(m, "ok", ProvisionalTs(m))
    <2>1. ProvisionalTs(m) = m.rts /\ m.rts \in Ts0
      BY <1>1, <1>9, Provisional DEF IsEndTxnTriggeringRetryError
    <2>2. tomb' = "set" /\ push' = push
      BY <1>9 DEF WriteRec
    <2>3. /\ net' = net \ {m} /\ RecStep /\ CoordStill /\ et' \in [st : CallState, att : 0 .. 2, ts : Ts0]
          /\ (~ AwaitsEndTxn(m) /\ et' = et) \/ EtAnswered(m, "ok", m.rts)
      BY <1>3, <1>9, <2>1 DEF CallState
    <2>4. CASE m.op = "stage"
      <3>1. rec' = Rec("STAGING", m.epoch, m.rts)
        BY <1>9, <2>1, <2>4 DEF WriteRec
      <3>2. RecGrows /\ RecOK'
        BY <1>9, <2>1, <2>2, <2>3, <2>4, <3>1, StageGrows
      <3>3. PhaseOK' /\ StageOK' /\ EndTxnOK'
        BY <2>3, <2>4, <3>1, <3>2, StageSame
      <3> QED
        BY <1>4, <2>2, <2>3, <3>2, <3>3
    <2>5. CASE m.op = "commit"
      <3>1. /\ m.epoch = epoch /\ m.rts = rts /\ AfterCommit /\ ~ Dead /\ rec.status # "COMMITTED"
            /\ \A k \in Key : Has(k, epoch, rts)
            /\ push <= rts \/ (Staged /\ rec.epoch = epoch)
        BY <1>9, <2>1, <2>5, CommitInPlace
      <3>2. rec' = Rec("COMMITTED", epoch, rts)
        BY <1>9, <2>1, <2>5, <3>1 DEF WriteRec
      <3>3. RecGrows /\ RecOK'
        BY <2>2, <2>3, <3>1, <3>2, CommitGrows
      <3>4. rec'.status = "COMMITTED"
        BY <3>2 DEF Rec
      <3>5. PhaseOK' /\ StageOK' /\ EndTxnOK'
        BY <2>3, <2>5, <3>3, <3>4, CommitSame
      <3> QED
        BY <1>4, <2>2, <2>3, <3>3, <3>5
    <2> QED
      BY <1>1, <2>4, <2>5
  <1> QED
    BY <1>6, <1>7, <1>8, <1>9 DEF CommitTxn

-----------------------------------------------------------------------------
(* Lease moves and readers, and what a step of another transaction leaves. *)

LEMMA ReadSeen ==
    ASSUME TypeOK, ReadStep, NEW k \in Key, NEW t \in Nat, SeenJustified(k, t) PROVE SeenJustified(k, t)'
  BY StateTypes DEF SeenJustified, SeenHigh, HasIntent, ReadStep, CoordStill, ReadsGrow, Staged
LEMMA ReadPreserved == ASSUME IInv, ReadStep, UNCHANGED <<sub, et>> PROVE Preserved
  BY ReadCore, ReadCall, ReadPusher, ReadSeen DEF Preserved, IInv
LEMMA StillPreserved == ASSUME IInv, UNCHANGED <<record, store, coord, net, promised>> PROVE Preserved
  <1>1. ReadsGrow
    BY StateTypes DEF ReadsGrow, store, IInv
  <1>2. ReadStep /\ UNCHANGED <<sub, et>>
    BY <1>1 DEF ReadStep, CoordStill, record, store, coord
  <1> QED
    BY <1>2, ReadPreserved
LEMMA KeepPreserved ==
    ASSUME IInv, UNCHANGED <<store, coord, net>>, rec' = rec, tomb' \in {tomb, "set"}, push' \in Nat, push' >= push,
           PromisedOK'
    PROVE Preserved /\ RecGrows
  <1>1. RecStep /\ CoordStill /\ et' = et
    BY StillFacts
  <1>2. RecGrows /\ RecOK'
    BY <1>1, KeepGrows
  <1> QED
    BY <1>1, <1>2, KeepSame, RecPreserved

LEMMA FaultBudget == ASSUME TypeOK, Fault PROVE left' \in Budget
  <1>1. left.faults \in Nat /\ left.faults > 0 /\ left' = [left EXCEPT !.faults = left.faults - 1]
    BY DEF TypeOK, Fault, Budget
  <1>2. left.faults - 1 \in Nat
    BY <1>1
  <1> DEFINE n == left.faults - 1
  <1>3. n \in Nat /\ left' = [left EXCEPT !.faults = n]
    BY <1>1, <1>2
  <1> HIDE DEF n
  <1>4. left \in [ts : 1 .. MaxTs, restarts : 0 .. MaxEpoch, pushers : Nat, faults : Nat]
    BY DEF TypeOK, Budget
  <1> QED
    BY <1>3, <1>4 DEF Budget
LEMMA TimesType == ASSUME TypeOK, NEW t \in Times PROVE t \in Ts0 /\ t \in Nat
  BY Consts, StateTypes DEF Times

LEMMA MoveLeaseInv == ASSUME IInv, MoveLease PROVE IInv'
  <1> USE DEF IInv
  <1>1. PICK t \in Times : (t > push \/ (t = push /\ tomb = "clear")) /\ push' = t
    BY DEF MoveLease
  <1>2. tomb' = "set" /\ UNCHANGED <<rec, store, coord, net, pusher, promised>> /\ Fault
    BY DEF MoveLease
  <1>3. push \in Nat /\ push' \in Nat /\ push' \in Ts0 /\ push' >= push
    BY <1>1, TimesType, StateTypes
  <1>4. RecStep /\ RecGrows
    BY <1>2, <1>3, StillFacts, KeepGrows
  <1>5. PromisedOK'
    BY <1>2, <1>4, RecPromised
  <1>6. Preserved
    BY <1>2, <1>3, <1>5, KeepPreserved
  <1>7. \A p \in Pusher : PusherInv(p)'
    BY <1>2, <1>6, PushersStill DEF Preserved
  <1>8. TypeOK'
    <2>1. left' \in Budget
      BY <1>2, FaultBudget
    <2> QED
      BY <1>2, <1>3, <2>1 DEF TypeOK, store, coord, pusher
  <1> QED
    BY <1>6, <1>7, <1>8 DEF Preserved

LEMMA BumpKeyInv == ASSUME IInv, NEW k \in Key, BumpKey(k) PROVE IInv'
  <1> USE DEF IInv
  <1>1. PICK t \in Times : MarkRead(k, t)
    BY DEF BumpKey
  <1>2. UNCHANGED <<record, coord, net, pusher, promised>> /\ Fault
    BY DEF BumpKey
  <1>3. /\ readTs' \in [Key -> Ts0] /\ intent' = intent /\ value' = value
        /\ \A q \in Key : readTs'[q] >= readTs[q]
    BY <1>1, TimesType, MarkReadType
  <1>4. ReadsGrow
    BY <1>3, Consts DEF ReadsGrow
  <1>5. ReadStep /\ UNCHANGED <<sub, et>>
    BY <1>2, <1>3, <1>4 DEF ReadStep, CoordStill, record, coord
  <1>6. Preserved
    BY <1>5, ReadPreserved
  <1>7. \A p \in Pusher : PusherInv(p)'
    BY <1>2, <1>6, PushersStill DEF Preserved
  <1>8. TypeOK'
    <2>1. left' \in Budget
      BY <1>2, FaultBudget
    <2> QED
      BY <1>2, <1>3, <2>1 DEF TypeOK, record, coord, pusher
  <1> QED
    BY <1>6, <1>7, <1>8 DEF Preserved

\* What is left of the proof of a pusher's action.
LEMMA PusherDone ==
    ASSUME IInv, NEW p \in Pusher, Preserved, UNCHANGED <<coord, net, left>>, PusherTypes', OthersStill(p), PusherInv(p)',
           rec' \in RecType, tomb' \in {"clear", "set"}, push' \in Ts0, promised' \in Ts0,
           UNCHANGED <<intent, value>>, readTs' \in [Key -> Ts0]
    PROVE IInv'
  <1>1. intent' \in [Key -> [epoch : Epoch, ts : Ts0]] /\ value' \in [Key -> Ts0]
    BY DEF IInv, TypeOK
  <1>2. TypeOK'
    BY <1>1, OthersType DEF IInv
  <1>3. \A q \in Pusher : PusherInv(q)'
    BY DEF Preserved, OthersStill
  <1> QED
    BY <1>2, <1>3 DEF IInv, Preserved
LEMMA SeenTarget ==
    ASSUME IInv, NEW p \in Pusher, Preserved, epoch' = epoch, seen'[p] = seen[p], work'[p].epoch <= epoch,
           ppc'[p] \in {"idle", "push"} => found'[p] = {}
    PROVE SeenOK(p)'
  <1>1. PICK k \in Key, t \in Nat : k = seen[p].key /\ t = seen[p].ts
    BY StateTypes DEF IInv
  <1>2. SeenJustified(k, t)'
    BY <1>1 DEF IInv, PusherInv, SeenOK, Preserved
  <1>3. SeenJustified(seen[p].key, seen[p].ts)'
    BY <1>1, <1>2 DEF SeenJustified, SeenHigh
  <1>4. seen'[p].epoch <= epoch'
    BY DEF IInv, PusherInv, SeenOK
  <1> QED
    BY <1>3, <1>4 DEF SeenOK
\* A pusher whose step changes nothing but its own state.
LEMMA AloneDone ==
    ASSUME IInv, NEW p \in Pusher, UNCHANGED <<record, store, coord, net, promised, left>>, PusherTypes', OthersStill(p),
           PusherInv(p)'
    PROVE IInv'
  <1>1. Preserved
    BY StillPreserved
  <1>2. /\ rec' \in RecType /\ tomb' \in {"clear", "set"} /\ push' \in Ts0 /\ promised' \in Ts0
        /\ UNCHANGED <<intent, value>> /\ readTs' \in [Key -> Ts0]
    BY DEF IInv, TypeOK, RecType, record, store
  <1> QED
    BY <1>1, <1>2, PusherDone
LEMMA RestDone ==
    ASSUME IInv, NEW p \in Pusher, UNCHANGED <<record, store, coord, net, promised, left>>, GoIdle(p) \/ GoBack(p)
    PROVE IInv'
  <1>1. /\ PusherTypes' /\ OthersStill(p)
        /\ ppc'[p] \in {"idle", "push"} /\ seen'[p] \in {seen[p], NobodySeen} /\ work'[p] = NoRec /\ found'[p] = {}
    BY IdleFacts, GoBackFacts DEF IInv
  <1>2. Preserved /\ CoordStill
    BY StillPreserved DEF CoordStill, coord
  <1>3. PusherInv(p)'
    BY <1>1, <1>2, RestInv DEF Preserved
  <1> QED
    BY <1>1, <1>3, AloneDone

LEMMA EncounterInv == ASSUME IInv, NEW p \in Pusher, NEW k \in Key, Encounter(p, k) PROVE IInv'
  <1> USE DEF IInv
  <1>1. PICK e \in Epoch, t \in Ts0 : e = intent[k].epoch /\ t = intent[k].ts
    BY DEF TypeOK
  <1>2. /\ ppc[p] = "idle" /\ HasIntent(k) /\ ppc' = [ppc EXCEPT ![p] = "push"]
        /\ seen' = [seen EXCEPT ![p] = Seen(k, e, t)]
        /\ UNCHANGED <<record, store, coord, net, work, todo, found, promised, left>>
    BY <1>1 DEF Encounter
  <1>3. Seen(k, e, t) \in [key : Key, epoch : Epoch, ts : Ts0]
    BY DEF Seen
  <1>4. PusherTypes
    BY PusherTyped
  <1>5. PusherTypes'
    BY <1>2, <1>3, <1>4 DEF PusherTypes, PusherState
  <1>6. OthersStill(p)
    BY <1>2, <1>4 DEF PusherTypes, OthersStill, PusherStill
  <1>7. ppc'[p] = "push" /\ seen'[p].key = k /\ seen'[p].epoch = e /\ seen'[p].ts = t /\ work'[p] = work[p] /\ found'[p] = found[p]
    BY <1>2, <1>4 DEF PusherTypes, Seen
  <1>8. e <= epoch /\ work[p].epoch <= epoch /\ found[p] = {}
    BY <1>1, <1>2 DEF CoreInv, EpochsOK, PusherInv, SeenOK
  <1>9. SeenJustified(k, t)
    <2>1. Justified(k, t)
      BY <1>1 DEF CoreInv, IntentsOK
    <2>2. t \in Nat /\ t >= t
      BY Consts
    <2> QED
      BY <1>1, <2>1, <2>2 DEF Justified, SeenJustified, SeenHigh
  <1>10. Preserved /\ epoch' = epoch
    BY <1>2, StillPreserved DEF coord
  <1>11. SeenJustified(k, t)'
    BY <1>9, <1>10, Consts DEF Preserved
  <1>12. SeenJustified(seen[p].key, seen[p].ts)'
    BY <1>7, <1>11 DEF SeenJustified, SeenHigh
  <1>13. PusherInv(p)'
    BY <1>7, <1>8, <1>10, <1>12 DEF PusherInv, SeenOK, WorkOK, ProbeOK
  <1> QED
    BY <1>2, <1>5, <1>6, <1>13, AloneDone

-----------------------------------------------------------------------------
(* Pushes.                                                                 *)

LEMMA PusheeFacts ==
    ASSUME IInv, NEW p \in Pusher
    PROVE /\ Pushee(p) \in RecType /\ Pushee(p).epoch <= epoch
          /\ Pushee(p).status = "ABORTED" => Dead
          /\ Pushee(p).status \in {"STAGING", "COMMITTED"} => Pushee(p) = rec
          /\ Pushee(p).status = "PENDING" => ~ Staged /\ ~ Dead
          /\ rec.status # "none" => Pushee(p) = rec
          /\ Pushee(p).status \in Status
  <1> USE DEF IInv
  <1>1. /\ rec \in RecType /\ rec.epoch <= epoch /\ rec.status \in Status \cup {"none"} /\ tomb \in {"clear", "set"}
        /\ seen[p].epoch \in Epoch /\ seen[p].ts \in Ts0 /\ seen[p].ts \in Nat /\ push \in Nat /\ push \in Ts0
        /\ seen[p].epoch <= epoch
    BY StateTypes DEF TypeOK, RecType, CoreInv, EpochsOK, PusherInv, SeenOK
  <1>2. Forward(seen[p].ts, push) \in Ts0
    BY <1>1, ForwardFacts
  <1>3. CASE rec.status # "none"
    BY <1>1, <1>3 DEF Pushee, Lookup, Status, Dead, Staged
  <1>4. CASE rec.status = "none" /\ tomb = "clear"
    <2>1. Pushee(p) = Rec("PENDING", seen[p].epoch, Forward(seen[p].ts, push))
      BY <1>4 DEF Pushee, Lookup, SynthesizeTxnFromMeta, CanCreateTxnRecord, MinTxnCommitTS
    <2> QED
      BY <1>1, <1>2, <1>4, <2>1 DEF Rec, RecType, Status, Dead, Staged
  <1>5. CASE rec.status = "none" /\ tomb = "set"
    <2>1. Pushee(p) = Rec("ABORTED", seen[p].epoch, seen[p].ts)
      BY <1>5 DEF Pushee, Lookup, SynthesizeTxnFromMeta, CanCreateTxnRecord
    <2> QED
      BY <1>1, <1>5, <2>1 DEF Rec, RecType, Status, Dead, Staged
  <1> QED
    BY <1>1, <1>3, <1>4, <1>5
LEMMA KnownFacts ==
    ASSUME IInv, NEW p \in Pusher, NEW s \in Status
    PROVE /\ Known(p, s) \in RecType /\ Known(p, s).epoch <= epoch /\ Known(p, s).status = s
          /\ Known(p, s).epoch \in Epoch /\ Known(p, s).ts \in Ts0
  <1> USE DEF IInv
  <1>1. /\ Pushee(p).epoch \in Epoch /\ Pushee(p).ts \in Ts0 /\ Pushee(p).epoch \in Nat /\ Pushee(p).ts \in Nat
        /\ Pushee(p).epoch <= epoch
    BY PusheeFacts, RecTypes
  <1>2. /\ seen[p].epoch \in Epoch /\ seen[p].ts \in Ts0 /\ seen[p].ts \in Nat /\ seen[p].epoch <= epoch
        /\ seen[p].epoch \in Nat
    BY StateTypes DEF TypeOK, PusherInv, SeenOK
  <1>3. Forward(Pushee(p).ts, seen[p].ts) \in Ts0
    BY <1>1, <1>2, ForwardFacts
  <1>4. Forward(Pushee(p).epoch, seen[p].epoch) \in {Pushee(p).epoch, seen[p].epoch}
    BY DEF Forward
  <1> QED
    BY <1>1, <1>2, <1>3, <1>4 DEF Known, Rec, RecType

\* A pusher that knows a later version of a transaction than its STAGING record
\* knows that the commit failed.
LEMMA HigherBlocked ==
    ASSUME IInv, NEW p \in Pusher, rec.status = "STAGING", KnownHigher(p)
    PROVE SomeBlocked(rec.epoch, rec.ts)
  <1> USE DEF IInv
  <1>1. Pushee(p) = rec /\ Staged
    BY PusheeFacts DEF Staged
  <1>2. /\ rec.epoch \in Nat /\ rec.ts \in Nat /\ epoch \in Nat /\ rts \in Nat /\ wts \in Nat
        /\ seen[p].epoch \in Nat /\ seen[p].ts \in Nat /\ seen[p].epoch <= epoch /\ rec.epoch <= epoch
        /\ seen[p].key \in Key
    BY StateTypes DEF CoreInv, EpochsOK, PusherInv, SeenOK
  <1>3. ASSUME rec.epoch < epoch PROVE SomeBlocked(rec.epoch, rec.ts)
    <2>1. Past(rec.epoch, rec.ts)
      BY <1>2, <1>3 DEF Past
    <2> QED
      BY <2>1 DEF CoreInv, PastOK
  <1>4. CASE rec.epoch < seen[p].epoch
    BY <1>2, <1>3, <1>4
  <1>5. CASE rec.epoch = epoch /\ rec.ts < seen[p].ts
    <2>1. CASE seen[p].ts <= wts
      <3>1. rec.ts < wts
        BY <1>2, <1>5, <2>1
      <3>2. pc # "run" /\ pc # "commit"
        BY <1>1, <1>2, <1>5, <3>1 DEF CoreInv, RecOK, TimesOK
      <3>3. pc \in {"prefix", "again", "endtxn"} => rts > rec.ts
        BY <1>2, <1>5 DEF CoreInv, RecOK
      <3>4. pc = "done" => told \in {"aborted", "committed", "error"}
        BY DEF CallInv, PhaseOK, TypeOK
      <3>5. told \in {"committed", "error"} => rts > rec.ts
        BY <1>2, <3>1 DEF CoreInv, TimesOK
      <3>6. Past(rec.epoch, rec.ts)
        BY <1>5, <3>2, <3>3, <3>4, <3>5 DEF Past, TypeOK, CoordState
      <3> QED
        BY <3>6 DEF CoreInv, PastOK
    <2>2. CASE SeenHigh(seen[p].key, seen[p].ts)
      <3>1. PICK k \in Key, t \in Nat, e \in Nat, r \in Nat :
                k = seen[p].key /\ t = seen[p].ts /\ e = rec.epoch /\ r = rec.ts
        BY <1>2
      <3>2. readTs[k] \in Nat /\ intent[k].ts \in Nat /\ r < t /\ t <= readTs[k] + 1 /\ (HasIntent(k) => intent[k].ts >= t)
        BY <1>5, <2>2, <3>1, StateTypes DEF SeenHigh
      <3>3. readTs[k] >= r /\ ~ Has(k, e, r)
        BY <3>2 DEF Has
      <3> QED
        BY <3>1, <3>3 DEF SomeBlocked, Blocked
    <2> QED
      BY <1>1, <2>1, <2>2 DEF PusherInv, SeenOK, SeenJustified
  <1> QED
    BY <1>1, <1>2, <1>3, <1>4, <1>5 DEF KnownHigher

\* A push that leaves the record alone and goes on to resolve the intent.
LEMMA PushKeeps ==
    ASSUME IInv, NEW p \in Pusher, NEW w \in RecType, GoResolve(p, w), UNCHANGED <<store, coord, net, left>>,
           rec' = rec, tomb' \in {tomb, "set"}, push' \in Ts0, push' >= push, promised' \in Ts0,
           w.epoch <= epoch, PromisedOK',
           /\ w.status # "none"
           /\ w.status = "ABORTED" => Dead'
           /\ w.status = "COMMITTED" => rec = w
           /\ w.status = "PENDING" => w.ts <= push' /\ ~ Staged
           /\ w.status = "STAGING" => w = rec
    PROVE IInv'
  <1> USE DEF IInv
  <1>1. push' \in Nat
    BY Consts
  <1>2. Preserved /\ RecGrows
    BY <1>1, KeepPreserved
  <1>3. /\ PusherTypes' /\ OthersStill(p)
        /\ ppc'[p] = "resolve" /\ seen'[p] = seen[p] /\ work'[p] = w
    BY GoResolveFacts
  <1>4. epoch' = epoch /\ rts' = rts
    BY DEF coord
  <1>5. SeenOK(p)'
    BY <1>2, <1>3, <1>4, SeenTarget
  <1>6. WorkOK(p)'
    <2>1. w.status = "STAGING" => Staged' /\ w.ts <= rec'.ts /\ w.ts <= rts'
      BY <1>4, StateTypes DEF Staged, CoreInv, RecOK
    <2>2. Staged' = Staged
      BY DEF Staged
    <2> QED
      BY <1>3, <2>1, <2>2 DEF WorkOK
  <1>7. PusherInv(p)'
    BY <1>3, <1>5, <1>6 DEF PusherInv, ProbeOK
  <1>8. /\ rec' \in RecType /\ tomb' \in {"clear", "set"} /\ UNCHANGED <<intent, value>> /\ readTs' \in [Key -> Ts0]
    BY DEF TypeOK, RecType, store
  <1> QED
    BY <1>2, <1>3, <1>7, <1>8, PusherDone
LEMMA SamePromised ==
    ASSUME IInv, UNCHANGED <<store, coord, net, promised>>, rec' = rec, tomb' \in {tomb, "set"}, push' = push
    PROVE PromisedOK'
  <1>1. push' \in Nat /\ push' >= push
    BY StateTypes DEF IInv
  <1>2. RecStep /\ RecGrows
    BY <1>1, StillFacts, KeepGrows
  <1> QED
    BY <1>2, RecPromised

LEMMA PushFinalizedInv ==
    ASSUME IInv, NEW p \in Pusher, PushFinalized(p), UNCHANGED <<store, coord, net, left>> PROVE IInv'
  <1>1. PICK w : w = Pushee(p)
    OBVIOUS
  <1>2. /\ w \in RecType /\ w.epoch <= epoch /\ w.status \in Finalized /\ (w.status = "ABORTED" => Dead)
        /\ w.status = "COMMITTED" => w = rec
    BY <1>1, PusheeFacts DEF PushFinalized, Finalized
  <1>3. MarkPushed(w) /\ UNCHANGED <<rec, promised>> /\ GoResolve(p, w)
    BY <1>1 DEF PushFinalized
  <1>4. tomb' \in {tomb, "set"} /\ push' = push
    BY <1>2, <1>3 DEF MarkPushed, Finalized
  <1>5. push' \in Ts0 /\ push' >= push /\ promised' \in Ts0
    BY <1>3, <1>4, StateTypes DEF IInv, TypeOK
  <1>6. w.status = "ABORTED" => Dead'
    BY <1>2, <1>3, <1>4 DEF Dead
  <1>7. PromisedOK'
    BY <1>3, <1>4, SamePromised
  <1> QED
    BY <1>2, <1>3, <1>4, <1>5, <1>6, <1>7, PushKeeps DEF Finalized

\* The pushee is at to or above it, or is moved there.
LEMMA PushPendingInv ==
    ASSUME IInv, NEW p \in Pusher, NEW w \in RecType, NEW to \in Times, Pushee(p).status = "PENDING",
           w.status = "PENDING", w.epoch <= epoch, w.ts >= to, MarkPushed(w), GoResolve(p, w), rec' = rec,
           promised' = Forward(promised, to), UNCHANGED <<store, coord, net, left>>
    PROVE IInv'
  <1> USE DEF IInv
  <1>1. /\ to \in Nat /\ to \in Ts0 /\ promised \in Nat /\ promised \in Ts0 /\ push \in Nat /\ push \in Ts0
        /\ w.ts \in Nat /\ w.ts \in Ts0
    BY TimesType, StateTypes, RecTypes DEF TypeOK
  <1>2. ~ Staged /\ ~ Dead
    BY PusheeFacts
  <1>3. tomb' = tomb /\ push' = Forward(push, w.ts)
    BY DEF MarkPushed
  <1>4. push' \in Ts0 /\ push' \in Nat /\ push' >= push /\ push' >= w.ts
    BY <1>1, <1>3, ForwardFacts
  <1>5. promised' \in Ts0 /\ promised' \in {promised, to}
    BY <1>1, ForwardFacts
  <1>6. PromisedOK'
    <2>1. promised <= push
      BY <1>2 DEF CoreInv, PromisedOK
    <2>2. promised' <= push'
      BY <1>1, <1>4, <1>5, <2>1
    <2>3. ~ Staged'
      BY <1>2 DEF Staged
    <2> QED
      BY <2>2, <2>3 DEF PromisedOK
  <1> QED
    BY <1>2, <1>3, <1>4, <1>5, <1>6, PushKeeps

LEMMA PushUnneededInv ==
    ASSUME IInv, NEW p \in Pusher, NEW to \in Times, PushUnneeded(p, to), UNCHANGED <<store, coord, net, left>> PROVE IInv'
  <1> USE DEF IInv
  <1>1. PICK w : w = Pushee(p)
    OBVIOUS
  <1>2. /\ w \in RecType /\ w.epoch <= epoch /\ w.status \notin Finalized /\ w.status \in Status
        /\ w.status = "STAGING" => w = rec
    BY <1>1, PusheeFacts DEF PushUnneeded
  <1>3. /\ MarkPushed(w) /\ rec' = rec /\ GoResolve(p, w) /\ promised' = Forward(promised, to) /\ to <= w.ts
    BY <1>1 DEF PushUnneeded
  <1>4. to \in Nat /\ to \in Ts0 /\ promised \in Nat /\ promised \in Ts0 /\ push \in Nat /\ push \in Ts0 /\ w.ts \in Nat
    BY <1>2, TimesType, StateTypes, RecTypes DEF TypeOK
  <1>5. CASE w.status = "PENDING"
    <2>1. w.ts >= to
      BY <1>3, <1>4
    <2> QED
      BY <1>1, <1>2, <1>3, <1>5, <2>1, PushPendingInv
  <1>6. CASE w.status = "STAGING"
    <2>1. tomb' = tomb /\ push' = push /\ push' >= push
      BY <1>3, <1>4, <1>6 DEF MarkPushed
    <2>2. promised' \in Ts0 /\ promised' \in {promised, to}
      BY <1>3, <1>4, ForwardFacts
    <2>3. Staged /\ Staged'
      BY <1>2, <1>3, <1>6 DEF Staged
    <2>4. promised' <= rec'.ts
      BY <1>2, <1>3, <1>6, <2>2, <2>3 DEF CoreInv, PromisedOK
    <2>5. PromisedOK'
      BY <2>3, <2>4 DEF PromisedOK
    <2> QED
      BY <1>2, <1>3, <1>4, <1>6, <2>1, <2>2, <2>5, PushKeeps
  <1> QED
    BY <1>2, <1>5, <1>6 DEF Status, Finalized

LEMMA PushTimestampInv ==
    ASSUME IInv, NEW p \in Pusher, NEW to \in Times, PushTimestamp(p, to), UNCHANGED <<store, coord, net, left>> PROVE IInv'
  <1> USE DEF IInv
  <1>1. PICK w : w = Rec("PENDING", Known(p, "PENDING").epoch, Forward(Known(p, "PENDING").ts, to))
    OBVIOUS
  <1>2. Pushee(p).status = "PENDING" /\ MarkPushed(w) /\ GoResolve(p, w) /\ promised' = Forward(promised, to) /\ rec' = rec
    BY <1>1 DEF PushTimestamp
  <1>3. /\ Known(p, "PENDING").epoch \in Epoch /\ Known(p, "PENDING").epoch <= epoch /\ Known(p, "PENDING").ts \in Ts0
        /\ Known(p, "PENDING").ts \in Nat /\ to \in Nat /\ to \in Ts0
    BY KnownFacts, TimesType, Consts DEF Status
  <1>4. Forward(Known(p, "PENDING").ts, to) \in Ts0 /\ Forward(Known(p, "PENDING").ts, to) >= to
    BY <1>3, ForwardFacts
  <1>5. w \in RecType /\ w.status = "PENDING" /\ w.epoch <= epoch /\ w.ts >= to
    BY <1>1, <1>3, <1>4 DEF Rec, RecType, Status
  <1> QED
    BY <1>2, <1>5, PushPendingInv

LEMMA PushAbortInv ==
    ASSUME IInv, NEW p \in Pusher, PushAbort(p), UNCHANGED <<store, coord, net, left>> PROVE IInv'
  <1> USE DEF IInv
  <1>1. PICK w : w = Known(p, "ABORTED")
    OBVIOUS
  <1>2. w \in RecType /\ w.epoch <= epoch /\ w.status = "ABORTED"
    BY <1>1, KnownFacts DEF Status
  <1>3. /\ Pushee(p).status \notin Finalized /\ ~ StillStaging(p) /\ rec' = (IF rec.status = "none" THEN rec ELSE w)
        /\ MarkPushed(w) /\ promised' = promised /\ GoResolve(p, w)
    BY <1>1 DEF PushAbort
  <1>4. tomb' = "set" /\ push' = push
    BY <1>2, <1>3 DEF MarkPushed
  <1>5. push' \in Ts0 /\ push' \in Nat /\ push' >= push /\ promised' \in Ts0
    BY <1>3, <1>4, StateTypes DEF TypeOK
  <1>6. CASE rec.status = "none"
    <2>1. rec' = rec /\ Dead'
      BY <1>3, <1>4, <1>6 DEF Dead
    <2>2. PromisedOK'
      BY <1>3, <1>4, <2>1, SamePromised
    <2> QED
      BY <1>2, <1>3, <1>4, <1>5, <2>1, <2>2, PushKeeps
  <1>7. CASE rec.status # "none"
    <2>1. rec' = w /\ rec = Pushee(p) /\ rec.status # "COMMITTED"
      BY <1>3, <1>7, PusheeFacts DEF Finalized
    <2>2. rec.status = "STAGING" => SomeBlocked(rec.epoch, rec.ts)
      BY <1>3, <2>1, HigherBlocked DEF StillStaging
    <2>3. RecStep /\ CoordStill /\ et' = et
      BY StillFacts
    <2>4. RecGrows /\ RecOK'
      BY <1>2, <1>4, <1>7, <2>1, <2>2, AbortGrows
    <2>5. PhaseOK' /\ StageOK' /\ EndTxnOK'
      BY <1>2, <2>1, <2>3, <2>4, AbortSame
    <2>6. PromisedOK'
      BY <1>3, <2>3, <2>4, RecPromised
    <2>7. Preserved
      BY <2>3, <2>4, <2>5, <2>6, RecPreserved
    <2>8. /\ PusherTypes' /\ OthersStill(p)
          /\ ppc'[p] = "resolve" /\ seen'[p] = seen[p] /\ work'[p] = w
      BY <1>2, <1>3, GoResolveFacts
    <2>9. epoch' = epoch
      BY DEF coord
    <2>10. SeenOK(p)'
      BY <1>2, <2>7, <2>8, <2>9, SeenTarget
    <2>11. Dead'
      BY <1>2, <2>1 DEF Dead
    <2>12. PusherInv(p)'
      BY <1>2, <2>8, <2>10, <2>11 DEF PusherInv, WorkOK, ProbeOK
    <2>13. rec' \in RecType /\ tomb' \in {"clear", "set"} /\ UNCHANGED <<intent, value>> /\ readTs' \in [Key -> Ts0]
      BY <1>2, <1>4, <2>1 DEF TypeOK, store
    <2> QED
      BY <1>5, <2>7, <2>8, <2>12, <2>13, PusherDone
  <1> QED
    BY <1>6, <1>7

\* A recovery starts: it has not probed anything yet.
LEMMA StartProbes ==
    ASSUME IInv, NEW p \in Pusher, ppc[p] \in {"idle", "push"}, rec.status = "STAGING", GoProbe(p, rec),
           UNCHANGED <<record, store, coord, net, promised, left>>
    PROVE IInv'
  <1> USE DEF IInv
  <1>1. PICK w : w = rec
    OBVIOUS
  <1>2. w \in RecType /\ GoProbe(p, w) /\ w.epoch <= epoch /\ rec' = w /\ w.ts # 0 /\ w.status = "STAGING"
    BY <1>1 DEF TypeOK, RecType, CoreInv, EpochsOK, RecOK, Staged, record
  <1>3. PICK e \in Nat, t \in Nat : e = w.epoch /\ t = w.ts
    BY <1>2, RecTypes
  <1>4. /\ PusherTypes' /\ OthersStill(p)
        /\ ppc'[p] = "probe" /\ seen'[p] = seen[p] /\ work'[p] = w
        /\ todo'[p] = Key \cup {TheRecord} /\ found'[p] = found[p]
    BY <1>2, GoProbeFacts
  <1>5. found[p] = {} /\ epoch' = epoch
    BY DEF PusherInv, SeenOK, coord
  <1>6. Preserved
    BY StillPreserved
  <1>7. SeenOK(p)'
    BY <1>2, <1>4, <1>5, <1>6, SeenTarget
  <1>8. ~ Prevented(p)' /\ StagedAt(e, t)' /\ Staged'
    BY <1>2, <1>3, <1>4, <1>5 DEF Prevented, StagedAt, Staged
  <1>9. Probes(p, e, t)'
    <2>1. rec'.epoch = e /\ rec'.ts >= t /\ t # 0
      BY <1>2, <1>3
    <2>2. \A k \in Key \ todo'[p] : FALSE
      BY <1>4
    <2> QED
      BY <1>4, <1>8, <2>1, <2>2 DEF Probes
  <1>10. Probes(p, work[p].epoch, work[p].ts)'
    BY <1>3, <1>4, <1>9 DEF Probes, StagedAt, AllAt, SomeBlocked, Blocked, Has
  <1>11. PusherInv(p)'
    BY <1>4, <1>7, <1>10 DEF PusherInv, WorkOK, ProbeOK
  <1> QED
    BY <1>4, <1>11, AloneDone

LEMMA PushTxnInv == ASSUME IInv, NEW p \in Pusher, PushTxn(p) PROVE IInv'
  <1>1. UNCHANGED <<store, coord, net, left>> /\ ppc[p] = "push"
    BY DEF PushTxn
  <1>2. ASSUME PushLoses(p) PROVE IInv'
    BY <1>1, <1>2, RestDone DEF PushLoses
  <1>3. ASSUME PushIndeterminate(p) PROVE IInv'
    <2>1. rec.status = "STAGING" /\ GoProbe(p, rec) /\ UNCHANGED <<record, promised>>
      BY <1>3, PusheeFacts DEF PushIndeterminate, StillStaging
    <2> QED
      BY <1>1, <2>1, StartProbes
  <1> QED
    BY <1>1, <1>2, <1>3, PushFinalizedInv, PushAbortInv, PushUnneededInv, PushTimestampInv DEF PushTxn
LEMMA RecoverForRollbackInv == ASSUME IInv, NEW p \in Pusher, RecoverForRollback(p) PROVE IInv'
  BY StartProbes DEF RecoverForRollback, RollbackIndeterminate

-----------------------------------------------------------------------------
(* Recovery.                                                               *)

\* A probe was answered: the pusher's verdict is about the same commit.
LEMMA ProbeTarget ==
    ASSUME IInv, NEW p \in Pusher, Preserved, epoch' = epoch, NEW e \in Nat, NEW t \in Nat,
           e = work[p].epoch, t = work[p].ts, Probes(p, e, t)',
           ppc'[p] \in {"probe", "recover"}, seen'[p] = seen[p], work'[p] = work[p]
    PROVE PusherInv(p)'
  <1>1. SeenOK(p)'
    BY SeenTarget DEF IInv, PusherInv, SeenOK
  <1>2. Probes(p, work[p].epoch, work[p].ts)'
    BY DEF Probes, StagedAt, AllAt, SomeBlocked, Blocked, Has
  <1> QED
    BY <1>1, <1>2 DEF PusherInv, WorkOK, ProbeOK

LEMMA QueryIntentInv == ASSUME IInv, NEW p \in Pusher, NEW k \in Key, QueryIntent(p, k) PROVE IInv'
  <1> USE DEF IInv
  <1>1. ppc[p] = "probe" /\ k \in todo[p] /\ UNCHANGED <<record, coord, net, promised, left>>
    BY DEF QueryIntent
  <1>2. PICK e \in Nat, t \in Nat : e = work[p].epoch /\ t = work[p].ts
    BY StateTypes
  <1>3. Probes(p, e, t) /\ t \in Ts0
    BY <1>1, <1>2 DEF PusherInv, ProbeOK, TypeOK
  <1>4. epoch' = epoch /\ UNCHANGED <<rec, tomb, push>> /\ UNCHANGED <<sub, et>>
    BY <1>1 DEF coord, record
  <1>5. Staged' = Staged /\ Dead' = Dead /\ StagedAt(e, t)' = StagedAt(e, t)
    BY <1>4 DEF Staged, Dead, StagedAt
  <1>6. CASE Has(k, e, t)
    <2>1. Probed(p, k, {}) /\ UNCHANGED store
      BY <1>2, <1>6 DEF QueryIntent, QueryIntentFinds, Has
    <2>2. /\ PusherTypes' /\ OthersStill(p)
          /\ ppc'[p] = ppc[p] /\ seen'[p] = seen[p] /\ work'[p] = work[p]
          /\ todo'[p] = todo[p] \ {k} /\ found'[p] = found[p] \cup {}
      BY <2>1, ProbedFacts
    <2>3. /\ \A q \in Key : Has(q, e, t)' = Has(q, e, t) /\ Blocked(q, e, t)' = Blocked(q, e, t) /\ value'[q] = value[q]
          /\ AllAt(t)' = AllAt(t) /\ SomeBlocked(e, t)' = SomeBlocked(e, t)
      BY <2>1 DEF Has, HasIntent, Blocked, AllAt, SomeBlocked, store
    <2>4. Prevented(p)' = Prevented(p) /\ ~ Blocked(k, e, t)
      BY <1>6, <2>2 DEF Prevented, Blocked
    <2>5. Probes(p, e, t)'
      <3>1. ASSUME ~ Prevented(p), StagedAt(e, t), \A q \in Key \ todo[p] : Has(q, e, t) \/ value[q] = t
            PROVE \A q \in Key \ todo'[p] : Has(q, e, t)' \/ value'[q] = t
        BY <1>6, <2>2, <2>3, <3>1
      <3>2. ASSUME NEW q \in todo[p] \cap Key, Blocked(q, e, t) PROVE q \in todo'[p] \cap Key /\ Blocked(q, e, t)'
        BY <2>2, <2>3, <2>4, <3>2
      <3> QED
        BY <1>1, <1>3, <1>4, <1>5, <2>2, <2>3, <2>4, <3>1, <3>2 DEF Probes
    <2>6. UNCHANGED <<record, store, coord, net, promised, left>>
      BY <1>1, <2>1
    <2>7. PusherInv(p)'
      BY <1>1, <1>2, <1>4, <2>2, <2>5, <2>6, StillPreserved, ProbeTarget
    <2> QED
      BY <2>2, <2>6, <2>7, AloneDone
  <1>7. CASE ~ Has(k, e, t)
    <2>1. Probed(p, k, {"missing"}) /\ MarkRead(k, t)
      BY <1>2, <1>7 DEF QueryIntent, QueryIntentFinds, Has
    <2>2. /\ PusherTypes' /\ OthersStill(p)
          /\ ppc'[p] = ppc[p] /\ seen'[p] = seen[p] /\ work'[p] = work[p]
          /\ todo'[p] = todo[p] \ {k} /\ found'[p] = found[p] \cup {"missing"}
      BY <2>1, ProbedFacts
    <2>3. /\ readTs' \in [Key -> Ts0] /\ intent' = intent /\ value' = value /\ readTs'[k] >= t
          /\ \A q \in Key : readTs'[q] >= readTs[q]
      BY <1>3, <2>1, MarkReadType
    <2>4. ReadsGrow
      BY <2>3, Consts DEF ReadsGrow
    <2>5. ReadStep
      BY <1>1, <1>4, <2>3, <2>4 DEF ReadStep, CoordStill, coord
    <2>6. Preserved
      BY <1>4, <2>5, ReadPreserved
    <2>7. SomeBlocked(e, t)'
      BY <1>7, <2>3 DEF SomeBlocked, Blocked, Has, HasIntent
    <2>8. Prevented(p)'
      BY <2>2 DEF Prevented
    <2>9. Probes(p, e, t)'
      BY <1>1, <1>3, <1>4, <1>5, <2>2, <2>7, <2>8 DEF Probes
    <2>10. PusherInv(p)'
      BY <1>1, <1>2, <1>4, <2>2, <2>6, <2>9, ProbeTarget
    <2>11. rec' \in RecType /\ tomb' \in {"clear", "set"} /\ push' \in Ts0 /\ promised' \in Ts0
      BY <1>1, <1>4 DEF TypeOK, RecType
    <2> QED
      BY <1>1, <2>2, <2>3, <2>6, <2>10, <2>11, PusherDone
  <1> QED
    BY <1>6, <1>7

\* A step of a recovery that reads nothing but the record, or nothing at all.
LEMMA ProbeSame ==
    ASSUME IInv, NEW p \in Pusher, UNCHANGED <<record, store, coord, net, promised, left>>, ppc[p] = "probe",
           PusherTypes', OthersStill(p), ppc'[p] \in {"probe", "recover"}, seen'[p] = seen[p], work'[p] = work[p],
           ppc'[p] = "recover" => todo'[p] = {},
           todo'[p] \cap Key = todo[p] \cap Key, Prevented(p)' = Prevented(p)
    PROVE IInv'
  <1> USE DEF IInv
  <1>1. PICK e \in Nat, t \in Nat : e = work[p].epoch /\ t = work[p].ts
    BY StateTypes
  <1>2. Probes(p, e, t)
    BY <1>1 DEF PusherInv, ProbeOK
  <1>3. epoch' = epoch /\ UNCHANGED <<rec, tomb, push>>
    BY DEF coord, record
  <1>4. Staged' = Staged /\ Dead' = Dead /\ StagedAt(e, t)' = StagedAt(e, t)
    BY <1>3 DEF Staged, Dead, StagedAt
  <1>5. /\ \A q \in Key : Has(q, e, t)' = Has(q, e, t) /\ Blocked(q, e, t)' = Blocked(q, e, t) /\ value'[q] = value[q]
        /\ AllAt(t)' = AllAt(t) /\ SomeBlocked(e, t)' = SomeBlocked(e, t)
    BY DEF Has, HasIntent, Blocked, AllAt, SomeBlocked, store
  <1>6. \A q \in Key : q \in todo'[p] <=> q \in todo[p]
    OBVIOUS
  <1>7. Probes(p, e, t)'
    BY <1>2, <1>3, <1>4, <1>5, <1>6 DEF Probes
  <1>8. PusherInv(p)'
    BY <1>1, <1>3, <1>7, StillPreserved, ProbeTarget
  <1> QED
    BY <1>8, AloneDone

LEMMA QueryTxnInv == ASSUME IInv, NEW p \in Pusher, QueryTxn(p) PROVE IInv'
  <1>1. ppc[p] = "probe" /\ UNCHANGED <<record, store, coord, net, promised, left>>
    BY DEF QueryTxn
  <1>2. PICK r \in {{"changed"}, {}} : Probed(p, TheRecord, r)
    BY DEF QueryTxn
  <1>3. /\ PusherTypes' /\ OthersStill(p)
        /\ ppc'[p] = ppc[p] /\ seen'[p] = seen[p] /\ work'[p] = work[p]
        /\ todo'[p] = todo[p] \ {TheRecord} /\ found'[p] = found[p] \cup r
    BY <1>2, ProbedFacts DEF IInv
  <1>4. Prevented(p)' = Prevented(p) /\ todo'[p] \cap Key = todo[p] \cap Key
    BY <1>2, <1>3, Consts DEF Prevented
  <1> QED
    BY <1>1, <1>3, <1>4, ProbeSame

LEMMA ProbesDoneInv == ASSUME IInv, NEW p \in Pusher, ProbesDone(p) PROVE IInv'
  <1>1. ppc[p] = "probe" /\ todo[p] = {} /\ UNCHANGED <<record, store, coord, net, promised, left>>
    BY DEF ProbesDone
  <1>2. CASE "changed" \in found[p]
    BY <1>1, <1>2, RestDone DEF ProbesDone
  <1>3. CASE "changed" \notin found[p]
    <2>1. ppc' = [ppc EXCEPT ![p] = "recover"] /\ UNCHANGED <<seen, work, todo, found>>
      BY <1>3 DEF ProbesDone
    <2>2. PusherTypes
      BY PusherTyped DEF IInv
    <2>3. PusherTypes' /\ OthersStill(p) /\ ppc'[p] = "recover"
      BY <2>1, <2>2 DEF PusherTypes, PusherState, OthersStill, PusherStill
    <2>4. Prevented(p)' = Prevented(p) /\ todo'[p] \cap Key = todo[p] \cap Key /\ todo'[p] = {}
      BY <1>1, <2>1 DEF Prevented
    <2> QED
      BY <1>1, <2>1, <2>3, <2>4, ProbeSame
  <1> QED
    BY <1>2, <1>3

\* Every write was found: the commit that is recovered is the one the coordinator
\* is still waiting for, or has left to others.
LEMMA RecoveredCommit ==
    ASSUME IInv, NEW p \in Pusher, ppc[p] = "recover", rec.status = "STAGING", ~ Prevented(p),
           rec.epoch = work[p].epoch, rec.ts = work[p].ts
    PROVE rec.epoch = epoch /\ rec.ts = rts /\ pc \in {"commit", "done"} /\ AfterCommit /\ \A k \in Key : Has(k, epoch, rts)
  <1> USE DEF IInv, CoreInv
  <1>1. PICK e \in Nat, t \in Nat : e = work[p].epoch /\ t = work[p].ts
    BY StateTypes
  <1>2. Staged /\ ~ Dead /\ Probes(p, e, t)
    BY <1>1 DEF Staged, Dead, PusherInv, ProbeOK
  <1>3. AllAt(0) /\ t # 0 /\ todo[p] = {}
    BY <1>2 DEF GoneOK, Probes
  <1>4. ~ AllAt(t)
    BY <1>3, Consts DEF AllAt
  <1>5. \A k \in Key : Has(k, e, t)
    BY <1>2, <1>3, <1>4 DEF Probes, AllAt
  <1>6. ~ SomeBlocked(e, t)
    BY <1>5 DEF SomeBlocked, Blocked
  <1>7. ~ Past(e, t)
    BY <1>1, <1>6 DEF PastOK
  <1>8. e <= epoch /\ t <= rts /\ epoch \in Nat /\ rts \in Nat
    BY <1>1, <1>2, StateTypes DEF EpochsOK, RecOK
  <1>9. e = epoch /\ t = rts /\ pc \notin {"retry", "restart"} /\ told # "aborted"
    BY <1>7, <1>8 DEF Past
  <1>10. pc \notin {"run", "prefix", "again", "endtxn"}
    BY <1>1, <1>2, <1>8, <1>9 DEF RecOK
  <1>11. pc \in {"commit", "done"}
    BY <1>9, <1>10 DEF TypeOK, CoordState
  <1> QED
    BY <1>1, <1>5, <1>9, <1>11 DEF AfterCommit

LEMMA RecoverTxnInv == ASSUME IInv, NEW p \in Pusher, RecoverTxn(p) PROVE IInv'
  <1> USE DEF IInv
  <1>1. ppc[p] = "recover" /\ UNCHANGED <<store, coord, net, promised, left>> /\ (GoIdle(p) \/ GoBack(p))
    BY DEF RecoverTxn
  <1>2. CASE ~ RecoverFinalizes(p)
    BY <1>1, <1>2, RestDone DEF RecoverTxn
  <1>3. CASE RecoverFinalizes(p)
    <2>1. rec.status = "STAGING" /\ ~ RecoverFails(p) /\ (Prevented(p) => ~ LegalChange(p))
      BY <1>3 DEF RecoverFinalizes
    <2>2. WriteRec(IF Prevented(p) THEN "ABORTED" ELSE "COMMITTED", rec.epoch, rec.ts)
      BY <1>3 DEF RecoverTxn
    <2>3. RecStep /\ CoordStill /\ et' = et
      BY <1>1, StillFacts
    <2>4. tomb' = "set" /\ push' = push
      BY <2>2 DEF WriteRec
    <2>5. /\ rec.epoch \in Epoch /\ rec.ts \in Ts0 /\ rec.epoch \in Nat /\ rec.ts \in Nat /\ rec.epoch <= epoch
          /\ work[p].epoch \in Nat /\ work[p].ts \in Nat
      BY StateTypes DEF TypeOK, CoreInv, EpochsOK
    <2>6. RecGrows /\ RecOK' /\ PhaseOK' /\ StageOK' /\ EndTxnOK'
      <3>1. CASE Prevented(p)
        <4>1. rec'.status = "ABORTED" /\ rec' \in RecType /\ rec'.epoch <= epoch
          BY <2>2, <2>5, <3>1 DEF WriteRec, Rec, RecType, Status
        <4>2. PICK e \in Nat, t \in Nat : e = work[p].epoch /\ t = work[p].ts
          BY <2>5
        <4>3. Probes(p, e, t) /\ Staged
          BY <1>1, <2>1, <4>2 DEF PusherInv, ProbeOK, Staged
        <4>4. rec.epoch = e /\ rec.ts = t /\ SomeBlocked(e, t)
          BY <2>1, <2>5, <3>1, <4>2, <4>3 DEF Probes, LegalChange
        <4>5. SomeBlocked(rec.epoch, rec.ts)
          BY <4>4
        <4>6. RecGrows /\ RecOK'
          BY <2>1, <2>4, <4>1, <4>5, AbortGrows
        <4> QED
          BY <2>3, <4>1, <4>6, AbortSame
      <3>2. CASE ~ Prevented(p)
        <4>1. rec.epoch = work[p].epoch /\ rec.ts = work[p].ts
          BY <2>1, <3>2 DEF RecoverFails
        <4>2. rec.epoch = epoch /\ rec.ts = rts /\ pc \in {"commit", "done"} /\ AfterCommit /\ \A k \in Key : Has(k, epoch, rts)
          BY <1>1, <2>1, <3>2, <4>1, RecoveredCommit
        <4>3. rec' = Rec("COMMITTED", epoch, rts)
          BY <2>2, <3>2, <4>2 DEF WriteRec
        <4>4. ~ Dead /\ Staged /\ ~ NeverStaged
          BY <2>1, <4>2 DEF Dead, Staged, NeverStaged
        <4>5. RecGrows /\ RecOK'
          BY <2>1, <2>3, <2>4, <4>2, <4>3, <4>4, CommitGrows
        <4> QED
          BY <2>3, <4>2, <4>4, <4>5, RecSame
      <3> QED
        BY <3>1, <3>2
    <2>7. PromisedOK'
      BY <1>1, <2>3, <2>6, RecPromised
    <2>8. Preserved
      BY <2>3, <2>6, <2>7, RecPreserved
    <2>9. /\ PusherTypes' /\ OthersStill(p)
          /\ ppc'[p] \in {"idle", "push"} /\ seen'[p] \in {seen[p], NobodySeen} /\ work'[p] = NoRec /\ found'[p] = {}
      BY <1>1, IdleFacts, GoBackFacts
    <2>10. PusherInv(p)'
      BY <2>3, <2>8, <2>9, RestInv DEF Preserved
    <2>11. /\ rec' \in RecType /\ tomb' \in {"clear", "set"} /\ push' \in Ts0 /\ promised' \in Ts0
           /\ UNCHANGED <<intent, value>> /\ readTs' \in [Key -> Ts0]
      BY <1>1, <2>4, <2>6 DEF TypeOK, store, RecGrows
    <2> QED
      BY <1>1, <2>8, <2>9, <2>10, <2>11, PusherDone
  <1> QED
    BY <1>2, <1>3

LEMMA OthersInv == ASSUME IInv, NEW p \in Pusher, Others(p) PROVE IInv'
  BY EncounterInv, PushTxnInv, ResolveInv, RecoverForRollbackInv, QueryIntentInv, QueryTxnInv, ProbesDoneInv, RecoverTxnInv
     DEF Others
LEMMA BackgroundInv == ASSUME IInv, Background PROVE IInv'
  BY MoveLeaseInv, BumpKeyInv, ResolveFromRecordInv, GcInv DEF Background
LEMMA EvaluateInv == ASSUME IInv, Blind = {}, Evaluate PROVE IInv'
  BY PutInv, QueryOwnInv, CommitTxnInv, RollbackTxnInv DEF Evaluate

-----------------------------------------------------------------------------
(* Steps of the coordinator.                                               *)

CoordStep ==
    /\ UNCHANGED <<record, store, pusher, promised>>
    /\ epoch' \in Nat /\ epoch' >= epoch /\ rts' \in Nat /\ rts' >= rts /\ wts' \in Nat /\ wts' >= wts

LEMMA CoordFrame ==
    ASSUME CoordStep
    PROVE /\ UNCHANGED <<rec, tomb, push, intent, value, readTs, promised>>
          /\ \A k \in Key : HasIntent(k)' = HasIntent(k)
          /\ \A k \in Key, e \in Nat, t \in Nat : Has(k, e, t)' = Has(k, e, t) /\ Blocked(k, e, t)' = Blocked(k, e, t)
          /\ \A e \in Nat, t \in Nat : StagedAt(e, t)' = StagedAt(e, t) /\ SomeBlocked(e, t)' = SomeBlocked(e, t)
          /\ \A t \in Nat : AllAt(t)' = AllAt(t)
          /\ Staged' = Staged /\ Dead' = Dead /\ Nothing' = Nothing
          /\ \A k \in Key, t \in Nat : SeenHigh(k, t)' = SeenHigh(k, t)
  <1>1. UNCHANGED <<rec, tomb, push, intent, value, readTs, promised>>
    BY DEF CoordStep, record, store
  <1>2. /\ \A k \in Key : HasIntent(k)' = HasIntent(k)
        /\ \A k \in Key, e \in Nat, t \in Nat : Has(k, e, t)' = Has(k, e, t)
    BY <1>1 DEF HasIntent, Has
  <1>3. \A k \in Key, e \in Nat, t \in Nat : Blocked(k, e, t)' = Blocked(k, e, t)
    BY <1>1, <1>2 DEF Blocked
  <1>4. Staged' = Staged /\ Dead' = Dead /\ (\A t \in Nat : AllAt(t)' = AllAt(t))
    BY <1>1 DEF Staged, Dead, AllAt
  <1>5. \A e \in Nat, t \in Nat : StagedAt(e, t)' = StagedAt(e, t) /\ SomeBlocked(e, t)' = SomeBlocked(e, t)
    BY <1>1, <1>3, <1>4 DEF StagedAt, SomeBlocked
  <1>6. Nothing' = Nothing
    BY <1>1, <1>4 DEF Nothing
  <1>7. \A k \in Key, t \in Nat : SeenHigh(k, t)' = SeenHigh(k, t)
    BY <1>1, <1>2 DEF SeenHigh
  <1> QED
    BY <1>1, <1>2, <1>3, <1>4, <1>5, <1>6, <1>7

LEMMA CoordPusher == ASSUME IInv, CoordStep, NEW p \in Pusher PROVE PusherInv(p)'
  <1> USE DEF IInv, PusherInv
  <1>1. PICK e \in Nat, t \in Nat, k \in Key, u \in Nat, se \in Nat :
            e = work[p].epoch /\ t = work[p].ts /\ k = seen[p].key /\ u = seen[p].ts /\ se = seen[p].epoch
    BY StateTypes
  <1>2. /\ ppc' = ppc /\ seen' = seen /\ work' = work /\ todo' = todo /\ found' = found
        /\ epoch \in Nat /\ rts \in Nat /\ wts \in Nat
        /\ epoch' \in Nat /\ epoch' >= epoch /\ rts' \in Nat /\ rts' >= rts /\ wts' \in Nat /\ wts' >= wts
    BY StateTypes DEF CoordStep, pusher
  <1>3. SeenOK(p)'
    <2>1. SeenJustified(k, u)'
      <3>1. u <= wts \/ SeenHigh(k, u) \/ (~ Staged /\ u <= push)
        BY <1>1 DEF SeenOK, SeenJustified
      <3> QED
        BY <1>1, <1>2, <3>1, CoordFrame DEF SeenJustified
    <2>2. SeenJustified(seen[p].key, seen[p].ts)'
      BY <1>1, <1>2, <2>1 DEF SeenJustified, SeenHigh
    <2>3. se <= epoch' /\ e <= epoch'
      BY <1>1, <1>2 DEF SeenOK
    <2> QED
      BY <1>1, <1>2, <2>2, <2>3 DEF SeenOK
  <1>4. WorkOK(p)'
    <2>1. t <= rts => t <= rts'
      BY <1>2
    <2>2. AllAt(t)' = AllAt(t) /\ Dead' = Dead /\ Staged' = Staged /\ rec' = rec /\ push' = push
      BY CoordFrame
    <2>3. AllAt(work[p].ts)' = AllAt(work[p].ts)
      BY <1>1, <1>2, <2>2 DEF AllAt
    <2> QED
      BY <1>1, <1>2, <2>1, <2>2, <2>3 DEF WorkOK
  <1>5. ProbeOK(p)'
    <2>1. Prevented(p)' = Prevented(p)
      BY <1>2 DEF Prevented
    <2>2. Probes(p, e, t) => Probes(p, e, t)'
      BY <1>2, <2>1, CoordFrame DEF Probes
    <2>3. ppc[p] \in {"probe", "recover"} => Probes(p, work[p].epoch, work[p].ts)'
      BY <1>1, <1>2, <2>2 DEF ProbeOK, Probes, StagedAt, AllAt, SomeBlocked, Blocked, Has
    <2> QED
      BY <1>2, <2>3 DEF ProbeOK
  <1> QED
    BY <1>3, <1>4, <1>5

\* A parallel commit that is or may still be recorded.
Recorded(e, t) ==
    \/ rec.status = "STAGING" /\ rec.epoch = e /\ rec.ts = t
    \/ \E m \in net : m.op = "stage" /\ m.epoch = e /\ m.rts = t
LEMMA RecordedPast ==
    ASSUME IInv, pc \notin {"commit", "done"}, NEW e \in Nat, NEW t \in Nat, Recorded(e, t) PROVE Past(e, t)
  <1> USE DEF IInv, CoreInv
  <1>1. epoch \in Nat /\ rts \in Nat /\ e <= epoch
    BY StateTypes DEF Recorded, EpochsOK
  <1>2. CASE e < epoch
    BY <1>1, <1>2 DEF Past
  <1>3. CASE e = epoch
    <2>1. pc # "run" /\ (pc \in {"prefix", "again", "endtxn"} => t < rts)
      BY <1>3 DEF Recorded, RecOK, Staged, NetOK, NetAt, IsStage
    <2> QED
      BY <1>1, <1>3, <2>1 DEF Past, TypeOK, CoordState
  <1> QED
    BY <1>1, <1>2, <1>3
LEMMA NotAfter == ASSUME IInv, pc \notin {"commit", "endtxn", "done"} PROVE Nothing
  BY DEF IInv, CoreInv, CommittedOK, GoneOK, AfterCommit, Nothing

\* What a step of the coordinator must respect.
CommitKept ==
    Nothing \/ (epoch' = epoch /\ rts' = rts /\ AfterCommit' /\ (told = "error" => told' = "error"))
LEMMA CoordCore ==
    ASSUME IInv, CoordStep, CommitKept, TimesOK', NetOK', RecOK', ReadyOK', UnsentOK', ToldOK',
           \A e \in Nat, t \in Nat : Recorded(e, t) /\ Past(e, t)' => Past(e, t) \/ SomeBlocked(e, t),
           \A m \in net' : m \in net \/ (m \in Requests /\ m.epoch = epoch /\ (m.op = "stage" => ~ Past(m.epoch, m.rts)'))
    PROVE CoreInv'
  <1> USE DEF IInv, CoreInv
  <1>1. PICK e \in Nat, t \in Nat : e = epoch /\ t = rts
    BY StateTypes
  <1>2. /\ epoch' \in Nat /\ epoch' >= epoch /\ rts' \in Nat /\ rts' >= rts /\ wts' \in Nat /\ wts' >= wts
        /\ wts \in Nat /\ UNCHANGED <<rec, tomb, push, intent, value, readTs, promised>>
        /\ rec.epoch \in Nat /\ rec.ts \in Nat
    BY CoordFrame, StateTypes DEF CoordStep
  <1>3. EpochsOK'
    <2>1. \A k \in Key : intent[k].epoch \in Nat
      BY StateTypes
    <2>2. \A m \in net : m.epoch \in Nat
      BY StateTypes, RequestTypes
    <2>3. \A m \in net' : m.epoch <= epoch'
      BY <1>1, <1>2, <2>2 DEF EpochsOK
    <2> QED
      BY <1>1, <1>2, <2>1, <2>3 DEF EpochsOK
  <1>4. PastOK'
    <2>1. ASSUME NEW u \in Nat, NEW v \in Nat, Recorded(u, v), Past(u, v)' PROVE SomeBlocked(u, v)'
      <3>1. Past(u, v) => SomeBlocked(u, v)
        BY <2>1 DEF Recorded, PastOK
      <3> QED
        BY <2>1, <3>1, CoordFrame
    <2>2. \A m \in net : m.epoch \in Nat /\ m.rts \in Nat
      BY StateTypes, RequestTypes
    <2>3. ASSUME NEW m \in net', m.op = "stage", Past(m.epoch, m.rts)' PROVE SomeBlocked(m.epoch, m.rts)'
      <3>1. m \in net
        BY <2>3
      <3>2. Recorded(m.epoch, m.rts)
        BY <2>3, <3>1 DEF Recorded
      <3> QED
        BY <2>1, <2>2, <2>3, <3>1, <3>2
    <2>4. ASSUME rec.status = "STAGING", Past(rec.epoch, rec.ts)' PROVE SomeBlocked(rec.epoch, rec.ts)'
      <3>1. PICK u \in Nat, v \in Nat : u = rec.epoch /\ v = rec.ts
        BY <1>2
      <3>2. Past(u, v)'
        BY <1>2, <2>4, <3>1 DEF Past
      <3>3. Recorded(u, v)
        BY <2>4, <3>1 DEF Recorded
      <3>4. SomeBlocked(u, v)'
        BY <2>1, <3>2, <3>3
      <3> QED
        BY <1>2, <3>1, <3>4 DEF SomeBlocked, Blocked, Has
    <2> QED
      BY <1>2, <2>3, <2>4 DEF PastOK
  <1>5. CommittedOK'
    <2> SUFFICES ASSUME rec.status = "COMMITTED"
                 PROVE CommittedOK'
      BY <1>2 DEF CommittedOK
    <2>1. epoch' = e /\ rts' = t /\ AfterCommit'
      BY <1>1 DEF CommitKept, Nothing
    <2>2. \A k \in Key : \/ value[k] = t /\ ~ HasIntent(k)
                         \/ value[k] = 0 /\ Has(k, e, t)
      BY <1>1 DEF CommittedOK
    <2>3. \A k \in Key : \/ value'[k] = t /\ ~ HasIntent(k)'
                         \/ value'[k] = 0 /\ Has(k, e, t)'
      BY <1>2, <2>2, CoordFrame
    <2>4. rec'.epoch = e /\ rec'.ts = t
      BY <1>1, <1>2 DEF CommittedOK
    <2> QED
      BY <2>1, <2>3, <2>4 DEF CommittedOK
  <1>6. GoneOK'
    <2>1. CASE AllAt(0) \/ rec.status = "COMMITTED"
      BY <1>2, <2>1, CoordFrame DEF GoneOK
    <2>2. CASE ~ AllAt(0) /\ rec.status # "COMMITTED"
      <3>1. rts' = t /\ AfterCommit' /\ (told = "error" => told' = "error")
        BY <1>1, <2>2 DEF CommitKept, Nothing
      <3>2. AllAt(t) /\ Dead /\ (\A k \in Key : ~ HasIntent(k)) /\ (told # "error" => rec.status = "none")
        BY <1>1, <2>2 DEF GoneOK
      <3> QED
        BY <1>2, <3>1, <3>2, CoordFrame DEF GoneOK
    <2> QED
      BY <2>1, <2>2
  <1>7. IntentsOK'
    <2> SUFFICES ASSUME NEW k \in Key PROVE Justified(k, intent[k].ts)'
      BY DEF IntentsOK
    <2>1. intent[k].ts \in Nat /\ Justified(k, intent[k].ts) /\ Staged' = Staged
      BY StateTypes, CoordFrame DEF IntentsOK
    <2> QED
      BY <1>2, <2>1 DEF Justified
  <1>8. PromisedOK'
    BY <1>2, CoordFrame DEF PromisedOK
  <1> QED
    BY <1>3, <1>4, <1>5, <1>6, <1>7, <1>8

LEMMA CallIdle == ASSUME pc' \in {"run", "retry", "restart", "again", "done"}, PhaseOK' PROVE CallInv'
  BY DEF CallInv, StageOK, PrefixOK, EndTxnOK, WritesOK

CoordTypes ==
    /\ pc \in CoordState /\ epoch \in Epoch /\ rts \in Ts /\ wts \in Ts
    /\ sub \in [Key -> [st : CallState, att : 0 .. 2, ts : Ts0]]
    /\ et \in [st : CallState, att : 0 .. 2, ts : Ts0]
    /\ built \in Ts0
    /\ net \subseteq Requests
    /\ told \in {"nothing", "committed", "aborted", "error"} /\ left \in Budget
LEMMA CoordTyped == ASSUME TypeOK PROVE CoordTypes
  BY DEF TypeOK, CoordTypes
LEMMA CoordType == ASSUME TypeOK, UNCHANGED <<record, store, pusher, promised>>, CoordTypes' PROVE TypeOK'
  <1>1. PusherTypes'
    BY PusherTyped DEF PusherTypes, pusher
  <1>2. /\ rec' \in RecType /\ tomb' \in {"clear", "set"} /\ push' \in Ts0 /\ promised' \in Ts0
        /\ intent' \in [Key -> [epoch : Epoch, ts : Ts0]] /\ value' \in [Key -> Ts0] /\ readTs' \in [Key -> Ts0]
    BY DEF TypeOK, record, store, RecType
  <1> QED
    BY <1>1, <1>2 DEF TypeOK, PusherTypes, RecType, CoordTypes
LEMMA CallTypes ==
    /\ NoCall \in [st : CallState, att : 0 .. 2, ts : Ts0]
    /\ NoCall.st = "none" /\ NoCall.ts = 0
    /\ \A a \in 1 .. 2 : /\ Waiting(a) \in [st : CallState, att : 0 .. 2, ts : Ts0]
                         /\ Waiting(a).st = "wait" /\ Waiting(a).ts = 0 /\ Waiting(a).att = a
    /\ Call("piped", 0, 0) \in [st : CallState, att : 0 .. 2, ts : Ts0]
  BY Consts DEF NoCall, Waiting, Call, CallState

LEMMA CoordDone ==
    ASSUME IInv, CoordStep, CoordTypes', CoreInv', CallInv' PROVE IInv'
  BY CoordType, CoordPusher DEF IInv, CoordStep

\* The requests the coordinator sends.
LEMMA KeyRequestFacts ==
    ASSUME NEW k \in Key, NEW t \in Ts, NEW q \in Ts, NEW a \in 1 .. 2, NEW g \in BOOLEAN, epoch \in Epoch,
           NEW m, m = KeyRequest(k, t, q, a, g)
    PROVE /\ m \in Requests /\ m.key = k /\ m.epoch = epoch /\ m.rts = t /\ m.wts = t /\ m.att = a
          /\ m.op = (IF k \in Pipelined THEN "qi" ELSE "put")
          /\ k \in Pipelined => m.qts = q
          /\ k \notin Pipelined => m.prot = g
  BY DEF KeyRequest, QueryIntentRequest, PutRequest, Requests
LEMMA EndTxnRequestFacts ==
    ASSUME NEW o \in {"stage", "commit", "abort"}, NEW t \in Ts, NEW w \in Ts, NEW a \in 1 .. 2, epoch \in Epoch,
           NEW m, m = EndTxnRequest(o, t, w, a)
    PROVE /\ m \in Requests /\ m.op = o /\ m.epoch = epoch /\ m.rts = t /\ m.wts = w /\ m.att = a
  BY DEF EndTxnRequest, Requests

-----------------------------------------------------------------------------
(* Requests are sent again, or given up.                                   *)

LEMMA StillStep == ASSUME TypeOK, UNCHANGED <<record, store, pusher, promised>>, CoordStill PROVE CoordStep
  <1>1. epoch \in Nat /\ rts \in Nat /\ wts \in Nat /\ epoch >= epoch /\ rts >= rts /\ wts >= wts
    BY StateTypes
  <1> QED
    BY <1>1 DEF CoordStep, CoordStill
LEMMA SentCore ==
    ASSUME IInv, CoordStill, UNCHANGED <<record, store, pusher, promised>>, NEW m \in Requests, net' \subseteq net \cup {m},
           NetAt(m), m.epoch = epoch, m.op = "stage" => ~ Past(m.epoch, m.rts), m.op = "commit" => pc = "endtxn"
    PROVE CoreInv'
  <1> USE DEF IInv, CoreInv
  <1>1. CoordStep
    BY StillStep
  <1>2. CommitKept
    BY DEF CommitKept, CommittedOK, GoneOK, Nothing, CoordStill, AfterCommit
  <1>3. TimesOK'
    BY TimesSame
  <1>4. NetOK'
    BY DEF NetOK, NetAt, CoordStill, IsStage
  <1>5. RecOK'
    BY <1>1, CoordFrame DEF RecOK, CoordStill
  <1>6. ReadyOK'
    <2>1. PICK t \in Nat : t = rts
      BY StateTypes
    <2>2. rts' = t /\ pc' = pc /\ epoch' = epoch
      BY <2>1 DEF CoordStill
    <2>3. \A k \in Key : InPlace(k, t) => InPlace(k, t)'
      BY <1>1, <2>2, CoordFrame DEF InPlace
    <2>4. (\E n \in net' : n.op = "commit") => pc = "endtxn" \/ \E n \in net : n.op = "commit"
      OBVIOUS
    <2> QED
      BY <1>1, <2>1, <2>2, <2>3, <2>4, CoordFrame DEF ReadyOK
  <1>7. UnsentOK'
    BY <1>1, CoordFrame DEF UnsentOK, CoordStill
  <1>8. ToldOK'
    <2>1. PICK e \in Nat, t \in Nat : e = epoch /\ t = rts
      BY StateTypes
    <2>2. rts' = t /\ told' = told /\ epoch' = e
      BY <2>1 DEF CoordStill
    <2> QED
      BY <1>1, <2>1, <2>2, CoordFrame DEF ToldOK
  <1>9. \A e \in Nat, t \in Nat : Past(e, t)' = Past(e, t)
    BY DEF Past, CoordStill
  <1>10. m.epoch \in Nat /\ m.rts \in Nat
    BY RequestTypes
  <1> QED
    BY <1>1, <1>2, <1>3, <1>4, <1>5, <1>6, <1>7, <1>8, <1>9, <1>10, CoordCore

\* A call for k that is not answered yet, or was given up, says nothing.
LEMMA KeyUnsettled ==
    ASSUME IInv, CoordStill, UNCHANGED <<record, store, pusher, promised>>, NEW k \in Key, pc \in {"commit", "prefix"},
           et' = et, sub'[k].st \in {"wait", "amb", "fail"}, sub'[k] # Waiting(1), \A q \in Key : q # k => sub'[q] = sub[q],
           \A m \in net' : m \in net \/ m.op = "qi" \/ (m.op = "put" /\ m.key = k)
    PROVE CallInv'
  <1> USE DEF IInv, CallInv
  <1>1. CoordStep
    BY StillStep
  <1>2. PICK e \in Nat, t \in Nat : e = epoch /\ t = rts
    BY StateTypes
  <1>3. epoch' = e /\ rts' = t /\ pc' = pc /\ told' = told /\ UNCHANGED <<rec, push, value, intent>>
    BY <1>1, <1>2, CoordFrame DEF CoordStill
  <1>4. \A q \in Key : Confirmed(q)' => Confirmed(q) /\ q # k
    BY <1>2, <1>3 DEF Confirmed
  <1>5. NeverStaged' = NeverStaged
    BY <1>1, <1>2, <1>3, CoordFrame DEF NeverStaged
  <1>6. PhaseOK'
    BY <1>3 DEF PhaseOK
  <1>7. StageOK'
    BY <1>1, <1>2, <1>3, <1>4, <1>5, CoordFrame DEF StageOK, IsStage
  <1>8. PrefixOK'
    <2>1. \A q \in Key, u \in Nat : InPlace(q, u) => InPlace(q, u)'
      BY <1>1, <1>2, <1>3, CoordFrame DEF InPlace
    <2>2. \A q \in Key : sub[q].ts \in Nat
      BY StateTypes
    <2>3. ASSUME NEW q \in Key, pc = "prefix", q # k PROVE sub'[q].st = "ok" => InPlace(q, sub[q].ts)'
      <3>1. PICK u \in Nat : u = sub[q].ts
        BY <2>2
      <3>2. sub'[q].st = "ok" => InPlace(q, u)'
        BY <2>1, <2>3, <3>1 DEF PrefixOK
      <3> QED
        BY <2>3, <3>1, <3>2 DEF InPlace
    <2> QED
      BY <1>2, <1>3, <2>3 DEF PrefixOK
  <1>9. EndTxnOK'
    BY <1>3 DEF EndTxnOK
  <1>10. ASSUME NEW q \in Key PROVE WritesOK(q)'
    <2>1. CASE q = k
      BY <1>4, <2>1 DEF WritesOK
    <2>2. CASE q # k
      BY <1>1, <1>2, <1>3, <1>4, <2>2, CoordFrame DEF WritesOK
    <2> QED
      BY <2>1, <2>2
  <1> QED
    BY <1>6, <1>7, <1>8, <1>9, <1>10

LEMMA EndTxnUnsettled ==
    ASSUME IInv, CoordStill, UNCHANGED <<record, store, pusher, promised>>, pc \in {"commit", "endtxn"},
           sub' = sub, et'.st \in {"wait", "amb", "fail"}, et' # Waiting(1),
           \A m \in net' : m \in net \/ m.op # "put"
    PROVE CallInv'
  <1> USE DEF IInv, CallInv
  <1>1. CoordStep
    BY StillStep
  <1>2. PICK e \in Nat, t \in Nat : e = epoch /\ t = rts
    BY StateTypes
  <1>3. epoch' = e /\ rts' = t /\ pc' = pc /\ told' = told /\ UNCHANGED <<rec, push, value, intent>>
    BY <1>1, <1>2, CoordFrame DEF CoordStill
  <1>4. PhaseOK'
    BY <1>3 DEF PhaseOK
  <1>5. StageOK' /\ EndTxnOK' /\ PrefixOK'
    BY <1>3 DEF StageOK, EndTxnOK, PrefixOK
  <1>6. ASSUME NEW q \in Key PROVE WritesOK(q)'
    <2>1. Confirmed(q)' = Confirmed(q)
      BY <1>2, <1>3 DEF Confirmed
    <2> QED
      BY <1>1, <1>2, <1>3, <2>1, CoordFrame DEF WritesOK
  <1> QED
    BY <1>4, <1>5, <1>6

LEMMA ResendKeyInv == ASSUME IInv, NEW k \in Key, ResendKey(k) PROVE IInv'
  <1> USE DEF IInv
  <1>1. /\ pc \in {"commit", "prefix"} /\ sub' = [sub EXCEPT ![k] = Waiting(2)] /\ Fault /\ sub[k] = Waiting(1)
        /\ UNCHANGED <<record, store, pc, epoch, rts, wts, et, built, told, pusher, promised>>
    BY DEF ResendKey
  <1>2. PICK m : m = KeyRequest(k, rts, built, 2, WithCommit)
    OBVIOUS
  <1>3. net' = net \cup {m}
    BY <1>2 DEF ResendKey
  <1>4. /\ epoch \in Epoch /\ rts \in Ts /\ rts \in Nat /\ built \in Ts /\ built \in Nat /\ built <= rts /\ rts = wts
        /\ pc = "commit" => built = rts
    BY <1>1, StateTypes DEF CoreInv, TimesOK, TypeOK
  <1>5. WithCommit \in BOOLEAN /\ (pc = "commit" => WithCommit)
    BY DEF WithCommit
  <1>6. /\ m \in Requests /\ m.key = k /\ m.epoch = epoch /\ m.rts = rts /\ m.wts = rts /\ m.att = 2
        /\ m.op = (IF k \in Pipelined THEN "qi" ELSE "put")
        /\ k \in Pipelined => m.qts = built
        /\ k \notin Pipelined => m.prot = WithCommit
    BY <1>2, <1>4, <1>5, KeyRequestFacts
  <1>7. NetAt(m)
    BY <1>1, <1>4, <1>5, <1>6 DEF NetAt, IsStage
  <1>8. CoordStill /\ UNCHANGED <<record, store, pusher, promised>> /\ CoordStep
    BY <1>1, StillStep DEF CoordStill
  <1>9. CoreInv'
    BY <1>3, <1>6, <1>7, <1>8, SentCore
  <1>10. Waiting(2).st = "wait" /\ Waiting(2) # Waiting(1) /\ Waiting(2) \in [st : CallState, att : 0 .. 2, ts : Ts0]
    BY CallTypes
  <1>11. CoordTypes
    BY CoordTyped
  <1>12. sub'[k] = Waiting(2) /\ \A q \in Key : q # k => sub'[q] = sub[q]
    BY <1>1, <1>11 DEF CoordTypes
  <1>13. CallInv'
    BY <1>1, <1>3, <1>6, <1>8, <1>10, <1>12, KeyUnsettled
  <1>14. CoordTypes'
    BY <1>1, <1>3, <1>6, <1>10, <1>11, FaultBudget DEF CoordTypes
  <1> QED
    BY <1>8, <1>9, <1>13, <1>14, CoordDone

LEMMA GiveUpKeyInv == ASSUME IInv, NEW k \in Key, GiveUpKey(k) PROVE IInv'
  <1> USE DEF IInv
  <1>1. PICK g \in {"amb", "fail"} : g = GiveUpError
    BY DEF GiveUpError
  <1>2. /\ pc \in {"commit", "prefix"} /\ sub' = [sub EXCEPT ![k] = Call(g, sub[k].att, 0)] /\ Fault
        /\ UNCHANGED <<record, store, pc, epoch, rts, wts, et, built, net, told, pusher, promised>>
    BY <1>1 DEF GiveUpKey
  <1>3. CoordStill /\ UNCHANGED <<record, store, pusher, promised>> /\ CoordStep
    BY <1>2, StillStep DEF CoordStill
  <1>4. CoordTypes
    BY CoordTyped
  <1>5. /\ Call(g, sub[k].att, 0) \in [st : CallState, att : 0 .. 2, ts : Ts0] /\ Call(g, sub[k].att, 0).st = g
    BY <1>4, Consts DEF CoordTypes, Call, CallState
  <1>6. sub'[k].st = g /\ \A q \in Key : q # k => sub'[q] = sub[q]
    BY <1>2, <1>4, <1>5 DEF CoordTypes
  <1>7. sub'[k] # Waiting(1)
    BY <1>6, CallTypes
  <1>8. CallInv'
    BY <1>2, <1>3, <1>6, <1>7, KeyUnsettled
  <1>9. ReadStep
    BY <1>2, <1>3, StateTypes DEF ReadStep, ReadsGrow, record, store
  <1>10. CoordTypes'
    BY <1>2, <1>4, <1>5, FaultBudget DEF CoordTypes
  <1> QED
    BY <1>3, <1>8, <1>9, <1>10, ReadCore, CoordDone

LEMMA ResendEndTxnInv == ASSUME IInv, ResendEndTxn PROVE IInv'
  <1> USE DEF IInv
  <1>1. /\ et = Waiting(1) /\ et' = Waiting(2) /\ Fault
        /\ UNCHANGED <<record, store, pc, epoch, rts, wts, sub, built, told, pusher, promised>>
    BY DEF ResendEndTxn
  <1>2. PICK o : o = IF pc = "commit" THEN "stage" ELSE "commit"
    OBVIOUS
  <1>3. PICK m : m = EndTxnRequest(o, rts, rts, 2)
    OBVIOUS
  <1>4. net' = net \cup {m}
    BY <1>2, <1>3 DEF ResendEndTxn
  <1>5. pc \in {"commit", "endtxn"}
    <2>1. et # NoCall
      BY <1>1, CallTypes
    <2> QED
      BY <2>1 DEF CallInv, PhaseOK
  <1>6. epoch \in Epoch /\ rts \in Ts /\ rts \in Nat /\ epoch \in Nat /\ rts = wts /\ told # "aborted"
    BY <1>5, StateTypes DEF CoreInv, TimesOK, TypeOK, CallInv, PhaseOK
  <1>7. m \in Requests /\ m.op = o /\ m.epoch = epoch /\ m.rts = rts /\ m.wts = rts /\ m.att = 2
    BY <1>2, <1>3, <1>6, EndTxnRequestFacts
  <1>8. NetAt(m)
    BY <1>2, <1>5, <1>6, <1>7 DEF NetAt, IsStage
  <1>9. CoordStill /\ UNCHANGED <<record, store, pusher, promised>> /\ CoordStep
    BY <1>1, StillStep DEF CoordStill
  <1>10. m.op = "stage" => ~ Past(m.epoch, m.rts)
    BY <1>2, <1>5, <1>6, <1>7 DEF Past
  <1>11. CoreInv'
    BY <1>2, <1>4, <1>5, <1>7, <1>8, <1>9, <1>10, SentCore
  <1>12. Waiting(2).st = "wait" /\ Waiting(2) # Waiting(1) /\ Waiting(2) \in [st : CallState, att : 0 .. 2, ts : Ts0]
    BY CallTypes
  <1>13. CallInv'
    BY <1>1, <1>2, <1>4, <1>5, <1>7, <1>9, <1>12, EndTxnUnsettled
  <1>14. CoordTypes'
    BY <1>1, <1>4, <1>7, <1>12, CoordTyped, FaultBudget DEF CoordTypes
  <1> QED
    BY <1>9, <1>11, <1>13, <1>14, CoordDone

LEMMA GiveUpEndTxnInv == ASSUME IInv, GiveUpEndTxn PROVE IInv'
  <1> USE DEF IInv
  <1>1. PICK g \in {"amb", "fail"} : g = GiveUpError
    BY DEF GiveUpError
  <1>2. /\ et.st = "wait" /\ et' = Call(g, et.att, 0) /\ Fault
        /\ UNCHANGED <<record, store, pc, epoch, rts, wts, sub, built, net, told, pusher, promised>>
    BY <1>1 DEF GiveUpEndTxn
  <1>3. CoordStill /\ UNCHANGED <<record, store, pusher, promised>> /\ CoordStep
    BY <1>2, StillStep DEF CoordStill
  <1>4. CoordTypes
    BY CoordTyped
  <1>5. /\ Call(g, et.att, 0) \in [st : CallState, att : 0 .. 2, ts : Ts0] /\ Call(g, et.att, 0).st = g
    BY <1>4, Consts DEF CoordTypes, Call, CallState
  <1>6. et'.st = g /\ et' # Waiting(1)
    BY <1>2, <1>5, CallTypes
  <1>7. pc \in {"commit", "endtxn"}
    <2>1. et # NoCall
      BY <1>2, CallTypes
    <2> QED
      BY <2>1 DEF CallInv, PhaseOK
  <1>8. CallInv'
    BY <1>2, <1>3, <1>6, <1>7, EndTxnUnsettled
  <1>9. ReadStep
    BY <1>2, <1>3, StateTypes DEF ReadStep, ReadsGrow, record, store
  <1>10. CoordTypes'
    BY <1>2, <1>4, <1>5, FaultBudget DEF CoordTypes
  <1> QED
    BY <1>3, <1>8, <1>9, <1>10, ReadCore, CoordDone

-----------------------------------------------------------------------------
(* Steps that are not about an answer: nothing is committed.               *)

LEMMA LeaveCore ==
    ASSUME IInv, CoordStep, pc \notin {"commit", "endtxn", "done"}, TimesOK', NetOK', RecOK', ReadyOK', UnsentOK',
           told' # "committed",
           \A m \in net' : m \in net \/ (m \in Requests /\ m.epoch = epoch /\ (m.op = "stage" => ~ Past(m.epoch, m.rts)'))
    PROVE CoreInv'
  <1>1. CommitKept
    BY NotAfter DEF CommitKept
  <1>2. \A e \in Nat, t \in Nat : Recorded(e, t) => Past(e, t)
    BY RecordedPast
  <1>3. ToldOK'
    BY DEF ToldOK
  <1> QED
    BY <1>1, <1>2, <1>3, CoordCore

\* The requests of an earlier state of the transaction.
LEMMA OldRequests ==
    ASSUME IInv, NEW m \in net
    PROVE /\ NetAt(m) /\ m.epoch \in Nat /\ m.rts \in Nat /\ m.wts \in Nat /\ m.epoch <= epoch /\ m \in Requests
          /\ m.rts <= rts /\ m.wts <= wts /\ m.rts <= m.wts
          /\ pc # "done" => m.op # "abort"
          /\ pc \notin {"endtxn", "done"} => m.op # "commit"
          /\ m.op = "qi" => m.qts \in Nat
  BY StateTypes, RequestTypes DEF IInv, CoreInv, NetOK, NetAt, EpochsOK

LEMMA CoordFacts ==
    ASSUME IInv
    PROVE /\ epoch \in Nat /\ epoch \in Epoch /\ rts \in Nat /\ rts \in Ts /\ wts \in Nat /\ wts \in Ts /\ rts <= wts
          /\ built \in Nat /\ rec.epoch \in Nat /\ rec.ts \in Nat /\ rec.epoch <= epoch
          /\ pc # "done" => told = "nothing"
          /\ pc \notin {"commit", "endtxn"} => et = NoCall
          /\ rts >= rts /\ wts >= wts /\ epoch >= epoch /\ wts >= rts
  BY StateTypes DEF IInv, TypeOK, CoreInv, TimesOK, EpochsOK, CallInv, PhaseOK

LEMMA PipelineWriteInv == ASSUME IInv, NEW k \in Key, PipelineWrite(k) PROVE IInv'
  <1> USE DEF IInv
  <1>1. PICK b : b = Bumped(k, wts)
    OBVIOUS
  <1>2. PICK m : m = PutRequest(k, rts, wts, 1, FALSE)
    OBVIOUS
  <1>3. /\ pc = "run" /\ k \in Pipelined /\ sub[k] = NoCall /\ value[k] < rts /\ b <= left.ts /\ wts' = b
        /\ sub' = [sub EXCEPT ![k] = Call("piped", 0, 0)]
        /\ UNCHANGED <<record, pc, epoch, rts, et, built, told, pusher, promised>>
    BY <1>1 DEF PipelineWrite
  <1>4. \/ SetIntent(k, epoch, Forward(b, intent[k].ts)) /\ UNCHANGED <<net, left>>
        \/ net' = net \cup {m} /\ Fault /\ UNCHANGED store
    BY <1>1, <1>2 DEF PipelineWrite
  <1>5. /\ epoch \in Nat /\ epoch \in Epoch /\ rts \in Nat /\ rts \in Ts /\ wts \in Nat /\ wts \in Ts /\ rts <= wts
        /\ told = "nothing" /\ et = NoCall
    BY <1>3, CoordFacts
  <1>6. b \in Nat /\ b >= wts /\ b > readTs[k] /\ b # 0 /\ b \in Ts
    BY <1>1, <1>3, <1>5, BumpedType
  <1>7. CoordTypes
    BY CoordTyped
  <1>8. PhaseOK'
    <2>1. \A q \in Key : sub'[q] = NoCall \/ sub'[q] = Call("piped", 0, 0)
      BY <1>3, <1>7 DEF CoordTypes, CallInv, PhaseOK
    <2> QED
      BY <1>3, <1>5, <2>1 DEF PhaseOK
  <1>9. CallInv'
    BY <1>3, <1>8, CallIdle
  <1>10. sub' \in [Key -> [st : CallState, att : 0 .. 2, ts : Ts0]]
    BY <1>3, <1>7, CallTypes DEF CoordTypes
  <1>11. Nothing
    BY <1>3, NotAfter
  <1>12. CASE SetIntent(k, epoch, Forward(b, intent[k].ts)) /\ UNCHANGED <<net, left>>
    <2>1. PICK f : f = Forward(b, intent[k].ts)
      OBVIOUS
    <2>2. /\ readTs[k] \in Nat /\ intent[k].ts \in Nat /\ value[k] \in Nat /\ rec.epoch \in Nat /\ rec.ts \in Nat
          /\ intent[k].epoch \in Nat
      BY StateTypes
    <2>3. f \in Nat /\ f >= b /\ (f = b \/ f = intent[k].ts) /\ f # 0
      <3>1. f \in Nat /\ f >= b /\ (f = b \/ f = intent[k].ts)
        BY <1>6, <2>1, <2>2, ForwardNat
      <3> QED
        BY <1>6, <3>1
    <2>4. /\ intent' \in [Key -> [epoch : Epoch, ts : Ts0]]
          /\ intent'[k].epoch = epoch /\ intent'[k].ts = f
          /\ \A q \in Key : q # k => intent'[q] = intent[q]
          /\ value' = value /\ readTs' = readTs
      BY <1>5, <1>12, <2>1, <2>3, SetIntentType
    <2>5. UNCHANGED <<rec, tomb, push, promised, value>>
      BY <1>3, <2>4 DEF record
    <2>6. BlockedStays
      <3> SUFFICES ASSUME NEW q \in Key, NEW e \in Nat, NEW t \in Nat, Blocked(q, e, t)
                   PROVE Blocked(q, e, t)'
        BY DEF BlockedStays
      <3>1. CASE q = k
        <4>1. readTs[k] >= t /\ ~ (intent'[k].ts <= t)
          BY <1>6, <2>2, <2>3, <2>4, <3>1 DEF Blocked
        <4> QED
          BY <2>4, <3>1, <4>1 DEF Blocked, Has
      <3>2. CASE q # k
        BY <2>4, <3>2 DEF Blocked, Has, HasIntent
      <3> QED
        BY <3>1, <3>2
    <2>7. SeenStays
      <3> SUFFICES ASSUME NEW q \in Key, NEW t \in Nat, SeenHigh(q, t) PROVE SeenHigh(q, t)'
        BY DEF SeenStays
      <3>1. CASE q = k
        <4>1. t <= readTs[k] + 1 /\ intent'[k].ts >= t
          BY <1>6, <2>2, <2>3, <2>4, <3>1 DEF SeenHigh
        <4> QED
          BY <2>4, <3>1, <4>1 DEF SeenHigh
      <3>2. CASE q # k
        BY <2>4, <3>2 DEF SeenHigh, HasIntent
      <3> QED
        BY <3>1, <3>2
    <2>8. Justified(k, intent[k].ts)'
      <3>1. Staged' = Staged
        BY <2>5 DEF Staged
      <3>2. CASE f = b
        BY <1>3, <1>6, <2>4, <3>2 DEF Justified
      <3>3. CASE f = intent[k].ts
        <4>1. Justified(k, f)
          BY <3>3 DEF CoreInv, IntentsOK
        <4> QED
          BY <1>3, <1>5, <1>6, <2>3, <2>4, <2>5, <3>1, <4>1 DEF Justified
      <3> QED
        BY <2>3, <3>2, <3>3
    <2>9. Staged => rec.status = "STAGING" /\ rec.epoch < epoch
      BY <1>3, <1>5, <1>11, <2>2 DEF Staged, Nothing, CoreInv, RecOK, EpochsOK
    <2>10. ReadsGrow
      BY <2>4, StateTypes DEF ReadsGrow
    <2>11. wts' \in Nat /\ wts' >= wts /\ intent'[k].epoch \in Nat /\ intent'[k].epoch <= epoch
      BY <1>3, <1>5, <1>6, <2>4
    <2>12. KeyStep(k)
      BY <1>3, <1>11, <1>12, <2>4, <2>5, <2>6, <2>7, <2>8, <2>9, <2>10, <2>11 DEF KeyStep, Nothing
    <2>13. CoreInv' /\ \A p \in Pusher : PusherInv(p)'
      BY <1>3, <2>12, PushersStill, KeyCore, KeyPusher
    <2>14. TypeOK'
      BY <1>3, <1>6, <1>10, <1>12, <2>4 DEF TypeOK, record, pusher
    <2> QED
      BY <1>9, <2>13, <2>14
  <1>13. CASE net' = net \cup {m} /\ Fault /\ UNCHANGED store
    <2>1. m \in Requests /\ m.op = "put" /\ m.key = k /\ m.epoch = epoch /\ m.rts = rts /\ m.wts = wts
      BY <1>2, <1>5 DEF PutRequest, Requests
    <2>2. CoordStep
      BY <1>3, <1>5, <1>6, <1>13, CoordFacts DEF CoordStep
    <2>3. TimesOK'
      BY <1>3, <1>5, <1>6 DEF TimesOK
    <2>4. NetOK'
      <3>1. ASSUME NEW n \in net PROVE NetAt(n)'
        <4>1. NetAt(n) /\ n.wts <= wts'
          BY <1>3, <1>5, <1>6, OldRequests
        <4> QED
          BY <1>3, <4>1 DEF NetAt, IsStage
      <3>2. NetAt(m)'
        <4>1. m.wts <= wts' /\ m.rts <= rts' /\ m.rts <= m.wts
          BY <1>3, <1>5, <1>6, <2>1
        <4> QED
          BY <1>3, <2>1, <4>1 DEF NetAt, IsStage
      <3> QED
        BY <1>13, <3>1, <3>2 DEF NetOK
    <2>5. RecOK' /\ UnsentOK'
      BY <1>3, <2>2, CoordFrame DEF RecOK, UnsentOK, CoreInv
    <2>6. ReadyOK'
      BY <1>3, <1>13, <2>1, OldRequests DEF ReadyOK
    <2>7. CoreInv'
      BY <1>3, <1>5, <1>13, <2>1, <2>2, <2>3, <2>4, <2>5, <2>6, LeaveCore
    <2>8. CoordTypes'
      BY <1>3, <1>6, <1>7, <1>10, <1>13, <2>1, FaultBudget DEF CoordTypes
    <2> QED
      BY <1>9, <2>2, <2>7, <2>8, CoordDone
  <1> QED
    BY <1>4, <1>12, <1>13

\* The requests for the keys of a batch.
LEMMA SentKeys ==
    ASSUME NEW t \in Ts, NEW q \in Ts, epoch \in Epoch, NEW m \in KeyRequests(t, q)
    PROVE /\ m \in Requests /\ m.key \in Key /\ m.epoch = epoch /\ m.rts = t /\ m.wts = t /\ m.att = 1
          /\ m.op = (IF m.key \in Pipelined THEN "qi" ELSE "put")
          /\ m.op = "qi" => m.qts = q
  <1>1. PICK k \in Key : m = KeyRequest(k, t, q, 1, FALSE)
    BY DEF KeyRequests
  <1>2. 1 \in 1 .. 2 /\ FALSE \in BOOLEAN
    OBVIOUS
  <1>3. /\ m \in Requests /\ m.key = k /\ m.epoch = epoch /\ m.rts = t /\ m.wts = t /\ m.att = 1
        /\ m.op = (IF k \in Pipelined THEN "qi" ELSE "put")
        /\ k \in Pipelined => m.qts = q
    BY <1>1, <1>2 DEF KeyRequest, QueryIntentRequest, PutRequest, Requests
  <1> QED
    BY <1>3

LEMMA SendParallelCommitInv == ASSUME IInv, SendParallelCommit PROVE IInv'
  <1> USE DEF IInv
  <1>1. PICK s : s = EndTxnRequest("stage", wts, wts, 1)
    OBVIOUS
  <1>2. /\ pc = "run" /\ pc' = "commit" /\ rts' = wts /\ built' = wts
        /\ net' = net \cup KeyRequests(wts, wts) \cup {s}
        /\ sub' = [k \in Key |-> Waiting(1)] /\ et' = Waiting(1)
        /\ UNCHANGED <<record, store, epoch, wts, told, pusher, promised, left>>
    BY <1>1 DEF SendParallelCommit
  <1>3. /\ epoch \in Nat /\ epoch \in Epoch /\ rts \in Nat /\ rts \in Ts /\ wts \in Nat /\ wts \in Ts /\ rts <= wts
        /\ told = "nothing" /\ et = NoCall /\ wts \in Ts0
    BY <1>2, CoordFacts, Consts
  <1>4. s \in Requests /\ s.op = "stage" /\ s.epoch = epoch /\ s.rts = wts /\ s.wts = wts /\ s.att = 1
    BY <1>1, <1>3, EndTxnRequestFacts
  <1>5. ASSUME NEW m \in KeyRequests(wts, wts)
        PROVE /\ m \in Requests /\ m.key \in Key /\ m.epoch = epoch /\ m.rts = wts /\ m.wts = wts /\ m.att = 1
              /\ m.op = (IF m.key \in Pipelined THEN "qi" ELSE "put")
              /\ m.op = "qi" => m.qts = wts
    BY <1>3, <1>5, SentKeys
  <1>6. CoordStep
    BY <1>2, <1>3, CoordFacts DEF CoordStep
  <1>7. TimesOK'
    BY <1>2, <1>3 DEF TimesOK
  <1>8. ASSUME NEW m \in net, m.epoch = epoch
        PROVE m.op # "stage" /\ m.op # "qi" /\ (m.op = "put" => m.key \in Pipelined)
    BY <1>2, <1>8 DEF CoreInv, NetOK, NetAt, IsStage
  <1>9. NetOK'
    <2>1. ASSUME NEW m \in net PROVE NetAt(m)'
      <3>1. m.rts <= rts' /\ m.wts <= wts' /\ m.op # "abort" /\ m.op # "commit" /\ NetAt(m)
        BY <1>2, <1>3, OldRequests
      <3> QED
        BY <1>2, <1>8, <3>1 DEF NetAt, IsStage
    <2>2. ASSUME NEW m \in KeyRequests(wts, wts) PROVE NetAt(m)'
      BY <1>2, <1>3, <1>5 DEF NetAt, IsStage
    <2>3. NetAt(s)'
      BY <1>2, <1>3, <1>4 DEF NetAt, IsStage
    <2> QED
      BY <1>2, <2>1, <2>2, <2>3 DEF NetOK
  <1>10. ~ (Staged /\ rec.epoch = epoch)
    BY <1>2 DEF CoreInv, RecOK
  <1>11. RecOK'
    <2>1. rec.ts <= rts => rec.ts <= wts
      BY <1>3, StateTypes
    <2> QED
      BY <1>2, <1>6, <1>10, <2>1, CoordFrame DEF RecOK, CoreInv, Staged
  <1>12. ReadyOK' /\ UnsentOK'
    BY <1>2, <1>4, <1>5, OldRequests DEF ReadyOK, UnsentOK
  <1>13. ~ Past(s.epoch, s.rts)'
    BY <1>2, <1>3, <1>4 DEF Past
  <1>14. CoreInv'
    <2>1. \A m \in net' : m \in net \/ (m \in Requests /\ m.epoch = epoch /\ (m.op = "stage" => m = s))
      BY <1>2, <1>4, <1>5
    <2> QED
      BY <1>2, <1>3, <1>6, <1>7, <1>9, <1>11, <1>12, <1>13, <2>1, LeaveCore
  <1>15. CallInv'
    <2>1. Nothing
      BY <1>2, NotAfter
    <2>2. NeverStaged'
      BY <1>2, <1>6, <1>10, <2>1, CoordFrame DEF NeverStaged
    <2>3. /\ Waiting(1).st = "wait" /\ \A k \in Key : sub'[k] = Waiting(1)
      BY <1>2, CallTypes
    <2>4. PhaseOK'
      BY <1>2, <1>3, <2>3 DEF PhaseOK
    <2>5. StageOK'
      <3>1. \A m \in net' : IsStage(m, epoch) => m.att = 1
        BY <1>2, <1>4, <1>5, <1>8 DEF IsStage
      <3> QED
        BY <1>2, <2>2, <2>3, <3>1 DEF StageOK
    <2>6. PrefixOK' /\ EndTxnOK'
      BY <1>2 DEF PrefixOK, EndTxnOK
    <2>7. ASSUME NEW k \in Key PROVE WritesOK(k)'
      <3>1. ~ Confirmed(k)'
        BY <2>3 DEF Confirmed
      <3>2. k \notin Pipelined => value[k] = 0 /\ ~ (HasIntent(k) /\ intent[k].epoch = epoch)
        BY <1>2, <2>1 DEF Nothing, AllAt, CoreInv, UnsentOK
      <3>3. k \notin Pipelined => \A m \in net' : m.op = "put" /\ m.key = k /\ m.epoch = epoch => m.att = 1
        BY <1>2, <1>4, <1>5, <1>8
      <3> QED
        BY <1>2, <1>6, <2>3, <3>1, <3>2, <3>3, CoordFrame DEF WritesOK
    <2> QED
      BY <2>4, <2>5, <2>6, <2>7 DEF CallInv
  <1>16. CoordTypes'
    <2>1. net' \subseteq Requests
      BY <1>2, <1>4, <1>5, OldRequests
    <2>2. sub' \in [Key -> [st : CallState, att : 0 .. 2, ts : Ts0]] /\ et' \in [st : CallState, att : 0 .. 2, ts : Ts0]
      BY <1>2, CallTypes
    <2> QED
      BY <1>2, <1>3, <2>1, <2>2, CoordTyped DEF CoordTypes, CoordState
  <1> QED
    BY <1>6, <1>14, <1>15, <1>16, CoordDone

LEMMA RefreshAndRetryInv == ASSUME IInv, RefreshAndRetry PROVE IInv'
  <1> USE DEF IInv
  <1>1. /\ pc = "retry" /\ pc' = "prefix" /\ rts' = wts
        /\ sub' = [k \in Key |-> Waiting(1)]
        /\ net' = net \cup KeyRequests(wts, built)
        /\ UNCHANGED <<record, store, epoch, wts, et, built, told, pusher, promised, left>>
    BY DEF RefreshAndRetry
  <1>2. /\ epoch \in Nat /\ epoch \in Epoch /\ rts \in Nat /\ rts \in Ts /\ wts \in Nat /\ wts \in Ts /\ rts < wts
        /\ told = "nothing" /\ et = NoCall /\ built \in Ts /\ built <= rts /\ built \in Nat /\ built <= wts
    <2>1. rts < wts /\ built \in Ts /\ built <= rts
      BY <1>1 DEF CoreInv, TimesOK
    <2> QED
      BY <1>1, <2>1, CoordFacts
  <1>3. ASSUME NEW m \in KeyRequests(wts, built)
        PROVE /\ m \in Requests /\ m.key \in Key /\ m.epoch = epoch /\ m.rts = wts /\ m.wts = wts /\ m.att = 1
              /\ m.op = (IF m.key \in Pipelined THEN "qi" ELSE "put")
              /\ m.op = "qi" => m.qts = built
    BY <1>2, <1>3, SentKeys
  <1>4. CoordStep
    BY <1>1, <1>2, CoordFacts DEF CoordStep
  <1>5. TimesOK'
    BY <1>1, <1>2 DEF TimesOK
  <1>6. NetOK'
    <2>1. ASSUME NEW m \in net PROVE NetAt(m)'
      <3>1. m.rts < rts' /\ m.rts <= rts' /\ m.wts <= wts' /\ m.op # "abort" /\ m.op # "commit" /\ NetAt(m)
        BY <1>1, <1>2, OldRequests
      <3> QED
        BY <1>1, <3>1 DEF NetAt, IsStage
    <2>2. ASSUME NEW m \in KeyRequests(wts, built) PROVE NetAt(m)'
      BY <1>1, <1>2, <1>3 DEF NetAt, IsStage
    <2> QED
      BY <1>1, <2>1, <2>2 DEF NetOK
  <1>7. RecOK'
    <2>1. rec.ts <= rts => rec.ts <= wts /\ rec.ts < wts
      BY <1>2, StateTypes
    <2>2. rec.status = "STAGING" => Staged
      BY DEF Staged
    <2> QED
      BY <1>1, <1>4, <2>1, <2>2, CoordFrame DEF RecOK, CoreInv
  <1>8. ReadyOK' /\ UnsentOK'
    BY <1>1, <1>3, OldRequests DEF ReadyOK, UnsentOK
  <1>9. CoreInv'
    <2>1. \A m \in net' : m \in net \/ (m \in Requests /\ m.epoch = epoch /\ m.op # "stage")
      BY <1>1, <1>3
    <2> QED
      BY <1>1, <1>2, <1>4, <1>5, <1>6, <1>7, <1>8, <2>1, LeaveCore
  <1>10. CallInv'
    <2>1. /\ Waiting(1).st = "wait" /\ \A k \in Key : sub'[k] = Waiting(1)
      BY <1>1, CallTypes
    <2> QED
      BY <1>1, <1>2, <2>1 DEF CallInv, PhaseOK, StageOK, PrefixOK, EndTxnOK, WritesOK
  <1>11. CoordTypes'
    <2>1. net' \subseteq Requests
      BY <1>1, <1>3, OldRequests
    <2>2. sub' \in [Key -> [st : CallState, att : 0 .. 2, ts : Ts0]]
      BY <1>1, CallTypes
    <2> QED
      BY <1>1, <1>2, <2>1, <2>2, CoordTyped DEF CoordTypes, CoordState
  <1> QED
    BY <1>4, <1>9, <1>10, <1>11, CoordDone

LEMMA RestartInv == ASSUME IInv, Restart PROVE IInv'
  <1> USE DEF IInv
  <1>1. /\ pc \in {"retry", "restart", "again", "run"} /\ epoch < left.restarts /\ epoch' = epoch + 1 /\ pc' = "run"
        /\ sub' = [k \in Key |-> NoCall] /\ built' = 0
        /\ UNCHANGED <<record, store, et, net, told, pusher, promised, left>>
    BY DEF Restart
  <1>2. PICK t \in wts .. left.ts : rts' = t /\ wts' = t
    BY DEF Restart
  <1>3. /\ epoch \in Nat /\ epoch \in Epoch /\ rts \in Nat /\ rts \in Ts /\ wts \in Nat /\ wts \in Ts /\ rts <= wts
        /\ told = "nothing" /\ et = NoCall
    BY <1>1, CoordFacts
  <1>4. t \in Nat /\ t >= wts /\ t >= rts /\ t \in Ts
    <2>1. t \in Nat /\ t >= wts /\ t >= rts /\ t <= MaxTs /\ t # 0
      BY <1>2, <1>3, StateTypes, Consts
    <2> QED
      BY <2>1, Consts
  <1>5. epoch' \in Epoch /\ epoch' \in Nat /\ epoch' >= epoch /\ epoch' > epoch
    <2>1. left.restarts \in Nat /\ left.restarts <= MaxEpoch /\ MaxEpoch \in Nat
      BY Consts DEF TypeOK
    <2> QED
      BY <1>1, <1>3, <2>1 DEF Epoch
  <1>6. CoordStep
    BY <1>1, <1>2, <1>4, <1>5 DEF CoordStep
  <1>7. TimesOK'
    BY <1>1, <1>2, <1>3, <1>4 DEF TimesOK
  <1>8. NetOK'
    <2>1. ASSUME NEW m \in net PROVE NetAt(m)'
      <3>1. m.rts <= rts' /\ m.wts <= wts' /\ m.op # "abort" /\ m.op # "commit" /\ NetAt(m) /\ m.epoch # epoch'
        BY <1>1, <1>2, <1>3, <1>4, <1>5, OldRequests
      <3> QED
        BY <3>1 DEF NetAt, IsStage
    <2> QED
      BY <1>1, <2>1 DEF NetOK
  <1>9. RecOK'
    <2>1. rec.ts <= rts => rec.ts <= rts'
      BY <1>2, <1>3, <1>4, CoordFacts
    <2>2. rec.epoch # epoch'
      BY <1>5, CoordFacts
    <2> QED
      BY <1>6, <2>1, <2>2, CoordFrame DEF RecOK, CoreInv
  <1>10. ReadyOK'
    BY <1>1, OldRequests DEF ReadyOK
  <1>11. UnsentOK'
    <2>1. \A k \in Key : intent[k].epoch # epoch'
      BY <1>5, CoordFacts, StateTypes DEF CoreInv, EpochsOK
    <2> QED
      BY <1>6, <2>1, CoordFrame DEF UnsentOK
  <1>12. CoreInv'
    BY <1>1, <1>3, <1>6, <1>7, <1>8, <1>9, <1>10, <1>11, LeaveCore
  <1>13. CallInv'
    BY <1>1, <1>3, CallIdle DEF PhaseOK
  <1>14. CoordTypes'
    BY <1>1, <1>2, <1>4, <1>5, CallTypes, CoordTyped, Consts DEF CoordTypes, CoordState
  <1> QED
    BY <1>6, <1>12, <1>13, <1>14, CoordDone

LEMMA RollbackInv == ASSUME IInv, Rollback PROVE IInv'
  <1> USE DEF IInv
  <1>1. PICK m : m = EndTxnRequest("abort", rts, wts, 1)
    OBVIOUS
  <1>2. /\ pc' = "done" /\ net' = net \cup {m}
        /\ UNCHANGED <<record, store, epoch, rts, wts, sub, et, built, pusher, promised, left>>
    BY <1>1 DEF Rollback
  <1>3. /\ epoch \in Nat /\ epoch \in Epoch /\ rts \in Nat /\ rts \in Ts /\ wts \in Nat /\ wts \in Ts /\ rts <= wts
    BY CoordFacts
  <1>4. m \in Requests /\ m.op = "abort" /\ m.epoch = epoch /\ m.rts = rts /\ m.wts = wts
    BY <1>1, <1>3, EndTxnRequestFacts
  <1>5. CoordStep
    BY <1>2, <1>3, CoordFacts DEF CoordStep
  <1>6. CASE pc \in {"run", "retry", "restart", "again"} /\ told' = "aborted"
    <2>1. et = NoCall
      BY <1>6, CoordFacts
    <2>2. TimesOK'
      BY <1>2, <1>3, <1>6 DEF TimesOK
    <2>3. NetOK'
      <3>1. ASSUME NEW n \in net PROVE NetAt(n)'
        <4>1. n.rts <= rts' /\ n.wts <= wts' /\ n.op # "abort" /\ n.op # "commit" /\ NetAt(n)
          BY <1>2, <1>3, <1>6, OldRequests
        <4> QED
          BY <1>2, <4>1 DEF NetAt, IsStage
      <3>2. NetAt(m)'
        BY <1>2, <1>3, <1>4, <1>6 DEF NetAt, IsStage
      <3> QED
        BY <1>2, <3>1, <3>2 DEF NetOK
    <2>4. RecOK' /\ UnsentOK'
      BY <1>2, <1>5, CoordFrame DEF RecOK, UnsentOK, CoreInv
    <2>5. ReadyOK'
      BY <1>2, <1>4, <1>6, OldRequests DEF ReadyOK
    <2>6. CoreInv'
      BY <1>2, <1>4, <1>5, <1>6, <2>2, <2>3, <2>4, <2>5, LeaveCore
    <2>7. CallInv'
      BY <1>2, <1>6, <2>1, CallIdle DEF PhaseOK
    <2>8. CoordTypes'
      BY <1>2, <1>4, <1>6, CoordTyped DEF CoordTypes, CoordState
    <2> QED
      BY <1>5, <2>6, <2>7, <2>8, CoordDone
  <1>7. CASE pc = "done" /\ told = "error" /\ UNCHANGED told
    <2>1. CoordStill /\ UNCHANGED <<record, store, pusher, promised>>
      BY <1>2, <1>7 DEF CoordStill
    <2>2. NetAt(m)
      BY <1>3, <1>4, <1>7 DEF NetAt, IsStage
    <2>3. CoreInv'
      BY <1>2, <1>4, <2>1, <2>2, SentCore
    <2>4. CallInv'
      BY <1>2, <1>7, CallIdle DEF PhaseOK, CallInv
    <2>5. CoordTypes'
      BY <1>2, <1>4, <1>7, CoordTyped DEF CoordTypes, CoordState
    <2> QED
      BY <1>5, <2>3, <2>4, <2>5, CoordDone
  <1> QED
    BY <1>6, <1>7 DEF Rollback

-----------------------------------------------------------------------------
(* The answers of a batch.                                                 *)

LEMMA ReplyFacts ==
    ASSUME TypeOK
    PROVE /\ ReplyTs \in Ts /\ ReplyTs \in Nat /\ ReplyTs >= wts /\ ReplyTs >= et.ts
          /\ \A k \in Key : sub[k].ts <= ReplyTs
          /\ ReplyTs = wts \/ ReplyTs = et.ts \/ \E k \in Key : ReplyTs = sub[k].ts
  <1> DEFINE S == {wts, et.ts} \cup {sub[k].ts : k \in Key}
  <1>1. wts \in Nat /\ wts <= MaxTs /\ wts # 0 /\ et.ts \in Nat /\ et.ts <= MaxTs
    BY Consts DEF TypeOK
  <1>2. \A k \in Key : sub[k].ts \in Nat /\ sub[k].ts <= MaxTs
    BY Consts DEF TypeOK
  <1>3. S \in SUBSET Nat /\ S # {} /\ \A x \in S : x <= MaxTs
    BY <1>1, <1>2
  <1>4. wts \in S /\ et.ts \in S /\ \A k \in Key : sub[k].ts \in S
    OBVIOUS
  <1>5. \A x \in S : x = wts \/ x = et.ts \/ \E k \in Key : x = sub[k].ts
    OBVIOUS
  <1>6. ReplyTs = Max(S)
    BY DEF ReplyTs
  <1> HIDE DEF S
  <1>7. ReplyTs \in S /\ \A x \in S : x <= ReplyTs
    BY <1>3, <1>6, GreatestNat, Consts
  <1>8. ReplyTs \in Nat /\ ReplyTs >= wts /\ ReplyTs >= et.ts /\ ReplyTs <= MaxTs /\ ReplyTs # 0
    BY <1>1, <1>3, <1>4, <1>7
  <1> QED
    BY <1>2, <1>4, <1>5, <1>7, <1>8, Consts

LEMMA OutcomeFacts ==
    ASSUME NEW C
    PROVE /\ Outcome(C) \in {"aborted", "error", "retry", "missing", "ok"}
          /\ Outcome(C) = "aborted" => "aborted" \in C
          /\ Outcome(C) \in {"retry", "missing", "ok"} => "aborted" \notin C /\ "amb" \notin C /\ "fail" \notin C
          /\ Outcome(C) = "retry" => "retry" \in C
          /\ Outcome(C) \in {"missing", "ok"} => "retry" \notin C
          /\ Outcome(C) = "missing" => "missing" \in C
          /\ Outcome(C) = "ok" => "missing" \notin C
  BY DEF Outcome

LEMMA SettledCalls ==
    ASSUME IInv, pc \in {"commit", "prefix"}, Settled
    PROVE /\ pc = "commit" => et.st \in {"ok", "retry", "aborted", "amb", "fail"}
          /\ \A k \in Key : sub[k].st \in {"ok", "retry", "missing", "amb", "fail"}
  BY StateTypes DEF IInv, CallInv, PhaseOK, Settled, CallState

\* What the outcome of the parallel commit says of the answers.
LEMMA BatchFacts ==
    ASSUME IInv, pc = "commit", Settled
    PROVE /\ BatchOutcome = "aborted" => et.st = "aborted" \/ (et.st = "ok" /\ rec.status = "ABORTED")
          /\ BatchOutcome = "missing" =>
                /\ et.st = "ok" /\ rec.status # "COMMITTED" /\ ~ Dead
                /\ \E k \in Key : sub[k].st = "missing"
          /\ BatchOutcome = "retry" => et.st = "retry" \/ \E k \in Key : sub[k].st = "retry"
          /\ BatchOutcome = "ok" =>
                /\ et.st = "ok" /\ \A k \in Key : sub[k].st \in {"ok", "missing"}
                /\ rec.status = "COMMITTED" \/ \A k \in Key : sub[k].st = "ok"
  <1> DEFINE M == {et.st} \cup {sub[k].st : k \in Key \ Pipelined}
             Q == {sub[k].st : k \in Pipelined}
  <1>1. /\ et.st \in {"ok", "retry", "aborted", "amb", "fail"} /\ et.st \in M
        /\ \A k \in Key : sub[k].st \in {"ok", "retry", "missing", "amb", "fail"}
        /\ \A k \in Key \ Pipelined : sub[k].st # "missing" /\ sub[k].st \in M
        /\ \A k \in Pipelined : sub[k].st \in Q
        /\ Pipelined \subseteq Key
    BY SettledCalls, Consts DEF IInv, CallInv, WritesOK
  <1>2. \A x \in M : x = et.st \/ \E k \in Key \ Pipelined : x = sub[k].st
    OBVIOUS
  <1>3. \A x \in Q : \E k \in Pipelined : x = sub[k].st
    OBVIOUS
  <1>4. MainOutcome = Outcome(M) /\ QueryOutcome = Outcome(Q)
    BY DEF MainOutcome, QueryOutcome
  <1> HIDE DEF M, Q
  <1>5. "missing" \notin M /\ "aborted" \notin Q /\ ("aborted" \in M => et.st = "aborted")
    BY <1>1, <1>2, <1>3
  <1>6. MainOutcome = "ok" => et.st = "ok" /\ \A k \in Key \ Pipelined : sub[k].st = "ok"
    BY <1>1, <1>4, OutcomeFacts
  <1>7. QueryOutcome = "ok" => \A k \in Pipelined : sub[k].st = "ok"
    BY <1>1, <1>4, OutcomeFacts
  <1>8. QueryOutcome = "missing" => (\A k \in Pipelined : sub[k].st \in {"ok", "missing"}) /\ \E k \in Key : sub[k].st = "missing"
    BY <1>1, <1>3, <1>4, OutcomeFacts
  <1>9. MainOutcome # "missing" /\ QueryOutcome # "aborted" /\ (MainOutcome = "aborted" => et.st = "aborted")
    BY <1>4, <1>5, OutcomeFacts
  <1>10. /\ MainOutcome = "retry" => et.st = "retry" \/ \E k \in Key : sub[k].st = "retry"
         /\ QueryOutcome = "retry" => \E k \in Key : sub[k].st = "retry"
    BY <1>1, <1>2, <1>3, <1>4, OutcomeFacts
  <1>11. /\ Detect = "ok" => rec.status = "COMMITTED"
         /\ Detect = "missing" => rec.status # "COMMITTED" /\ ~ Dead
         /\ Detect = "aborted" => rec.status = "ABORTED"
         /\ Detect # "retry"
    BY DEF Detect, Lookup, SynthesizeTxnFromMeta, Rec, CanCreateTxnRecord, Dead
  <1>12. BatchOutcome \in {MainOutcome, Detect, QueryOutcome}
    BY DEF BatchOutcome
  <1>13. CASE MainOutcome # "ok"
    <2>1. BatchOutcome = MainOutcome
      BY <1>13 DEF BatchOutcome
    <2> QED
      BY <1>9, <1>10, <1>13, <2>1
  <1>14. CASE MainOutcome = "ok" /\ QueryOutcome = "missing"
    <2>1. BatchOutcome = Detect
      BY <1>14 DEF BatchOutcome
    <2> QED
      BY <1>1, <1>6, <1>8, <1>11, <1>14, <2>1
  <1>15. CASE MainOutcome = "ok" /\ QueryOutcome # "missing"
    <2>1. BatchOutcome = QueryOutcome
      BY <1>15 DEF BatchOutcome
    <2> QED
      BY <1>1, <1>6, <1>7, <1>9, <1>10, <1>15, <2>1
  <1> QED
    BY <1>13, <1>14, <1>15

LEMMA UncommittedNothing ==
    ASSUME IInv, rec.status # "COMMITTED", ~ Dead \/ (rec.status = "ABORTED" /\ pc # "done") PROVE Nothing
  BY CoordFacts DEF IInv, CoreInv, GoneOK, Nothing

\* In the parallel commit, what may be recorded is that commit or was given up before.
LEMMA RecordedNow ==
    ASSUME IInv, pc = "commit", NEW e \in Nat, NEW t \in Nat, Recorded(e, t)
    PROVE Past(e, t) \/ (e = epoch /\ t = rts)
  <1>1. epoch \in Nat /\ e <= epoch
    BY StateTypes DEF IInv, CoreInv, Recorded, EpochsOK
  <1>2. e = epoch => t = rts
    BY DEF IInv, CoreInv, Recorded, RecOK, Staged, NetOK, NetAt, IsStage
  <1> QED
    BY <1>1, <1>2 DEF Past

\* The parallel commit failed for good.
LEMMA FailedCommit ==
    ASSUME IInv, pc = "commit",
           \/ et.st \in {"retry", "aborted"}
           \/ et.st = "ok" /\ rec.status = "ABORTED"
           \/ Nothing /\ \E k \in Key : Blocked(k, epoch, rts)
    PROVE /\ Nothing
          /\ \A e \in Nat, t \in Nat : Recorded(e, t) => Past(e, t) \/ SomeBlocked(e, t)
  <1> USE DEF IInv
  <1>1. epoch \in Nat /\ rts \in Nat /\ rts # 0
    BY StateTypes
  <1>2. CASE et.st \in {"retry", "aborted"}
    <2>1. NeverStaged /\ \A m \in net : ~ IsStage(m, epoch)
      BY <1>2 DEF CallInv, StageOK
    <2>2. \A t \in Nat : ~ Recorded(epoch, t)
      BY <2>1 DEF NeverStaged, IsStage, Recorded, Staged
    <2> QED
      BY <2>1, <2>2, RecordedNow DEF NeverStaged
  <1>3. CASE et.st = "ok" /\ rec.status = "ABORTED"
    <2>1. Nothing
      BY <1>3, UncommittedNothing
    <2>2. ~ AllAt(rts) /\ ~ StagedAt(epoch, rts)
      BY <1>1, <1>3, <2>1, Consts DEF Nothing, AllAt, StagedAt, Staged
    <2>3. SomeBlocked(epoch, rts)
      BY <1>3, <2>2 DEF CallInv, StageOK, SomeBlocked
    <2> QED
      BY <2>1, <2>3, RecordedNow
  <1>4. CASE Nothing /\ \E k \in Key : Blocked(k, epoch, rts)
    <2>1. SomeBlocked(epoch, rts)
      BY <1>4 DEF SomeBlocked
    <2> QED
      BY <1>4, <2>1, RecordedNow
  <1> QED
    BY <1>2, <1>3, <1>4

\* A step of the coordinator that ends a batch without a new one.
Ends ==
    /\ sub' = [k \in Key |-> NoCall] /\ et' = NoCall
    /\ UNCHANGED <<record, store, epoch, rts, built, pusher, promised, left>>
LEMMA EndsPhase ==
    ASSUME Ends, pc' \in {"retry", "restart", "again", "done"}, pc' = "done" <=> told' # "nothing" PROVE CallInv'
  BY CallIdle DEF PhaseOK, Ends
LEMMA EndsTypes ==
    ASSUME IInv, Ends, pc' \in CoordState, wts' \in Ts, net' \subseteq Requests,
           told' \in {"nothing", "committed", "aborted", "error"}
    PROVE CoordTypes'
  BY CoordTyped, CallTypes DEF IInv, CoordTypes, Ends

LEMMA TellAbortedInv ==
    ASSUME IInv, pc \in {"commit", "endtxn"}, Ends, TellAborted, Nothing, \A m \in net : m.op # "commit",
           \A e \in Nat, t \in Nat : Recorded(e, t) => Past(e, t) \/ SomeBlocked(e, t)
    PROVE IInv'
  <1> USE DEF IInv
  <1>1. PICK m : m = EndTxnRequest("abort", rts, wts, 1)
    OBVIOUS
  <1>2. /\ pc' = "done" /\ told' = "aborted" /\ net' = net \cup {m} /\ wts' = wts
        /\ UNCHANGED <<record, store, epoch, rts, built, pusher, promised, left>>
    BY <1>1 DEF TellAborted, Ends
  <1>3. epoch \in Nat /\ epoch \in Epoch /\ rts \in Nat /\ rts \in Ts /\ wts \in Nat /\ wts \in Ts /\ rts <= wts
    BY CoordFacts
  <1>4. m \in Requests /\ m.op = "abort" /\ m.epoch = epoch /\ m.rts = rts /\ m.wts = wts
    BY <1>1, <1>3, EndTxnRequestFacts
  <1>5. CoordStep
    BY <1>2, <1>3, CoordFacts DEF CoordStep
  <1>6. TimesOK'
    BY <1>2, <1>3 DEF TimesOK
  <1>7. NetOK'
    <2>1. ASSUME NEW n \in net PROVE NetAt(n)'
      <3>1. n.rts <= rts' /\ n.wts <= wts' /\ n.op # "abort" /\ n.op # "commit" /\ NetAt(n)
        BY <1>2, <1>3, OldRequests
      <3> QED
        BY <1>2, <3>1 DEF NetAt, IsStage
    <2>2. NetAt(m)'
      BY <1>2, <1>3, <1>4 DEF NetAt, IsStage
    <2> QED
      BY <1>2, <2>1, <2>2 DEF NetOK
  <1>8. RecOK'
    BY <1>2, <1>5, CoordFrame DEF RecOK, CoreInv
  <1>9. ReadyOK' /\ UnsentOK' /\ ToldOK'
    BY <1>2, <1>4 DEF ReadyOK, UnsentOK, ToldOK
  <1>10. CommitKept
    BY DEF CommitKept
  <1>11. CoreInv'
    BY <1>2, <1>4, <1>5, <1>6, <1>7, <1>8, <1>9, <1>10, CoordCore
  <1>12. CallInv'
    BY <1>2, EndsPhase
  <1>13. CoordTypes'
    BY <1>2, <1>3, <1>4, OldRequests, EndsTypes DEF CoordState
  <1> QED
    BY <1>5, <1>11, <1>12, <1>13, CoordDone

LEMMA TellErrorInv ==
    ASSUME IInv, pc \in {"commit", "prefix", "endtxn"}, Ends, TellError
    PROVE IInv'
  <1> USE DEF IInv
  <1>1. /\ pc' = "done" /\ told' = "error" /\ net' = net /\ wts' = wts
        /\ UNCHANGED <<record, store, epoch, rts, built, pusher, promised, left>>
    BY DEF TellError, Ends
  <1>2. epoch \in Nat /\ epoch \in Epoch /\ rts \in Nat /\ rts \in Ts /\ wts \in Nat /\ wts \in Ts /\ rts = wts
    BY CoordFacts DEF CoreInv, TimesOK
  <1>3. CoordStep
    BY <1>1, <1>2, CoordFacts DEF CoordStep
  <1>4. TimesOK'
    BY <1>1, <1>2 DEF TimesOK
  <1>5. NetOK'
    <2>1. ASSUME NEW n \in net PROVE NetAt(n)'
      <3>1. n.op # "abort" /\ NetAt(n)
        BY OldRequests
      <3> QED
        BY <1>1, <3>1 DEF NetAt, IsStage
    <2> QED
      BY <1>1, <2>1 DEF NetOK
  <1>6. RecOK' /\ UnsentOK' /\ ToldOK'
    BY <1>1, <1>3, CoordFrame DEF RecOK, UnsentOK, ToldOK, CoreInv
  <1>7. ReadyOK'
    <2>1. PICK t \in Nat : t = rts
      BY <1>2
    <2>2. \A k \in Key : InPlace(k, t) => InPlace(k, t)'
      BY <1>1, <1>3, CoordFrame DEF InPlace
    <2> QED
      BY <1>1, <1>3, <2>1, <2>2, CoordFrame DEF ReadyOK, CoreInv
  <1>8. CommitKept
    BY <1>1 DEF CommitKept, AfterCommit
  <1>9. \A e \in Nat, t \in Nat : Past(e, t)' => Past(e, t)
    BY <1>1 DEF Past
  <1>10. CoreInv'
    BY <1>1, <1>3, <1>4, <1>5, <1>6, <1>7, <1>8, <1>9, CoordCore
  <1>11. CallInv'
    BY <1>1, EndsPhase
  <1>12. CoordTypes'
    BY <1>1, <1>2, OldRequests, EndsTypes DEF CoordState
  <1> QED
    BY <1>3, <1>10, <1>11, <1>12, CoordDone

LEMMA RetryInv ==
    ASSUME IInv, Ends, pc \in {"commit", "prefix"}, NEW s \in {"retry", "restart"}, Retry(s), s = "retry" => ReplyTs > rts, Nothing,
           \A e \in Nat, t \in Nat : Recorded(e, t) => Past(e, t) \/ SomeBlocked(e, t)
    PROVE IInv'
  <1> USE DEF IInv
  <1>1. /\ pc' = s /\ told' = told /\ net' = net /\ wts' = ReplyTs
        /\ UNCHANGED <<record, store, epoch, rts, built, pusher, promised, left>>
    BY DEF Retry, Ends
  <1>2. /\ epoch \in Nat /\ epoch \in Epoch /\ rts \in Nat /\ rts \in Ts /\ wts \in Nat /\ wts \in Ts /\ rts <= wts
        /\ built \in Nat /\ told = "nothing" /\ built \in Ts /\ built <= rts
    <2>1. built \in Ts /\ built <= rts
      BY DEF CoreInv, TimesOK
    <2> QED
      BY <2>1, CoordFacts
  <1>3. ReplyTs \in Ts /\ ReplyTs \in Nat /\ ReplyTs >= wts /\ ReplyTs >= rts
    BY <1>2, ReplyFacts
  <1>4. CoordStep
    BY <1>1, <1>2, <1>3, CoordFacts DEF CoordStep
  <1>5. TimesOK'
    BY <1>1, <1>2, <1>3 DEF TimesOK
  <1>6. NetOK'
    <2>1. ASSUME NEW n \in net PROVE NetAt(n)'
      <3>1. n.op # "abort" /\ n.op # "commit" /\ NetAt(n) /\ n.wts <= wts'
        BY <1>1, <1>2, <1>3, OldRequests
      <3> QED
        BY <1>1, <3>1 DEF NetAt, IsStage
    <2> QED
      BY <1>1, <2>1 DEF NetOK
  <1>7. RecOK' /\ UnsentOK' /\ ToldOK'
    BY <1>1, <1>2, <1>4, CoordFrame DEF RecOK, UnsentOK, ToldOK, CoreInv
  <1>8. ReadyOK'
    BY <1>1, OldRequests DEF ReadyOK
  <1>9. CommitKept
    BY DEF CommitKept
  <1>10. CoreInv'
    BY <1>1, <1>4, <1>5, <1>6, <1>7, <1>8, <1>9, CoordCore
  <1>11. CallInv'
    BY <1>1, <1>2, EndsPhase
  <1>12. CoordTypes'
    BY <1>1, <1>2, <1>3, OldRequests, EndsTypes DEF CoordState
  <1> QED
    BY <1>4, <1>10, <1>11, <1>12, CoordDone

LEMMA TellCommittedInv ==
    ASSUME IInv, pc \in {"commit", "endtxn"}, Ends, pc' = "done", told' = "committed", wts' = wts,
           net' = net \/ net' = net \cup {EndTxnRequest("commit", rts, wts, 1)},
           \/ rec.status = "COMMITTED" \/ AllAt(rts)
           \/ StagedAt(epoch, rts) /\ \A k \in Key : Has(k, epoch, rts)
    PROVE IInv'
  <1> USE DEF IInv
  <1>1. PICK m : m = EndTxnRequest("commit", rts, wts, 1)
    OBVIOUS
  <1>2. /\ net' \subseteq net \cup {m} /\ UNCHANGED <<record, store, epoch, rts, built, pusher, promised, left>>
    BY <1>1 DEF Ends
  <1>3. epoch \in Nat /\ epoch \in Epoch /\ rts \in Nat /\ rts \in Ts /\ wts \in Nat /\ wts \in Ts /\ rts = wts
    BY CoordFacts DEF CoreInv, TimesOK
  <1>4. m \in Requests /\ m.op = "commit" /\ m.epoch = epoch /\ m.rts = rts /\ m.wts = wts
    BY <1>1, <1>3, EndTxnRequestFacts
  <1>5. CoordStep
    BY <1>2, <1>3, CoordFacts DEF CoordStep
  <1>6. TimesOK'
    BY <1>2, <1>3 DEF TimesOK
  <1>7. NetOK'
    <2>1. ASSUME NEW n \in net PROVE NetAt(n)'
      <3>1. n.op # "abort" /\ NetAt(n)
        BY OldRequests
      <3> QED
        BY <1>2, <3>1 DEF NetAt, IsStage
    <2>2. NetAt(m)'
      BY <1>2, <1>3, <1>4 DEF NetAt, IsStage
    <2> QED
      BY <1>2, <2>1, <2>2 DEF NetOK
  <1>8. PICK e \in Nat, t \in Nat : e = epoch /\ t = rts
    BY <1>3
  <1>9. epoch' = e /\ rts' = t
    BY <1>2, <1>8
  <1>10. RecOK' /\ UnsentOK'
    BY <1>2, <1>5, CoordFrame DEF RecOK, UnsentOK, CoreInv
  <1>11. ToldOK'
    BY <1>5, <1>8, <1>9, CoordFrame DEF ToldOK
  <1>12. ReadyOK'
    <2>1. \A k \in Key : Has(k, e, t) => InPlace(k, t)'
      BY <1>5, <1>9, CoordFrame DEF InPlace, Has
    <2> QED
      BY <1>5, <1>8, <1>9, <2>1, CoordFrame DEF ReadyOK
  <1>13. CommitKept
    BY <1>2, CoordFacts DEF CommitKept, AfterCommit
  <1>14. \A u \in Nat, v \in Nat : Past(u, v)' => Past(u, v)
    BY <1>2 DEF Past
  <1>15. CoreInv'
    BY <1>2, <1>4, <1>5, <1>6, <1>7, <1>10, <1>11, <1>12, <1>13, <1>14, CoordCore
  <1>16. CallInv'
    BY EndsPhase
  <1>17. CoordTypes'
    BY <1>2, <1>3, <1>4, OldRequests, EndsTypes DEF CoordState
  <1> QED
    BY <1>5, <1>15, <1>16, <1>17, CoordDone

\* The parallel commit that is acknowledged is a commit.
LEMMA AcknowledgedCommit ==
    ASSUME IInv, pc = "commit", Settled, BatchOutcome = "ok", ~ PushedWhileStaging
    PROVE \/ rec.status = "COMMITTED" \/ AllAt(rts)
          \/ StagedAt(epoch, rts) /\ \A k \in Key : Has(k, epoch, rts)
  <1> USE DEF IInv
  <1> SUFFICES ASSUME rec.status # "COMMITTED", ~ AllAt(rts)
               PROVE StagedAt(epoch, rts) /\ \A k \in Key : Has(k, epoch, rts)
    OBVIOUS
  <1>1. et.st = "ok" /\ \A k \in Key : sub[k].st = "ok"
    BY BatchFacts
  <1>2. et.ts = rts /\ rts \in Nat /\ rts # 0 /\ ReplyTs \in Nat /\ ReplyTs <= rts
    BY <1>1, StateTypes, ReplyFacts DEF CallInv, StageOK, PushedWhileStaging
  <1>3. \A k \in Key : Confirmed(k)
    BY <1>1, <1>2, StateTypes, ReplyFacts DEF Confirmed
  <1>4. StagedAt(epoch, rts)
    BY <1>1, <1>3 DEF CallInv, StageOK
  <1>5. AllAt(0)
    BY <1>4 DEF CoreInv, GoneOK, StagedAt, Staged, Dead
  <1>6. ASSUME NEW k \in Key PROVE Has(k, epoch, rts)
    BY <1>2, <1>3, <1>4, <1>5 DEF CallInv, WritesOK, AllAt, StagedAt
  <1> QED
    BY <1>4, <1>6

LEMMA ParallelCommitRepliesInv == ASSUME IInv, ParallelCommitReplies PROVE IInv'
  <1> USE DEF IInv
  <1>1. pc = "commit" /\ Settled /\ Ends
    BY DEF ParallelCommitReplies, Ends
  <1>2. /\ rts \in Nat /\ wts \in Nat /\ rts = wts /\ ReplyTs \in Nat /\ ReplyTs >= et.ts /\ et.ts \in Nat
        /\ \A k \in Key : sub[k].ts \in Nat /\ sub[k].ts <= ReplyTs
    BY <1>1, StateTypes, ReplyFacts DEF CoreInv, TimesOK
  <1>3. CASE BatchOutcome = "aborted" /\ TellAborted
    <2>1. Nothing /\ \A e \in Nat, t \in Nat : Recorded(e, t) => Past(e, t) \/ SomeBlocked(e, t)
      BY <1>1, <1>3, BatchFacts, FailedCommit
    <2>2. \A m \in net : m.op # "commit"
      BY <1>1, OldRequests
    <2> QED
      BY <1>1, <1>3, <2>1, <2>2, TellAbortedInv
  <1>4. CASE BatchOutcome = "error" /\ TellError
    BY <1>1, <1>4, TellErrorInv
  <1>5. CASE BatchOutcome = "missing" /\ Retry("restart")
    <2>1. Nothing
      BY <1>1, <1>5, BatchFacts, UncommittedNothing
    <2>2. \E k \in Key : Blocked(k, epoch, rts)
      BY <1>1, <1>5, BatchFacts DEF CallInv, WritesOK
    <2>3. \A e \in Nat, t \in Nat : Recorded(e, t) => Past(e, t) \/ SomeBlocked(e, t)
      BY <1>1, <2>1, <2>2, FailedCommit
    <2> QED
      BY <1>1, <1>5, <2>1, <2>3, RetryInv
  <1>6. CASE BatchOutcome = "retry" /\ Retry("retry")
    <2>1. CASE et.st = "retry"
      <3>1. ReplyTs > rts
        BY <1>1, <1>2, <2>1 DEF CallInv, StageOK
      <3>2. Nothing /\ \A e \in Nat, t \in Nat : Recorded(e, t) => Past(e, t) \/ SomeBlocked(e, t)
        BY <1>1, <2>1, FailedCommit
      <3> QED
        BY <1>1, <1>6, <3>1, <3>2, RetryInv
    <2>2. CASE \E k \in Key : sub[k].st = "retry"
      <3>1. PICK k \in Key : sub[k].st = "retry"
        BY <2>2
      <3>2. sub[k].ts > rts /\ Blocked(k, epoch, rts) /\ Nothing
        BY <1>1, <3>1 DEF CallInv, WritesOK
      <3>3. ReplyTs > rts
        BY <1>2, <3>2
      <3>4. Nothing /\ \A e \in Nat, t \in Nat : Recorded(e, t) => Past(e, t) \/ SomeBlocked(e, t)
        BY <1>1, <3>2, FailedCommit
      <3> QED
        BY <1>1, <1>6, <3>3, <3>4, RetryInv
    <2> QED
      BY <1>1, <1>6, <2>1, <2>2, BatchFacts
  <1>7. CASE BatchOutcome = "ok" /\ PushedWhileStaging /\ Retry("retry")
    <2>1. et.st = "ok" /\ et.ts = rts /\ \A k \in Key : sub[k].st \in {"ok", "missing"}
      BY <1>1, <1>7, BatchFacts DEF CallInv, StageOK
    <2>2. ReplyTs > rts
      BY <1>2, <1>7, <2>1 DEF PushedWhileStaging
    <2>3. PICK k \in Key : ReplyTs = sub[k].ts
      BY <1>2, <2>1, <2>2, ReplyFacts
    <2>4. sub[k].st = "ok" /\ sub[k].ts > rts
      BY <1>1, <1>2, <2>1, <2>2, <2>3 DEF CallInv, WritesOK
    <2>5. Blocked(k, epoch, rts) /\ Nothing
      BY <1>1, <2>4 DEF CallInv, WritesOK
    <2>6. Nothing /\ \A e \in Nat, t \in Nat : Recorded(e, t) => Past(e, t) \/ SomeBlocked(e, t)
      BY <1>1, <2>5, FailedCommit
    <2> QED
      BY <1>1, <1>7, <2>2, <2>6, RetryInv
  <1>8. CASE BatchOutcome = "ok" /\ ~ PushedWhileStaging /\ TellCommitted
    BY <1>1, <1>8, AcknowledgedCommit, TellCommittedInv DEF TellCommitted
  <1> QED
    BY <1>3, <1>4, <1>5, <1>6, <1>7, <1>8 DEF ParallelCommitReplies

-----------------------------------------------------------------------------
(* The commit that follows a refresh.                                      *)

LEMMA SendEndTxnInv ==
    ASSUME IInv, pc \in {"prefix", "again"}, NEW t \in Ts, t >= wts, SendEndTxn(t), \A k \in Key : InPlace(k, t),
           sub' = [k \in Key |-> NoCall], UNCHANGED <<record, store, epoch, built, told, pusher, promised, left>>
    PROVE IInv'
  <1> USE DEF IInv
  <1>1. PICK m : m = EndTxnRequest("commit", t, t, 1)
    OBVIOUS
  <1>2. rts' = t /\ wts' = t /\ et' = Waiting(1) /\ pc' = "endtxn" /\ net' = net \cup {m}
    BY <1>1 DEF SendEndTxn
  <1>3. /\ epoch \in Nat /\ epoch \in Epoch /\ rts \in Nat /\ rts \in Ts /\ wts \in Nat /\ wts \in Ts /\ rts <= wts
        /\ t \in Nat /\ t >= rts /\ told = "nothing"
    BY CoordFacts, Consts
  <1>4. m \in Requests /\ m.op = "commit" /\ m.epoch = epoch /\ m.rts = t /\ m.wts = t /\ m.att = 1
    BY <1>1, <1>3, EndTxnRequestFacts
  <1>5. CoordStep
    BY <1>2, <1>3, CoordFacts DEF CoordStep
  <1>6. TimesOK'
    BY <1>2, <1>3 DEF TimesOK
  <1>7. NetOK'
    <2>1. ASSUME NEW n \in net PROVE NetAt(n)'
      <3>1. n.rts <= rts' /\ n.wts <= wts' /\ n.op # "abort" /\ n.op # "commit" /\ NetAt(n) /\ n.rts \in Nat
        BY <1>2, <1>3, OldRequests
      <3>2. IsStage(n, epoch) => n.rts < rts'
        BY <1>2, <1>3, <3>1 DEF NetAt
      <3> QED
        BY <1>2, <3>1, <3>2 DEF NetAt, IsStage
    <2>2. NetAt(m)'
      BY <1>2, <1>3, <1>4 DEF NetAt, IsStage
    <2> QED
      BY <1>2, <2>1, <2>2 DEF NetOK
  <1>8. RecOK'
    <2>1. (rec.ts <= rts => rec.ts <= t) /\ (rec.ts < rts => rec.ts < t)
      BY <1>3, CoordFacts
    <2> QED
      BY <1>2, <1>5, <2>1, CoordFrame DEF RecOK, CoreInv
  <1>9. UnsentOK'
    BY <1>2 DEF UnsentOK
  <1>10. ReadyOK'
    <2>1. \A k \in Key : InPlace(k, t)'
      BY <1>5, CoordFrame DEF InPlace
    <2> QED
      BY <1>2, <2>1 DEF ReadyOK
  <1>11. CoreInv'
    BY <1>2, <1>3, <1>4, <1>5, <1>6, <1>7, <1>8, <1>9, <1>10, LeaveCore
  <1>12. CallInv'
    <2>1. Nothing'
      BY <1>5, NotAfter, CoordFrame
    <2>2. Waiting(1).st = "wait"
      BY CallTypes
    <2>3. \A n \in net' : n.op = "commit" => n.att = 1
      BY <1>2, <1>4, OldRequests
    <2> QED
      BY <1>2, <1>3, <2>1, <2>2, <2>3 DEF CallInv, PhaseOK, StageOK, PrefixOK, EndTxnOK, WritesOK
  <1>13. CoordTypes'
    <2>1. net' \subseteq Requests
      BY <1>2, <1>4, OldRequests
    <2> QED
      BY <1>2, <1>3, <2>1, CallTypes, CoordTyped DEF CoordTypes, CoordState
  <1> QED
    BY <1>5, <1>11, <1>12, <1>13, CoordDone

LEMMA PrefixRepliesInv == ASSUME IInv, PrefixReplies PROVE IInv'
  <1> USE DEF IInv
  <1> DEFINE C == {sub[k].st : k \in Key}
             out == Outcome(C)
  <1>1. /\ pc = "prefix" /\ Settled /\ sub' = [k \in Key |-> NoCall]
        /\ UNCHANGED <<record, store, epoch, built, pusher, promised, left>>
    BY DEF PrefixReplies
  <1>2. \/ out = "error" /\ TellError /\ UNCHANGED <<rts, et>>
        \/ out = "missing" /\ Retry("restart") /\ UNCHANGED <<rts, et>>
        \/ out = "retry" /\ Retry("retry") /\ UNCHANGED <<rts, et>>
        \/ out = "ok" /\ SendEndTxn(ReplyTs) /\ UNCHANGED told
        \/ out = "ok" /\ ReplyTs # rts /\ Retry("restart") /\ UNCHANGED <<rts, et>>
    BY DEF PrefixReplies
  <1>3. (\A k \in Key : sub[k].st \in C) /\ \A x \in C : \E k \in Key : x = sub[k].st
    OBVIOUS
  <1> HIDE DEF C
  <1>4. /\ out = "ok" => "retry" \notin C /\ "missing" \notin C /\ "amb" \notin C /\ "fail" \notin C
        /\ out = "retry" => "retry" \in C
    BY OutcomeFacts
  <1> HIDE DEF out
  <1>5. et = NoCall /\ rts \in Nat
    BY <1>1, CoordFacts
  <1>6. Nothing /\ \A e \in Nat, t \in Nat : Recorded(e, t) => Past(e, t)
    BY <1>1, NotAfter, RecordedPast
  <1>7. CASE UNCHANGED <<rts, et>>
    <2>1. Ends
      BY <1>1, <1>5, <1>7 DEF Ends
    <2>2. CASE TellError
      BY <1>1, <2>1, <2>2, TellErrorInv
    <2>3. CASE Retry("restart")
      BY <1>1, <1>6, <2>1, <2>3, RetryInv
    <2>4. CASE out = "retry" /\ Retry("retry")
      <3>1. PICK k \in Key : sub[k].st = "retry"
        BY <1>3, <1>4, <2>4
      <3>2. sub[k].ts > rts /\ sub[k].ts \in Nat /\ ReplyTs \in Nat /\ sub[k].ts <= ReplyTs
        BY <1>1, <3>1, StateTypes, ReplyFacts DEF CallInv, PrefixOK
      <3>3. ReplyTs > rts
        BY <1>5, <3>2
      <3> QED
        BY <1>1, <1>6, <2>1, <2>4, <3>3, RetryInv
    <2>5. CASE out = "ok" /\ SendEndTxn(ReplyTs)
      <3>1. et' = Waiting(1)
        BY <2>5 DEF SendEndTxn
      <3> QED
        BY <1>5, <1>7, <3>1, CallTypes
    <2> QED
      BY <1>2, <2>2, <2>3, <2>4, <2>5
  <1>8. CASE out = "ok" /\ SendEndTxn(ReplyTs) /\ UNCHANGED told
    <2>1. PICK t \in Ts : t = ReplyTs
      BY ReplyFacts
    <2>2. t \in Nat /\ t >= wts /\ \A k \in Key : sub[k].ts \in Nat /\ sub[k].ts <= t
      BY <2>1, ReplyFacts, StateTypes
    <2>3. \A k \in Key : sub[k].st = "ok"
      BY <1>1, <1>3, <1>4, <1>8, SettledCalls
    <2>4. ASSUME NEW k \in Key PROVE InPlace(k, t)
      <3>1. InPlace(k, sub[k].ts)
        BY <1>1, <2>3 DEF CallInv, PrefixOK
      <3>2. intent[k].ts \in Nat
        BY StateTypes
      <3> QED
        BY <2>2, <3>1, <3>2 DEF InPlace
    <2> QED
      BY <1>1, <1>8, <2>1, <2>2, <2>4, SendEndTxnInv
  <1> QED
    BY <1>2, <1>7, <1>8

LEMMA RefreshEndTxnInv == ASSUME IInv, RefreshEndTxn PROVE IInv'
  <1> USE DEF IInv
  <1>1. pc = "again" /\ SendEndTxn(wts) /\ UNCHANGED <<record, store, epoch, sub, built, told, pusher, promised, left>>
    BY DEF RefreshEndTxn
  <1>2. /\ wts \in Ts /\ wts \in Nat /\ rts \in Nat /\ rts <= wts /\ rts # 0 /\ wts >= wts
    BY CoordFacts, StateTypes
  <1>3. sub' = [k \in Key |-> NoCall]
    BY <1>1 DEF CallInv, PhaseOK
  <1>4. rec.status # "COMMITTED" /\ ~ AllAt(rts)
    BY <1>1, <1>2, NotAfter, Consts DEF Nothing, AllAt
  <1>5. ASSUME NEW k \in Key PROVE InPlace(k, wts)
    <2>1. InPlace(k, rts)
      BY <1>1, <1>4 DEF CoreInv, ReadyOK
    <2>2. intent[k].ts \in Nat
      BY StateTypes
    <2> QED
      BY <1>2, <2>1, <2>2 DEF InPlace
  <1> QED
    BY <1>1, <1>2, <1>3, <1>5, SendEndTxnInv

LEMMA RetryEndTxnInv ==
    ASSUME IInv, Ends, pc = "endtxn", et.st = "retry", Retry("again") PROVE IInv'
  <1> USE DEF IInv
  <1>1. /\ pc' = "again" /\ told' = told /\ net' = net /\ wts' = ReplyTs
        /\ UNCHANGED <<record, store, epoch, rts, built, pusher, promised, left>>
    BY DEF Retry, Ends
  <1>2. /\ epoch \in Nat /\ epoch \in Epoch /\ rts \in Nat /\ rts \in Ts /\ wts \in Nat /\ wts \in Ts /\ rts <= wts
        /\ told = "nothing"
    BY CoordFacts
  <1>3. /\ Nothing /\ et.ts > rts /\ et.ts \in Nat /\ \A m \in net : m.op # "commit"
    BY StateTypes DEF CallInv, EndTxnOK
  <1>4. ReplyTs \in Ts /\ ReplyTs \in Nat /\ ReplyTs >= wts /\ ReplyTs > rts
    <2>1. ReplyTs \in Ts /\ ReplyTs \in Nat /\ ReplyTs >= wts /\ ReplyTs >= et.ts
      BY ReplyFacts
    <2> QED
      BY <1>2, <1>3, <2>1
  <1>5. CoordStep
    BY <1>1, <1>2, <1>4, CoordFacts DEF CoordStep
  <1>6. TimesOK'
    BY <1>1, <1>2, <1>4 DEF TimesOK
  <1>7. NetOK'
    <2>1. ASSUME NEW n \in net PROVE NetAt(n)'
      <3>1. n.op # "abort" /\ n.op # "commit" /\ NetAt(n) /\ n.wts <= wts'
        BY <1>1, <1>2, <1>3, <1>4, OldRequests
      <3> QED
        BY <1>1, <3>1 DEF NetAt, IsStage
    <2> QED
      BY <1>1, <2>1 DEF NetOK
  <1>8. RecOK' /\ UnsentOK' /\ ToldOK'
    BY <1>1, <1>2, <1>5, CoordFrame DEF RecOK, UnsentOK, ToldOK, CoreInv
  <1>9. ReadyOK'
    <2>1. PICK t \in Nat : t = rts
      BY <1>2
    <2>2. \A k \in Key : InPlace(k, t) => InPlace(k, t)'
      BY <1>1, <1>5, CoordFrame DEF InPlace
    <2> QED
      BY <1>1, <1>5, <2>1, <2>2, CoordFrame DEF ReadyOK, CoreInv
  <1>10. CommitKept
    BY <1>3 DEF CommitKept
  <1>11. \A e \in Nat, t \in Nat : Recorded(e, t) => Past(e, t)
    BY RecordedPast
  <1>12. CoreInv'
    BY <1>1, <1>5, <1>6, <1>7, <1>8, <1>9, <1>10, <1>11, CoordCore
  <1>13. CallInv'
    BY <1>1, <1>2, EndsPhase
  <1>14. CoordTypes'
    BY <1>1, <1>2, <1>4, OldRequests, EndsTypes DEF CoordState
  <1> QED
    BY <1>5, <1>12, <1>13, <1>14, CoordDone

LEMMA EndTxnReplyInv == ASSUME IInv, EndTxnReply PROVE IInv'
  <1> USE DEF IInv
  <1>1. /\ pc = "endtxn" /\ et' = NoCall
        /\ UNCHANGED <<record, store, epoch, rts, sub, built, pusher, promised, left>>
    BY DEF EndTxnReply
  <1>2. Ends
    BY <1>1 DEF CallInv, PhaseOK, Ends
  <1>3. CASE et.st = "aborted" /\ TellAborted
    <2>1. Nothing /\ \A m \in net : m.op # "commit"
      BY <1>1, <1>3 DEF CallInv, EndTxnOK
    <2> QED
      BY <1>1, <1>2, <1>3, <2>1, RecordedPast, TellAbortedInv
  <1>4. CASE et.st \in {"amb", "fail"} /\ TellError
    BY <1>1, <1>2, <1>4, TellErrorInv
  <1>5. CASE et.st = "retry" /\ Retry("again")
    BY <1>1, <1>2, <1>5, RetryEndTxnInv
  <1>6. CASE et.st = "ok" /\ pc' = "done" /\ told' = "committed" /\ UNCHANGED <<wts, net>>
    <2>1. rec.status = "COMMITTED" \/ AllAt(rts)
      BY <1>1, <1>6 DEF CallInv, EndTxnOK
    <2> QED
      BY <1>1, <1>2, <1>6, <2>1, TellCommittedInv
  <1> QED
    BY <1>3, <1>4, <1>5, <1>6 DEF EndTxnReply

LEMMA CoordinatorInv == ASSUME IInv, Coordinator PROVE IInv'
  BY PipelineWriteInv, SendParallelCommitInv, ResendKeyInv, ResendEndTxnInv, GiveUpKeyInv, GiveUpEndTxnInv,
     ParallelCommitRepliesInv, RefreshAndRetryInv, PrefixRepliesInv, EndTxnReplyInv, RefreshEndTxnInv, RestartInv,
     RollbackInv, HeartbeatInv DEF Coordinator

-----------------------------------------------------------------------------
(* The safety properties.                                                  *)

LEMMA InitInv == ASSUME Init PROVE IInv
  <1> USE Consts DEF Init
  <1>1. AnyKey \in Key
    BY DEF AnyKey
  <1>2. TypeOK
    <2>1. /\ NoRec \in [status : Status \cup {"none"}, epoch : Epoch, ts : Ts0] /\ NoIntent \in [epoch : Epoch, ts : Ts0]
          /\ Seen(AnyKey, 0, 0) \in [key : Key, epoch : Epoch, ts : Ts0]
      BY <1>1 DEF NoRec, Rec, NoIntent, Intent, Seen
    <2>2. left \in Budget
      BY ParallelCommitAssumption
    <2> QED
      BY <2>1, <2>2, CallTypes DEF TypeOK, MinTs, CoordState, PusherState
  <1>3. /\ rec.status = "none" /\ rec.epoch = 0 /\ rec.ts = 0 /\ net = {} /\ ~ Staged /\ AllAt(0) /\ rts = 1 /\ wts = 1
        /\ \A k \in Key : ~ HasIntent(k) /\ intent[k].ts = 0 /\ intent[k].epoch = 0 /\ sub[k] = NoCall
    BY DEF NoRec, Rec, Staged, AllAt, HasIntent, NoIntent, Intent, MinTs
  <1>4. CoreInv
    <2>1. EpochsOK /\ TimesOK /\ NetOK
      BY <1>3 DEF EpochsOK, TimesOK, NetOK
    <2>2. RecOK /\ PastOK /\ CommittedOK /\ GoneOK
      BY <1>3 DEF RecOK, PastOK, CommittedOK, GoneOK
    <2>3. IntentsOK /\ PromisedOK /\ ReadyOK /\ UnsentOK /\ ToldOK
      BY <1>3 DEF IntentsOK, Justified, PromisedOK, ReadyOK, UnsentOK, ToldOK
    <2> QED
      BY <2>1, <2>2, <2>3 DEF CoreInv
  <1>5. CallInv
    BY <1>3 DEF CallInv, PhaseOK, StageOK, PrefixOK, EndTxnOK, WritesOK
  <1>6. ASSUME NEW p \in Pusher PROVE PusherInv(p)
    <2>1. seen[p].epoch = 0 /\ seen[p].ts = 0 /\ work[p].epoch = 0 /\ ppc[p] = "idle" /\ found[p] = {}
      BY DEF Seen, NoRec, Rec
    <2> QED
      BY <1>3, <2>1 DEF PusherInv, SeenOK, SeenJustified, WorkOK, ProbeOK
  <1> QED
    BY <1>2, <1>4, <1>5, <1>6 DEF IInv

LEMMA SameInv == ASSUME IInv, UNCHANGED vars PROVE IInv'
  <1>1. UNCHANGED <<rec, tomb, push, intent, value, readTs, pc, epoch, rts, wts, sub, et, built, told, net,
                    ppc, seen, work, todo, found, promised, left>>
    BY DEF vars, record, store, coord, pusher
  <1>2. TypeOK'
    BY <1>1 DEF TypeOK, IInv
  <1>3. Preserved
    BY <1>1, StillPreserved DEF record, store, coord
  <1>4. \A p \in Pusher : PusherStill(p)
    BY <1>1 DEF PusherStill
  <1> QED
    BY <1>2, <1>3, <1>4 DEF IInv, Preserved

LEMMA NextInv == ASSUME IInv, Blind = {}, [Next]_vars PROVE IInv'
  BY EvaluateInv, CoordinatorInv, BackgroundInv, OthersInv, SameInv DEF Next

\* The invariant holds in every state the program reaches when every write of the
\* transaction reads before it writes, so that none defers a WriteTooOld error.
THEOREM Inductive == ASSUME Blind = {} PROVE Spec => []IInv
  <1>1. Init => IInv
    BY InitInv
  <1>2. IInv /\ [Next]_vars => IInv'
    BY NextInv
  <1> QED
    BY <1>1, <1>2, PTL DEF Spec

\* Every variable stays in its range: no request is sent at the empty timestamp.
THEOREM TypeCorrect == ASSUME Blind = {} PROVE Spec => []TypeOK
  <1>1. IInv => TypeOK
    BY DEF IInv
  <1> QED
    BY <1>1, Inductive, PTL

LEMMA AtomicAt == ASSUME IInv PROVE AtomicCommit
  <1> USE DEF IInv, CoreInv
  <1>1. rts \in Ts
    BY StateTypes
  <1>2. rec.status = "COMMITTED" => \A k \in Key : value[k] = rec.ts \/ (value[k] = 0 /\ Written(k))
    BY DEF CommittedOK, Has, HasIntent, Written
  <1>3. rec.status # "COMMITTED" => AllAt(0) \/ AllAt(rts)
    BY DEF GoneOK
  <1> QED
    BY <1>1, <1>2, <1>3 DEF AtomicCommit, AllAt
\* The writes become visible all together, at the record's timestamp, or not at all.
THEOREM AtomicCommitHolds == ASSUME Blind = {} PROVE Spec => []AtomicCommit
  <1>1. IInv => AtomicCommit
    BY AtomicAt
  <1> QED
    BY <1>1, Inductive, PTL

\* A parallel commit that was given up misses a write, and always will.
LEMMA PastNotCommitted ==
    ASSUME IInv, ImplicitlyCommitted PROVE ~ Past(rec.epoch, rec.ts)
  BY DEF IInv, CoreInv, PastOK, ImplicitlyCommitted, Written, SomeBlocked, Blocked, Has, HasIntent
LEMMA NotUnexpectedAt == ASSUME IInv PROVE NotUnexpectedlyCommitted
  <1> USE DEF IInv
  <1> SUFFICES ASSUME told = "aborted" \/ pc \in {"run", "retry", "restart", "prefix", "again"}, Committed PROVE FALSE
    BY DEF NotUnexpectedlyCommitted
  <1>1. ~ AfterCommit
    BY DEF AfterCommit, CallInv, PhaseOK
  <1>2. Nothing
    BY <1>1 DEF CoreInv, CommittedOK, GoneOK, Nothing
  <1>3. ImplicitlyCommitted /\ rec.status = "STAGING"
    BY <1>2 DEF Committed, Nothing, AllAt, ImplicitlyCommitted
  <1>4. Past(rec.epoch, rec.ts)
    <2>1. rec.epoch \in Nat /\ rec.ts \in Nat /\ epoch \in Nat /\ rec.epoch <= epoch
      BY CoordFacts
    <2>2. CASE told = "aborted"
      BY <2>1, <2>2 DEF Past
    <2>3. CASE pc \in {"run", "retry", "restart", "prefix", "again"}
      <3>1. Recorded(rec.epoch, rec.ts)
        BY <1>3 DEF Recorded
      <3> QED
        BY <2>1, <2>3, <3>1, RecordedPast
    <2> QED
      BY <2>2, <2>3
  <1> QED
    BY <1>3, <1>4, PastNotCommitted
\* The coordinator never goes on with, retries or reports as aborted a transaction
\* that is committed.
THEOREM NotUnexpectedlyCommittedHolds == ASSUME Blind = {} PROVE Spec => []NotUnexpectedlyCommitted
  <1>1. IInv => NotUnexpectedlyCommitted
    BY NotUnexpectedAt
  <1> QED
    BY <1>1, Inductive, PTL

LEMMA RecoveryAt == ASSUME IInv PROVE RecoveryFindsTheCommit
  <1> SUFFICES ASSUME NEW p \in Pusher, ppc[p] = "recover"
               PROVE /\ ~ Prevented(p) => StagedAt(work[p].epoch, work[p].ts) \/ AllAt(work[p].ts)
                     /\ RecoverFails(p) => told = "error" /\ rec.status = "ABORTED" /\ AllAt(work[p].ts)
    BY DEF RecoveryFindsTheCommit, StagedAt, Staged, AllAt
  <1>1. Probes(p, work[p].epoch, work[p].ts) /\ todo[p] = {}
    BY DEF IInv, PusherInv, ProbeOK, Probes
  <1>2. ~ Prevented(p) => StagedAt(work[p].epoch, work[p].ts) \/ AllAt(work[p].ts)
    BY <1>1 DEF Probes
  <1>3. Staged \/ Dead
    BY <1>1 DEF Probes
  <1>4. ASSUME RecoverFails(p)
        PROVE told = "error" /\ rec.status = "ABORTED" /\ AllAt(work[p].ts)
    <2>1. ~ Prevented(p) /\ (rec.status = "ABORTED" \/ (Staged /\ ~ StagedAt(work[p].epoch, work[p].ts)))
      BY <1>3, <1>4 DEF RecoverFails, Staged, StagedAt, Dead, CanCreateTxnRecord
    <2>2. ~ StagedAt(work[p].epoch, work[p].ts) /\ AllAt(work[p].ts)
      BY <1>2, <2>1 DEF StagedAt, Staged
    <2>3. work[p].ts # 0
      BY <1>1 DEF Probes
    <2>4. \A t : AllAt(t) => t = work[p].ts
      BY <2>2, Consts DEF AllAt
    <2>5. CASE rec.status = "COMMITTED"
      <3>1. rec.epoch = epoch /\ rec.ts = rts /\ \A k \in Key : value[k] \in {0, rts}
        BY <2>5 DEF IInv, CoreInv, CommittedOK
      <3> QED
        BY <1>1, <2>1, <2>2, <2>3, <2>5, <3>1 DEF Probes, Dead
    <2>6. CASE rec.status # "COMMITTED"
      <3>1. AllAt(rts) /\ Dead /\ (told # "error" => rec.status = "none")
        BY <2>3, <2>4, <2>6 DEF IInv, CoreInv, GoneOK
      <3> QED
        BY <2>1, <2>2, <3>1 DEF Dead, Staged
    <2> QED
      BY <2>5, <2>6
  <1> QED
    BY <1>2, <1>4
\* A recovery that found every write finds the commit, in the record or resolved on
\* every key, and meets an assertion of RecoverTxn only when the client rolled back
\* a commit that an error had left undecided.
THEOREM RecoveryFindsTheCommitHolds == ASSUME Blind = {} PROVE Spec => []RecoveryFindsTheCommit
  <1>1. IInv => RecoveryFindsTheCommit
    BY RecoveryAt
  <1> QED
    BY <1>1, Inductive, PTL

LEMMA ExplicitAt == ASSUME IInv PROVE ExplicitCommitSucceeds
  <1> USE DEF IInv
  <1> SUFFICES ASSUME told = "committed", NEW m \in net, m.op = "commit", EndTxnMayCommit(m)
               PROVE ~ IsEndTxnTriggeringRetryError(m)
    BY DEF ExplicitCommitSucceeds
  <1>1. rts \in Nat /\ rts # 0 /\ m.epoch = epoch /\ m.rts = rts /\ m.wts = rts /\ epoch \in Nat
    BY StateTypes DEF CoreInv, NetOK, NetAt
  <1>2. rec.status # "COMMITTED" /\ ~ Dead
    BY DEF EndTxnMayCommit, Dead, CanCreateTxnRecord
  <1>3. ~ AllAt(rts)
    BY <1>1, <1>2, Consts DEF CoreInv, GoneOK, AllAt
  <1>4. rec.status = "STAGING" /\ rec.epoch = epoch /\ rec.ts = rts
    BY <1>2, <1>3 DEF CoreInv, ToldOK, StagedAt, Staged
  <1>5. ProvisionalTs(m) = Forward(rts, rts)
    BY <1>1, <1>4 DEF ProvisionalTs, TreatedAsPending
  <1> QED
    BY <1>1, <1>5 DEF IsEndTxnTriggeringRetryError, Forward
\* The EndTxn that makes an acknowledged commit explicit is never refused with a
\* retry error.
THEOREM ExplicitCommitSucceedsHolds == ASSUME Blind = {} PROVE Spec => []ExplicitCommitSucceeds
  <1>1. IInv => ExplicitCommitSucceeds
    BY ExplicitAt
  <1> QED
    BY <1>1, Inductive, PTL

-----------------------------------------------------------------------------
(* The protocol implements a transaction that commits at one instant.      *)

LEMMA ImplicitFacts ==
    ASSUME IInv, ImplicitlyCommitted
    PROVE /\ rec.status = "STAGING" /\ rec.epoch = epoch /\ rec.ts = rts /\ told # "aborted" /\ ~ SomeBlocked(rec.epoch, rec.ts)
          /\ \A k \in Key : HasIntent(k) /\ intent[k].epoch = epoch /\ intent[k].ts <= rts
  <1> USE DEF IInv
  <1>1. rec.status = "STAGING" /\ \A k \in Key : Written(k)
    BY DEF ImplicitlyCommitted
  <1>2. epoch \in Nat /\ rts \in Nat /\ rec.epoch \in Nat /\ rec.ts \in Nat /\ rec.epoch <= epoch /\ rec.ts <= rts
    BY <1>1, CoordFacts DEF CoreInv, RecOK, Staged
  <1>3. ~ (epoch > rec.epoch) /\ (epoch = rec.epoch => ~ (rts > rec.ts) /\ told # "aborted")
    BY PastNotCommitted DEF Past
  <1>4. rec.epoch = epoch /\ rec.ts = rts
    BY <1>2, <1>3
  <1> QED
    BY <1>1, <1>3, <1>4 DEF Written, SomeBlocked, Blocked, Has, HasIntent

\* A committed transaction is committed at the coordinator's read timestamp.
LEMMA CommittedFacts ==
    ASSUME IInv, Committed PROVE CommitTs = rts /\ rts \in Nat /\ rts \in Ts /\ rts # 0 /\ told # "aborted"
  <1> USE DEF IInv
  <1>1. rts \in Nat /\ rts # 0 /\ rts \in Ts
    BY StateTypes
  <1>2. CASE rec.status = "COMMITTED"
    BY <1>1, <1>2 DEF CoreInv, CommittedOK, CommitTs, AfterCommit
  <1>3. CASE ImplicitlyCommitted
    BY <1>1, <1>3, ImplicitFacts DEF CommitTs
  <1>4. CASE rec.status # "COMMITTED" /\ \E k \in Key : value[k] # 0
    <2>1. AllAt(rts) /\ Dead /\ AfterCommit
      BY <1>4 DEF CoreInv, GoneOK, AllAt
    <2>2. {value[k] : k \in Key} = {rts}
      BY <2>1, Consts DEF AllAt
    <2>3. Max({rts}) \in {rts}
      BY <1>1, GreatestNat
    <2> QED
      BY <1>1, <1>4, <2>1, <2>2, <2>3 DEF CommitTs, Dead, AfterCommit
  <1> QED
    BY <1>2, <1>3, <1>4 DEF Committed

\* Nothing was promised above it.
LEMMA CommitFloor ==
    ASSUME IInv, Committed, rec.status \in {"STAGING", "COMMITTED"} PROVE promised <= rts
  <1>1. Staged /\ CommitTs = rec.ts
    BY DEF Staged, CommitTs
  <1> QED
    BY <1>1, CommittedFacts DEF IInv, CoreInv, PromisedOK

\* What the refinement uses of a state, and of the state after a step.
Outlook ==
    /\ Committed => CommitTs = rts /\ told # "aborted" /\ (rec.status \in {"STAGING", "COMMITTED"} => promised <= rts)
    /\ rts \in Ts /\ rts \in Nat /\ rts # 0 /\ promised \in Nat
    /\ told = "committed" => Committed /\ rts = wts
    /\ told \in {"nothing", "committed", "aborted", "error"}
    /\ pc \in {"run", "retry", "restart", "prefix", "again"} => ~ Committed
    /\ pc # "done" => told = "nothing"
LEMMA OutlookAt == IInv => Outlook
  <1> SUFFICES ASSUME IInv PROVE Outlook
    OBVIOUS
  <1>1. rts \in Ts /\ rts \in Nat /\ rts # 0 /\ promised \in Nat /\ told \in {"nothing", "committed", "aborted", "error"}
    BY StateTypes DEF IInv, TypeOK
  <1>2. told = "committed" => Committed /\ rts = wts
    <2>1. AllAt(rts) => \E k \in Key : value[k] # 0
      BY <1>1, Consts DEF AllAt
    <2>2. StagedAt(epoch, rts) /\ (\A k \in Key : Has(k, epoch, rts)) => ImplicitlyCommitted \/ rec.status = "COMMITTED"
      BY DEF StagedAt, Staged, Has, HasIntent, ImplicitlyCommitted, Written
    <2> QED
      BY <2>1, <2>2 DEF IInv, CoreInv, ToldOK, TimesOK, Committed
  <1>3. pc # "done" => told = "nothing"
    BY CoordFacts
  <1> QED
    BY <1>1, <1>2, <1>3, CommittedFacts, CommitFloor, NotUnexpectedAt DEF Outlook, NotUnexpectedlyCommitted
LEMMA OutlookNext == IInv' => Outlook'
  BY OutlookAt, PTL

\* A step of anybody but the coordinator commits the transaction, or changes nothing.
LEMMA StillAbs ==
    ASSUME IInv, IInv', UNCHANGED <<rts, wts, told, promised>>, Committed => Committed',
           Committed' => Committed \/ rec'.status \in {"STAGING", "COMMITTED"}
    PROVE [Abs!Next]_Abs!vars
  <1>1. Outlook /\ Outlook'
    BY OutlookAt, OutlookNext
  <1>2. CASE Committed' = Committed
    BY <1>1, <1>2 DEF Outlook, Abs!vars
  <1>3. CASE ~ Committed /\ Committed'
    <2>1. Abs!Commit(rts)
      BY <1>1, <1>3 DEF Outlook, Abs!Commit
    <2> QED
      BY <1>1, <2>1 DEF Outlook, Abs!Next, Abs!Ts, Ts
  <1> QED
    BY <1>2, <1>3 DEF Committed, ImplicitlyCommitted

\* A step of the coordinator tells the client something, or changes nothing.
LEMMA CoordAbs ==
    ASSUME IInv, IInv', UNCHANGED <<rec, intent, value, promised>>, told' = told \/ told = "nothing"
    PROVE [Abs!Next]_Abs!vars
  <1>1. Outlook /\ Outlook'
    BY OutlookAt, OutlookNext
  <1>2. Committed' = Committed /\ CommitTs' = CommitTs
    BY DEF Committed, ImplicitlyCommitted, Written, CommitTs
  <1>3. CASE told' = told
    BY <1>1, <1>2, <1>3 DEF Outlook, Abs!vars
  <1>4. CASE told = "nothing" /\ told' = "committed"
    <2>1. Abs!Acknowledge
      BY <1>1, <1>2, <1>4 DEF Outlook, Abs!Acknowledge
    <2> QED
      BY <2>1 DEF Abs!Next
  <1>5. CASE told = "nothing" /\ told' = "aborted"
    <2>1. Abs!ReportAborted
      BY <1>1, <1>2, <1>5 DEF Outlook, Abs!ReportAborted
    <2> QED
      BY <2>1 DEF Abs!Next
  <1>6. CASE told = "nothing" /\ told' = "error"
    <2>1. Abs!ReportError
      BY <1>1, <1>2, <1>6 DEF Outlook, Abs!ReportError
    <2> QED
      BY <2>1 DEF Abs!Next
  <1> QED
    BY <1>1, <1>3, <1>4, <1>5, <1>6 DEF Outlook

LEMMA CoordinatorAbs ==
    ASSUME IInv, IInv', Coordinator PROVE [Abs!Next]_Abs!vars
  <1>1. Outlook /\ Outlook'
    BY OutlookAt, OutlookNext
  <1>2. CASE \E k \in Key : PipelineWrite(k)
    <2>1. pc = "run" /\ pc' = "run" /\ UNCHANGED <<told, promised>>
      BY <1>2 DEF PipelineWrite
    <2> QED
      BY <1>1, <2>1 DEF Outlook, Abs!vars
  <1>3. CASE HeartbeatTxn
    <2>1. /\ rec.status \in {"none", "PENDING"} /\ rec'.status = "PENDING"
          /\ UNCHANGED <<intent, value, rts, wts, told, promised>>
      BY <1>3 DEF HeartbeatTxn, WriteRec, Rec, store, coord
    <2>2. Committed' = Committed
      BY <2>1 DEF Committed, ImplicitlyCommitted
    <2> QED
      BY <2>1, <2>2, StillAbs
  <1>4. CASE Coordinator /\ ~ HeartbeatTxn /\ ~ \E k \in Key : PipelineWrite(k)
    <2>1. UNCHANGED <<rec, intent, value, promised>>
      BY <1>4 DEF Coordinator, SendParallelCommit, ResendKey, ResendEndTxn, GiveUpKey, GiveUpEndTxn, ParallelCommitReplies,
                  RefreshAndRetry, PrefixReplies, EndTxnReply, RefreshEndTxn, Restart, Rollback, record, store
    <2>2. pc # "done" \/ told' = told
      <3>1. (\E k \in Key : ResendKey(k) \/ GiveUpKey(k)) \/ ResendEndTxn \/ GiveUpEndTxn \/ SendParallelCommit
              \/ RefreshAndRetry \/ RefreshEndTxn \/ Restart => told' = told
        BY DEF ResendKey, GiveUpKey, ResendEndTxn, GiveUpEndTxn, SendParallelCommit, RefreshAndRetry, RefreshEndTxn, Restart
      <3>2. ParallelCommitReplies \/ PrefixReplies \/ EndTxnReply => pc # "done"
        BY DEF ParallelCommitReplies, PrefixReplies, EndTxnReply
      <3>3. Rollback => pc # "done" \/ told' = told
        BY DEF Rollback
      <3> QED
        BY <1>4, <3>1, <3>2, <3>3 DEF Coordinator
    <2> QED
      BY <1>1, <2>1, <2>2, CoordAbs DEF Outlook
  <1> QED
    BY <1>2, <1>3, <1>4

\* The writes and the record of a committed transaction stay.
LEMMA UnchangedAbs ==
    ASSUME IInv, IInv', UNCHANGED <<rec, intent, value, rts, wts, told, promised>> PROVE [Abs!Next]_Abs!vars
  <1>1. Committed' = Committed
    BY DEF Committed, ImplicitlyCommitted, Written
  <1> QED
    BY <1>1, StillAbs DEF Committed, ImplicitlyCommitted

LEMMA PutAbs == ASSUME IInv, IInv', NEW m \in net, Put(m) PROVE [Abs!Next]_Abs!vars
  <1> USE DEF IInv
  <1>1. /\ m.key \in Key /\ m.epoch \in Nat /\ epoch \in Nat /\ m.epoch <= epoch
        /\ UNCHANGED <<rec, value, rts, wts, told, promised>>
    <2>1. m.op = "put" /\ m \in Requests /\ m.epoch <= epoch
      BY OldRequests DEF Put
    <2>2. UNCHANGED <<rec, value, rts, wts, told, promised>>
      BY DEF Put, Replay, StaleEpoch, Rewrite, FirstWrite, DeferWriteTooOld, WriteTooOld, AnswerKey, SetIntent, store, record
    <2> QED
      BY <2>1, <2>2, RequestTypes, StateTypes
  <1>2. intent' = intent \/ ~ HasIntent(m.key) \/ intent[m.key].epoch < m.epoch
    BY DEF Put, Replay, StaleEpoch, Rewrite, FirstWrite, DeferWriteTooOld, WriteTooOld, FindsNewerValue, store
  <1>3. ImplicitlyCommitted => intent' = intent
    <2> SUFFICES ASSUME ImplicitlyCommitted PROVE intent' = intent
      OBVIOUS
    <2>1. HasIntent(m.key) /\ intent[m.key].epoch = epoch
      BY <1>1, ImplicitFacts
    <2> QED
      BY <1>1, <1>2, <2>1
  <1>4. Committed => Committed'
    BY <1>1, <1>3 DEF Committed, ImplicitlyCommitted, Written
  <1>5. Committed' => Committed \/ rec'.status \in {"STAGING", "COMMITTED"}
    BY <1>1 DEF Committed, ImplicitlyCommitted
  <1> QED
    BY <1>1, <1>4, <1>5, StillAbs

\* A step on the record keeps the commit.
LEMMA RecordAbs ==
    ASSUME IInv, IInv', UNCHANGED <<intent, value, rts, wts, told, promised>>,
           rec.status = "COMMITTED" => rec' = rec,
           ImplicitlyCommitted => rec'.status \in {"STAGING", "COMMITTED"} /\ rec'.epoch = rec.epoch /\ rec'.ts = rec.ts
    PROVE [Abs!Next]_Abs!vars
  <1>1. Committed => Committed'
    BY DEF Committed, ImplicitlyCommitted, Written
  <1>2. Committed' => Committed \/ rec'.status \in {"STAGING", "COMMITTED"}
    BY DEF Committed, ImplicitlyCommitted
  <1> QED
    BY <1>1, <1>2, StillAbs

LEMMA CommitTxnAbs == ASSUME IInv, IInv', NEW m \in net, CommitTxn(m) PROVE [Abs!Next]_Abs!vars
  <1> USE DEF IInv
  <1>1. UNCHANGED <<intent, value, rts, wts, told, promised>>
    BY DEF CommitTxn, EndTxnRefused, AnswerEndTxn, store
  <1>2. CASE rec' = rec
    BY <1>1, <1>2, UnchangedAbs
  <1>3. CASE rec' # rec
    <2>1. /\ EndTxnMayCommit(m) /\ ProvisionalTs(m) = m.rts
          /\ rec'.status \in {"STAGING", "COMMITTED"} /\ rec'.epoch = m.epoch /\ rec'.ts = m.rts
      BY <1>3 DEF CommitTxn, EndTxnRefused, record, WriteRec, Rec, IsEndTxnTriggeringRetryError
    <2>2. rec.status # "COMMITTED"
      BY <2>1 DEF EndTxnMayCommit
    <2>3. ASSUME ImplicitlyCommitted PROVE rec'.epoch = rec.epoch /\ rec'.ts = rec.ts
      <3>1. rec.status = "STAGING" /\ rec.epoch = epoch /\ rec.ts = rts
        BY <2>3, ImplicitFacts
      <3>2. m.epoch \in Nat /\ m.rts \in Nat /\ m.wts \in Nat /\ m.epoch <= epoch /\ m.rts <= rts /\ epoch \in Nat /\ rts \in Nat
        BY OldRequests, CoordFacts
      <3>3. m.epoch = epoch
        BY <2>1, <3>1, <3>2 DEF EndTxnMayCommit, EpochRegression
      <3>4. m.rts = Forward(rts, m.wts)
        BY <2>1, <3>1, <3>2, <3>3 DEF ProvisionalTs, TreatedAsPending
      <3>5. m.rts >= rts
        BY <3>2, <3>4, ForwardNat
      <3> QED
        BY <2>1, <3>1, <3>2, <3>3, <3>5
    <2> QED
      BY <1>1, <2>1, <2>2, <2>3, RecordAbs
  <1> QED
    BY <1>2, <1>3

LEMMA RollbackTxnAbs == ASSUME IInv, IInv', NEW m \in net, RollbackTxn(m) PROVE [Abs!Next]_Abs!vars
  <1> USE DEF IInv
  <1>1. UNCHANGED <<intent, value, rts, wts, told, promised>> /\ (rec' = rec \/ RollbackWrites(m))
    BY DEF RollbackTxn, store, coord, record
  <1>2. m.epoch \in Nat /\ m.epoch <= epoch /\ epoch \in Nat
    BY OldRequests, CoordFacts
  <1>3. RollbackWrites(m) => rec.status # "COMMITTED" /\ ~ ImplicitlyCommitted
    BY <1>2, ImplicitFacts DEF RollbackWrites, TreatedAsPending
  <1> QED
    BY <1>1, <1>3, RecordAbs, UnchangedAbs

LEMMA EvaluateAbs == ASSUME IInv, IInv', Evaluate PROVE [Abs!Next]_Abs!vars
  <1>1. ASSUME NEW m \in net, QueryOwnIntent(m) PROVE UNCHANGED <<rec, intent, value, rts, wts, told, promised>>
    BY <1>1 DEF QueryOwnIntent, AnswerKey, MarkRead, store, record
  <1> QED
    BY <1>1, PutAbs, CommitTxnAbs, RollbackTxnAbs, UnchangedAbs DEF Evaluate

LEMMA ResolveAbs ==
    ASSUME IInv, IInv', NEW k \in Key, NEW w, Verdicts(w), w.ts \in Ts0, ResolveIntent(k, w), UNCHANGED <<record, coord, promised>>
    PROVE [Abs!Next]_Abs!vars
  <1> USE DEF IInv
  <1> DEFINE i == intent[k]
             commit == w.status = "COMMITTED" /\ i.epoch = w.epoch /\ i.ts <= w.ts
             inProgress == w.status \notin Finalized /\ i.epoch >= w.epoch
  <1>1. /\ value' = IF HasIntent(k) /\ commit THEN [value EXCEPT ![k] = w.ts] ELSE value
        /\ intent' = IF ~ HasIntent(k) THEN intent
                     ELSE IF inProgress
                          THEN [intent EXCEPT ![k] = Intent(i.epoch, Forward(i.ts, w.ts))]
                          ELSE [intent EXCEPT ![k] = NoIntent]
        /\ UNCHANGED <<rec, rts, wts, told, promised>>
    BY DEF ResolveIntent, record, coord
  <1>2. /\ intent \in [Key -> [epoch : Epoch, ts : Ts0]] /\ value \in [Key -> Ts0]
        /\ i.epoch \in Nat /\ i.ts \in Nat /\ w.ts \in Nat /\ w.epoch \in Nat /\ w.epoch <= epoch /\ rts \in Nat /\ rts # 0
    BY StateTypes DEF TypeOK, Verdicts
  <1>3. CASE rec.status = "COMMITTED"
    BY <1>1, <1>3, StillAbs DEF Committed
  <1>4. CASE ImplicitlyCommitted
    <2>1. /\ rec.status = "STAGING" /\ rec.ts = rts /\ rec.epoch = epoch /\ HasIntent(k) /\ i.epoch = epoch /\ i.ts <= rts
          /\ \A q \in Key : Written(q)
      BY <1>4, ImplicitFacts DEF ImplicitlyCommitted
    <2>2. w.status \in {"PENDING", "STAGING"} /\ w.ts <= rts
      BY <2>1 DEF Verdicts, Status, Dead, Staged
    <2>3. value' = value /\ intent' = [intent EXCEPT ![k] = Intent(i.epoch, Forward(i.ts, w.ts))]
      BY <1>1, <1>2, <2>1, <2>2 DEF Finalized
    <2>4. PICK f \in Nat : f = Forward(i.ts, w.ts) /\ f >= i.ts /\ f <= rts
      <3>1. PICK a \in Nat, b \in Nat : a = i.ts /\ b = w.ts
        BY <1>2
      <3>2. Forward(a, b) \in Nat /\ Forward(a, b) >= a /\ (Forward(a, b) = a \/ Forward(a, b) = b)
        BY ForwardNat
      <3> QED
        BY <2>1, <2>2, <3>1, <3>2
    <2>5. intent'[k].epoch = epoch /\ intent'[k].ts = f /\ f # 0 /\ \A q \in Key : q # k => intent'[q] = intent[q]
      BY <1>2, <2>1, <2>3, <2>4 DEF Intent, HasIntent
    <2>6. \A q \in Key : Written(q)'
      BY <1>1, <2>1, <2>4, <2>5 DEF Written
    <2> QED
      BY <1>1, <1>4, <2>1, <2>6, StillAbs DEF Committed, ImplicitlyCommitted
  <1>5. CASE rec.status # "COMMITTED" /\ ~ ImplicitlyCommitted /\ \E q \in Key : value[q] # 0
    <2>1. AllAt(rts) /\ Dead /\ \A q \in Key : ~ HasIntent(q)
      BY <1>5 DEF CoreInv, GoneOK, AllAt
    <2> QED
      BY <1>1, <2>1, UnchangedAbs
  <1>6. CASE ~ Committed
    <2>1. rec.status # "COMMITTED" /\ ~ (\E q \in Key : value[q] # 0)
      BY <1>6 DEF Committed
    <2>2. value' = value
      <3>1. CASE w.status = "COMMITTED"
        <4>1. AllAt(w.ts) /\ Dead
          BY <2>1, <3>1 DEF Verdicts
        <4>2. [value EXCEPT ![k] = w.ts] = value
          BY <1>2, <4>1 DEF AllAt
        <4> QED
          BY <1>1, <4>2
      <3>2. CASE w.status # "COMMITTED"
        BY <1>1, <3>2
      <3> QED
        BY <3>1, <3>2
    <2> QED
      BY <1>1, <1>6, <2>1, <2>2, StillAbs DEF Committed, ImplicitlyCommitted
  <1> QED
    BY <1>3, <1>4, <1>5, <1>6 DEF Committed

\* A push that succeeds without the record is a promise.
LEMMA PromiseAbs ==
    ASSUME IInv, IInv', NEW to \in Times, UNCHANGED <<rec, intent, value, rts, wts, told>>, promised' = Forward(promised, to),
           Committed => to <= rts
    PROVE [Abs!Next]_Abs!vars
  <1>1. Outlook /\ Outlook'
    BY OutlookAt, OutlookNext
  <1>2. Committed' = Committed /\ CommitTs' = CommitTs
    BY DEF Committed, ImplicitlyCommitted, Written, CommitTs
  <1>3. to \in Nat /\ to \in Abs!Ts /\ promised \in Nat
    BY TimesType, StateTypes, Consts DEF IInv, Times, Abs!Ts
  <1>4. CASE to <= promised
    <2>1. promised' = promised
      BY <1>3, <1>4 DEF Forward
    <2> QED
      BY <2>1, UnchangedAbs
  <1>5. CASE to > promised
    <2>1. promised' = to
      BY <1>3, <1>5 DEF Forward
    <2>2. Abs!Promise(to)
      BY <1>1, <1>2, <1>5, <2>1 DEF Outlook, Abs!Promise
    <2> QED
      BY <1>3, <2>2 DEF Abs!Next
  <1> QED
    BY <1>3, <1>4, <1>5

LEMMA PushTxnAbs == ASSUME IInv, IInv', NEW p \in Pusher, PushTxn(p) PROVE [Abs!Next]_Abs!vars
  <1> USE DEF IInv
  <1>1. UNCHANGED <<intent, value, rts, wts, told>>
    BY DEF PushTxn, store, coord
  <1>2. ASSUME PushFinalized(p) \/ PushLoses(p) \/ PushIndeterminate(p) PROVE UNCHANGED <<rec, promised>>
    BY <1>2 DEF PushFinalized, PushLoses, PushIndeterminate, record
  <1>3. CASE PushAbort(p)
    <2>1. /\ Pushee(p).status \notin Finalized /\ ~ StillStaging(p) /\ promised' = promised
      BY <1>3 DEF PushAbort
    <2>2. rec.status # "COMMITTED"
      BY <2>1, PusheeFacts DEF Finalized
    <2>3. ~ ImplicitlyCommitted
      <3> SUFFICES ASSUME ImplicitlyCommitted PROVE FALSE
        OBVIOUS
      <3>1. rec.status = "STAGING" /\ ~ SomeBlocked(rec.epoch, rec.ts)
        BY ImplicitFacts
      <3>2. KnownHigher(p)
        BY <2>1, <3>1, PusheeFacts DEF StillStaging
      <3> QED
        BY <3>1, <3>2, HigherBlocked
    <2> QED
      BY <1>1, <2>1, <2>2, <2>3, RecordAbs
  <1>4. ASSUME Committed, Pushee(p).status \notin Finalized PROVE Pushee(p).status = "STAGING" /\ Pushee(p).ts = rts
    <2>1. rec.status # "COMMITTED" /\ ~ Dead
      <3>1. rec.status # "COMMITTED" /\ rec.status # "ABORTED"
        BY <1>4, PusheeFacts DEF Finalized
      <3>2. rec.status = "none" => tomb # "set"
        BY <1>4 DEF Pushee, Lookup, SynthesizeTxnFromMeta, CanCreateTxnRecord, Rec, Finalized
      <3> QED
        BY <3>1, <3>2 DEF Dead
    <2>2. ImplicitlyCommitted
      BY <1>4, <2>1 DEF Committed, CoreInv, GoneOK, AllAt
    <2> QED
      BY <2>2, ImplicitFacts, PusheeFacts
  <1>5. ASSUME NEW to \in Times, PushUnneeded(p, to) \/ PushTimestamp(p, to) PROVE [Abs!Next]_Abs!vars
    <2>1. rec' = rec /\ promised' = Forward(promised, to)
      BY <1>5 DEF PushUnneeded, PushTimestamp
    <2>2. Committed => to <= rts
      BY <1>4, <1>5 DEF PushUnneeded, PushTimestamp, Finalized
    <2> QED
      BY <1>1, <2>1, <2>2, PromiseAbs
  <1> QED
    BY <1>1, <1>2, <1>3, <1>5, UnchangedAbs DEF PushTxn

LEMMA RecoverTxnAbs == ASSUME IInv, IInv', NEW p \in Pusher, RecoverTxn(p) PROVE [Abs!Next]_Abs!vars
  <1> USE DEF IInv
  <1>1. /\ ppc[p] = "recover" /\ UNCHANGED <<intent, value, rts, wts, told, promised>>
        /\ \/ rec' = rec
           \/ RecoverFinalizes(p) /\ rec' = Rec(IF Prevented(p) THEN "ABORTED" ELSE "COMMITTED", rec.epoch, rec.ts)
    BY DEF RecoverTxn, store, coord, record, WriteRec
  <1>2. CASE rec' = rec
    BY <1>1, <1>2, UnchangedAbs
  <1>3. CASE RecoverFinalizes(p) /\ rec' = Rec(IF Prevented(p) THEN "ABORTED" ELSE "COMMITTED", rec.epoch, rec.ts)
    <2>1. rec.status = "STAGING"
      BY <1>3 DEF RecoverFinalizes
    <2>2. CASE Prevented(p)
      <3>1. SomeBlocked(rec.epoch, rec.ts)
        <4>1. PICK e \in Nat, t \in Nat : e = work[p].epoch /\ t = work[p].ts
          BY StateTypes
        <4>2. Probes(p, e, t) /\ Staged
          BY <1>1, <2>1, <4>1 DEF PusherInv, ProbeOK, Staged
        <4>3. SomeBlocked(e, t) /\ (rec.epoch > e \/ (rec.epoch = e /\ rec.ts >= t))
          BY <2>2, <4>2 DEF Probes
        <4>4. ~ (rec.epoch > e) /\ ~ (rec.ts > t) /\ rec.epoch \in Nat /\ rec.ts \in Nat
          BY <1>3, <2>2, <4>1, CoordFacts DEF RecoverFinalizes, LegalChange
        <4>5. rec.epoch = e /\ rec.ts = t
          BY <4>3, <4>4
        <4> QED
          BY <4>3, <4>5
      <3>2. ~ ImplicitlyCommitted
        BY <3>1, ImplicitFacts
      <3> QED
        BY <1>1, <2>1, <3>2, RecordAbs
    <2>3. CASE ~ Prevented(p)
      BY <1>1, <1>3, <2>1, <2>3, RecordAbs DEF Rec
    <2> QED
      BY <2>2, <2>3
  <1> QED
    BY <1>1, <1>2, <1>3

LEMMA OthersAbs == ASSUME IInv, IInv', NEW p \in Pusher, Others(p) PROVE [Abs!Next]_Abs!vars
  <1> USE DEF IInv
  <1>1. ASSUME (\E k \in Key : Encounter(p, k) \/ QueryIntent(p, k)) \/ RecoverForRollback(p) \/ QueryTxn(p) \/ ProbesDone(p)
        PROVE UNCHANGED <<rec, intent, value, rts, wts, told, promised>>
    BY <1>1 DEF Encounter, QueryIntent, RecoverForRollback, QueryTxn, ProbesDone, MarkRead, record, store, coord
  <1>2. ASSUME Resolve(p) PROVE [Abs!Next]_Abs!vars
    <2>1. PICK w, k : w = work[p] /\ k = seen[p].key
      OBVIOUS
    <2>2. ppc[p] = "resolve" /\ ResolveIntent(k, w) /\ UNCHANGED <<record, coord, promised>>
      BY <1>2, <2>1 DEF Resolve
    <2>3. k \in Key /\ w.ts \in Ts0 /\ w.ts \in Nat /\ w.epoch \in Nat /\ w.status \in Status \cup {"none"}
      BY <2>1, StateTypes DEF TypeOK
    <2>4. Verdicts(w)
      BY <2>1, <2>2, <2>3 DEF PusherInv, WorkOK, SeenOK, Verdicts
    <2> QED
      BY <2>2, <2>3, <2>4, ResolveAbs
  <1> QED
    BY <1>1, <1>2, UnchangedAbs, PushTxnAbs, RecoverTxnAbs DEF Others

LEMMA BackgroundAbs == ASSUME IInv, IInv', Background PROVE [Abs!Next]_Abs!vars
  <1> USE DEF IInv
  <1>1. ASSUME MoveLease \/ \E k \in Key : BumpKey(k) PROVE UNCHANGED <<rec, intent, value, rts, wts, told, promised>>
    BY <1>1 DEF MoveLease, BumpKey, MarkRead, record, store, coord
  <1>2. ASSUME NEW k \in Key, ResolveFromRecord(k) PROVE [Abs!Next]_Abs!vars
    <2>1. PICK w : w = rec
      OBVIOUS
    <2>2. rec.status \in Finalized /\ ResolveIntent(k, w) /\ UNCHANGED <<record, coord, promised>>
      BY <1>2, <2>1 DEF ResolveFromRecord
    <2>3. w.ts \in Ts0 /\ w.ts \in Nat /\ w.epoch \in Nat
      BY <2>1, StateTypes DEF TypeOK
    <2>4. Verdicts(w)
      BY <2>1, <2>2, <2>3 DEF Verdicts, Finalized, Status, Dead, CoreInv, EpochsOK
    <2> QED
      BY <2>2, <2>3, <2>4, ResolveAbs
  <1>3. ASSUME GcRecord PROVE [Abs!Next]_Abs!vars
    <2>1. /\ rec' = NoRec /\ UNCHANGED <<intent, value, rts, wts, told, promised>>
          /\ \/ rec.status = "ABORTED"
             \/ rec.status = "COMMITTED" /\ \A k \in Key : value[k] # 0 \/ ~ HasIntent(k)
      BY <1>3 DEF GcRecord, store, coord
    <2>2. rec.status = "COMMITTED" => \E k \in Key : value[k] # 0
      <3>1. PICK k \in Key : TRUE
        BY Consts
      <3>2. rec.status = "COMMITTED" => value[k] = rts \/ HasIntent(k)
        BY DEF CoreInv, CommittedOK, Has
      <3> QED
        BY <2>1, <3>2, StateTypes
    <2>3. ~ ImplicitlyCommitted /\ rec'.status = "none"
      BY <2>1 DEF ImplicitlyCommitted, NoRec, Rec
    <2>4. Committed => Committed'
      BY <2>1, <2>2, <2>3 DEF Committed
    <2>5. Committed' => Committed
      BY <2>1, <2>3 DEF Committed, ImplicitlyCommitted
    <2> QED
      BY <2>1, <2>4, <2>5, StillAbs
  <1> QED
    BY <1>1, <1>2, <1>3, UnchangedAbs DEF Background

LEMMA NextAbs == ASSUME IInv, IInv', [Next]_vars PROVE [Abs!Next]_Abs!vars
  <1>1. ASSUME UNCHANGED vars PROVE UNCHANGED <<rec, intent, value, rts, wts, told, promised>>
    BY <1>1 DEF vars, record, store, coord
  <1> QED
    BY <1>1, UnchangedAbs, EvaluateAbs, CoordinatorAbs, OthersAbs, BackgroundAbs DEF Next

\* The protocol implements a transaction that commits at most once, at one instant and
\* one timestamp, not below what a contending transaction was promised, and of which
\* the client is told the truth.
THEOREM ImplementsAtomicTransactionHolds == ASSUME Blind = {} PROVE Spec => ImplementsAtomicTransaction
  <1>1. Init => Abs!Init
    <2> SUFFICES ASSUME Init PROVE Abs!Init
      OBVIOUS
    <2>1. ~ Committed /\ told = "nothing" /\ promised = 0
      BY DEF Init, Committed, ImplicitlyCommitted, NoRec, Rec
    <2> QED
      BY <2>1 DEF Abs!Init
  <1>2. IInv /\ IInv' /\ [Next]_vars => [Abs!Next]_Abs!vars
    BY NextAbs
  <1>3. Spec => []IInv
    BY Inductive
  <1> QED
    BY <1>1, <1>2, <1>3, PTL DEF Spec, ImplementsAtomicTransaction, Abs!Spec

=============================================================================
