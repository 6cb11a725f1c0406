-------------------------- MODULE EpochLeaseProofs --------------------------
(***************************************************************************)
(* Lease sequence numbers, retired leases and who may serve, for any nodes, *)
(* clocks, durations, settings and bounds.                                 *)
(*                                                                         *)
(* BaseInv: where leases, requests and commands come from, and what bars   *)
(* the holder of a retired lease from using it.  ServerInv: a lease that   *)
(* was succeeded is not used any more, whichever replicas have yet to hear *)
(* of its successor.                                                       *)
(***************************************************************************)
EXTENDS EpochLease, SequenceTheorems, TLAPS

(* The pieces.                                                             *)

Leases == {log[i] : i \in 1..Len(log)} \cup {c.lease : c \in flying}
Final == log[Len(log)]

\* Sequence numbers grow along the log, and what has the same one is the same lease,
\* extended.
Extends(k, l) ==
    /\ l.holder = k.holder /\ l.start = k.start /\ l.epoch = k.epoch
    /\ k.epoch = 0 => k.exp <= l.exp
    /\ k.prop < l.prop
LogOK ==
    /\ \A i \in 1..Len(log) : log[i].seq \in 1..i
    /\ \A i, j \in 1..Len(log) : i <= j => log[i].seq <= log[j].seq
    /\ \A i \in 1..Len(log) : i + 1 <= Len(log) => log[i + 1].seq <= log[i].seq + 1
    /\ \A i, j \in 1..Len(log) : i < j /\ log[i].seq = log[j].seq => Extends(log[i], log[j])
ClocksOK ==
    /\ \A n, m \in Node : clock[n] <= clock[m] + MaxOffset
    /\ \A n \in Node : minProposed[n] <= clock[n]
    /\ \A l \in Leases : \E p \in Node : l.start <= clock[p]
\* What a request was made for, and what a command was evaluated with.
RequestOK(n) ==
    LET r == req[n] IN
    r # Idle =>
      /\ \E k \in 1..applied[n] : r.prev = log[k]
      /\ r.now <= clock[n] /\ (r.prev.holder = n => r.prev.prop < r.now)
      /\ r.to # n => r.prev.holder = n
CommandOK(c) ==
    /\ \E k \in 1..Len(log) : log[k].seq = c.prev /\ (c.kind = "request" => log[k].prop = c.prop)
    /\ c.kind = "request" =>
         \A k \in 1..Len(log) : log[k].seq = c.prev /\ log[k].prop = c.prop =>
            /\ c.lease.seq = IF Equivalent(log[k], c.lease) THEN c.prev ELSE c.prev + 1
            /\ log[k].holder = c.lease.holder => c.prop < c.lease.prop
    /\ c.kind = "transfer" =>
         /\ c.prev \in retired /\ c.lease.seq > c.prev
         /\ c.prev = Final.seq => c.lease.seq = c.prev + 1
\* No lease of sequence number s can make h serve.
Barred(h, s) ==
    /\ \A j \in 1..Len(log) : log[j].seq = s =>
          log[j].prop < minProposed[h] /\ log[j].start < minProposed[h]
    /\ \A c \in flying : c.lease.seq = s /\ c.prev = s => c.lease.prop < minProposed[h]
RetiredOK ==
    \A s \in retired : \E h \in Node : \E i \in 1..applied[h] :
        /\ log[i].seq = s /\ log[i].holder = h
        /\ s < LeaseOf(h).seq \/ asleep[h] # 0 \/ Barred(h, s)
BaseInv ==
    /\ TypeOK /\ LogOK /\ ClocksOK /\ RetiredOK
    /\ \A n \in Node : RequestOK(n)
    /\ \A c \in flying : CommandOK(c)

-----------------------------------------------------------------------------
\* All leases are of the type that the range should have.
Uniform == inst.firstKind = inst.kind /\ (inst.mayTransfer => inst.kind = "expiration")
KindsOK ==
    /\ \A l \in Leases : (l.epoch = 0) <=> (inst.kind = "expiration")
    /\ \A n \in Node : req[n] # Idle =>
          /\ (req[n].epoch = 0) <=> (inst.kind = "expiration")
          /\ req[n].to # n => inst.kind = "expiration"
    /\ \A c \in flying : c.kind = "transfer" => inst.kind = "expiration"
    /\ inst.kind = "expiration" => hasty = {}
\* The lease is over, for whichever clock; its holder does not use it any more.
Over(l) ==
    IF l.epoch = 0 THEN \E p \in Node : l.exp <= clock[p] ELSE record[l.holder].epoch > l.epoch
Done(l) == Over(l) \/ l.prop < minProposed[l.holder] \/ asleep[l.holder] # 0
Behind(k, l) == k.prop < l.prop /\ (k.epoch = 0 => k.exp <= l.exp)
\* A lease in the log has been succeeded: by another node only once it is done with,
\* and, if it is epoch-based, once its epoch is over; by its holder with a later one.
\* A lease that was requested too early breaks the chain.
HandedOver ==
    \A i, j \in 1..Len(log) : i < j /\ NoneHasty(log[i].seq, log[j].seq) =>
        /\ log[i].holder # log[j].holder =>
              Done(log[i]) /\ (log[i].epoch # 0 => Over(log[i]))
        /\ log[i].holder = log[j].holder =>
              (Done(log[i]) \/ Behind(log[i], log[j])) /\ log[i].epoch <= log[j].epoch
\* A request for another node's epoch-based lease goes on to its evaluation only once
\* the epoch is over.
RequestOver(n) ==
    LET r == req[n] IN
    (r # Idle /\ r.to = n) =>
      /\ (r.prev.epoch # 0 /\ r.prev.holder # n) =>
            /\ r.pc \in {"expired", "send"}
            /\ r.pc = "expired" => r.rec.epoch >= r.prev.epoch
            /\ r.pc = "expired" => r.rec.epoch <= record[r.prev.holder].epoch
            /\ r.pc = "send" => Over(r.prev)
      /\ <<n, r.now>> \notin hasty =>
            \A i, k \in 1..Len(log) : i <= k /\ log[k] = r.prev /\ log[i].holder = n => log[i].epoch <= r.epoch
\* A command that may still take effect finds the lease before it over.
CommandOver(c) ==
    c.kind = "request" =>
      \A k \in 1..Len(log) : log[k].seq = c.prev /\ log[k].prop = c.prop =>
         /\ log[k].holder # c.lease.holder => Over(log[k])
         /\ log[k].holder = c.lease.holder => Behind(log[k], c.lease)
         /\ ~ Hasty(c.lease) =>
               \A i \in 1..k : log[i].holder = c.lease.holder => log[i].epoch <= c.lease.epoch
\* What is known of a record.
Known(h, v) ==
    v.epoch < record[h].epoch \/ (v.epoch = record[h].epoch /\ v.exp <= record[h].exp)
RecordsOK ==
    /\ \A h \in Node : record[h].exp <= clock[h] + inst.duration
    /\ \A n, h \in Node : Known(h, cache[n][h])
    /\ \A h \in Node : \A i \in 1..Len(published[h]) : Known(h, published[h][i])
    /\ \A l \in Leases : l.epoch <= record[l.holder].epoch
\* A version that a node that is up may take for its own record although its epoch
\* has ended has expired.
Ended(h, v) == v.epoch < record[h].epoch => \E p \in Node : v.exp <= clock[p]
OwnRecordOK(h) ==
    asleep[h] = 0 /\ ~ booting[h] =>
      /\ Ended(h, cache[h][h])
      /\ \A i \in 1..Len(published[h]) : Newer(published[h][i], cache[h][h]) => Ended(h, published[h][i])
      /\ \A l \in Leases : l.holder = h => l.epoch <= cache[h][h].epoch
      /\ req[h] # Idle /\ req[h].to = h => req[h].epoch <= cache[h][h].epoch
\* Until its first heartbeat a restarted node can use no lease it held before, and
\* those it requests are marked.
BootOK(h) ==
    asleep[h] = 0 /\ booting[h] =>
      \A l \in Leases : l.holder = h /\ ~ Hasty(l) => l.prop < minProposed[h]
AskerOK(h) ==
    req[h] # Idle =>
      /\ asleep[h] = 0
      /\ req[h].to = h => req[h].epoch <= record[h].epoch
      /\ booting[h] => <<h, req[h].now>> \in hasty
EpochsOK ==
    inst.kind = "epoch" => RecordsOK /\ \A h \in Node : OwnRecordOK(h) /\ BootOK(h) /\ AskerOK(h)
ServerInv ==
    /\ BaseInv /\ Uniform /\ KindsOK /\ HandedOver /\ EpochsOK
    /\ \A n \in Node : RequestOver(n)
    /\ \A c \in flying : CommandOver(c)

-----------------------------------------------------------------------------
(* Records.                                                                *)

LEMMA RecordExp ==
    ASSUME NEW v \in Record, NEW x \in Nat
    PROVE LET w == [v EXCEPT !.exp = x] IN w \in Record /\ w.epoch = v.epoch /\ w.exp = x
  BY DEF Record
LEMMA RecordEpoch ==
    ASSUME NEW v \in Record
    PROVE /\ Incremented(v) \in Record /\ Incremented(v).epoch = v.epoch + 1
          /\ Incremented(v).exp = v.exp
  <1>1. v = [epoch |-> v.epoch, exp |-> v.exp] /\ v.epoch \in Nat /\ v.exp \in Nat
    BY DEF Record
  <1>2. Incremented(v) = [epoch |-> v.epoch + 1, exp |-> v.exp]
    BY <1>1 DEF Incremented
  <1> QED
    BY <1>1, <1>2 DEF Record

-----------------------------------------------------------------------------
(* Types.                                                                  *)

LEMMA Constants ==
    ASSUME inst \in Instances
    PROVE /\ MaxOffset \in Nat /\ MaxLag \in Nat /\ inst.duration \in Nat /\ inst.lead \in Nat
          /\ MaxOffset < inst.duration /\ inst.maxLeases \in Nat \ {0} /\ inst.maxRestarts \in Nat
          /\ inst.steady \in SUBSET Node /\ inst.firstTime \in Nat
          /\ inst.kind \in Kind /\ inst.firstKind \in Kind
          /\ inst.mayTransfer \in BOOLEAN /\ First \in Node
  BY LeaseAssumption DEF LeaseAssumption, Instance

LEMMA LogTypes ==
    ASSUME TypeOK
    PROVE /\ Len(log) \in Nat \ {0} /\ log \in Seq(Lease)
          /\ \A i \in 1..Len(log) : log[i] \in Lease
          /\ \A n \in Node : applied[n] \in Nat /\ LeaseOf(n) \in Lease
          /\ Final \in Lease /\ Last(log) = Final
          /\ 1..Len(log) # {} /\ Len(log) \in 1..Len(log)
  <1>1. Len(log) \in Nat /\ log \in Seq(Lease) /\ \A i \in 1..Len(log) : log[i] \in Lease
    BY DEF TypeOK
  <1>2. \A n \in Node : applied[n] \in 1..Len(log)
    BY DEF TypeOK
  <1>3. First \in Node
    BY LeaseAssumption DEF LeaseAssumption
  <1>4. Len(log) # 0
    BY <1>1, <1>2, <1>3
  <1> QED
    BY <1>1, <1>2, <1>4 DEF Final, Last, LeaseOf

\* An idle request is not a record with a target.
LEMMA IdleIsNoRequest ==
    ASSUME NEW r \in Request \cup {Idle}, r # Idle
    PROVE /\ r \in Request /\ r.pc \in {"promote", "expired", "send"} /\ r.to \in Node
          /\ r.prev \in Lease /\ r.now \in Nat /\ r.rec \in Record /\ r.epoch \in Nat /\ r.exp \in Nat
  BY DEF Request

LEMMA NotIdle ==
    ASSUME NEW r, r \in Request \cup {Idle}, r.pc \in {"promote", "expired", "send"}
    PROVE r # Idle
  BY DEF Idle

LEMMA ReadingFacts ==
    ASSUME TypeOK, NEW n \in Node, NewReading(n)
    PROVE /\ LeaseOf(n).holder = n => LeaseOf(n).start < clock[n]
          /\ \A l \in Leases : l.holder = n => l.prop < clock[n]
  BY LogTypes DEF NewReading, Leases, ToSet

LEMMA UpdatedType ==
    ASSUME TypeOK, NEW n \in Node, NEW m \in Node, NEW v \in Record
    PROVE Updated(n, m, v) \in [Node -> [Node -> Record]]
  BY DEF TypeOK, Updated
LEMMA PutType ==
    ASSUME TypeOK, NEW n \in Node, NEW m \in Node, NEW v \in Record, Put(n, m, v)
    PROVE /\ record' \in [Node -> Record] /\ cache' \in [Node -> [Node -> Record]]
          /\ published' \in [Node -> Seq(Record)] /\ \A k \in Node : Len(published'[k]) > 0
  <1>1. record' \in [Node -> Record] /\ cache' \in [Node -> [Node -> Record]]
    BY UpdatedType DEF Put, TypeOK
  <1> DEFINE s == published[m]
             t == IF Len(s) <= MaxLag THEN Append(s, v) ELSE Append(Tail(s), v)
  <1>2. s \in Seq(Record) /\ Len(s) > 0
    BY DEF TypeOK
  <1>3. Tail(s) \in Seq(Record)
    BY <1>2
  <1>4. t \in Seq(Record) /\ Len(t) > 0
    BY <1>2, <1>3
  <1>5. published' = [published EXCEPT ![m] = t]
    BY DEF Put
  <1>6. published \in [Node -> Seq(Record)] /\ \A k \in Node : Len(published[k]) > 0
    BY DEF TypeOK
  <1> HIDE DEF t, s
  <1> QED
    BY <1>1, <1>4, <1>5, <1>6
LEMMA FoundType ==
    ASSUME TypeOK, NEW n \in Node, NEW m \in Node, NEW v
    PROVE Found(n, m, v) \in Record
  BY DEF TypeOK, Found
LEMMA MissedType ==
    ASSUME TypeOK, NEW n \in Node, NEW m \in Node, NEW v, Missed(n, m, v)
    PROVE /\ record' \in [Node -> Record] /\ cache' \in [Node -> [Node -> Record]]
          /\ published' \in [Node -> Seq(Record)] /\ \A k \in Node : Len(published'[k]) > 0
  BY FoundType, UpdatedType DEF TypeOK, Missed

LivenessTypes ==
    /\ record' \in [Node -> Record] /\ cache' \in [Node -> [Node -> Record]]
    /\ published' \in [Node -> Seq(Record)] /\ \A k \in Node : Len(published'[k]) > 0
LeasesSame == UNCHANGED <<log, applied, minProposed, flying>>
RecordsSame == UNCHANGED <<record, published, cache, booting>>

LEMMA TickType ==
    ASSUME TypeOK, NEW n \in Node, Tick(n)
    PROVE TypeOK'
  <1> DEFINE new == [record[n] EXCEPT !.exp = clock[n] + 1 + inst.duration]
  <1>0. inst.duration \in Nat /\ clock[n] \in Nat
    BY Constants DEF TypeOK
  <1>1. new \in Record
    <2>1. record[n] \in Record /\ clock[n] + 1 + inst.duration \in Nat
      BY <1>0 DEF TypeOK
    <2> QED
      BY <2>1, RecordExp
  <1>2. LivenessTypes
    <2>1. CASE n \in inst.steady
      <3>1. /\ record' = [record EXCEPT ![n] = new]
            /\ published' = [published EXCEPT ![n] = <<new>>]
            /\ cache' = [m \in Node |-> IF asleep[m] = 0 THEN [cache[m] EXCEPT ![n] = new]
                                       ELSE cache[m]]
        BY <2>1 DEF Tick
      <3> HIDE DEF new
      <3>2. <<new>> \in Seq(Record) /\ Len(<<new>>) > 0
        BY <1>1
      <3>3. record' \in [Node -> Record] /\ cache' \in [Node -> [Node -> Record]]
        BY <1>1, <3>1 DEF TypeOK
      <3>4. published' \in [Node -> Seq(Record)] /\ \A k \in Node : Len(published'[k]) > 0
        BY <3>1, <3>2 DEF TypeOK
      <3> QED
        BY <3>3, <3>4 DEF LivenessTypes
    <2>2. CASE n \notin inst.steady
      BY <2>2 DEF Tick, LivenessTypes, TypeOK
    <2> QED
      BY <2>1, <2>2
  <1>3. clock' = [clock EXCEPT ![n] = clock[n] + 1] /\ LeasesSame
        /\ UNCHANGED <<asleep, booting, req, inst, tscache, reads, retired, hasty, restarts>>
    BY DEF Tick, leases, history, LeasesSame
  <1>4. clock' \in [Node -> Nat]
    BY <1>0, <1>3 DEF TypeOK
  <1> QED
    BY <1>2, <1>3, <1>4 DEF TypeOK, LivenessTypes, LeasesSame

\* The three ways in which a record changes outside a request.
LEMMA LivenessStepType ==
    ASSUME TypeOK, NEW n \in Node,
           Heartbeat(n) \/ \E m \in Node : Gossip(n, m) \/ IncrementElsewhere(n, m)
    PROVE /\ TypeOK' /\ LeasesSame
          /\ UNCHANGED <<clock, asleep, req, inst, tscache, reads, retired, hasty, restarts>>
  <1>1. LeasesSame /\ UNCHANGED <<clock, asleep, req, inst, tscache, reads, retired, hasty, restarts>>
    BY DEF Heartbeat, Gossip, IncrementElsewhere, leases, history, LeasesSame
  <1>2. LivenessTypes /\ booting' \in [Node -> BOOLEAN]
    <2>1. CASE Heartbeat(n)
      <3> DEFINE old == IF cache[n][n] = NoRecord THEN record[n] ELSE cache[n][n]
                 new == IF booting[n] THEN Incremented(Extended(n, old)) ELSE Extended(n, old)
      <3>1. old \in Record /\ inst.duration \in Nat /\ clock[n] \in Nat
        BY Constants DEF TypeOK
      <3> HIDE DEF old
      <3>2. new \in Record
        <4>1. Extended(n, old) \in Record
          BY <3>1, RecordExp DEF Extended
        <4> QED
          BY <4>1, RecordEpoch
      <3> HIDE DEF new
      <3>3. booting' \in [Node -> BOOLEAN]
        BY <2>1 DEF Heartbeat, TypeOK
      <3>4. CASE record[n] = old
        <4>1. Put(n, n, new)
          BY <2>1, <3>4 DEF Heartbeat, old, new
        <4> QED
          BY <3>2, <3>3, <4>1, PutType DEF LivenessTypes
      <3>5. CASE record[n] # old
        <4>1. cache' = Updated(n, n, record[n]) /\ UNCHANGED <<record, published>>
          BY <2>1, <3>5 DEF Heartbeat, old
        <4>2. record[n] \in Record
          BY DEF TypeOK
        <4> QED
          BY <3>3, <4>1, <4>2, UpdatedType DEF LivenessTypes, TypeOK
      <3> QED
        BY <3>4, <3>5
    <2>2. ASSUME NEW m \in Node, Gossip(n, m) PROVE LivenessTypes /\ booting' \in [Node -> BOOLEAN]
      <3>1. PICK v \in ToSet(published[m]) : cache' = Updated(n, m, v)
        BY <2>2 DEF Gossip
      <3>2. v \in Record
        BY DEF TypeOK, ToSet
      <3> QED
        BY <2>2, <3>1, <3>2, UpdatedType DEF LivenessTypes, Gossip, TypeOK
    <2>3. ASSUME NEW m \in Node, IncrementElsewhere(n, m)
          PROVE LivenessTypes /\ booting' \in [Node -> BOOLEAN]
      <3>1. Incremented(cache[n][m]) \in Record
        BY RecordEpoch DEF TypeOK
      <3>2. Put(n, m, Incremented(cache[n][m])) \/ Missed(n, m, cache[n][m])
        BY <2>3 DEF IncrementElsewhere
      <3> QED
        BY <2>3, <3>1, <3>2, PutType, MissedType DEF LivenessTypes, IncrementElsewhere, TypeOK
    <2> QED
      BY <2>1, <2>2, <2>3
  <1> QED
    BY <1>1, <1>2 DEF TypeOK, LivenessTypes, LeasesSame

LEMMA StatusFacts ==
    ASSUME NEW n, NEW l, NEW ts
    PROVE LET s == LeaseStatus(n, l, ts) IN
          /\ s = "VALID" => /\ ~ Unknown(n, l) /\ ~ Expired(n, l) /\ ~ Proscribed(n, l)
                            /\ ~ (Stasis(Expiration(n, l)) <= ts)
          /\ s \notin {"ERROR"} => ~ Unknown(n, l)
          /\ s = "EXPIRED" <=> ~ Unknown(n, l) /\ Expired(n, l)
  BY DEF LeaseStatus

LEMMA ReadType ==
    ASSUME TypeOK, NEW n \in Node, Read(n)
    PROVE /\ TypeOK' /\ LeasesSame /\ RecordsSame
          /\ UNCHANGED <<clock, asleep, req, inst, retired, hasty, restarts>>
          /\ \E ts \in Nat :
                /\ ts \in {clock[n], clock[n] + inst.lead} /\ CanServe(n, ts)
                /\ reads' = [reads EXCEPT ![LeaseOf(n).seq] = ts]
                /\ tscache' = [tscache EXCEPT ![n] = Latest(@, ts)]
                /\ reads[LeaseOf(n).seq] < ts
  <1>0. inst.lead \in Nat /\ clock[n] \in Nat
    BY Constants DEF TypeOK
  <1>1. LeasesSame /\ RecordsSame /\ UNCHANGED <<clock, asleep, req, inst, retired, hasty, restarts>>
    BY DEF Read, leases, liveness, LeasesSame, RecordsSame
  <1>2. PICK ts \in {clock[n], clock[n] + inst.lead} :
                /\ CanServe(n, ts)
                /\ reads' = [reads EXCEPT ![LeaseOf(n).seq] = ts]
                /\ tscache' = [tscache EXCEPT ![n] = Latest(@, ts)]
                /\ reads[LeaseOf(n).seq] < ts
    BY DEF Read
  <1>3. ts \in Nat
    BY <1>0, <1>2
  <1>4. reads' \in [1..inst.maxLeases -> Nat] /\ tscache' \in [Node -> Nat]
    BY <1>2, <1>3 DEF TypeOK, Latest
  <1> QED
    BY <1>1, <1>2, <1>3, <1>4 DEF TypeOK, LeasesSame, RecordsSame

\* What a new request is made of.
NewRequest(n, r) ==
    LET l == LeaseOf(n) IN
    /\ r \in Request /\ req[n] = Idle /\ NewReading(n)
    /\ r.prev = l /\ r.now = clock[n]
    /\ r.to # n => /\ l.holder = n /\ inst.mayTransfer
                   /\ r.epoch = 0 /\ r.exp = clock[n] + inst.duration
    /\ r.to = n => /\ ~ Unknown(n, l) /\ (l.holder # n => Expired(n, l))
                   /\ inst.kind = "epoch" => r.epoch = cache[n][n].epoch /\ r.epoch # 0
                   /\ inst.kind # "epoch" => r.epoch = 0 /\ r.exp = clock[n] + inst.duration
                   /\ l.epoch # 0 => /\ r.pc \in {"expired", "send"}
                                     /\ l.holder # n => r.pc = "expired"
                                     /\ r.pc = "expired" => r.rec = cache[n][l.holder]
LEMMA InitRequestFacts ==
    ASSUME TypeOK, NEW n \in Node, NEW to \in Node, NEW st, NEW kind \in Kind, InitRequest(n, to, st, kind)
    PROVE /\ LeasesSame /\ RecordsSame
          /\ UNCHANGED <<clock, asleep, inst, tscache, reads, retired, restarts>>
          /\ req[n] = Idle /\ NewReading(n)
          /\ \E r \in Request :
                /\ req' = [req EXCEPT ![n] = r] /\ r.to = to /\ r.prev = LeaseOf(n) /\ r.now = clock[n]
                /\ kind = "epoch" => r.epoch = cache[n][to].epoch /\ r.epoch # 0
                /\ kind # "epoch" => r.epoch = 0 /\ r.exp = clock[n] + inst.duration
                /\ LeaseOf(n).epoch # 0 => /\ r.pc = IF st = "EXPIRED" THEN "expired" ELSE "send"
                                           /\ r.pc = "expired" => r.rec = cache[n][LeaseOf(n).holder]
  <1>0. inst.duration \in Nat /\ clock[n] \in Nat /\ LeaseOf(n) \in Lease /\ LeaseOf(n).holder \in Node
    BY Constants, LogTypes DEF TypeOK, Lease
  <1>1. cache[n][to] \in Record /\ cache[n][LeaseOf(n).holder] \in Record /\ NoRecord \in Record
    BY <1>0 DEF TypeOK, Record, NoRecord
  <1> DEFINE l == LeaseOf(n)
             own == cache[n][to]
             pc == IF l.epoch = 0 /\ l.holder = to /\ kind = "epoch" /\ ~ LongEnough(own, l)
                   THEN "promote"
                   ELSE IF l.epoch # 0 /\ st = "EXPIRED" THEN "expired" ELSE "send"
             rc == IF pc = "send" THEN NoRecord ELSE cache[n][l.holder]
             e == IF kind = "epoch" THEN own.epoch ELSE 0
             x == IF kind = "epoch" THEN 0 ELSE clock[n] + inst.duration
             r == [pc |-> pc, to |-> to, prev |-> l, now |-> clock[n], rec |-> rc, epoch |-> e, exp |-> x]
  <1>2. /\ req' = [req EXCEPT ![n] = r] /\ req[n] = Idle /\ NewReading(n)
        /\ kind = "epoch" => own.epoch # 0
        /\ UNCHANGED <<clock, asleep, liveness, leases, inst, tscache, reads, retired, restarts>>
    BY DEF InitRequest
  <1>3. pc \in {"promote", "expired", "send"} /\ rc \in Record /\ e \in Nat /\ x \in Nat
    BY <1>0, <1>1 DEF Record
  <1>4. l.epoch # 0 => pc = (IF st = "EXPIRED" THEN "expired" ELSE "send")
    OBVIOUS
  <1>5. pc = "expired" => rc = cache[n][l.holder]
    OBVIOUS
  <1>6. kind = "epoch" => e = own.epoch
    OBVIOUS
  <1>7. kind # "epoch" => e = 0 /\ x = clock[n] + inst.duration
    OBVIOUS
  <1> HIDE DEF pc, rc, e, x
  <1>8. r \in Request
    BY <1>0, <1>3 DEF Request
  <1> QED
    BY <1>2, <1>4, <1>5, <1>6, <1>7, <1>8 DEF liveness, leases, LeasesSame, RecordsSame

LEMMA InitRequestHasty ==
    ASSUME TypeOK, NEW n \in Node, NEW to \in Node, NEW st, NEW kind \in Kind, InitRequest(n, to, st, kind)
    PROVE /\ hasty \subseteq hasty' /\ hasty' \subseteq Node \X Nat
          /\ kind = "epoch" /\ booting[n] => <<n, clock[n]>> \in hasty'
          /\ kind # "epoch" \/ ~ booting[n] => hasty' = hasty
  <1>1. hasty' = IF kind = "epoch" /\ booting[n] THEN hasty \cup {<<n, clock[n]>>} ELSE hasty
    BY DEF InitRequest
  <1>2. hasty \subseteq Node \X Nat /\ <<n, clock[n]>> \in Node \X Nat
    BY DEF TypeOK
  <1> QED
    BY <1>1, <1>2

LEMMA RequestFacts ==
    ASSUME TypeOK, NEW n \in Node, RequestLease(n) \/ TransferLease(n)
    PROVE /\ TypeOK' /\ LeasesSame /\ RecordsSame
          /\ UNCHANGED <<clock, asleep, inst, tscache, reads, retired, restarts>>
          /\ hasty \subseteq hasty' /\ (inst.kind = "expiration" \/ ~ booting[n] => hasty' = hasty)
          /\ inst.kind = "epoch" /\ ~ inst.mayTransfer /\ booting[n] => <<n, clock[n]>> \in hasty'
          /\ \E r \in Request : req' = [req EXCEPT ![n] = r] /\ NewRequest(n, r)
  <1>0. inst.kind \in Kind
    BY Constants DEF TypeOK
  <1>1. /\ LeasesSame /\ RecordsSame
        /\ UNCHANGED <<clock, asleep, inst, tscache, reads, retired, restarts>>
        /\ \E r \in Request : req' = [req EXCEPT ![n] = r] /\ NewRequest(n, r)
    <2>1. CASE RequestLease(n)
      <3>1. PICK ts \in {clock[n], clock[n] + inst.lead} :
                LET l == LeaseOf(n)
                    st == LeaseStatus(n, l, ts)
                IN  /\ \/ st = "EXPIRED"
                       \/ l.holder = n /\ st \in {"UNUSABLE", "PROSCRIBED"}
                       \/ l.holder = n /\ st = "VALID" /\ (l.epoch = 0 \/ WrongType(l))
                    /\ InitRequest(n, n, st, inst.kind)
        BY <2>1 DEF RequestLease
      <3> DEFINE st == LeaseStatus(n, LeaseOf(n), ts)
      <3>2. /\ st # "ERROR" /\ (LeaseOf(n).holder # n => st = "EXPIRED")
            /\ InitRequest(n, n, st, inst.kind)
        BY <3>1
      <3>3. ~ Unknown(n, LeaseOf(n)) /\ (LeaseOf(n).holder # n => Expired(n, LeaseOf(n)))
        BY <3>2, StatusFacts
      <3> HIDE DEF st
      <3> QED
        BY <1>0, <3>2, <3>3, InitRequestFacts DEF NewRequest
    <2>2. CASE TransferLease(n)
      <3>1. PICK to \in Node \ {n} :
                InitRequest(n, to, LeaseStatus(n, LeaseOf(n), clock[n]), "expiration")
        BY <2>2 DEF TransferLease
      <3>2. "expiration" \in Kind /\ LeaseOf(n).holder = n /\ inst.mayTransfer
        BY <2>2 DEF TransferLease, Kind
      <3> QED
        BY <3>1, <3>2, InitRequestFacts DEF NewRequest
    <2> QED
      BY <2>1, <2>2
  <1>2. /\ hasty \subseteq hasty' /\ hasty' \subseteq Node \X Nat
        /\ inst.kind = "expiration" \/ ~ booting[n] => hasty' = hasty
        /\ inst.kind = "epoch" /\ ~ inst.mayTransfer /\ booting[n] => <<n, clock[n]>> \in hasty'
    BY <1>0, InitRequestHasty DEF RequestLease, TransferLease, Kind
  <1> QED
    BY <1>1, <1>2 DEF TypeOK, LeasesSame, RecordsSame

LEMMA GiveUpType ==
    ASSUME TypeOK, NEW n \in Node, GiveUp(n)
    PROVE req' \in [Node -> Request \cup {Idle}] /\ req'[n] = Idle /\ \A m \in Node \ {n} : req'[m] = req[m]
  BY DEF TypeOK, GiveUp
\* A request that goes on keeps what it is for.
SameRequest(r, q) ==
    q.to = r.to /\ q.prev = r.prev /\ q.now = r.now /\ q.epoch = r.epoch /\ q.exp = r.exp
LEMMA RequestPc ==
    ASSUME NEW r \in Request, NEW v \in Record, NEW p \in {"promote", "expired", "send"}
    PROVE /\ [r EXCEPT !.pc = p, !.rec = v] \in Request
          /\ SameRequest(r, [r EXCEPT !.pc = p, !.rec = v])
          /\ [r EXCEPT !.pc = p, !.rec = v].pc = p /\ [r EXCEPT !.pc = p, !.rec = v].rec = v
  <1> DEFINE q == [r EXCEPT !.pc = p, !.rec = v]
  <1>1. q.to = r.to /\ q.prev = r.prev /\ q.now = r.now /\ q.epoch = r.epoch /\ q.exp = r.exp
    BY DEF Request
  <1>2. q.pc = p /\ q.rec = v
    BY DEF Request
  <1>3. q \in Request
    BY DEF Request
  <1> HIDE DEF q
  <1>4. q \in Request /\ SameRequest(r, q) /\ q.pc = p /\ q.rec = v
    BY <1>1, <1>2, <1>3 DEF SameRequest
  <1> QED
    BY <1>4, Zenon DEF q
LEMMA ProceedFacts ==
    ASSUME TypeOK, NEW n \in Node, req[n] # Idle, Proceed(n)
    PROVE /\ req' \in [Node -> Request \cup {Idle}] /\ \A m \in Node \ {n} : req'[m] = req[m]
          /\ req'[n] \in Request /\ SameRequest(req[n], req'[n]) /\ req'[n].pc = "send"
  <1>1. req[n] \in Request
    BY DEF TypeOK
  <1>2. NoRecord \in Record
    BY DEF NoRecord, Record
  <1>3. req'[n] = [req[n] EXCEPT !.pc = "send", !.rec = NoRecord]
    BY DEF TypeOK, Proceed
  <1>4. req'[n] \in Request /\ SameRequest(req[n], req'[n]) /\ req'[n].pc = "send"
    <2>1. "send" \in {"promote", "expired", "send"}
      OBVIOUS
    <2> DEFINE q == [req[n] EXCEPT !.pc = "send", !.rec = NoRecord]
    <2>2. q \in Request /\ SameRequest(req[n], q) /\ q.pc = "send"
      BY <1>1, <1>2, <2>1, RequestPc, Zenon
    <2> QED
      BY <1>3, <2>2, Zenon
  <1>5. \A m \in Node \ {n} : req'[m] = req[m]
    BY DEF TypeOK, Proceed
  <1>6. req' = [m \in Node |-> req'[m]]
    BY DEF TypeOK, Proceed
  <1>7. \A m \in Node : req'[m] \in Request \cup {Idle}
    BY <1>4, <1>5 DEF TypeOK
  <1> QED
    BY <1>4, <1>5, <1>6, <1>7

\* Other requests are left alone, and one that goes on is for the same lease.
GoesOn(n) ==
    /\ \A m \in Node \ {n} : req'[m] = req[m]
    /\ \/ req'[n] = Idle
       \/ req[n] # Idle /\ req'[n] \in Request /\ SameRequest(req[n], req'[n])
LEMMA RequestStepTypes ==
    ASSUME TypeOK, NEW n \in Node, req[n] # Idle,
           GiveUp(n) \/ Proceed(n) \/ \E v \in Record : req' = [req EXCEPT ![n].rec = v]
    PROVE req' \in [Node -> Request \cup {Idle}] /\ GoesOn(n)
  <1>1. CASE GiveUp(n)
    BY <1>1, GiveUpType DEF GoesOn
  <1>2. CASE Proceed(n)
    BY <1>2, ProceedFacts DEF GoesOn
  <1>3. ASSUME NEW v \in Record, req' = [req EXCEPT ![n].rec = v]
        PROVE req' \in [Node -> Request \cup {Idle}] /\ GoesOn(n)
    <2>1. req[n] \in Request
      BY DEF TypeOK
    <2> DEFINE q == [req[n] EXCEPT !.rec = v]
    <2>2. q \in Request
      BY <2>1 DEF Request
    <2>3. SameRequest(req[n], q)
      BY <2>1 DEF SameRequest, Request
    <2>4. req'[n] = q
      BY <1>3 DEF TypeOK
    <2>5. \A m \in Node \ {n} : req'[m] = req[m]
      BY <1>3 DEF TypeOK
    <2>6. req' = [m \in Node |-> req'[m]]
      BY <1>3 DEF TypeOK
    <2> HIDE DEF q
    <2>7. \A m \in Node : req'[m] \in Request \cup {Idle}
      BY <2>2, <2>4, <2>5 DEF TypeOK
    <2>8. req' \in [Node -> Request \cup {Idle}]
      BY <2>6, <2>7
    <2> QED
      BY <2>2, <2>3, <2>4, <2>5, <2>8 DEF GoesOn
  <1> QED
    BY <1>1, <1>2, <1>3

LEMMA HeartbeatForType ==
    ASSUME TypeOK, NEW n \in Node, NEW old \in Record, HeartbeatFor(n, old)
    PROVE LivenessTypes
  <1>1. Extended(n, old) \in Record
    <2>0. clock[n] \in Nat /\ inst.duration \in Nat
      BY Constants DEF TypeOK
    <2>1. clock[n] + inst.duration \in Nat
      BY <2>0
    <2> QED
      BY <2>1, RecordExp DEF Extended
  <1>2. Put(n, n, Extended(n, old)) \/ Missed(n, n, old)
    BY DEF HeartbeatFor
  <1> QED
    BY <1>1, <1>2, PutType, MissedType DEF LivenessTypes

LEMMA ProgressFacts ==
    ASSUME TypeOK, NEW n \in Node, Cancel(n) \/ Promote(n) \/ Revive(n) \/ Invalidate(n)
    PROVE /\ TypeOK' /\ LeasesSame /\ GoesOn(n) /\ req[n] # Idle
          /\ UNCHANGED <<clock, asleep, booting, inst, tscache, reads, retired, hasty, restarts>>
  <1>0. req[n] \in Request \cup {Idle}
    BY DEF TypeOK
  <1>1. req[n] # Idle
    BY DEF Cancel, Promote, Revive, Invalidate, Idle
  <1>2. req[n].rec \in Record /\ req[n].prev \in Lease /\ req[n].prev.holder \in Node
    BY <1>0, <1>1, IdleIsNoRequest DEF Lease
  <1>3. LeasesSame /\ UNCHANGED <<clock, asleep, booting, inst, tscache, reads, retired, hasty, restarts>>
    BY DEF Cancel, Promote, Revive, Invalidate, HeartbeatFor, LeasesSame, leases, liveness, history
  <1>4. LivenessTypes
    <2>1. CASE Cancel(n)
      BY <2>1 DEF Cancel, LivenessTypes, liveness, TypeOK
    <2>2. CASE Promote(n) \/ Revive(n)
      BY <1>2, <2>2, HeartbeatForType DEF Promote, Revive
    <2>3. CASE Invalidate(n)
      <3>1. \/ Put(n, req[n].prev.holder, Incremented(req[n].rec))
            \/ Missed(n, req[n].prev.holder, req[n].rec)
            \/ UNCHANGED <<record, published, cache>>
        BY <2>3 DEF Invalidate
      <3>2. Incremented(req[n].rec) \in Record
        BY <1>2, RecordEpoch
      <3>3. CASE UNCHANGED <<record, published, cache>>
        BY <3>3 DEF TypeOK, LivenessTypes
      <3> QED
        BY <1>2, <3>1, <3>2, <3>3, PutType, MissedType DEF LivenessTypes
    <2> QED
      BY <2>1, <2>2, <2>3
  <1>5. GiveUp(n) \/ Proceed(n) \/ \E v \in Record : req' = [req EXCEPT ![n].rec = v]
    <2>1. cache'[n][n] \in Record
      BY <1>4 DEF LivenessTypes
    <2>2. CASE Promote(n)
      BY <2>1, <2>2 DEF Promote
    <2> QED
      BY <2>2 DEF Cancel, Revive, Invalidate, AfterMissed
  <1>6. req' \in [Node -> Request \cup {Idle}] /\ GoesOn(n)
    BY <1>1, <1>5, RequestStepTypes
  <1> QED
    BY <1>1, <1>3, <1>4, <1>6 DEF TypeOK, LivenessTypes, LeasesSame

LEMMA SequencedFacts ==
    ASSUME NEW l \in Lease, NEW k \in Lease
    PROVE /\ Sequenced(l, k) \in Lease
          /\ Sequenced(l, k).seq = IF Equivalent(l, k) THEN l.seq ELSE l.seq + 1
          /\ Equivalent(l, Sequenced(l, k)) <=> Equivalent(l, k)
          /\ Sequenced(l, k).holder = k.holder /\ Sequenced(l, k).start = k.start
          /\ Sequenced(l, k).prop = k.prop /\ Sequenced(l, k).sum = k.sum
          /\ Sequenced(l, k).epoch = k.epoch /\ Sequenced(l, k).exp = k.exp
  <1> DEFINE s == IF Equivalent(l, k) THEN l.seq ELSE l.seq + 1
             w == [k EXCEPT !.seq = s]
  <1>1. s \in Nat
    BY DEF Lease
  <1> HIDE DEF s
  <1>2. w \in Lease /\ w.seq = s
    BY <1>1 DEF Lease
  <1>3. /\ w.holder = k.holder /\ w.start = k.start /\ w.prop = k.prop /\ w.sum = k.sum
        /\ w.epoch = k.epoch /\ w.exp = k.exp
    BY DEF Lease
  <1>4. w = Sequenced(l, k)
    BY DEF Sequenced, s
  <1> HIDE DEF w
  <1>5. Equivalent(l, w) <=> Equivalent(l, k)
    BY <1>3 DEF Equivalent
  <1> QED
    BY <1>2, <1>3, <1>4, <1>5 DEF s

\* What SendRequest and SendTransfer hand to Raft.
NewRequestCommand(n, c) ==
    LET l == LeaseOf(n)
        r == req[n]
        k == c.lease
    IN  /\ c \in Command /\ c.kind = "request" /\ c.prev = r.prev.seq /\ c.prop = l.prop
        /\ l.seq = r.prev.seq /\ l.prop = r.prev.prop
        /\ k.holder = n /\ k.prop = r.now /\ k.epoch = r.epoch /\ k.sum = k.start
        /\ k.seq = IF Equivalent(l, k) THEN l.seq ELSE l.seq + 1
        /\ l.holder = n => /\ k.start = ExtensionStart(n, l, r.now) /\ l.start <= k.start
                           /\ r.epoch = 0 => k.exp = Latest(r.exp, l.exp)
        /\ l.holder # n => /\ k.start = AcquisitionStart(l, r.now)
                           /\ l.epoch = 0 => l.exp <= k.start
                           /\ k.exp = r.exp
        /\ r.epoch = 0 => k.start < k.exp
NewTransferCommand(n, c) ==
    LET l == LeaseOf(n)
        r == req[n]
        k == c.lease
    IN  /\ c \in Command /\ c.kind = "transfer" /\ c.prev = r.prev.seq
        /\ k.holder = r.to /\ k.prop = r.now /\ k.epoch = 0 /\ k.exp = r.exp
        /\ k.start = Latest(r.now, clock[n]) /\ k.start < k.exp
        /\ k.sum = Latest(k.start, tscache[n])
        /\ k.seq = IF Equivalent(l, k) THEN l.seq ELSE l.seq + 1

LEMMA SendRequestFacts ==
    ASSUME TypeOK, NEW n \in Node, SendRequest(n)
    PROVE /\ TypeOK' /\ RecordsSame
          /\ req[n] # Idle /\ req[n].pc = "send" /\ req[n].to = n
          /\ req'[n] = Idle /\ \A m \in Node \ {n} : req'[m] = req[m]
          /\ UNCHANGED <<log, applied, minProposed, clock, asleep, inst, tscache, reads, retired, restarts>>
          /\ ((LeaseOf(n).epoch = 0) <=> (req[n].epoch = 0)) => hasty' = hasty
          /\ flying' = flying \/ \E c \in Command : NewRequestCommand(n, c) /\ flying' = flying \cup {c}
  <1> DEFINE l == LeaseOf(n)
             r == req[n]
             start == IF l.holder = n THEN ExtensionStart(n, l, r.now) ELSE AcquisitionStart(l, r.now)
             exp == IF l.holder = n /\ r.epoch = 0 THEN Latest(r.exp, l.exp) ELSE r.exp
             k == [holder |-> n, seq |-> 0, start |-> start, prop |-> r.now,
                   sum |-> start, epoch |-> r.epoch, exp |-> exp]
             rejected == \/ l.seq # r.prev.seq \/ l.prop # r.prev.prop
                         \/ l.holder = n /\ start < l.start
                         \/ ~ (l.holder = n) /\ l.epoch = 0 /\ start < l.exp
                         \/ r.epoch = 0 /\ exp <= start
  <1>1. r \in Request \cup {Idle} /\ r.pc = "send" /\ r.to = n /\ r # Idle
    BY DEF SendRequest, TypeOK, Idle
  <1>2. /\ r.now \in Nat /\ r.exp \in Nat /\ r.epoch \in Nat /\ r.prev \in Lease
        /\ l \in Lease /\ l.start \in Nat /\ l.exp \in Nat /\ l.seq \in Nat /\ l.prop \in Nat
        /\ r.prev.seq \in Nat /\ r.prev.prop \in Nat /\ minProposed[n] \in Nat
    BY <1>1, IdleIsNoRequest, LogTypes DEF Lease, TypeOK
  <1>3. start \in Nat /\ exp \in Nat
    BY <1>2 DEF ExtensionStart, AcquisitionStart, Latest, Earliest
  <1>4. /\ GiveUp(n)
        /\ UNCHANGED <<clock, asleep, liveness, log, applied, minProposed, inst, tscache, reads, retired, restarts>>
    BY DEF SendRequest
  <1>h. hasty' = IF l.holder = n /\ ChangesType(n, l, r.epoch) THEN hasty \cup {<<n, r.now>>} ELSE hasty
    BY DEF SendRequest
  <1>g. hasty' \subseteq Node \X Nat /\ (((l.epoch = 0) <=> (r.epoch = 0)) => hasty' = hasty)
    <2>1. <<n, r.now>> \in Node \X Nat /\ hasty \subseteq Node \X Nat /\ record[n].epoch \in Nat
      BY <1>2 DEF TypeOK, Record
    <2>2. hasty' \subseteq Node \X Nat
      BY <1>h, <2>1
    <2>3. ASSUME (l.epoch = 0) <=> (r.epoch = 0) PROVE hasty' = hasty
      <3>1. CASE l.epoch # 0
        BY <1>h, <2>3, <3>1 DEF ChangesType
      <3>2. CASE l.epoch = 0
        BY <1>h, <2>3, <3>2 DEF ChangesType
      <3> QED
        BY <3>1, <3>2
    <2> QED
      BY <2>2, <2>3
  <1>5. req' \in [Node -> Request \cup {Idle}] /\ req'[n] = Idle /\ \A m \in Node \ {n} : req'[m] = req[m]
    BY <1>4, GiveUpType
  <1>6. IF rejected THEN UNCHANGED flying ELSE Propose(n, "request", l, k)
    BY DEF SendRequest
  <1>7. flying' = flying \/ \E c \in Command : NewRequestCommand(n, c) /\ flying' = flying \cup {c}
    <2>1. CASE rejected
      BY <1>6, <2>1
    <2>2. CASE ~ rejected
      <3>1. k \in Lease
        BY <1>2, <1>3 DEF Lease
      <3>2. /\ l.seq = r.prev.seq /\ l.prop = r.prev.prop
            /\ l.holder = n => l.start <= start
            /\ l.holder # n /\ l.epoch = 0 => l.exp <= start
            /\ r.epoch = 0 => start < exp
        BY <1>2, <1>3, <2>2
      <3>3. /\ l.holder = n => start = ExtensionStart(n, l, r.now)
            /\ l.holder = n /\ r.epoch = 0 => exp = Latest(r.exp, l.exp)
            /\ l.holder # n => start = AcquisitionStart(l, r.now) /\ exp = r.exp
        OBVIOUS
      <3> DEFINE w == Sequenced(l, k)
                 c == [kind |-> "request", lease |-> w, prev |-> r.prev.seq, prop |-> l.prop]
      <3>4. flying' = flying \cup {c}
        BY <1>6, <2>2 DEF Propose
      <3> HIDE DEF start, exp
      <3>5. /\ w \in Lease /\ w.seq = (IF Equivalent(l, w) THEN l.seq ELSE l.seq + 1)
            /\ w.holder = n /\ w.start = start /\ w.prop = r.now /\ w.sum = start
            /\ w.epoch = r.epoch /\ w.exp = exp
        BY <1>2, <3>1, SequencedFacts
      <3> HIDE DEF w, k
      <3>6. c \in Command /\ c.lease = w /\ c.kind = "request" /\ c.prev = r.prev.seq /\ c.prop = l.prop
        BY <1>2, <3>5 DEF Command
      <3> HIDE DEF c
      <3>7. NewRequestCommand(n, c)
        BY <1>2, <3>2, <3>3, <3>5, <3>6 DEF NewRequestCommand
      <3> QED
        BY <3>4, <3>6, <3>7
    <2> QED
      BY <2>1, <2>2
  <1>8. flying' \subseteq Command
    BY <1>7 DEF TypeOK
  <1> QED
    BY <1>1, <1>4, <1>g, <1>5, <1>7, <1>8 DEF TypeOK, RecordsSame, liveness

LEMMA SendTransferFacts ==
    ASSUME TypeOK, NEW n \in Node, SendTransfer(n)
    PROVE /\ TypeOK' /\ RecordsSame /\ NewReading(n)
          /\ req[n] # Idle /\ req[n].pc = "send" /\ req[n].to # n
          /\ req'[n] = Idle /\ \A m \in Node \ {n} : req'[m] = req[m]
          /\ minProposed' = [minProposed EXCEPT ![n] = Revoked(n, req[n].prev.seq)]
          /\ retired' = retired \cup {req[n].prev.seq}
          /\ UNCHANGED <<log, applied, clock, asleep, inst, tscache, reads, hasty, restarts>>
          /\ flying' = flying \/ \E c \in Command : NewTransferCommand(n, c) /\ flying' = flying \cup {c}
  <1> DEFINE l == LeaseOf(n)
             r == req[n]
             start == Latest(r.now, clock[n])
             sum == Latest(start, ReadSummary(n))
             k == [holder |-> r.to, seq |-> 0, start |-> start, prop |-> r.now,
                   sum |-> sum, epoch |-> 0, exp |-> r.exp]
  <1>1. r \in Request \cup {Idle} /\ r.pc = "send" /\ r.to # n /\ r # Idle
    BY DEF SendTransfer, TypeOK, Idle
  <1>2. /\ r.now \in Nat /\ r.exp \in Nat /\ r.to \in Node /\ r.prev \in Lease /\ r.prev.seq \in Nat
        /\ l \in Lease /\ l.seq \in Nat /\ l.prop \in Nat
        /\ minProposed[n] \in Nat /\ clock[n] \in Nat /\ tscache[n] \in Nat
    BY <1>1, IdleIsNoRequest, LogTypes DEF Lease, TypeOK
  <1>3. start \in Nat /\ sum \in Nat /\ Revoked(n, r.prev.seq) \in Nat
    BY <1>2 DEF Latest, ReadSummary, Revoked
  <1>4. /\ GiveUp(n) /\ UNCHANGED <<clock, asleep, liveness, log, applied, inst, tscache, reads, hasty, restarts>>
        /\ NewReading(n) /\ minProposed' = [minProposed EXCEPT ![n] = Revoked(n, r.prev.seq)]
        /\ retired' = retired \cup {r.prev.seq}
        /\ IF r.exp <= start THEN UNCHANGED flying ELSE Propose(n, "transfer", l, k)
    BY DEF SendTransfer
  <1>5. req' \in [Node -> Request \cup {Idle}] /\ req'[n] = Idle /\ \A m \in Node \ {n} : req'[m] = req[m]
    BY <1>4, GiveUpType
  <1>7. flying' = flying \/ \E c \in Command : NewTransferCommand(n, c) /\ flying' = flying \cup {c}
    <2>1. CASE r.exp <= start
      BY <1>4, <2>1
    <2>2. CASE ~ (r.exp <= start)
      <3>1. k \in Lease /\ start < r.exp
        BY <1>2, <1>3, <2>2 DEF Lease
      <3> DEFINE w == Sequenced(l, k)
                 c == [kind |-> "transfer", lease |-> w, prev |-> r.prev.seq, prop |-> l.prop]
      <3>4. flying' = flying \cup {c}
        BY <1>4, <2>2 DEF Propose
      <3>a. start = Latest(r.now, clock[n]) /\ sum = Latest(start, tscache[n])
        BY DEF ReadSummary
      <3> HIDE DEF start, sum
      <3>5. /\ w \in Lease /\ w.seq = (IF Equivalent(l, w) THEN l.seq ELSE l.seq + 1)
            /\ w.holder = r.to /\ w.start = start /\ w.prop = r.now /\ w.sum = sum
            /\ w.epoch = 0 /\ w.exp = r.exp
        BY <1>2, <3>1, SequencedFacts
      <3> HIDE DEF w, k
      <3>6. c \in Command /\ c.lease = w /\ c.kind = "transfer" /\ c.prev = r.prev.seq /\ c.prop = l.prop
        BY <1>2, <3>5 DEF Command
      <3> HIDE DEF c
      <3>7. NewTransferCommand(n, c)
        BY <1>2, <3>1, <3>a, <3>5, <3>6 DEF NewTransferCommand
      <3> QED
        BY <3>4, <3>6, <3>7
    <2> QED
      BY <2>1, <2>2
  <1>8. flying' \subseteq Command
    BY <1>7 DEF TypeOK
  <1>9. minProposed' \in [Node -> Nat] /\ retired' \subseteq Nat
    BY <1>2, <1>3, <1>4 DEF TypeOK
  <1> QED
    BY <1>1, <1>4, <1>5, <1>7, <1>8, <1>9 DEF TypeOK, RecordsSame, liveness

Appended(l) ==
    /\ Len(log') = Len(log) + 1 /\ log'[Len(log) + 1] = l
    /\ \A i \in 1..Len(log) : log'[i] = log[i]
LEMMA CommitFacts ==
    ASSUME TypeOK, NEW c \in flying, Commit(c)
    PROVE /\ TypeOK' /\ RecordsSame /\ flying' = flying \ {c} /\ c \in Command
          /\ UNCHANGED <<applied, minProposed, clock, asleep, req, inst, tscache, reads, retired, hasty, restarts>>
          /\ log' = log \/ (~ Mismatch(Final, c) /\ Appended(c.lease))
  <1>1. c \in Command /\ c.lease \in Lease
    BY DEF TypeOK, Command
  <1>2. /\ flying' = flying \ {c} /\ Len(log) < inst.maxLeases
        /\ UNCHANGED <<clock, asleep, liveness, applied, minProposed, req, history>>
        /\ log' = IF Mismatch(Final, c) THEN log ELSE Append(log, c.lease)
    BY LogTypes DEF Commit
  <1>3. inst.maxLeases \in Nat /\ Len(log) \in Nat /\ log \in Seq(Lease)
    BY Constants, LogTypes DEF TypeOK
  <1>4. CASE Mismatch(Final, c)
    BY <1>1, <1>2, <1>4 DEF TypeOK, RecordsSame, liveness, history
  <1>5. CASE ~ Mismatch(Final, c)
    <2>1. log' = Append(log, c.lease)
      BY <1>2, <1>5
    <2>2. log' \in Seq(Lease) /\ Appended(c.lease)
      BY <1>1, <1>3, <2>1, AppendProperties DEF Appended
    <2>3. Len(log') <= inst.maxLeases /\ \A n \in Node : applied[n] \in 1..Len(log')
      BY <1>2, <1>3, <2>2 DEF Appended, TypeOK
    <2> QED
      BY <1>1, <1>2, <1>5, <2>2, <2>3 DEF TypeOK, RecordsSame, liveness, history
  <1> QED
    BY <1>4, <1>5

LEMMA DropFacts ==
    ASSUME TypeOK, NEW c \in flying, Drop(c)
    PROVE /\ TypeOK' /\ RecordsSame /\ flying' = flying \ {c}
          /\ UNCHANGED <<log, applied, minProposed, clock, asleep, req, inst, tscache, reads, retired, hasty, restarts>>
  BY DEF Drop, TypeOK, RecordsSame, liveness, history

Takes(n) == log[applied[n] + 1].holder = n /\ log[applied[n] + 1].seq # LeaseOf(n).seq
LEMMA ApplyFacts ==
    ASSUME TypeOK, NEW n \in Node, Apply(n)
    PROVE /\ TypeOK' /\ RecordsSame
          /\ applied[n] < Len(log) /\ applied' = [applied EXCEPT ![n] = applied[n] + 1]
          /\ applied[n] + 1 \in 1..Len(log) /\ LeaseOf(n)' = log[applied[n] + 1]
          /\ \A m \in Node \ {n} : LeaseOf(m)' = LeaseOf(m)
          /\ tscache' = [tscache EXCEPT ![n] =
                IF Takes(n) THEN Latest(@, log[applied[n] + 1].sum) ELSE @]
          /\ clock' = [clock EXCEPT ![n] =
                IF Takes(n) THEN Latest(@, log[applied[n] + 1].start) ELSE @]
          /\ UNCHANGED <<log, minProposed, flying, asleep, req, inst, reads, retired, hasty, restarts>>
  <1>1. /\ applied[n] < Len(log) /\ applied' = [applied EXCEPT ![n] = applied[n] + 1]
        /\ UNCHANGED <<asleep, liveness, log, minProposed, req, flying, inst, reads, retired, hasty, restarts>>
    BY DEF Apply
  <1>2. /\ tscache' = [tscache EXCEPT ![n] =
              IF Takes(n) THEN Latest(@, log[applied[n] + 1].sum) ELSE @]
        /\ clock' = [clock EXCEPT ![n] =
              IF Takes(n) THEN Latest(@, log[applied[n] + 1].start) ELSE @]
    BY DEF Apply, Takes
  <1>a. applied[n] \in Nat /\ Len(log) \in Nat /\ applied \in [Node -> Nat]
    BY LogTypes DEF TypeOK
  <1>3. applied[n] + 1 \in 1..Len(log) /\ applied \in [Node -> Nat]
    BY <1>1, <1>a
  <1>4. log[applied[n] + 1].sum \in Nat /\ log[applied[n] + 1].start \in Nat
    BY <1>3, LogTypes DEF Lease
  <1>5. tscache' \in [Node -> Nat] /\ clock' \in [Node -> Nat]
    BY <1>2, <1>4 DEF TypeOK, Latest
  <1>6. applied' \in [Node -> Nat] /\ \A m \in Node : applied'[m] \in 1..Len(log)
    BY <1>1, <1>3 DEF TypeOK
  <1>7. LeaseOf(n)' = log[applied[n] + 1] /\ \A m \in Node \ {n} : LeaseOf(m)' = LeaseOf(m)
    BY <1>1, <1>3 DEF LeaseOf
  <1> QED
    BY <1>1, <1>2, <1>3, <1>5, <1>6, <1>7 DEF TypeOK, RecordsSame, liveness

LEMMA CrashFacts ==
    ASSUME TypeOK, NEW n \in Node, Crash(n)
    PROVE /\ TypeOK' /\ LeasesSame /\ inst.maxRestarts # 0
          /\ asleep' = [asleep EXCEPT ![n] = clock[n] + MaxOffset + 1]
          /\ cache' = [cache EXCEPT ![n] = [m \in Node |-> NoRecord]]
          /\ tscache' = [tscache EXCEPT ![n] = 0]
          /\ req'[n] = Idle /\ \A m \in Node \ {n} : req'[m] = req[m]
          /\ retired' = retired \cup {s \in {LeaseOf(n).seq} : LeaseOf(n).holder = n}
          /\ UNCHANGED <<clock, record, published, booting, inst, reads, hasty>>
  <1>1. /\ restarts < inst.maxRestarts /\ restarts' = restarts + 1
        /\ asleep' = [asleep EXCEPT ![n] = clock[n] + MaxOffset + 1]
        /\ cache' = [cache EXCEPT ![n] = [m \in Node |-> NoRecord]]
        /\ tscache' = [tscache EXCEPT ![n] = 0]
        /\ GiveUp(n)
        /\ retired' = retired \cup {s \in {LeaseOf(n).seq} : LeaseOf(n).holder = n}
        /\ LeasesSame /\ UNCHANGED <<clock, record, published, booting, inst, reads, hasty>>
    BY DEF Crash, Wake, leases, LeasesSame
  <1>2. /\ MaxOffset \in Nat /\ clock[n] \in Nat /\ NoRecord \in Record /\ LeaseOf(n).seq \in Nat
        /\ restarts \in Nat /\ inst.maxRestarts \in Nat
    BY Constants, LogTypes DEF TypeOK, NoRecord, Record, Lease
  <1>3. asleep' \in [Node -> Nat] /\ cache' \in [Node -> [Node -> Record]] /\ tscache' \in [Node -> Nat]
    <2>1. [m \in Node |-> NoRecord] \in [Node -> Record] /\ clock[n] + MaxOffset + 1 \in Nat
      BY <1>2
    <2>2. asleep \in [Node -> Nat] /\ cache \in [Node -> [Node -> Record]] /\ tscache \in [Node -> Nat]
      BY DEF TypeOK
    <2>3. cache' \in [Node -> [Node -> Record]]
      BY <1>1, <2>1, <2>2
    <2>4. asleep' \in [Node -> Nat] /\ tscache' \in [Node -> Nat]
      BY <1>1, <2>1, <2>2
    <2> QED
      BY <2>3, <2>4
  <1>4. req' \in [Node -> Request \cup {Idle}] /\ req'[n] = Idle /\ \A m \in Node \ {n} : req'[m] = req[m]
    BY <1>1, GiveUpType
  <1>a. restarts' \in Nat /\ inst.maxRestarts # 0
    BY <1>1, <1>2
  <1>5. retired' \subseteq Nat /\ restarts' \in Nat /\ inst.maxRestarts # 0
    BY <1>1, <1>2, <1>a DEF TypeOK
  <1> QED
    BY <1>1, <1>3, <1>4, <1>5 DEF TypeOK, LeasesSame

LEMMA StartFacts ==
    ASSUME TypeOK, NEW n \in Node, Start(n)
    PROVE /\ TypeOK' /\ NewReading(n) /\ asleep[n] # 0 /\ asleep[n] <= clock[n]
          /\ asleep' = [asleep EXCEPT ![n] = 0] /\ booting' = [booting EXCEPT ![n] = TRUE]
          /\ minProposed' = [minProposed EXCEPT ![n] = clock[n]]
          /\ tscache' = [tscache EXCEPT ![n] = clock[n]]
          /\ UNCHANGED <<clock, record, published, cache, log, applied, flying, req, inst, reads, retired, hasty, restarts>>
  BY DEF Start, TypeOK

LEMMA InitType == Init => TypeOK
  <1> SUFFICES ASSUME Init PROVE TypeOK
    OBVIOUS
  <1>0. inst \in Instances
    BY DEF Init
  <1>1. /\ inst.duration \in Nat /\ inst.firstTime \in Nat /\ inst.maxLeases \in Nat \ {0} /\ First \in Node
    BY <1>0, Constants
  <1>2. record \in [Node -> Record]
    BY <1>1 DEF Init, Record
  <1>3. published \in [Node -> Seq(Record)] /\ \A n \in Node : Len(published[n]) > 0
    BY <1>2 DEF Init
  <1>4. log \in Seq(Lease) /\ Len(log) = 1
    <2> DEFINE l == [holder |-> First, seq |-> 1, start |-> inst.firstTime, prop |-> inst.firstTime,
                sum |-> inst.firstTime, epoch |-> IF inst.firstKind = "epoch" THEN 1 ELSE 0,
                exp |-> IF inst.firstKind = "epoch" THEN 0 ELSE inst.firstTime + inst.duration]
    <2>1. l \in Lease
      BY <1>1 DEF Lease
    <2>2. log = <<l>>
      BY DEF Init
    <2> HIDE DEF l
    <2> QED
      BY <2>1, <2>2
  <1>5. cache \in [Node -> [Node -> Record]] /\ booting \in [Node -> BOOLEAN] /\ asleep \in [Node -> Nat]
    BY <1>2 DEF Init
  <1>6. /\ clock \in [Node -> Nat] /\ applied \in [Node -> Nat] /\ minProposed \in [Node -> Nat]
        /\ tscache \in [Node -> Nat] /\ \A n \in Node : applied[n] \in 1..Len(log)
    BY <1>1, <1>4 DEF Init
  <1>7. req \in [Node -> Request \cup {Idle}] /\ flying \subseteq Command
    BY DEF Init
  <1>8. /\ reads \in [1..inst.maxLeases -> Nat] /\ retired \subseteq Nat /\ restarts \in Nat
        /\ hasty \subseteq Node \X Nat
    BY DEF Init
  <1>9. Len(log) <= inst.maxLeases
    BY <1>1, <1>4
  <1> QED
    BY <1>0, <1>2, <1>3, <1>4, <1>5, <1>6, <1>7, <1>8, <1>9 DEF TypeOK

-----------------------------------------------------------------------------
(* The steps.                                                              *)

LEMMA Steps ==
    ASSUME [Next]_vars
    PROVE \/ UNCHANGED vars
          \/ \E n \in Node : Tick(n) \/ Start(n)
          \/ \E n \in Node : asleep[n] = 0 /\
                (Heartbeat(n) \/ \E m \in Node : Gossip(n, m) \/ IncrementElsewhere(n, m))
          \/ \E n \in Node : asleep[n] = 0 /\ Read(n)
          \/ \E n \in Node : asleep[n] = 0 /\ (RequestLease(n) \/ TransferLease(n))
          \/ \E n \in Node : asleep[n] = 0 /\ (Cancel(n) \/ Promote(n) \/ Revive(n) \/ Invalidate(n))
          \/ \E n \in Node : asleep[n] = 0 /\ SendRequest(n)
          \/ \E n \in Node : asleep[n] = 0 /\ SendTransfer(n)
          \/ \E n \in Node : asleep[n] = 0 /\ Apply(n)
          \/ \E n \in Node : asleep[n] = 0 /\ Crash(n)
          \/ \E c \in flying : Commit(c)
          \/ \E c \in flying : Drop(c)
  BY DEF Next, Up

Unchanged == UNCHANGED <<clock, asleep, record, published, cache, booting, log, applied, minProposed,
                         flying, req, inst, tscache, reads, retired, hasty, restarts>>
LEMMA StutterFacts ==
    ASSUME UNCHANGED vars
    PROVE Unchanged
  BY DEF vars, liveness, leases, history, Unchanged

LEMMA TypeStep ==
    ASSUME TypeOK, [Next]_vars
    PROVE TypeOK'
  <1>1. CASE UNCHANGED vars
    BY <1>1, StutterFacts DEF TypeOK, Unchanged
  <1>2. ASSUME NEW n \in Node, Tick(n) \/ Start(n) PROVE TypeOK'
    BY <1>2, TickType, StartFacts
  <1>3. ASSUME NEW n \in Node,
               Heartbeat(n) \/ \E m \in Node : Gossip(n, m) \/ IncrementElsewhere(n, m)
        PROVE TypeOK'
    BY <1>3, LivenessStepType
  <1>4. ASSUME NEW n \in Node, Read(n) PROVE TypeOK'
    BY <1>4, ReadType
  <1>5. ASSUME NEW n \in Node, RequestLease(n) \/ TransferLease(n) PROVE TypeOK'
    BY <1>5, RequestFacts
  <1>6. ASSUME NEW n \in Node, Cancel(n) \/ Promote(n) \/ Revive(n) \/ Invalidate(n) PROVE TypeOK'
    BY <1>6, ProgressFacts
  <1>7. ASSUME NEW n \in Node, SendRequest(n) PROVE TypeOK'
    BY <1>7, SendRequestFacts
  <1>8. ASSUME NEW n \in Node, SendTransfer(n) PROVE TypeOK'
    BY <1>8, SendTransferFacts
  <1>9. ASSUME NEW n \in Node, Apply(n) PROVE TypeOK'
    BY <1>9, ApplyFacts
  <1>10. ASSUME NEW n \in Node, Crash(n) PROVE TypeOK'
    BY <1>10, CrashFacts
  <1>11. ASSUME NEW c \in flying, Commit(c) PROVE TypeOK'
    BY <1>11, CommitFacts
  <1>12. ASSUME NEW c \in flying, Drop(c) PROVE TypeOK'
    BY <1>12, DropFacts
  <1> QED
    BY <1>1, <1>2, <1>3, <1>4, <1>5, <1>6, <1>7, <1>8, <1>9, <1>10, <1>11, <1>12, Steps

\* Every variable stays in its range, whatever the sizes, the settings and the bounds are.
THEOREM TypeCorrect == Spec => []TypeOK
  <1>1. Init => TypeOK
    BY InitType
  <1>2. TypeOK /\ [Next]_vars => TypeOK'
    BY TypeStep
  <1> QED
    BY <1>1, <1>2, PTL DEF Spec

-----------------------------------------------------------------------------
(* The log, and what is on the way to it.                                  *)

LEMMA SameEntry ==
    ASSUME TypeOK, LogOK, NEW i \in 1..Len(log), NEW j \in 1..Len(log),
           log[i].seq = log[j].seq, log[i].prop = log[j].prop
    PROVE i = j
  <1>0. log[i] \in Lease /\ log[j] \in Lease /\ Len(log) \in Nat
    BY LogTypes
  <1>1. i \in Nat /\ j \in Nat /\ log[i].prop \in Nat /\ log[j].prop \in Nat
    BY <1>0 DEF Lease
  <1>2. ~ (i < j)
    BY <1>1 DEF LogOK, Extends
  <1>3. ~ (j < i)
    BY <1>1 DEF LogOK, Extends
  <1> QED
    BY <1>1, <1>2, <1>3
LEMMA SameSeq ==
    ASSUME TypeOK, LogOK, NEW i \in 1..Len(log), NEW j \in 1..Len(log), log[i].seq = log[j].seq
    PROVE log[i].holder = log[j].holder /\ log[i].start = log[j].start /\ log[i].epoch = log[j].epoch
  <1>1. Len(log) \in Nat /\ i \in Nat /\ j \in Nat
    BY LogTypes
  <1>2. CASE i = j
    BY <1>2
  <1>3. CASE i < j
    BY <1>3 DEF LogOK, Extends
  <1>4. CASE j < i
    BY <1>4 DEF LogOK, Extends
  <1> QED
    BY <1>1, <1>2, <1>3, <1>4
\* Applied entries.
LEMMA AppliedFacts ==
    ASSUME TypeOK, LogOK, NEW n \in Node
    PROVE /\ applied[n] \in 1..Len(log) /\ LeaseOf(n) = log[applied[n]]
          /\ \A k \in 1..applied[n] : k \in 1..Len(log) /\ log[k].seq <= LeaseOf(n).seq
          /\ LeaseOf(n).seq <= Final.seq /\ LeaseOf(n).seq \in Nat /\ Final.seq \in Nat
          /\ \A k \in 1..Len(log) : log[k].seq \in 1..Len(log) /\ log[k].seq <= Final.seq
  <1>1. applied[n] \in 1..Len(log) /\ Len(log) \in Nat \ {0} /\ Len(log) \in 1..Len(log)
    BY LogTypes DEF TypeOK
  <1>2. \A k \in 1..applied[n] : k \in 1..Len(log) /\ k <= applied[n]
    BY <1>1
  <1>3. \A i, j \in 1..Len(log) : i <= j => log[i].seq <= log[j].seq
    BY DEF LogOK
  <1>4. \A k \in 1..Len(log) : k <= Len(log)
    BY <1>1
  <1>5. \A k \in 1..applied[n] : log[k].seq <= LeaseOf(n).seq
    BY <1>1, <1>2, <1>3 DEF LeaseOf
  <1>6. \A k \in 1..Len(log) : log[k].seq <= Final.seq
    BY <1>1, <1>3, <1>4 DEF Final
  <1>7. \A k \in 1..Len(log) : log[k].seq \in 1..k
    BY DEF LogOK
  <1>8. \A k \in 1..Len(log) : log[k].seq \in 1..Len(log)
    BY <1>1, <1>7
  <1>9. LeaseOf(n).seq <= Final.seq
    BY <1>1, <1>6 DEF LeaseOf
  <1>10. LeaseOf(n).seq \in Nat /\ Final.seq \in Nat
    BY LogTypes DEF Lease
  <1> QED
    BY <1>1, <1>2, <1>5, <1>6, <1>8, <1>9, <1>10 DEF LeaseOf

LEMMA LeasesType ==
    ASSUME TypeOK
    PROVE \A l \in Leases : l \in Lease
  <1>1. \A c \in flying : c.lease \in Lease
    BY DEF TypeOK, Command
  <1> QED
    BY <1>1, LogTypes DEF Leases

\* A step that touches neither the log nor what is proposed leaves everything as it is.
LEMMA QuietStep ==
    ASSUME BaseInv, TypeOK', UNCHANGED <<log, applied, minProposed, retired, asleep>>, flying' \subseteq flying,
           \A n \in Node : clock[n] <= clock'[n],
           \A n, m \in Node : clock'[n] <= clock'[m] + MaxOffset,
           \A n \in Node : RequestOK(n)'
    PROVE BaseInv'
  <1>1. LogOK'
    BY DEF BaseInv, LogOK
  <1>2. ClocksOK'
    <2>1. \A l \in Leases' : l \in Leases
      BY DEF Leases
    <2>2. \A l \in Leases : l.start \in Nat
      BY LeasesType DEF BaseInv, Lease
    <2>3. \A n \in Node : clock[n] \in Nat /\ clock'[n] \in Nat /\ minProposed[n] \in Nat
      BY DEF BaseInv, TypeOK
    <2>4. \A l \in Leases' : \E p \in Node : l.start <= clock'[p]
      BY <2>1, <2>2, <2>3 DEF BaseInv, ClocksOK
    <2> QED
      BY <2>3, <2>4 DEF BaseInv, ClocksOK
  <1>3. RetiredOK'
    BY DEF BaseInv, RetiredOK, Barred, LeaseOf
  <1>4. \A c \in flying' : CommandOK(c)'
    BY DEF BaseInv, CommandOK, Final
  <1> QED
    BY <1>1, <1>2, <1>3, <1>4 DEF BaseInv

LEMMA RequestSame ==
    ASSUME BaseInv, TypeOK', UNCHANGED <<log, applied>>, \A n \in Node : clock[n] <= clock'[n],
           NEW n \in Node,
           req'[n] # Idle => req[n] # Idle /\ SameRequest(req[n], req'[n])
    PROVE RequestOK(n)'
  <1>1. CASE req'[n] = Idle
    BY <1>1 DEF RequestOK
  <1>2. CASE req'[n] # Idle
    <2>1. req[n] \in Request \cup {Idle} /\ req[n] # Idle /\ clock[n] \in Nat /\ clock'[n] \in Nat
      BY <1>2 DEF BaseInv, TypeOK
    <2>2. req[n].now \in Nat
      BY <2>1, IdleIsNoRequest
    <2>3. RequestOK(n) /\ clock[n] <= clock'[n]
      BY DEF BaseInv
    <2> QED
      BY <1>2, <2>1, <2>2, <2>3 DEF RequestOK, SameRequest
  <1> QED
    BY <1>1, <1>2

LEMMA BaseTick ==
    ASSUME BaseInv, NEW n \in Node, Tick(n)
    PROVE BaseInv' /\ (\A m \in Node : clock[m] <= clock'[m])
                   /\ UNCHANGED <<asleep, booting, req, inst, tscache, reads, retired, hasty, restarts>> /\ LeasesSame
  <1>1. clock' = [clock EXCEPT ![n] = clock[n] + 1] /\ LeasesSame
        /\ (\A m \in Node : clock[n] + 1 <= clock[m] + MaxOffset)
        /\ UNCHANGED <<asleep, booting, req, inst, tscache, reads, retired, hasty, restarts>>
    BY DEF Tick, leases, history, LeasesSame
  <1>2. TypeOK' /\ TypeOK
    BY TickType DEF BaseInv
  <1>a. clock \in [Node -> Nat] /\ clock' \in [Node -> Nat]
    BY <1>2 DEF TypeOK
  <1>3. \A m \in Node : clock[m] \in Nat /\ clock'[m] \in Nat /\ clock[m] <= clock'[m]
    BY <1>1, <1>a
  <1>4. \A m, k \in Node : clock'[m] <= clock'[k] + MaxOffset
    <2>1. MaxOffset \in Nat /\ \A m, k \in Node : clock[m] <= clock[k] + MaxOffset
      BY <1>2, Constants DEF BaseInv, ClocksOK, TypeOK
    <2>2. clock'[n] = clock[n] + 1 /\ \A m \in Node \ {n} : clock'[m] = clock[m]
      BY <1>1, <1>2 DEF TypeOK
    <2> QED
      BY <1>1, <1>3, <2>1, <2>2
  <1>5. \A m \in Node : RequestOK(m)'
    <2>1. \A m \in Node : req'[m] = req[m] /\ SameRequest(req[m], req'[m])
      BY <1>1 DEF SameRequest
    <2> QED
      BY <1>1, <1>2, <1>3, <2>1, RequestSame DEF LeasesSame
  <1> QED
    BY <1>1, <1>2, <1>3, <1>4, <1>5, QuietStep DEF LeasesSame

\* A step that leaves the clocks and the leases alone, and lets requests only go on.
LEMMA BaseSame ==
    ASSUME BaseInv, TypeOK', UNCHANGED <<log, applied, minProposed, retired, asleep, clock, inst>>,
           flying' \subseteq flying,
           \A n \in Node : req'[n] # Idle => req[n] # Idle /\ SameRequest(req[n], req'[n])
    PROVE BaseInv'
  <1>1. \A m \in Node : clock[m] \in Nat /\ clock[m] <= clock'[m]
    BY DEF BaseInv, TypeOK
  <1>2. \A m, k \in Node : clock'[m] <= clock'[k] + MaxOffset
    BY DEF BaseInv, ClocksOK
  <1>3. \A m \in Node : RequestOK(m)'
    BY <1>1, RequestSame
  <1> QED
    BY <1>1, <1>2, <1>3, QuietStep

LEMMA BaseRequest ==
    ASSUME BaseInv, NEW n \in Node, RequestLease(n) \/ TransferLease(n)
    PROVE BaseInv'
  <1>1. TypeOK
    BY DEF BaseInv
  <1>2. TypeOK' /\ LeasesSame /\ UNCHANGED <<clock, asleep, inst, tscache, reads, retired, restarts>>
    BY <1>1, RequestFacts
  <1>3. PICK r \in Request : req' = [req EXCEPT ![n] = r] /\ NewRequest(n, r)
    BY <1>1, RequestFacts
  <1>4. \A m \in Node : clock[m] \in Nat /\ clock[m] <= clock'[m]
    BY <1>1, <1>2 DEF TypeOK
  <1>5. \A m, k \in Node : clock'[m] <= clock'[k] + MaxOffset
    BY <1>2 DEF BaseInv, ClocksOK
  <1>6. \A m \in Node \ {n} : req'[m] = req[m]
    BY <1>1, <1>3 DEF TypeOK
  <1>7. req'[n] = r
    BY <1>1, <1>3 DEF TypeOK
  <1>8. \A m \in Node \ {n} : RequestOK(m)'
    BY <1>2, <1>4, <1>6, RequestSame DEF LeasesSame, SameRequest
  <1>9. RequestOK(n)'
    <2>1. r.prev = LeaseOf(n) /\ r.now = clock[n] /\ NewReading(n) /\ (r.to # n => r.prev.holder = n)
      BY <1>3 DEF NewRequest
    <2>2. LeaseOf(n) \in Leases /\ applied[n] \in 1..applied[n] /\ LeaseOf(n) = log[applied[n]]
      BY <1>1, LogTypes DEF TypeOK, Leases, LeaseOf
    <2>3. LeaseOf(n).holder = n => LeaseOf(n).prop < clock[n]
      BY <1>1, <2>1, <2>2, ReadingFacts
    <2> QED
      BY <1>2, <1>4, <1>7, <2>1, <2>2, <2>3 DEF RequestOK, LeasesSame
  <1> QED
    BY <1>2, <1>4, <1>5, <1>8, <1>9, QuietStep DEF LeasesSame

\* Extensions are requests, made by the holder.
LEMMA CommandFacts ==
    ASSUME BaseInv, NEW c \in flying, c.lease.seq = c.prev
    PROVE c.kind = "request" /\ \E k \in 1..Len(log) :
             log[k].seq = c.prev /\ log[k].prop = c.prop /\ Equivalent(log[k], c.lease)
  <1>1. CommandOK(c) /\ c \in Command
    BY DEF BaseInv, TypeOK
  <1>2. c.prev \in Nat /\ c.kind \in {"request", "transfer"}
    BY <1>1 DEF Command
  <1>3. c.kind = "request"
    BY <1>1, <1>2 DEF CommandOK
  <1>4. PICK k \in 1..Len(log) : log[k].seq = c.prev /\ log[k].prop = c.prop
    BY <1>1, <1>3 DEF CommandOK
  <1>5. c.lease.seq = IF Equivalent(log[k], c.lease) THEN c.prev ELSE c.prev + 1
    BY <1>1, <1>3, <1>4 DEF CommandOK
  <1> QED
    BY <1>2, <1>3, <1>4, <1>5

\* A new reading of the holder's clock is above all that bears its lease's number.
LEMMA ReadingBars ==
    ASSUME BaseInv, NEW n \in Node, NewReading(n), LeaseOf(n).holder = n
    PROVE /\ \A j \in 1..Len(log) : log[j].seq = LeaseOf(n).seq => log[j].prop < clock[n] /\ log[j].start < clock[n]
          /\ \A c \in flying : c.lease.seq = LeaseOf(n).seq /\ c.prev = LeaseOf(n).seq => c.lease.prop < clock[n]
  <1>1. TypeOK /\ LogOK
    BY DEF BaseInv
  <1>2. applied[n] \in 1..Len(log) /\ LeaseOf(n) = log[applied[n]]
    BY <1>1, AppliedFacts
  <1>3. LeaseOf(n).start < clock[n] /\ \A l \in Leases : l.holder = n => l.prop < clock[n]
    BY <1>1, ReadingFacts
  <1>4. \A j \in 1..Len(log) : log[j].seq = LeaseOf(n).seq => log[j].holder = n /\ log[j].start = LeaseOf(n).start
    BY <1>1, <1>2, SameSeq
  <1>5. ASSUME NEW c \in flying, c.lease.seq = LeaseOf(n).seq, c.prev = LeaseOf(n).seq
        PROVE c.lease.prop < clock[n]
    <2>1. PICK k \in 1..Len(log) : log[k].seq = c.prev /\ Equivalent(log[k], c.lease)
      BY <1>5, CommandFacts
    <2>2. c.lease.holder = n
      BY <1>4, <1>5, <2>1 DEF Equivalent
    <2> QED
      BY <1>3, <2>2 DEF Leases
  <1> QED
    BY <1>3, <1>4, <1>5 DEF Leases

LEMMA BaseSendRequest ==
    ASSUME BaseInv, NEW n \in Node, SendRequest(n)
    PROVE BaseInv'
  <1>0. TypeOK /\ LogOK /\ ClocksOK /\ RetiredOK /\ RequestOK(n)
    BY DEF BaseInv
  <1>1. /\ TypeOK' /\ req[n] # Idle /\ req'[n] = Idle /\ \A m \in Node \ {n} : req'[m] = req[m]
        /\ UNCHANGED <<log, applied, minProposed, clock, asleep, inst, tscache, reads, retired, restarts>>
    BY <1>0, SendRequestFacts
  <1>2. \A m \in Node : req'[m] # Idle => req[m] # Idle /\ SameRequest(req[m], req'[m])
    BY <1>1 DEF SameRequest
  <1>3. CASE flying' = flying
    BY <1>1, <1>2, <1>3, BaseSame
  <1>4. ASSUME NEW c \in Command, NewRequestCommand(n, c), flying' = flying \cup {c}
        PROVE BaseInv'
    <2> DEFINE l == LeaseOf(n)
               r == req[n]
    <2>1. /\ applied[n] \in 1..Len(log) /\ l = log[applied[n]] /\ l \in Lease
          /\ l.seq \in Nat /\ l.start \in Nat /\ l.prop \in Nat /\ l.exp \in Nat
      BY <1>0, AppliedFacts, LogTypes DEF Lease
    <2>2. /\ r.now \in Nat /\ clock[n] \in Nat /\ minProposed[n] \in Nat /\ c.lease \in Lease
          /\ c.lease.start \in Nat /\ c.lease.prop \in Nat
      <3>1. r \in Request \cup {Idle}
        BY <1>0 DEF TypeOK
      <3>2. r.now \in Nat
        BY <1>1, <3>1, IdleIsNoRequest
      <3>3. c.lease \in Lease
        BY DEF Command
      <3>4. clock[n] \in Nat /\ minProposed[n] \in Nat
        BY <1>0 DEF TypeOK
      <3> QED
        BY <3>2, <3>3, <3>4 DEF Lease
    <2>3. /\ c.kind = "request" /\ c.prev = l.seq /\ c.prop = l.prop
          /\ l.seq = r.prev.seq /\ l.prop = r.prev.prop
          /\ c.lease.holder = n /\ c.lease.prop = r.now
          /\ c.lease.seq = IF Equivalent(l, c.lease) THEN l.seq ELSE l.seq + 1
          /\ l.holder = n => c.lease.start = ExtensionStart(n, l, r.now)
          /\ l.holder # n => c.lease.start = AcquisitionStart(l, r.now)
      BY <1>4 DEF NewRequestCommand
    <2>4. r.now <= clock[n] /\ minProposed[n] <= clock[n]
      BY <1>0, <1>1 DEF RequestOK, ClocksOK
    <2>5. r.prev = l
      <3>1. PICK k \in 1..applied[n] : r.prev = log[k]
        BY <1>0, <1>1 DEF RequestOK
      <3>2. k \in 1..Len(log)
        BY <1>0, AppliedFacts
      <3>3. k = applied[n]
        BY <1>0, <2>1, <2>3, <3>1, <3>2, SameEntry
      <3> QED
        BY <2>1, <3>1, <3>3
    <2>6. c.lease.start <= clock[n]
      BY <2>1, <2>2, <2>3, <2>4 DEF ExtensionStart, AcquisitionStart, Latest, Earliest
    <2>7. l.holder = n => minProposed[n] <= c.lease.start
      BY <2>1, <2>2, <2>3 DEF ExtensionStart, Latest, Earliest
    <2> HIDE DEF l, r
    <2>8. LogOK'
      BY <1>0, <1>1 DEF LogOK
    <2>9. ClocksOK'
      <3>1. \A k \in Leases' : k \in Leases \/ k = c.lease
        BY <1>1, <1>4 DEF Leases
      <3> QED
        BY <1>0, <1>1, <2>6, <3>1 DEF ClocksOK
    <2>10. CommandOK(c)'
      <3>1. \A k \in 1..Len(log) : log[k].seq = c.prev /\ log[k].prop = c.prop => k = applied[n]
        BY <1>0, <2>1, <2>3, SameEntry
      <3>2. l.holder = n => l.prop < r.now
        BY <1>0, <1>1, <2>5 DEF RequestOK, r
      <3> QED
        BY <1>1, <2>1, <2>3, <3>1, <3>2 DEF CommandOK
    <2>11. \A d \in flying' : CommandOK(d)'
      <3>1. \A d \in flying : CommandOK(d)'
        BY <1>1 DEF BaseInv, CommandOK, Final
      <3> QED
        BY <1>4, <2>10, <3>1
    <2>12. RetiredOK'
      <3> SUFFICES ASSUME NEW s \in retired
                   PROVE \E h \in Node : \E i \in 1..applied[h] :
                            /\ log[i].seq = s /\ log[i].holder = h
                            /\ s < LeaseOf(h).seq \/ asleep[h] # 0 \/ Barred(h, s)'
        BY <1>1 DEF RetiredOK, LeaseOf
      <3>1. PICK h \in Node : \E i \in 1..applied[h] :
                            /\ log[i].seq = s /\ log[i].holder = h
                            /\ s < LeaseOf(h).seq \/ asleep[h] # 0 \/ Barred(h, s)
        BY <1>0 DEF RetiredOK
      <3>2. PICK i \in 1..applied[h] :
                            /\ log[i].seq = s /\ log[i].holder = h
                            /\ s < LeaseOf(h).seq \/ asleep[h] # 0 \/ Barred(h, s)
        BY <3>1
      <3>3. i \in 1..Len(log)
        BY <1>0, AppliedFacts
      <3>4. Barred(h, s) => Barred(h, s)'
        <4> SUFFICES ASSUME Barred(h, s), c.lease.seq = s, c.prev = s PROVE FALSE
          BY <1>1, <1>4 DEF Barred
        <4>1. Equivalent(l, c.lease) /\ l.seq = s
          BY <2>1, <2>3
        <4>2. h = n /\ l.holder = n
          BY <1>0, <2>1, <2>3, <3>2, <3>3, <4>1, SameSeq DEF Equivalent
        <4>3. l.start < minProposed[n]
          BY <2>1, <4>1, <4>2 DEF Barred
        <4> QED
          BY <2>1, <2>2, <2>7, <4>1, <4>2, <4>3 DEF Equivalent
      <3> QED
        BY <3>2, <3>4
    <2>13. \A m \in Node : RequestOK(m)'
      <3>1. \A m \in Node : clock[m] \in Nat /\ clock[m] <= clock'[m]
        BY <1>0, <1>1 DEF TypeOK
      <3> QED
        BY <1>1, <1>2, <3>1, RequestSame
    <2> QED
      BY <1>1, <2>8, <2>9, <2>11, <2>12, <2>13 DEF BaseInv
  <1> QED
    BY <1>0, <1>3, <1>4, SendRequestFacts

\* What is on the way stays in order when nothing is added to the log.
LEMMA CommandsSame ==
    ASSUME BaseInv, UNCHANGED log, retired \subseteq retired'
    PROVE \A c \in flying : CommandOK(c)'
  BY DEF BaseInv, CommandOK, Final

LEMMA BaseSendTransfer ==
    ASSUME BaseInv, NEW n \in Node, SendTransfer(n)
    PROVE BaseInv'
  <1> DEFINE r == req[n]
  <1>s. PICK s0 : s0 = req[n].prev.seq
    OBVIOUS
  <1>0. TypeOK /\ LogOK /\ ClocksOK /\ RetiredOK /\ RequestOK(n)
    BY DEF BaseInv
  <1>1. /\ TypeOK' /\ r # Idle /\ r.to # n /\ req'[n] = Idle /\ \A m \in Node \ {n} : req'[m] = req[m]
        /\ NewReading(n) /\ minProposed' = [minProposed EXCEPT ![n] = Revoked(n, s0)]
        /\ retired' = retired \cup {s0}
        /\ UNCHANGED <<log, applied, clock, asleep, inst, tscache, reads, hasty, restarts>>
    BY <1>0, <1>s, SendTransferFacts
  <1>2. PICK k \in 1..applied[n] : r.prev = log[k]
    BY <1>0, <1>1 DEF RequestOK
  <1>3. /\ k \in 1..Len(log) /\ s0 = log[k].seq /\ s0 <= LeaseOf(n).seq /\ LeaseOf(n).seq <= Final.seq
        /\ s0 \in Nat /\ LeaseOf(n).seq \in Nat /\ Final.seq \in Nat
        /\ applied[n] \in 1..Len(log) /\ LeaseOf(n) = log[applied[n]]
    <2>1. k \in 1..Len(log) /\ log[k] \in Lease
      BY <1>0, AppliedFacts, LogTypes
    <2> QED
      BY <1>0, <1>2, <1>s, <2>1, AppliedFacts DEF Lease
  <1>4. log[k].holder = n /\ (LeaseOf(n).seq = s0 => LeaseOf(n).holder = n)
    <2>1. log[k].holder = n
      BY <1>0, <1>1, <1>2 DEF RequestOK
    <2> QED
      BY <1>0, <1>3, <2>1, SameSeq
  <1>5. \A m \in Node : clock[m] \in Nat /\ minProposed[m] \in Nat /\ clock[m] <= clock'[m]
    BY <1>0, <1>1 DEF TypeOK
  <1>6. minProposed[n] <= clock[n] /\ r.now <= clock[n]
    BY <1>0, <1>1 DEF ClocksOK, RequestOK
  <1>7. /\ \A m \in Node \ {n} : minProposed'[m] = minProposed[m]
        /\ LeaseOf(n).seq = s0 => minProposed'[n] = clock[n]
        /\ minProposed[n] <= minProposed'[n] /\ minProposed'[n] <= clock[n] /\ minProposed'[n] \in Nat
    <2>1. minProposed \in [Node -> Nat]
      BY <1>0 DEF TypeOK
    <2>2. minProposed'[n] = Revoked(n, s0) /\ \A m \in Node \ {n} : minProposed'[m] = minProposed[m]
      BY <1>1, <2>1
    <2> QED
      BY <1>5, <1>6, <2>2 DEF Revoked
  <1>8. LogOK'
    BY <1>0, <1>1 DEF LogOK
  <1>9. flying' = flying \/ \E c \in Command : NewTransferCommand(n, c) /\ flying' = flying \cup {c}
    BY <1>0, SendTransferFacts
  \* The command, if there is one.
  <1>10. ASSUME NEW c \in Command, NewTransferCommand(n, c)
         PROVE CommandOK(c)' /\ c.lease.start <= clock[n] /\ c.lease.seq > c.prev
    <2>1. /\ c.kind = "transfer" /\ c.prev = s0 /\ c.lease.holder # n
          /\ c.lease.start = Latest(r.now, clock[n])
          /\ c.lease.seq = IF Equivalent(LeaseOf(n), c.lease) THEN LeaseOf(n).seq ELSE LeaseOf(n).seq + 1
      BY <1>1, <1>10, <1>s DEF NewTransferCommand
    <2>2. r.now \in Nat
      <3>1. r \in Request \cup {Idle}
        BY <1>0 DEF TypeOK
      <3> QED
        BY <1>1, <3>1, IdleIsNoRequest
    <2>3. c.lease.start <= clock[n]
      BY <1>5, <1>6, <2>1, <2>2 DEF Latest
    <2>4. LeaseOf(n).seq = s0 => c.lease.seq = s0 + 1
      BY <1>4, <2>1 DEF Equivalent
    <2>5. c.lease.seq > c.prev
      BY <1>3, <2>1, <2>4
    <2>6. c.prev = Final.seq => c.lease.seq = c.prev + 1
      BY <1>3, <2>1, <2>4
    <2>7. c.prev \in retired' /\ log[k].seq = c.prev
      BY <1>1, <1>3, <2>1
    <2> QED
      BY <1>1, <1>3, <2>1, <2>3, <2>5, <2>6, <2>7 DEF CommandOK, Final
  <1>11. ClocksOK'
    <2>1. \A l \in Leases' : l \in Leases \/ \E c \in Command : NewTransferCommand(n, c) /\ l = c.lease
      BY <1>1, <1>9 DEF Leases
    <2>2. \A l \in Leases' : \E p \in Node : l.start <= clock[p]
      BY <1>0, <1>10, <2>1 DEF ClocksOK
    <2>3. \A m \in Node : minProposed'[m] <= clock[m]
      BY <1>0, <1>7 DEF ClocksOK
    <2> QED
      BY <1>0, <1>1, <2>2, <2>3 DEF ClocksOK
  <1>12. \A c \in flying' : CommandOK(c)'
    BY <1>1, <1>9, <1>10, CommandsSame
  <1>13. RetiredOK'
    <2>1. ASSUME NEW h \in Node, NEW s, Barred(h, s) PROVE Barred(h, s)'
      <3>1. \A j \in 1..Len(log) : log[j].prop \in Nat /\ log[j].start \in Nat
        BY <1>0, LogTypes DEF Lease
      <3>2. \A c \in flying : c.lease.prop \in Nat
        BY <1>0 DEF TypeOK, Command, Lease
      <3>3. minProposed[h] <= minProposed'[h] /\ minProposed[h] \in Nat /\ minProposed'[h] \in Nat
        BY <1>5, <1>7
      <3>4. \A j \in 1..Len(log) : log[j].seq = s => log[j].prop < minProposed'[h] /\ log[j].start < minProposed'[h]
        BY <2>1, <3>1, <3>3 DEF Barred
      <3>5. \A c \in flying : c.lease.seq = s /\ c.prev = s => c.lease.prop < minProposed'[h]
        BY <2>1, <3>2, <3>3 DEF Barred
      <3>6. \A c \in flying' \ flying : ~ (c.lease.seq = s /\ c.prev = s)
        BY <1>3, <1>9, <1>10 DEF NewTransferCommand
      <3> QED
        BY <1>1, <3>4, <3>5, <3>6 DEF Barred
    <2>2. LeaseOf(n).seq = s0 => Barred(n, s0)'
      <3>1. SUFFICES ASSUME LeaseOf(n).seq = s0 PROVE Barred(n, s0)'
        OBVIOUS
      <3>2. \A c \in flying' \ flying : ~ (c.lease.seq = s0 /\ c.prev = s0)
        BY <1>3, <1>9, <1>10 DEF NewTransferCommand
      <3> QED
        BY <1>1, <1>4, <1>7, <3>1, <3>2, ReadingBars DEF Barred
    <2>3. s0 < LeaseOf(n).seq \/ Barred(n, s0)'
      BY <1>3, <2>2
    <2>4. \A s \in retired : \E h \in Node : \E i \in 1..applied[h] :
                /\ log[i].seq = s /\ log[i].holder = h
                /\ s < LeaseOf(h).seq \/ asleep[h] # 0 \/ Barred(h, s)'
      BY <1>0, <2>1 DEF RetiredOK
    <2>5. \A s \in retired' : \E h \in Node : \E i \in 1..applied[h] :
                /\ log[i].seq = s /\ log[i].holder = h
                /\ s < LeaseOf(h).seq \/ asleep[h] # 0 \/ Barred(h, s)'
      BY <1>1, <1>2, <1>3, <1>4, <2>3, <2>4
    <2> QED
      BY <1>1, <2>5 DEF RetiredOK, LeaseOf
  <1>14. \A m \in Node : RequestOK(m)'
    <2>1. \A m \in Node : req'[m] # Idle => req[m] # Idle /\ SameRequest(req[m], req'[m])
      BY <1>1 DEF SameRequest
    <2> QED
      BY <1>1, <1>5, <2>1, RequestSame
  <1> QED
    BY <1>1, <1>8, <1>11, <1>12, <1>13, <1>14 DEF BaseInv

LEMMA AppendedLog ==
    ASSUME BaseInv, NEW c \in flying, ~ Mismatch(Final, c), Appended(c.lease), TypeOK'
    PROVE /\ LogOK' /\ c.prev = Final.seq /\ Final.seq <= c.lease.seq /\ c.lease.seq <= Final.seq + 1
          /\ c.lease.seq = Final.seq => c.kind = "request" /\ Extends(Final, c.lease)
          /\ c.kind = "request" => c.prop = Final.prop
  <1> DEFINE N == Len(log)
             k == c.lease
  <1>0. /\ TypeOK /\ LogOK /\ CommandOK(c) /\ c \in Command /\ N \in Nat \ {0} /\ Final = log[N]
        /\ N \in 1..N /\ Len(log') = N + 1 /\ log'[N + 1] = k /\ \A i \in 1..N : log'[i] = log[i]
    BY LogTypes DEF BaseInv, TypeOK, Appended, Final
  <1>1. /\ k \in Lease /\ k.seq \in Nat /\ k.prop \in Nat /\ k.exp \in Nat /\ k.epoch \in Nat /\ c.prev \in Nat
        /\ c.kind \in {"request", "transfer"}
        /\ Final \in Lease /\ Final.seq \in Nat /\ Final.prop \in Nat
        /\ \A i \in 1..N : log[i] \in Lease
    <2>1. k \in Lease /\ Final \in Lease /\ \A i \in 1..N : log[i] \in Lease
      BY <1>0, LogTypes DEF Command
    <2> QED
      BY <1>0, <2>1 DEF Lease, Command
  <1>2. /\ c.prev = Final.seq /\ (c.kind = "request" => c.prop = Final.prop)
        /\ c.kind = "request" /\ Final.seq = k.seq => Equivalent(Final, k)
    BY DEF Mismatch
  <1>3. /\ Final.seq <= k.seq /\ k.seq <= Final.seq + 1
        /\ k.seq = Final.seq => c.kind = "request" /\ c.prop < k.prop /\ Equivalent(Final, k)
    <2>1. CASE c.kind = "request"
      <3>1. /\ k.seq = IF Equivalent(log[N], k) THEN c.prev ELSE c.prev + 1
            /\ log[N].holder = k.holder => c.prop < k.prop
        BY <1>0, <1>2, <2>1 DEF CommandOK
      <3> QED
        BY <1>0, <1>1, <1>2, <2>1, <3>1 DEF Equivalent
    <2>2. CASE c.kind = "transfer"
      <3>1. k.seq = c.prev + 1
        BY <1>0, <1>2, <2>2 DEF CommandOK
      <3> QED
        BY <1>1, <1>2, <3>1
    <2> QED
      BY <1>1, <2>1, <2>2
  <1>4. k.seq = Final.seq => Extends(Final, k)
    BY <1>1, <1>2, <1>3 DEF Extends, Equivalent, Lease
  <1>5. \A i \in 1..N : /\ log[i].seq <= Final.seq /\ log[i].seq \in 1..i
                        /\ log[i].seq = Final.seq => i = N \/ Extends(log[i], Final)
    <2>1. \A i \in 1..N : i <= N /\ (i = N \/ i < N)
      BY <1>0
    <2> QED
      BY <1>0, <2>1 DEF LogOK
  <1>6. \A i \in 1..N : log[i].seq = k.seq => Extends(log[i], k)
    <2> SUFFICES ASSUME NEW i \in 1..N, log[i].seq = k.seq PROVE Extends(log[i], k)
      OBVIOUS
    <2>1. log[i] \in Lease /\ log[i].seq \in Nat /\ log[i].prop \in Nat /\ log[i].exp \in Nat
          /\ Final.exp \in Nat
      BY <1>1 DEF Lease
    <2>2. k.seq = Final.seq
      BY <1>1, <1>3, <1>5, <2>1
    <2>3. CASE i = N
      BY <1>0, <1>4, <2>2, <2>3
    <2>4. CASE Extends(log[i], Final)
      BY <1>1, <1>4, <2>1, <2>2, <2>4 DEF Extends
    <2> QED
      BY <1>5, <2>2, <2>3, <2>4
  <1>7. LogOK'
    <2>1. \A i \in 1..(N + 1) : i \in 1..N \/ i = N + 1
      BY <1>0
    <2>2. \A i \in 1..(N + 1) : log'[i].seq \in 1..i
      <3>1. k.seq \in 1..(N + 1)
        BY <1>0, <1>1, <1>3, <1>5
      <3> QED
        BY <1>0, <1>5, <2>1, <3>1
    <2>3. ASSUME NEW i \in 1..(N + 1), NEW j \in 1..(N + 1)
          PROVE /\ i <= j => log'[i].seq <= log'[j].seq
                /\ i < j /\ log'[i].seq = log'[j].seq => Extends(log'[i], log'[j])
      <3>1. CASE i \in 1..N /\ j \in 1..N
        BY <1>0, <3>1 DEF LogOK
      <3>2. CASE i \in 1..N /\ j = N + 1
        <4>0. log[i].seq \in Nat
          BY <1>1, <3>2 DEF Lease
        <4>1. log[i].seq <= k.seq
          BY <1>1, <1>3, <1>5, <3>2, <4>0
        <4> QED
          BY <1>0, <1>6, <3>2, <4>1
      <3>3. CASE i = N + 1
        BY <1>0, <1>1, <2>1, <3>3
      <3> QED
        BY <2>1, <3>1, <3>2, <3>3
    <2>4. ASSUME NEW i \in 1..(N + 1), i + 1 <= N + 1 PROVE log'[i + 1].seq <= log'[i].seq + 1
      <3>1. i \in 1..N
        BY <1>0, <2>4
      <3>2. CASE i + 1 <= N
        <4>1. i + 1 \in 1..N
          BY <1>0, <3>1, <3>2
        <4> QED
          BY <1>0, <3>1, <3>2, <4>1 DEF LogOK
      <3>3. CASE i = N
        BY <1>0, <1>3, <3>3
      <3> QED
        BY <1>0, <3>1, <3>2, <3>3
    <2> QED
      BY <1>0, <2>2, <2>3, <2>4 DEF LogOK, Extends
  <1> QED
    BY <1>2, <1>3, <1>4, <1>7

LEMMA BaseCommit ==
    ASSUME BaseInv, NEW c \in flying, Commit(c)
    PROVE BaseInv'
  <1>0. TypeOK /\ LogOK /\ ClocksOK /\ RetiredOK
    BY DEF BaseInv
  <1>1. /\ TypeOK' /\ flying' = flying \ {c} /\ c \in Command
        /\ UNCHANGED <<applied, minProposed, clock, asleep, req, inst, tscache, reads, retired, hasty, restarts>>
        /\ log' = log \/ (~ Mismatch(Final, c) /\ Appended(c.lease))
    BY <1>0, CommitFacts
  <1>2. CASE log' = log
    <2>1. \A m \in Node : req'[m] # Idle => req[m] # Idle /\ SameRequest(req[m], req'[m])
      BY <1>1 DEF SameRequest
    <2>2. flying' \subseteq flying
      BY <1>1
    <2> QED
      BY <1>1, <1>2, <2>1, <2>2, BaseSame
  <1>3. CASE ~ Mismatch(Final, c) /\ Appended(c.lease)
    <2> DEFINE N == Len(log)
               k == c.lease
    <2>1. /\ LogOK' /\ c.prev = Final.seq /\ Final.seq <= k.seq
          /\ k.seq = Final.seq => c.kind = "request" /\ Extends(Final, k)
      BY <1>1, <1>3, AppendedLog
    <2>a. \A i, j \in 1..Len(log') : i < j /\ log'[i].seq = log'[j].seq => log'[i].prop < log'[j].prop
      BY <2>1 DEF LogOK, Extends
    <2>2. /\ Len(log') = N + 1 /\ log'[N + 1] = k /\ (\A i \in 1..N : log'[i] = log[i]) /\ N \in Nat \ {0}
          /\ N \in 1..N /\ Final = log[N] /\ Final.seq \in Nat /\ k.seq \in Nat
      <3>1. Final \in Lease /\ k \in Lease
        BY <1>0, <1>1, LogTypes DEF Command
      <3> QED
        BY <1>0, <1>3, <3>1, LogTypes DEF Appended, Final, Lease
    <2>3. \A m \in Node : applied[m] \in 1..N /\ LeaseOf(m)' = LeaseOf(m)
      BY <1>0, <1>1, <2>2 DEF TypeOK, LeaseOf
    <2>4. \A i \in 1..(N + 1) : i \in 1..N \/ i = N + 1
      BY <2>2
    <2>5. ClocksOK'
      <3>1. \A l \in Leases' : l \in Leases
        BY <1>1, <2>2, <2>4 DEF Leases
      <3> QED
        BY <1>0, <1>1, <3>1 DEF ClocksOK
    <2>6. \A m \in Node : \A i \in 1..applied[m] : i \in 1..N /\ log'[i] = log[i] /\ log[i].seq <= Final.seq
      BY <1>0, <2>2, AppliedFacts
    <2>7. \A m \in Node : RequestOK(m)'
      BY <1>1, <2>6 DEF RequestOK, BaseInv
    <2>8. RetiredOK'
      <3>1. ASSUME NEW h \in Node, NEW s \in Nat, NEW i \in 1..applied[h], log[i].seq = s, Barred(h, s)
            PROVE Barred(h, s)'
        <4>1. s <= Final.seq
          BY <2>6, <3>1
        <4>2. k.seq = s => k.prop < minProposed[h] /\ k.start < minProposed[h]
          <5>1. SUFFICES ASSUME k.seq = s PROVE k.prop < minProposed[h] /\ k.start < minProposed[h]
            OBVIOUS
          <5>2. Final.seq = s /\ c.prev = s
            BY <2>1, <2>2, <4>1, <5>1
          <5>3. k.start = Final.start
            BY <2>1, <5>1, <5>2 DEF Extends
          <5>4. Final.start < minProposed[h] /\ k.prop < minProposed[h]
            BY <2>2, <3>1, <5>1, <5>2 DEF Barred
          <5> QED
            BY <5>3, <5>4
        <4>3. \A j \in 1..(N + 1) : log'[j].seq = s =>
                 log'[j].prop < minProposed[h] /\ log'[j].start < minProposed[h]
          BY <2>2, <2>4, <3>1, <4>2 DEF Barred
        <4> QED
          BY <1>1, <2>2, <3>1, <4>3 DEF Barred
      <3>2. ASSUME NEW s \in retired
            PROVE \E h \in Node : \E i \in 1..applied[h] :
                     /\ log'[i].seq = s /\ log'[i].holder = h
                     /\ s < LeaseOf(h)'.seq \/ asleep[h] # 0 \/ Barred(h, s)'
        <4>1. PICK h \in Node : \E i \in 1..applied[h] :
                     /\ log[i].seq = s /\ log[i].holder = h
                     /\ s < LeaseOf(h).seq \/ asleep[h] # 0 \/ Barred(h, s)
          BY <1>0 DEF RetiredOK
        <4>2. PICK i \in 1..applied[h] :
                     /\ log[i].seq = s /\ log[i].holder = h
                     /\ s < LeaseOf(h).seq \/ asleep[h] # 0 \/ Barred(h, s)
          BY <4>1
        <4>3. s \in Nat
          BY <1>0 DEF TypeOK
        <4> QED
          BY <2>3, <2>6, <3>1, <4>2, <4>3
      <3> QED
        BY <1>1, <3>2 DEF RetiredOK
    <2>9. ASSUME NEW d \in flying' PROVE CommandOK(d)'
      <3>1. CommandOK(d) /\ d \in Command
        BY <1>0, <1>1 DEF BaseInv, TypeOK
      <3>2. PICK j \in 1..N : log[j].seq = d.prev /\ (d.kind = "request" => log[j].prop = d.prop)
        BY <3>1 DEF CommandOK
      <3>3. j \in 1..(N + 1) /\ j < N + 1 /\ N + 1 \in 1..(N + 1)
        BY <2>2
      <3>4. d.kind = "request" /\ k.seq = d.prev => k.prop # d.prop
        <4>1. SUFFICES ASSUME d.kind = "request", k.seq = d.prev PROVE k.prop # d.prop
          OBVIOUS
        <4>2. log[j].prop < k.prop
          BY <2>a, <2>2, <3>2, <3>3, <4>1
        <4>3. log[j].prop \in Nat /\ k.prop \in Nat
          BY <1>0, <1>1, LogTypes DEF Command, Lease
        <4> QED
          BY <3>2, <4>1, <4>2, <4>3
      <3>5. d.prev <= Final.seq /\ d.prev \in Nat
        <4>1. j <= N /\ log[j] \in Lease
          BY <1>0, <2>2, LogTypes
        <4> QED
          BY <1>0, <2>2, <3>2, <4>1 DEF LogOK, Lease
      <3>6. Final' = k
        BY <2>2 DEF Final
      <3>7. d.prev = k.seq => d.prev = Final.seq
        BY <2>1, <2>2, <3>5
      <3>8. log'[j] = log[j]
        BY <2>2
      <3>9. d.kind = "request" =>
              \A i \in 1..(N + 1) : log'[i].seq = d.prev /\ log'[i].prop = d.prop =>
                 /\ d.lease.seq = IF Equivalent(log'[i], d.lease) THEN d.prev ELSE d.prev + 1
                 /\ log'[i].holder = d.lease.holder => d.prop < d.lease.prop
        BY <2>2, <2>4, <3>1, <3>4 DEF CommandOK
      <3> QED
        BY <1>1, <2>2, <3>1, <3>2, <3>3, <3>6, <3>7, <3>8, <3>9 DEF CommandOK, Equivalent
    <2> QED
      BY <1>1, <2>1, <2>5, <2>7, <2>8, <2>9 DEF BaseInv
  <1> QED
    BY <1>1, <1>2, <1>3

LEMMA ApplyClock ==
    ASSUME BaseInv, NEW n \in Node, Apply(n)
    PROVE /\ \A m \in Node : clock[m] \in Nat /\ clock'[m] \in Nat /\ clock[m] <= clock'[m]
          /\ \A m, k \in Node : clock'[m] <= clock'[k] + MaxOffset
          /\ \A m \in Node \ {n} : clock'[m] = clock[m]
          /\ \A m \in Node : \E p \in Node : clock'[m] <= clock[p]
  <1>0. TypeOK /\ ClocksOK
    BY DEF BaseInv
  <1>1. /\ TypeOK' /\ applied[n] + 1 \in 1..Len(log)
        /\ clock' = [clock EXCEPT ![n] = IF Takes(n) THEN Latest(@, log[applied[n] + 1].start) ELSE @]
    BY <1>0, ApplyFacts
  <1>2. log[applied[n] + 1] \in Leases /\ log[applied[n] + 1].start \in Nat /\ MaxOffset \in Nat
    <2>1. log[applied[n] + 1] \in Lease
      BY <1>0, <1>1, LogTypes
    <2> QED
      BY <1>0, <1>1, <2>1, Constants DEF Leases, Lease, TypeOK
  <1>3. PICK p \in Node : log[applied[n] + 1].start <= clock[p]
    BY <1>0, <1>2 DEF ClocksOK
  <1>4. clock \in [Node -> Nat] /\ clock' \in [Node -> Nat]
    BY <1>0, <1>1 DEF TypeOK
  <1>5. \A m, k \in Node : clock[m] <= clock[k] + MaxOffset
    BY <1>0 DEF ClocksOK
  <1>6. /\ \A m \in Node \ {n} : clock'[m] = clock[m]
        /\ clock'[n] = clock[n] \/ (clock'[n] = log[applied[n] + 1].start /\ clock[n] <= clock'[n])
    BY <1>1, <1>2, <1>4 DEF Latest
  <1>7. \A m \in Node : clock[m] \in Nat /\ clock'[m] \in Nat /\ clock[m] <= clock'[m]
    BY <1>4, <1>6
  <1>8. \A m \in Node : clock'[m] = clock[m] \/ clock'[m] <= clock[p]
    BY <1>3, <1>6
  <1>9. \A m, k \in Node : clock'[m] <= clock'[k] + MaxOffset
    BY <1>2, <1>5, <1>7, <1>8
  <1> QED
    BY <1>6, <1>7, <1>8, <1>9

\* Barred depends on the log, on what is on the way to it and on minProposed only.
LEMMA BarredGrows ==
    ASSUME TypeOK, TypeOK', UNCHANGED <<log, flying>>, NEW h \in Node, NEW s,
           minProposed[h] <= minProposed'[h], Barred(h, s)
    PROVE Barred(h, s)'
  <1>1. minProposed[h] \in Nat /\ minProposed'[h] \in Nat
    BY DEF TypeOK
  <1>2. \A j \in 1..Len(log) : log[j].prop \in Nat /\ log[j].start \in Nat
    BY LogTypes DEF Lease
  <1>3. \A c \in flying : c.lease.prop \in Nat
    BY DEF TypeOK, Command, Lease
  <1> QED
    BY <1>1, <1>2, <1>3 DEF Barred

LEMMA BaseApply ==
    ASSUME BaseInv, NEW n \in Node, Apply(n)
    PROVE BaseInv'
  <1>0. TypeOK /\ LogOK /\ ClocksOK /\ RetiredOK
    BY DEF BaseInv
  <1>1. /\ TypeOK' /\ applied' = [applied EXCEPT ![n] = applied[n] + 1]
        /\ applied[n] + 1 \in 1..Len(log) /\ LeaseOf(n)' = log[applied[n] + 1]
        /\ \A m \in Node \ {n} : LeaseOf(m)' = LeaseOf(m)
        /\ UNCHANGED <<log, minProposed, flying, asleep, req, inst, reads, retired, hasty, restarts>>
    BY <1>0, ApplyFacts
  <1>2. /\ \A m \in Node : clock[m] \in Nat /\ clock'[m] \in Nat /\ clock[m] <= clock'[m]
        /\ \A m, k \in Node : clock'[m] <= clock'[k] + MaxOffset
    BY ApplyClock
  <1>3. \A m \in Node : applied[m] \in Nat /\ applied'[m] \in Nat /\ applied[m] <= applied'[m]
    <2>1. applied \in [Node -> Nat]
      BY <1>0 DEF TypeOK
    <2> QED
      BY <1>1, <2>1
  <1>4. \A m \in Node : \A i \in 1..applied[m] : i \in 1..applied'[m]
    BY <1>3
  <1>5. LogOK'
    BY <1>0, <1>1 DEF LogOK
  <1>6. ClocksOK'
    <2>1. \A l \in Leases : l.start \in Nat
      BY <1>0, LeasesType DEF Lease
    <2>2. Leases' = Leases
      BY <1>1 DEF Leases
    <2>3. \A m \in Node : minProposed[m] \in Nat
      BY <1>0 DEF TypeOK
    <2>4. \A l \in Leases : \E p \in Node : l.start <= clock'[p]
      BY <1>0, <1>2, <2>1 DEF ClocksOK
    <2>5. \A m \in Node : minProposed[m] <= clock'[m]
      BY <1>0, <1>2, <2>3 DEF ClocksOK
    <2> QED
      BY <1>1, <1>2, <2>2, <2>4, <2>5 DEF ClocksOK
  <1>7. \A m \in Node : LeaseOf(m).seq <= LeaseOf(m)'.seq /\ LeaseOf(m).seq \in Nat /\ LeaseOf(m)'.seq \in Nat
    <2>1. \A i, j \in 1..Len(log) : i <= j => log[i].seq <= log[j].seq
      BY <1>0 DEF LogOK
    <2>2. applied[n] \in 1..Len(log) /\ applied[n] <= applied[n] + 1 /\ LeaseOf(n) = log[applied[n]]
      BY <1>0, <1>3, AppliedFacts
    <2>3. LeaseOf(n).seq <= LeaseOf(n)'.seq
      BY <1>1, <2>1, <2>2
    <2>4. \A m \in Node : LeaseOf(m).seq \in Nat /\ LeaseOf(m)'.seq \in Nat
      BY <1>0, <1>1, LogTypes DEF Lease
    <2> QED
      BY <1>1, <2>3, <2>4
  <1>8. RetiredOK'
    <2> SUFFICES ASSUME NEW s \in retired
                 PROVE \E h \in Node : \E i \in 1..applied'[h] :
                          /\ log[i].seq = s /\ log[i].holder = h
                          /\ s < LeaseOf(h)'.seq \/ asleep[h] # 0 \/ Barred(h, s)'
      BY <1>1 DEF RetiredOK
    <2>1. \A h \in Node : Barred(h, s) => Barred(h, s)'
      BY <1>1 DEF Barred
    <2>2. s \in Nat
      BY <1>0 DEF TypeOK
    <2>3. \A h \in Node : s < LeaseOf(h).seq => s < LeaseOf(h)'.seq
      BY <1>7, <2>2
    <2> QED
      BY <1>0, <1>4, <2>1, <2>3 DEF RetiredOK
  <1>9. \A m \in Node : RequestOK(m)'
    <2> SUFFICES ASSUME NEW m \in Node, req[m] # Idle PROVE RequestOK(m)'
      BY <1>1 DEF RequestOK
    <2>1. RequestOK(m) /\ req[m] \in Request \cup {Idle}
      BY <1>0 DEF BaseInv, TypeOK
    <2>2. req[m].now \in Nat
      BY <2>1, IdleIsNoRequest
    <2> QED
      BY <1>1, <1>2, <1>4, <2>1, <2>2 DEF RequestOK
  <1>10. \A c \in flying' : CommandOK(c)'
    BY <1>1, CommandsSame
  <1> QED
    BY <1>1, <1>5, <1>6, <1>8, <1>9, <1>10 DEF BaseInv

LEMMA BaseCrash ==
    ASSUME BaseInv, NEW n \in Node, Crash(n)
    PROVE BaseInv'
  <1>0. TypeOK /\ LogOK /\ ClocksOK /\ RetiredOK
    BY DEF BaseInv
  <1>1. /\ TypeOK' /\ UNCHANGED <<log, applied, minProposed, flying, clock>>
        /\ asleep' = [asleep EXCEPT ![n] = clock[n] + MaxOffset + 1]
        /\ req'[n] = Idle /\ \A m \in Node \ {n} : req'[m] = req[m]
        /\ retired' = retired \cup {s \in {LeaseOf(n).seq} : LeaseOf(n).holder = n}
    BY <1>0, CrashFacts DEF LeasesSame
  <1>2. asleep'[n] # 0 /\ \A m \in Node \ {n} : asleep'[m] = asleep[m]
    <2>1. asleep \in [Node -> Nat] /\ clock[n] \in Nat /\ MaxOffset \in Nat
      BY <1>0, Constants DEF TypeOK
    <2> QED
      BY <1>1, <2>1
  <1>3. LogOK' /\ ClocksOK'
    BY <1>0, <1>1 DEF LogOK, ClocksOK, Leases
  <1>4. \A m \in Node : RequestOK(m)'
    <2>1. \A m \in Node : clock[m] \in Nat /\ clock[m] <= clock'[m]
      BY <1>0, <1>1 DEF TypeOK
    <2>2. \A m \in Node : req'[m] # Idle => req[m] # Idle /\ SameRequest(req[m], req'[m])
      BY <1>1 DEF SameRequest
    <2> QED
      BY <1>1, <2>1, <2>2, RequestSame
  <1>5. \A c \in flying' : CommandOK(c)'
    BY <1>1, CommandsSame
  <1>6. RetiredOK'
    <2>1. \A h \in Node : \A s : Barred(h, s)' <=> Barred(h, s)
      BY <1>1 DEF Barred
    <2>2. \A s \in retired : \E h \in Node : \E i \in 1..applied[h] :
                /\ log[i].seq = s /\ log[i].holder = h
                /\ s < LeaseOf(h).seq \/ asleep'[h] # 0 \/ Barred(h, s)
      BY <1>0, <1>2 DEF RetiredOK
    <2>3. applied[n] \in 1..applied[n] /\ LeaseOf(n) = log[applied[n]]
      BY <1>0, AppliedFacts
    <2>4. \A s \in retired' : \E h \in Node : \E i \in 1..applied[h] :
                /\ log[i].seq = s /\ log[i].holder = h
                /\ s < LeaseOf(h).seq \/ asleep'[h] # 0 \/ Barred(h, s)
      BY <1>1, <1>2, <2>2, <2>3
    <2>5. log' = log /\ applied' = applied
      BY <1>1 DEF LeasesSame
    <2>6. \A h \in Node : LeaseOf(h)' = LeaseOf(h)
      BY <2>5 DEF LeaseOf
    <2> QED
      BY <2>1, <2>4, <2>5, <2>6 DEF RetiredOK
  <1> QED
    BY <1>1, <1>3, <1>4, <1>5, <1>6 DEF BaseInv

LEMMA BaseStart ==
    ASSUME BaseInv, NEW n \in Node, Start(n)
    PROVE BaseInv'
  <1>0. TypeOK /\ LogOK /\ ClocksOK /\ RetiredOK
    BY DEF BaseInv
  <1>1. /\ TypeOK' /\ NewReading(n) /\ asleep' = [asleep EXCEPT ![n] = 0]
        /\ minProposed' = [minProposed EXCEPT ![n] = clock[n]]
        /\ UNCHANGED <<clock, log, applied, flying, req, inst, retired>>
    BY <1>0, StartFacts
  <1>2. /\ \A m \in Node \ {n} : minProposed'[m] = minProposed[m] /\ asleep'[m] = asleep[m]
        /\ minProposed'[n] = clock[n] /\ asleep'[n] = 0
    BY <1>0, <1>1 DEF TypeOK
  <1>3. \A m \in Node : minProposed[m] <= minProposed'[m] /\ minProposed'[m] <= clock[m]
    <2>1. \A m \in Node : minProposed[m] \in Nat /\ clock[m] \in Nat /\ minProposed[m] <= clock[m]
      BY <1>0 DEF TypeOK, ClocksOK
    <2> QED
      BY <1>2, <2>1
  <1>4. LogOK'
    BY <1>0, <1>1 DEF LogOK
  <1>5. ClocksOK'
    BY <1>0, <1>1, <1>3 DEF ClocksOK, Leases
  <1>6. \A m \in Node : RequestOK(m)'
    <2>1. \A m \in Node : clock[m] \in Nat /\ clock[m] <= clock'[m]
      BY <1>0, <1>1 DEF TypeOK
    <2>2. \A m \in Node : req'[m] # Idle => req[m] # Idle /\ SameRequest(req[m], req'[m])
      BY <1>1 DEF SameRequest
    <2> QED
      BY <1>1, <2>1, <2>2, RequestSame
  <1>7. \A c \in flying' : CommandOK(c)'
    BY <1>1, CommandsSame
  <1>8. RetiredOK'
    <2> SUFFICES ASSUME NEW s \in retired
                 PROVE \E h \in Node : \E i \in 1..applied[h] :
                          /\ log[i].seq = s /\ log[i].holder = h
                          /\ s < LeaseOf(h).seq \/ asleep'[h] # 0 \/ Barred(h, s)'
      BY <1>1 DEF RetiredOK, LeaseOf
    <2>1. PICK h \in Node : \E i \in 1..applied[h] :
                          /\ log[i].seq = s /\ log[i].holder = h
                          /\ s < LeaseOf(h).seq \/ asleep[h] # 0 \/ Barred(h, s)
      BY <1>0 DEF RetiredOK
    <2>2. PICK i \in 1..applied[h] :
                          /\ log[i].seq = s /\ log[i].holder = h
                          /\ s < LeaseOf(h).seq \/ asleep[h] # 0 \/ Barred(h, s)
      BY <2>1
    <2>3. Barred(h, s) => Barred(h, s)'
      BY <1>0, <1>1, <1>3, BarredGrows
    <2>4. CASE h # n
      BY <1>2, <2>2, <2>3, <2>4
    <2>5. CASE h = n
      <3>1. /\ i \in 1..Len(log) /\ applied[n] \in 1..Len(log) /\ LeaseOf(n) = log[applied[n]]
            /\ s <= LeaseOf(n).seq /\ s \in Nat /\ LeaseOf(n).seq \in Nat
        <4>1. s \in Nat
          BY <1>0 DEF TypeOK
        <4> QED
          BY <1>0, <2>2, <2>5, <4>1, AppliedFacts
      <3>2. CASE s < LeaseOf(n).seq
        BY <2>2, <2>5, <3>2
      <3>3. CASE s = LeaseOf(n).seq
        <4>1. LeaseOf(n).holder = n
          BY <1>0, <2>2, <2>5, <3>1, <3>3, SameSeq
        <4>2. Barred(n, s)'
          BY <1>1, <1>2, <3>3, <4>1, ReadingBars DEF Barred
        <4> QED
          BY <2>2, <2>5, <4>2
      <3> QED
        BY <3>1, <3>2, <3>3
    <2> QED
      BY <2>4, <2>5
  <1> QED
    BY <1>1, <1>4, <1>5, <1>6, <1>7, <1>8 DEF BaseInv

LEMMA BaseStep ==
    ASSUME BaseInv, [Next]_vars
    PROVE BaseInv'
  <1>0. TypeOK
    BY DEF BaseInv
  <1>1. CASE UNCHANGED vars
    <2>1. TypeOK'
      BY <1>0, TypeStep
    <2> QED
      BY <1>1, <2>1, StutterFacts, BaseSame DEF Unchanged, SameRequest
  <1>2. ASSUME NEW n \in Node, Tick(n) \/ Start(n) PROVE BaseInv'
    BY <1>2, BaseTick, BaseStart
  <1>3. ASSUME NEW n \in Node,
               Heartbeat(n) \/ \E m \in Node : Gossip(n, m) \/ IncrementElsewhere(n, m)
        PROVE BaseInv'
    BY <1>0, <1>3, LivenessStepType, BaseSame DEF LeasesSame, SameRequest
  <1>4. ASSUME NEW n \in Node, Read(n) PROVE BaseInv'
    BY <1>0, <1>4, ReadType, BaseSame DEF LeasesSame, SameRequest
  <1>5. ASSUME NEW n \in Node, RequestLease(n) \/ TransferLease(n) PROVE BaseInv'
    BY <1>5, BaseRequest
  <1>6. ASSUME NEW n \in Node, Cancel(n) \/ Promote(n) \/ Revive(n) \/ Invalidate(n) PROVE BaseInv'
    <2>1. \A m \in Node : req'[m] # Idle => req[m] # Idle /\ SameRequest(req[m], req'[m])
      BY <1>0, <1>6, ProgressFacts DEF GoesOn, SameRequest
    <2> QED
      BY <1>0, <1>6, <2>1, ProgressFacts, BaseSame DEF LeasesSame
  <1>7. ASSUME NEW n \in Node, SendRequest(n) PROVE BaseInv'
    BY <1>7, BaseSendRequest
  <1>8. ASSUME NEW n \in Node, SendTransfer(n) PROVE BaseInv'
    BY <1>8, BaseSendTransfer
  <1>9. ASSUME NEW n \in Node, Apply(n) PROVE BaseInv'
    BY <1>9, BaseApply
  <1>10. ASSUME NEW n \in Node, Crash(n) PROVE BaseInv'
    BY <1>10, BaseCrash
  <1>11. ASSUME NEW c \in flying, Commit(c) PROVE BaseInv'
    BY <1>11, BaseCommit
  <1>12. ASSUME NEW c \in flying, Drop(c) PROVE BaseInv'
    <2>1. /\ TypeOK' /\ flying' \subseteq flying
          /\ UNCHANGED <<log, applied, minProposed, clock, asleep, req, inst, retired>>
      BY <1>0, <1>12, DropFacts
    <2> QED
      BY <2>1, BaseSame DEF SameRequest
  <1> QED
    BY <1>1, <1>2, <1>3, <1>4, <1>5, <1>6, <1>7, <1>8, <1>9, <1>10, <1>11, <1>12, Steps

LEMMA InitFacts ==
    ASSUME Init
    PROVE /\ TypeOK /\ Len(log) = 1 /\ flying = {} /\ retired = {}
          /\ inst.firstTime \in Nat /\ inst.duration \in Nat
          /\ log[1].holder = First /\ log[1].seq = 1 /\ log[1].start = inst.firstTime
          /\ log[1].prop = inst.firstTime /\ log[1].sum = inst.firstTime
          /\ log[1].epoch = IF inst.firstKind = "epoch" THEN 1 ELSE 0
          /\ log[1].exp = IF inst.firstKind = "epoch" THEN 0 ELSE inst.firstTime + inst.duration
          /\ \A n \in Node : /\ clock[n] = inst.firstTime /\ minProposed[n] = 0 /\ req[n] = Idle
                             /\ asleep[n] = 0 /\ booting[n] = FALSE /\ applied[n] = 1
                             /\ tscache[n] = inst.firstTime
  <1>1. TypeOK /\ inst.firstTime \in Nat /\ inst.duration \in Nat
    BY InitType, Constants DEF TypeOK
  <1>2. \A n \in Node : /\ clock[n] = inst.firstTime /\ minProposed[n] = 0 /\ req[n] = Idle
                        /\ asleep[n] = 0 /\ booting[n] = FALSE /\ applied[n] = 1
                        /\ tscache[n] = inst.firstTime
    BY DEF Init
  <1> DEFINE l == [holder |-> First, seq |-> 1, start |-> inst.firstTime, prop |-> inst.firstTime,
                sum |-> inst.firstTime, epoch |-> IF inst.firstKind = "epoch" THEN 1 ELSE 0,
                exp |-> IF inst.firstKind = "epoch" THEN 0 ELSE inst.firstTime + inst.duration]
  <1>3. log = <<l>> /\ flying = {} /\ retired = {}
    BY DEF Init
  <1>4. Len(log) = 1 /\ log[1] = l
    BY <1>3
  <1> QED
    BY <1>1, <1>2, <1>3, <1>4

LEMMA InitBase == Init => BaseInv
  <1> SUFFICES ASSUME Init PROVE BaseInv
    OBVIOUS
  <1>0. TypeOK /\ MaxOffset \in Nat /\ First \in Node
    BY InitFacts, Constants DEF TypeOK
  <1>a. Len(log) = 1 /\ log[1].seq = 1 /\ log[1].start = inst.firstTime /\ inst.firstTime \in Nat
    BY InitFacts
  <1>b. \A n \in Node : clock[n] = inst.firstTime /\ minProposed[n] = 0
    BY InitFacts
  <1>c. \A i \in 1..Len(log) : i = 1
    BY <1>a
  <1>1. LogOK
    BY <1>a, <1>c DEF LogOK
  <1>2. ClocksOK
    <2>1. \A l \in Leases : l.start = inst.firstTime
      BY <1>a, <1>c, InitFacts DEF Leases
    <2> QED
      BY <1>0, <1>a, <1>b, <2>1 DEF ClocksOK
  <1>3. RetiredOK /\ (\A n \in Node : RequestOK(n)) /\ \A c \in flying : CommandOK(c)
    BY InitFacts DEF RetiredOK, RequestOK
  <1> QED
    BY <1>0, <1>1, <1>2, <1>3 DEF BaseInv

\* What is retired is barred.
LEMMA RetiredFacts ==
    ASSUME BaseInv, NEW n \in Node, LeaseOf(n).seq \in retired, LeaseOf(n).holder = n, asleep[n] = 0
    PROVE LeaseOf(n).prop < minProposed[n]
  <1>0. TypeOK /\ LogOK
    BY DEF BaseInv
  <1>1. PICK h \in Node : \E i \in 1..applied[h] :
                /\ log[i].seq = LeaseOf(n).seq /\ log[i].holder = h
                /\ LeaseOf(n).seq < LeaseOf(h).seq \/ asleep[h] # 0 \/ Barred(h, LeaseOf(n).seq)
    BY DEF BaseInv, RetiredOK
  <1>2. PICK i \in 1..applied[h] :
                /\ log[i].seq = LeaseOf(n).seq /\ log[i].holder = h
                /\ LeaseOf(n).seq < LeaseOf(h).seq \/ asleep[h] # 0 \/ Barred(h, LeaseOf(n).seq)
    BY <1>1
  <1>3. i \in 1..Len(log) /\ applied[n] \in 1..Len(log) /\ LeaseOf(n) = log[applied[n]] /\ LeaseOf(n).seq \in Nat
    BY <1>0, AppliedFacts
  <1>4. h = n
    BY <1>0, <1>2, <1>3, SameSeq
  <1>5. Barred(n, LeaseOf(n).seq)
    BY <1>2, <1>3, <1>4
  <1> QED
    BY <1>3, <1>5 DEF Barred

\* A lease that was given up by a transfer, successful or not, or that was held before a
\* restart is never served under again with the same sequence number: its holder has
\* moved minLeaseProposedTS above everything that bears the number, and an extension
\* starts at minLeaseProposedTS or later, which makes it another lease.
THEOREM RetiredLeasesStayRetired == Spec => []RetiredStaysRetired
  <1>1. Init => BaseInv
    BY InitBase
  <1>2. BaseInv /\ [Next]_vars => BaseInv'
    BY BaseStep
  <1>3. BaseInv => RetiredStaysRetired
    <2> SUFFICES ASSUME BaseInv, NEW n \in Node, NEW c \in Node, CanServe(n, clock[c]), LeaseOf(n).seq \in retired
                 PROVE FALSE
      BY DEF RetiredStaysRetired
    <2>1. asleep[n] = 0 /\ LeaseOf(n).holder = n /\ LeaseStatus(n, LeaseOf(n), clock[c]) = "VALID"
      BY DEF CanServe
    <2>2. ~ Proscribed(n, LeaseOf(n))
      BY <2>1, StatusFacts
    <2> QED
      BY <2>1, <2>2, RetiredFacts DEF Proscribed
  <1> QED
    BY <1>1, <1>2, <1>3, PTL DEF Spec

\* The assertions of leasePostApplyLocked never stop a replica: along the log the
\* sequence number stays, and the lease is an extension of the one before, or grows by
\* one.  The check below Raft sees to it: a command that was evaluated with another
\* lease than the present one has no effect.
THEOREM SequenceAssertionsHold == Spec => []SequencesAdvance
  <1>1. Init => BaseInv
    BY InitBase
  <1>2. BaseInv /\ [Next]_vars => BaseInv'
    BY BaseStep
  <1>3. BaseInv => SequencesAdvance
    <2> SUFFICES ASSUME BaseInv, NEW n \in Node, applied[n] < Len(log)
                 PROVE LET k == LeaseOf(n)
                           l == log[applied[n] + 1]
                       IN  /\ l.seq \in {k.seq, k.seq + 1}
                           /\ l.seq = k.seq => Equivalent(k, l)
      BY DEF SequencesAdvance
    <2>0. TypeOK /\ LogOK
      BY DEF BaseInv
    <2>1. /\ applied[n] \in Nat /\ applied[n] \in 1..Len(log) /\ Len(log) \in Nat
          /\ LeaseOf(n) = log[applied[n]]
      BY <2>0, LogTypes DEF TypeOK, LeaseOf
    <2>2. applied[n] + 1 \in 1..Len(log) /\ applied[n] < applied[n] + 1
      BY <2>1
    <2>3. /\ log[applied[n]].seq \in Nat /\ log[applied[n] + 1].seq \in Nat
          /\ log[applied[n]].epoch \in Nat
      BY <2>0, <2>1, <2>2, LogTypes DEF Lease
    <2>4. /\ log[applied[n]].seq <= log[applied[n] + 1].seq
          /\ log[applied[n] + 1].seq <= log[applied[n]].seq + 1
          /\ log[applied[n]].seq = log[applied[n] + 1].seq => Extends(log[applied[n]], log[applied[n] + 1])
      BY <2>0, <2>1, <2>2 DEF LogOK
    <2> QED
      BY <2>1, <2>3, <2>4 DEF Extends, Equivalent
  <1> QED
    BY <1>1, <1>2, <1>3, PTL DEF Spec

-----------------------------------------------------------------------------
(* Leases that are over stay so.                                           *)

Forward ==
    /\ \A n \in Node : /\ clock[n] <= clock'[n] /\ record[n].epoch <= record'[n].epoch
                       /\ minProposed[n] <= minProposed'[n]
    /\ \A n \in Node : asleep[n] # 0 /\ asleep'[n] = 0 =>
          \A l \in Leases : l.holder = n => l.prop < minProposed'[n]
    /\ hasty \subseteq hasty'

LEMMA OverStable ==
    ASSUME TypeOK, TypeOK', Forward, NEW l \in Lease, Over(l)
    PROVE Over(l)'
  <1>1. l.exp \in Nat /\ l.epoch \in Nat /\ l.holder \in Node
    BY DEF Lease
  <1>2. \A n \in Node : clock[n] \in Nat /\ clock'[n] \in Nat
    BY DEF TypeOK
  <1>3. \A n \in Node : record[n].epoch \in Nat /\ record'[n].epoch \in Nat
    BY DEF TypeOK, Record
  <1>4. CASE l.epoch = 0
    <2>1. PICK p \in Node : l.exp <= clock[p]
      BY <1>4 DEF Over
    <2>2. l.exp <= clock'[p]
      BY <1>1, <1>2, <2>1 DEF Forward
    <2> QED
      BY <1>4, <2>2 DEF Over
  <1>5. CASE l.epoch # 0
    <2>1. record[l.holder].epoch > l.epoch /\ record[l.holder].epoch <= record'[l.holder].epoch
      BY <1>1, <1>5 DEF Over, Forward
    <2>2. record'[l.holder].epoch > l.epoch
      BY <1>1, <1>3, <2>1
    <2> QED
      BY <1>5, <2>2 DEF Over
  <1> QED
    BY <1>4, <1>5
LEMMA DoneStable ==
    ASSUME TypeOK, TypeOK', Forward, NEW l \in Leases, Done(l)
    PROVE Done(l)'
  <1>1. l \in Lease /\ l.prop \in Nat /\ l.holder \in Node
    BY LeasesType DEF Lease
  <1>2. CASE Over(l)
    BY <1>1, <1>2, OverStable DEF Done
  <1>3. CASE l.prop < minProposed[l.holder]
    <2>1. minProposed[l.holder] \in Nat /\ minProposed'[l.holder] \in Nat
          /\ minProposed[l.holder] <= minProposed'[l.holder]
      BY <1>1 DEF TypeOK, Forward
    <2> QED
      BY <1>1, <1>3, <2>1 DEF Done
  <1>4. CASE asleep[l.holder] # 0
    BY <1>1, <1>4 DEF Done, Forward
  <1> QED
    BY <1>2, <1>3, <1>4 DEF Done

-----------------------------------------------------------------------------
(* How a record changes: n deals with the record of m.                     *)

Learns(n, m) ==
    /\ record'[m] = record[m] /\ published'[m] = published[m]
    /\ \/ cache'[n][m] = cache[n][m]
       \/ /\ Newer(cache'[n][m], cache[n][m])
          /\ cache'[n][m] = record[m] \/ \E i \in 1..Len(published[m]) : cache'[n][m] = published[m][i]
Writes(n, m) ==
    /\ cache'[n][m] = record'[m]
    /\ \A i \in 1..Len(published'[m]) :
          \/ published'[m][i] = record'[m]
          \/ \E j \in 1..Len(published[m]) : published'[m][i] = published[m][j]
    /\ \/ /\ n = m /\ record'[m].epoch \in {record[m].epoch, record[m].epoch + 1}
          /\ record'[m].exp = clock[n] + inst.duration
          /\ record'[m].epoch = record[m].epoch => record[m].exp <= record'[m].exp
          /\ record'[m].epoch # record[m].epoch => booting[n]
       \/ /\ record'[m].epoch = record[m].epoch + 1 /\ record'[m].exp = record[m].exp
          /\ record[m].exp <= clock[n]
RecordStep(n, m) ==
    /\ \A h \in Node \ {m} : record'[h] = record[h] /\ published'[h] = published[h]
    /\ \A k, h \in Node : k # n \/ h # m => cache'[k][h] = cache[k][h]
    /\ \/ Learns(n, m) /\ booting' = booting
       \/ Writes(n, m) /\ (booting' = booting \/ (n = m /\ booting' = [booting EXCEPT ![n] = FALSE]))

LEMMA UpdatedFacts ==
    ASSUME TypeOK, NEW n \in Node, NEW m \in Node, NEW v \in Record, cache' = Updated(n, m, v)
    PROVE /\ \A k, h \in Node : k # n \/ h # m => cache'[k][h] = cache[k][h]
          /\ cache'[n][m] = IF Newer(v, cache[n][m]) THEN v ELSE cache[n][m]
  <1>1. cache \in [Node -> [Node -> Record]]
    BY DEF TypeOK
  <1>2. CASE Newer(v, cache[n][m])
    <2>1. cache' = [cache EXCEPT ![n][m] = v]
      BY <1>2 DEF Updated
    <2> QED
      BY <1>1, <1>2, <2>1
  <1>3. CASE ~ Newer(v, cache[n][m])
    BY <1>3 DEF Updated
  <1> QED
    BY <1>2, <1>3
\* Of two versions one is newer, unless they are the same.
LEMMA NewerTotal ==
    ASSUME NEW v \in Record, NEW w \in Record
    PROVE v = w \/ Newer(v, w) \/ Newer(w, v)
  BY DEF Record, Newer

\* What the conditional put of a version not older than the cached one does.
PutRecord(n, m, new) ==
    /\ record' = [record EXCEPT ![m] = new]
    /\ \A h \in Node \ {m} : record'[h] = record[h] /\ published'[h] = published[h]
    /\ record'[m] = new /\ cache'[n][m] = new
    /\ \A k, h \in Node : k # n \/ h # m => cache'[k][h] = cache[k][h]
    /\ \A i \in 1..Len(published'[m]) :
          \/ published'[m][i] = new
          \/ \E j \in 1..Len(published[m]) : published'[m][i] = published[m][j]
LEMMA PutFacts ==
    ASSUME TypeOK, NEW n \in Node, NEW m \in Node, NEW v \in Record, Put(n, m, v), ~ Newer(cache[n][m], v)
    PROVE PutRecord(n, m, v)
  <1>0. record \in [Node -> Record] /\ published \in [Node -> Seq(Record)] /\ cache[n][m] \in Record
    BY DEF TypeOK
  <1>1. record' = [record EXCEPT ![m] = v] /\ cache' = Updated(n, m, v)
    BY DEF Put
  <1>2. cache'[n][m] = v /\ \A k, h \in Node : k # n \/ h # m => cache'[k][h] = cache[k][h]
    BY <1>0, <1>1, UpdatedFacts, NewerTotal
  <1> DEFINE s == published[m]
             t == IF Len(s) <= MaxLag THEN Append(s, v) ELSE Append(Tail(s), v)
  <1>3. published' = [published EXCEPT ![m] = t]
    BY DEF Put
  <1>4. s \in Seq(Record) /\ Len(s) > 0 /\ Len(s) \in Nat
    BY DEF TypeOK
  <1>5. \A i \in 1..Len(t) : t[i] = v \/ \E j \in 1..Len(s) : t[i] = s[j]
    <2>1. CASE Len(s) <= MaxLag
      <3>1. t = Append(s, v)
        BY <2>1
      <3> HIDE DEF t, s
      <3>2. Len(t) = Len(s) + 1 /\ t[Len(s) + 1] = v /\ \A i \in 1..Len(s) : t[i] = s[i]
        BY <1>4, <3>1, AppendProperties
      <3>3. \A i \in 1..Len(t) : i \in 1..Len(s) \/ i = Len(s) + 1
        BY <1>4, <3>2
      <3> QED
        BY <3>2, <3>3
    <2>2. CASE ~ (Len(s) <= MaxLag)
      <3> DEFINE u == Tail(s)
      <3>1. t = Append(u, v)
        BY <2>2
      <3>2. u \in Seq(Record) /\ Len(u) = Len(s) - 1 /\ \A i \in 1..Len(u) : u[i] = s[i + 1]
        BY <1>4
      <3> HIDE DEF t, s, u
      <3>3. Len(t) = Len(u) + 1 /\ t[Len(u) + 1] = v /\ \A i \in 1..Len(u) : t[i] = u[i]
        BY <3>1, <3>2, AppendProperties
      <3>4. \A i \in 1..Len(t) : (i \in 1..Len(u) /\ i + 1 \in 1..Len(s)) \/ i = Len(u) + 1
        BY <1>4, <3>2, <3>3
      <3> QED
        BY <3>2, <3>3, <3>4
    <2> QED
      BY <2>1, <2>2
  <1> HIDE DEF t
  <1>6. published'[m] = t /\ \A h \in Node \ {m} : published'[h] = published[h]
    BY <1>0, <1>3
  <1>7. record'[m] = v /\ \A h \in Node \ {m} : record'[h] = record[h]
    BY <1>0, <1>1
  <1> QED
    BY <1>1, <1>2, <1>5, <1>6, <1>7 DEF PutRecord

LEMMA LearnsFacts ==
    ASSUME TypeOK, NEW n \in Node, NEW m \in Node, NEW v \in Record,
           cache' = Updated(n, m, v), UNCHANGED <<record, published, booting>>,
           v \in {record[m], cache[n][m]} \/ \E i \in 1..Len(published[m]) : v = published[m][i]
    PROVE RecordStep(n, m)
  <1>1. /\ \A k, h \in Node : k # n \/ h # m => cache'[k][h] = cache[k][h]
        /\ cache'[n][m] = IF Newer(v, cache[n][m]) THEN v ELSE cache[n][m]
    BY UpdatedFacts
  <1> QED
    BY <1>1 DEF RecordStep, Learns

\* An extension of the node's own record, and an increment of an expired one.
LEMMA ExtendedFacts ==
    ASSUME TypeOK, NEW n \in Node, NEW old \in Record
    PROVE /\ Extended(n, old) \in Record /\ Extended(n, old).epoch = old.epoch
          /\ Extended(n, old).exp = clock[n] + inst.duration
  <1>1. clock[n] \in Nat /\ inst.duration \in Nat
    BY Constants DEF TypeOK
  <1>2. clock[n] + inst.duration \in Nat
    BY <1>1
  <1> QED
    BY <1>2, RecordExp DEF Extended

LEMMA HeartbeatForFacts ==
    ASSUME TypeOK, NEW n \in Node, NEW old \in Record, HeartbeatFor(n, old)
    PROVE RecordStep(n, n)
  <1> DEFINE new == Extended(n, old)
  <1>1. /\ booting' = booting
        /\ Found(n, n, old) = old => new.exp >= old.exp /\ Put(n, n, new)
        /\ Found(n, n, old) # old => Missed(n, n, old)
    BY DEF HeartbeatFor
  <1>2. new \in Record /\ new.epoch = old.epoch /\ new.exp = clock[n] + inst.duration
    BY ExtendedFacts
  <1> HIDE DEF new
  <1>3. CASE Found(n, n, old) = old
    <2>1. cache[n][n] = old /\ record[n] = old
      BY <1>3 DEF Found
    <2>2. ~ Newer(cache[n][n], new)
      BY <1>1, <1>2, <1>3, <2>1 DEF Newer, Record
    <2>3. PutRecord(n, n, new)
      BY <1>1, <1>2, <1>3, <2>2, PutFacts
    <2>4. old.exp <= new.exp
      BY <1>1, <1>2, <1>3 DEF Record
    <2> QED
      BY <1>1, <1>2, <2>1, <2>3, <2>4 DEF RecordStep, Writes, PutRecord
  <1>4. CASE Found(n, n, old) # old
    <2>1. Found(n, n, old) \in {cache[n][n], record[n]} /\ Found(n, n, old) \in Record
      BY FoundType DEF Found
    <2>2. cache' = Updated(n, n, Found(n, n, old)) /\ UNCHANGED <<record, published, booting>>
      BY <1>1, <1>4 DEF Missed
    <2> QED
      BY <2>1, <2>2, LearnsFacts
  <1> QED
    BY <1>3, <1>4

LEMMA IncrementFacts ==
    ASSUME TypeOK, NEW n \in Node, NEW m \in Node, NEW old \in Record, booting' = booting,
           Put(n, m, Incremented(old)), Found(n, m, old) = old, Incrementable(n, old)
    PROVE RecordStep(n, m) /\ record'[m].epoch = old.epoch + 1
  <1> DEFINE new == Incremented(old)
  <1>1. new \in Record /\ new.epoch = old.epoch + 1 /\ new.exp = old.exp
    BY RecordEpoch
  <1>2. Put(n, m, new)
    OBVIOUS
  <1> HIDE DEF new
  <1>3. cache[n][m] = old /\ record[m] = old
    BY DEF Found
  <1>4. ~ Newer(cache[n][m], new)
    BY <1>1, <1>3 DEF Newer, Record
  <1>5. PutRecord(n, m, new)
    BY <1>1, <1>2, <1>4, PutFacts
  <1>6. old.exp <= clock[n]
    <2>1. clock[n] \in Nat /\ old.exp \in Nat
      BY DEF TypeOK, Record
    <2> QED
      BY <2>1 DEF Incrementable, IsLive
  <1> QED
    BY <1>1, <1>3, <1>5, <1>6 DEF RecordStep, Writes, PutRecord
LEMMA MissedFacts ==
    ASSUME TypeOK, NEW n \in Node, NEW m \in Node, NEW old, booting' = booting, Missed(n, m, old)
    PROVE RecordStep(n, m)
  <1>1. Found(n, m, old) \in {cache[n][m], record[m]} /\ Found(n, m, old) \in Record
    BY FoundType DEF Found
  <1>2. cache' = Updated(n, m, Found(n, m, old)) /\ UNCHANGED <<record, published, booting>>
    BY DEF Missed
  <1> QED
    BY <1>1, <1>2, LearnsFacts

LEMMA LivenessSteps ==
    ASSUME TypeOK, NEW n \in Node,
           Heartbeat(n) \/ \E m \in Node : Gossip(n, m) \/ IncrementElsewhere(n, m)
    PROVE \E m \in Node : RecordStep(n, m)
  <1>1. CASE Heartbeat(n)
    <2> DEFINE old == IF cache[n][n] = NoRecord THEN record[n] ELSE cache[n][n]
               ext == Extended(n, old)
               new == IF booting[n] THEN Incremented(ext) ELSE ext
    <2>1. old \in Record /\ cache[n][n] \in Record /\ record[n] \in Record
      BY DEF TypeOK
    <2>a. cache[n][n] = NoRecord \/ cache[n][n] = old
      OBVIOUS
    <2>2. /\ new.exp >= old.exp
          /\ record[n] = old => Put(n, n, new) /\ booting' = [booting EXCEPT ![n] = FALSE]
          /\ record[n] # old => cache' = Updated(n, n, record[n]) /\ UNCHANGED <<record, published, booting>>
      BY <1>1 DEF Heartbeat
    <2> HIDE DEF old
    <2>3. ext \in Record /\ ext.epoch = old.epoch /\ ext.exp = clock[n] + inst.duration
      BY <2>1, ExtendedFacts
    <2> HIDE DEF ext
    <2>4. /\ new \in Record /\ new.epoch \in {old.epoch, old.epoch + 1} /\ new.exp = clock[n] + inst.duration
          /\ new.epoch # old.epoch => booting[n]
      BY <2>3, RecordEpoch
    <2> HIDE DEF new
    <2>5. CASE record[n] = old
      <3>1. ~ Newer(cache[n][n], new)
        BY <2>1, <2>2, <2>4, <2>a DEF Newer, Record, NoRecord
      <3>2. PutRecord(n, n, new)
        BY <2>2, <2>4, <2>5, <3>1, PutFacts
      <3>3. old.exp <= new.exp
        BY <2>1, <2>2, <2>4 DEF Record
      <3>4. Writes(n, n)
        BY <2>4, <2>5, <3>2, <3>3 DEF Writes, PutRecord
      <3> QED
        BY <2>2, <2>5, <3>2, <3>4 DEF RecordStep, PutRecord
    <2>6. CASE record[n] # old
      BY <2>1, <2>2, <2>6, LearnsFacts
    <2> QED
      BY <2>5, <2>6
  <1>2. ASSUME NEW m \in Node, Gossip(n, m) PROVE RecordStep(n, m)
    <2>1. PICK v \in ToSet(published[m]) : cache' = Updated(n, m, v)
      BY <1>2 DEF Gossip
    <2>2. (\E i \in 1..Len(published[m]) : v = published[m][i]) /\ v \in Record
      BY DEF TypeOK, ToSet
    <2>3. UNCHANGED <<record, published, booting>>
      BY <1>2 DEF Gossip
    <2> QED
      BY <2>1, <2>2, <2>3, LearnsFacts
  <1>3. ASSUME NEW m \in Node, IncrementElsewhere(n, m) PROVE RecordStep(n, m)
    <2> DEFINE v == cache[n][m]
    <2>1. v \in Record
      BY DEF TypeOK
    <2>2. /\ booting' = booting /\ Incrementable(n, v)
          /\ Found(n, m, v) = v => Put(n, m, Incremented(v))
          /\ Found(n, m, v) # v => Missed(n, m, v)
      BY <1>3 DEF IncrementElsewhere
    <2> HIDE DEF v
    <2> QED
      BY <2>1, <2>2, IncrementFacts, MissedFacts
  <1> QED
    BY <1>1, <1>2, <1>3
LEMMA RequestSteps ==
    ASSUME TypeOK, NEW n \in Node, Cancel(n) \/ Promote(n) \/ Revive(n) \/ Invalidate(n)
    PROVE \E m \in Node : RecordStep(n, m)
  <1>0. req[n] # Idle /\ req[n] \in Request \cup {Idle}
    BY DEF TypeOK, Cancel, Promote, Revive, Invalidate, Idle
  <1>1. req[n].rec \in Record /\ req[n].prev.holder \in Node
    BY <1>0, IdleIsNoRequest DEF Lease
  <1>2. CASE UNCHANGED <<record, published, cache, booting>>
    BY <1>2 DEF RecordStep, Learns
  <1>3. CASE Cancel(n)
    BY <1>2, <1>3 DEF Cancel, liveness
  <1>4. CASE Promote(n) \/ Revive(n)
    BY <1>1, <1>4, HeartbeatForFacts DEF Promote, Revive
  <1>5. CASE Invalidate(n)
    <2> DEFINE m == req[n].prev.holder
               v == req[n].rec
    <2>1. /\ booting' = booting
          /\ \/ UNCHANGED <<record, published, cache>>
             \/ Incrementable(n, v) /\ Found(n, m, v) = v /\ Put(n, m, Incremented(v))
             \/ Missed(n, m, v)
      BY <1>5 DEF Invalidate
    <2> QED
      BY <1>1, <1>2, <2>1, IncrementFacts, MissedFacts
  <1> QED
    BY <1>3, <1>4, <1>5

AtMost(v, w) == v.epoch < w.epoch \/ (v.epoch = w.epoch /\ v.exp <= w.exp)
LEMMA AtMostFacts ==
    ASSUME NEW u \in Record, NEW v \in Record, NEW w \in Record
    PROVE /\ AtMost(u, v) /\ AtMost(v, w) => AtMost(u, w)
          /\ AtMost(u, u) /\ (AtMost(u, v) => u.epoch <= v.epoch)
          /\ AtMost(u, v) => ~ Newer(u, v)
          /\ Newer(u, v) /\ Newer(v, w) => Newer(u, w)
          /\ Newer(u, v) => v.epoch <= u.epoch
          /\ u.epoch \in Nat /\ u.exp \in Nat
  BY DEF AtMost, Newer, Record
LEMMA KnownFacts ==
    ASSUME TypeOK, NEW h \in Node, NEW v
    PROVE Known(h, v) <=> AtMost(v, record[h])
  BY DEF Known, AtMost

\* Records only grow.
LEMMA RecordsGrow ==
    ASSUME TypeOK, TypeOK', NEW n \in Node, NEW m \in Node, RecordStep(n, m)
    PROVE \A h \in Node : AtMost(record[h], record'[h]) /\ record[h].epoch <= record'[h].epoch
  <1>1. \A h \in Node : record[h] \in Record /\ record'[h] \in Record
    BY DEF TypeOK
  <1>2. AtMost(record[m], record'[m])
    <2>1. CASE Learns(n, m)
      BY <1>1, <2>1, AtMostFacts DEF Learns
    <2>2. CASE Writes(n, m)
      BY <1>1, <2>2 DEF Writes, AtMost, Record
    <2> QED
      BY <2>1, <2>2 DEF RecordStep
  <1>3. \A h \in Node : AtMost(record[h], record'[h])
    BY <1>1, <1>2, AtMostFacts DEF RecordStep
  <1> QED
    BY <1>1, <1>3, AtMostFacts

LEMMA RecordsStep ==
    ASSUME TypeOK, TypeOK', RecordsOK, NEW n \in Node, NEW m \in Node, RecordStep(n, m),
           UNCHANGED <<log, flying, clock, inst>>
    PROVE RecordsOK'
  <1>0. \A h \in Node : record[h] \in Record /\ record'[h] \in Record
    BY DEF TypeOK
  <1>a. \A k, h \in Node : cache[k][h] \in Record /\ cache'[k][h] \in Record
    BY DEF TypeOK
  <1>b. \A h \in Node : /\ \A i \in 1..Len(published[h]) : published[h][i] \in Record
                        /\ \A i \in 1..Len(published'[h]) : published'[h][i] \in Record
    <2>1. \A h \in Node : published[h] \in Seq(Record) /\ published'[h] \in Seq(Record)
      BY DEF TypeOK
    <2> QED
      BY <2>1
  <1>c. \A h \in Node : AtMost(record[h], record'[h]) /\ record[h].epoch <= record'[h].epoch
    BY RecordsGrow
  <1>d. inst.duration \in Nat /\ \A h \in Node : clock[h] \in Nat
    BY Constants DEF TypeOK
  <1>1. \A h \in Node : record'[h].exp <= clock[h] + inst.duration
    <2>1. record'[m].exp <= clock[m] + inst.duration
      <3>1. CASE Learns(n, m)
        BY <3>1 DEF Learns, RecordsOK
      <3>2. CASE Writes(n, m)
        <4>1. record[m].exp <= clock[m] + inst.duration
          BY DEF RecordsOK
        <4>2. (n = m /\ record'[m].exp = clock[n] + inst.duration) \/ record'[m].exp = record[m].exp
          BY <3>2 DEF Writes
        <4> QED
          BY <1>d, <4>1, <4>2
      <3> QED
        BY <3>1, <3>2 DEF RecordStep
    <2> QED
      BY <2>1 DEF RecordStep, RecordsOK
  <1>2. \A h \in Node : \A v \in Record : AtMost(v, record[h]) => AtMost(v, record'[h])
    BY <1>0, <1>c, AtMostFacts
  <1>3. \A k, h \in Node : AtMost(cache[k][h], record[h])
    BY KnownFacts DEF RecordsOK
  <1>4. \A h \in Node : \A i \in 1..Len(published[h]) : AtMost(published[h][i], record[h])
    BY KnownFacts DEF RecordsOK
  <1>5. AtMost(cache'[n][m], record'[m])
    <2>1. CASE Learns(n, m)
      <3>1. AtMost(record[m], record[m])
        BY <1>0, AtMostFacts
      <3>2. AtMost(cache'[n][m], record[m])
        BY <1>3, <1>4, <2>1, <3>1 DEF Learns
      <3> QED
        BY <2>1, <3>2 DEF Learns
    <2>2. CASE Writes(n, m)
      BY <1>0, <2>2, AtMostFacts DEF Writes
    <2> QED
      BY <2>1, <2>2 DEF RecordStep
  <1>6. \A k, h \in Node : AtMost(cache'[k][h], record'[h])
    <2> TAKE k, h \in Node
    <2>1. CASE k = n /\ h = m
      BY <1>5, <2>1
    <2>2. CASE k # n \/ h # m
      BY <1>2, <1>3, <1>a, <2>2 DEF RecordStep
    <2> QED
      BY <2>1, <2>2
  <1>7. \A h \in Node : \A i \in 1..Len(published'[h]) : AtMost(published'[h][i], record'[h])
    <2> TAKE h \in Node
    <2>1. CASE h # m
      BY <1>2, <1>4, <1>b, <2>1 DEF RecordStep
    <2>2. CASE h = m /\ Learns(n, m)
      BY <1>2, <1>4, <1>b, <2>2 DEF Learns
    <2>3. CASE h = m /\ Writes(n, m)
      <3> TAKE i \in 1..Len(published'[h])
      <3>1. CASE published'[m][i] = record'[m]
        BY <1>0, <2>3, <3>1, AtMostFacts
      <3>2. ASSUME NEW j \in 1..Len(published[m]), published'[m][i] = published[m][j]
            PROVE AtMost(published'[h][i], record'[h])
        BY <1>2, <1>4, <1>b, <2>3, <3>2
      <3> QED
        BY <2>3, <3>1, <3>2 DEF Writes
    <2> QED
      BY <2>1, <2>2, <2>3 DEF RecordStep
  <1>8. \A l \in Leases' : l.epoch <= record'[l.holder].epoch
    <2>1. Leases' = Leases
      BY DEF Leases
    <2>2. \A l \in Leases : l.epoch \in Nat /\ l.holder \in Node
      BY LeasesType DEF Lease
    <2>3. \A h \in Node : record[h].epoch \in Nat /\ record'[h].epoch \in Nat
      BY <1>0 DEF Record
    <2>4. \A l \in Leases : l.epoch <= record[l.holder].epoch
      BY DEF RecordsOK
    <2>5. ASSUME NEW l \in Leases PROVE l.epoch <= record'[l.holder].epoch
      <3>1. l.holder \in Node /\ l.epoch \in Nat /\ l.epoch <= record[l.holder].epoch
        BY <2>2, <2>4
      <3> QED
        BY <1>c, <2>3, <3>1
    <2> QED
      BY <2>1, <2>5
  <1> QED
    BY <1>1, <1>6, <1>7, <1>8 DEF RecordsOK, Known, AtMost

LEMMA OwnRecordStep ==
    ASSUME TypeOK, TypeOK', RecordsOK, NEW n \in Node, NEW m \in Node, RecordStep(n, m),
           UNCHANGED <<log, flying, clock, inst, asleep>>, inst.kind = "epoch",
           \A h \in Node : req'[h] # Idle => req[h] # Idle /\ SameRequest(req[h], req'[h]),
           NEW h \in Node, OwnRecordOK(h), AskerOK(h)
    PROVE OwnRecordOK(h)'
  <1> SUFFICES ASSUME asleep[h] = 0, ~ booting'[h]
               PROVE  /\ Ended(h, cache[h][h])'
                      /\ \A i \in 1..Len(published'[h]) :
                            Newer(published'[h][i], cache'[h][h]) => Ended(h, published[h][i])'
                      /\ \A l \in Leases : l.holder = h => l.epoch <= cache'[h][h].epoch
                      /\ req'[h] # Idle /\ req'[h].to = h => req'[h].epoch <= cache'[h][h].epoch
    <2>1. Leases' = Leases
      BY DEF Leases
    <2> QED
      BY <2>1 DEF OwnRecordOK
  <1>0. /\ record[h] \in Record /\ record'[h] \in Record /\ cache[h][h] \in Record /\ cache'[h][h] \in Record
        /\ record[h].epoch \in Nat /\ record'[h].epoch \in Nat /\ cache[h][h].epoch \in Nat
        /\ cache'[h][h].epoch \in Nat
    <2>1. record[h] \in Record /\ record'[h] \in Record /\ cache[h][h] \in Record /\ cache'[h][h] \in Record
      BY DEF TypeOK
    <2> QED
      BY <2>1 DEF Record
  <1>a. /\ \A i \in 1..Len(published[h]) : published[h][i] \in Record /\ AtMost(published[h][i], record[h])
        /\ \A i \in 1..Len(published'[h]) : published'[h][i] \in Record
        /\ AtMost(cache[h][h], record[h])
    <2>1. published[h] \in Seq(Record) /\ published'[h] \in Seq(Record)
      BY DEF TypeOK
    <2> QED
      BY <2>1, KnownFacts DEF RecordsOK
  <1>b. AtMost(record[h], record'[h]) /\ record[h].epoch <= record'[h].epoch
    BY RecordsGrow
  <1>c. \A l \in Leases : l.holder = h => l.epoch \in Nat /\ l.epoch <= record[h].epoch
    <2>1. \A l \in Leases : l \in Lease
      BY LeasesType
    <2> QED
      BY <2>1 DEF RecordsOK, Lease
  <1>d. req'[h] # Idle => /\ req[h] # Idle /\ req'[h].to = req[h].to /\ req'[h].epoch = req[h].epoch
                          /\ req[h].epoch \in Nat /\ (req[h].to = h => req[h].epoch <= record[h].epoch)
    <2>1. req[h] \in Request \cup {Idle}
      BY DEF TypeOK
    <2> QED
      BY <2>1, IdleIsNoRequest DEF SameRequest, AskerOK
  <1>e. ~ booting[h] =>
            /\ Ended(h, cache[h][h])
            /\ \A i \in 1..Len(published[h]) : Newer(published[h][i], cache[h][h]) => Ended(h, published[h][i])
            /\ \A l \in Leases : l.holder = h => l.epoch <= cache[h][h].epoch
            /\ req[h] # Idle /\ req[h].to = h => req[h].epoch <= cache[h][h].epoch
    BY DEF OwnRecordOK
  \* Nothing that concerns h has changed.
  <1>1. CASE /\ record'[h] = record[h] /\ published'[h] = published[h] /\ cache'[h][h] = cache[h][h]
             /\ ~ booting[h]
    BY <1>1, <1>d, <1>e DEF Ended
  <1>2. CASE h # m
    <2>1. ~ booting[h]
      BY <1>2 DEF RecordStep, TypeOK
    <2> QED
      BY <1>1, <1>2, <2>1 DEF RecordStep
  \* Another node has dealt with the record of h.
  <1>3. CASE h = m /\ n # m
    <2>1. cache'[h][h] = cache[h][h] /\ ~ booting[h]
      BY <1>3 DEF RecordStep
    <2>2. CASE Learns(n, m)
      BY <1>1, <1>3, <2>1, <2>2 DEF Learns
    <2>3. CASE Writes(n, m)
      <3>1. record'[h].epoch = record[h].epoch + 1 /\ record[h].exp <= clock[n]
        BY <1>3, <2>3 DEF Writes
      <3>2. ASSUME NEW v \in Record, AtMost(v, record[h]), Ended(h, v)
            PROVE v.epoch < record'[h].epoch => \E p \in Node : v.exp <= clock[p]
        <4>1. CASE v.epoch < record[h].epoch
          BY <3>2, <4>1 DEF Ended
        <4>2. CASE v.epoch = record[h].epoch /\ v.exp <= record[h].exp
          <5>1. clock[n] \in Nat /\ record[h].exp \in Nat /\ v.exp \in Nat
            BY <1>0 DEF TypeOK, Record
          <5>2. v.exp <= clock[n]
            BY <3>1, <4>2, <5>1
          <5> QED
            BY <5>2
        <4> QED
          BY <3>2, <4>1, <4>2 DEF AtMost
      <3>3. Ended(h, cache[h][h])'
        BY <1>0, <1>a, <1>e, <2>1, <3>2 DEF Ended
      <3>4. ASSUME NEW i \in 1..Len(published'[h]), Newer(published'[h][i], cache'[h][h])
            PROVE Ended(h, published[h][i])'
        <4>1. CASE published'[h][i] = record'[h]
          BY <1>0, <4>1 DEF Ended
        <4>2. ASSUME NEW j \in 1..Len(published[h]), published'[h][i] = published[h][j]
              PROVE Ended(h, published[h][i])'
          <5>1. Newer(published[h][j], cache[h][h])
            BY <2>1, <3>4, <4>2
          <5>2. Ended(h, published[h][j]) /\ published[h][j] \in Record /\ AtMost(published[h][j], record[h])
            BY <1>a, <1>e, <2>1, <5>1
          <5>3. published[h][j].epoch < record'[h].epoch => \E p \in Node : published[h][j].exp <= clock[p]
            BY <3>2, <5>2
          <5> QED
            BY <4>2, <5>3 DEF Ended
        <4> QED
          BY <1>3, <2>3, <4>1, <4>2 DEF Writes
      <3> QED
        BY <1>d, <1>e, <2>1, <3>3, <3>4
    <2> QED
      BY <2>2, <2>3 DEF RecordStep
  \* The node has dealt with its own record.
  <1>4. CASE h = m /\ n = m
    <2>1. CASE Learns(n, m) /\ booting' = booting
      <3>0. record'[h] = record[h] /\ published'[h] = published[h] /\ ~ booting[h]
        BY <1>4, <2>1 DEF Learns
      <3>1. CASE cache'[h][h] = cache[h][h]
        BY <1>1, <3>0, <3>1
      <3>2. CASE /\ Newer(cache'[h][h], cache[h][h])
                 /\ cache'[h][h] = record[h] \/ \E i \in 1..Len(published[h]) : cache'[h][h] = published[h][i]
        <4>1. Ended(h, cache[h][h])'
          <5>1. CASE cache'[h][h] = record[h]
            BY <1>0, <3>0, <5>1 DEF Ended
          <5>2. ASSUME NEW i \in 1..Len(published[h]), cache'[h][h] = published[h][i]
                PROVE Ended(h, cache[h][h])'
            <6>1. Ended(h, published[h][i])
              BY <1>e, <3>0, <3>2, <5>2
            <6> QED
              BY <3>0, <5>2, <6>1 DEF Ended
          <5> QED
            BY <3>2, <5>1, <5>2
        <4>2. ASSUME NEW i \in 1..Len(published'[h]), Newer(published'[h][i], cache'[h][h])
              PROVE Ended(h, published[h][i])'
          <5>1. Newer(published[h][i], cache[h][h])
            BY <1>0, <1>a, <3>0, <3>2, <4>2, AtMostFacts
          <5> QED
            BY <1>e, <3>0, <5>1 DEF Ended
        <4>3. cache[h][h].epoch <= cache'[h][h].epoch
          BY <1>0, <3>2, AtMostFacts
        <4>4. \A l \in Leases : l.holder = h => l.epoch <= cache'[h][h].epoch
          BY <1>0, <1>c, <1>e, <3>0, <4>3
        <4>5. req'[h] # Idle /\ req'[h].to = h => req'[h].epoch <= cache'[h][h].epoch
          BY <1>0, <1>d, <1>e, <3>0, <4>3
        <4> QED
          BY <4>1, <4>2, <4>4, <4>5
      <3> QED
        BY <1>4, <2>1, <3>1, <3>2 DEF Learns
    <2>2. CASE Writes(n, m)
      <3>1. cache'[h][h] = record'[h]
        BY <1>4, <2>2 DEF Writes
      <3>2. Ended(h, cache[h][h])'
        BY <1>0, <3>1 DEF Ended
      <3>3. \A i \in 1..Len(published'[h]) : ~ Newer(published'[h][i], cache'[h][h])
        <4> TAKE i \in 1..Len(published'[h])
        <4>1. AtMost(published'[h][i], record'[h])
          <5>1. CASE published'[h][i] = record'[h]
            BY <1>0, <5>1, AtMostFacts
          <5>2. ASSUME NEW j \in 1..Len(published[h]), published'[h][i] = published[h][j]
                PROVE AtMost(published'[h][i], record'[h])
            BY <1>0, <1>a, <1>b, <5>2, AtMostFacts
          <5> QED
            BY <1>4, <2>2, <5>1, <5>2 DEF Writes
        <4> QED
          BY <1>0, <1>a, <3>1, <4>1, AtMostFacts
      <3>4. \A l \in Leases : l.holder = h => l.epoch <= cache'[h][h].epoch
        BY <1>0, <1>b, <1>c, <3>1
      <3>5. req'[h] # Idle /\ req'[h].to = h => req'[h].epoch <= cache'[h][h].epoch
        BY <1>0, <1>b, <1>d, <3>1
      <3> QED
        BY <3>2, <3>3, <3>4, <3>5
    <2> QED
      BY <2>1, <2>2 DEF RecordStep
  <1> QED
    BY <1>2, <1>3, <1>4

LEMMA AskerStable ==
    ASSUME TypeOK, TypeOK', NEW h \in Node, AskerOK(h), record[h].epoch <= record'[h].epoch,
           asleep'[h] = asleep[h], booting'[h] => booting[h], hasty \subseteq hasty',
           req'[h] # Idle => req[h] # Idle /\ SameRequest(req[h], req'[h])
    PROVE AskerOK(h)'
  <1>0. req[h] \in Request \cup {Idle} /\ record[h].epoch \in Nat /\ record'[h].epoch \in Nat
    BY DEF TypeOK, Record
  <1>1. req'[h] # Idle => /\ req[h] # Idle /\ req'[h].to = req[h].to /\ req'[h].epoch = req[h].epoch
                          /\ req'[h].now = req[h].now /\ req[h].epoch \in Nat
    BY <1>0, IdleIsNoRequest DEF SameRequest
  <1> QED
    BY <1>0, <1>1 DEF AskerOK

LEMMA EpochsRecord ==
    ASSUME TypeOK, TypeOK', EpochsOK, NEW n \in Node, NEW m \in Node, RecordStep(n, m),
           UNCHANGED <<log, flying, minProposed, clock, inst, asleep, hasty>>,
           \A h \in Node : req'[h] # Idle => req[h] # Idle /\ SameRequest(req[h], req'[h])
    PROVE EpochsOK'
  <1> SUFFICES ASSUME inst.kind = "epoch"
               PROVE RecordsOK' /\ \A h \in Node : OwnRecordOK(h)' /\ BootOK(h)' /\ AskerOK(h)'
    BY DEF EpochsOK
  <1>1. RecordsOK /\ \A h \in Node : OwnRecordOK(h) /\ BootOK(h) /\ AskerOK(h)
    BY DEF EpochsOK
  <1>2. RecordsOK'
    BY <1>1, RecordsStep
  <1>3. \A h \in Node : OwnRecordOK(h)'
    BY <1>1, OwnRecordStep
  <1>4. \A h \in Node : booting'[h] => booting[h]
    BY DEF RecordStep, TypeOK
  <1>5. \A h \in Node : BootOK(h)'
    BY <1>1, <1>4 DEF BootOK, Leases, Hasty
  <1>6. \A h \in Node : record[h].epoch <= record'[h].epoch
    BY <1>1, RecordsGrow
  <1>7. \A h \in Node : AskerOK(h)'
    BY <1>1, <1>4, <1>6, AskerStable
  <1> QED
    BY <1>2, <1>3, <1>5, <1>7

\* The records stay as they are; leases and requests may be new.
LEMMA EpochsQuiet ==
    ASSUME TypeOK, TypeOK', EpochsOK, RecordsSame, UNCHANGED <<inst, asleep>>, hasty \subseteq hasty',
           \A h \in Node : clock[h] <= clock'[h] /\ minProposed[h] <= minProposed'[h],
           inst.kind = "epoch" => \A l \in Leases' : l \in Leases \/
                /\ booting[l.holder] => Hasty(l)'
                /\ asleep[l.holder] = 0 /\ ~ booting[l.holder] => l.epoch <= cache[l.holder][l.holder].epoch
                /\ l.epoch <= record[l.holder].epoch,
           inst.kind = "epoch" => \A h \in Node : req'[h] \in {Idle, req[h]} \/
                /\ asleep[h] = 0
                /\ req'[h].to = h => req'[h].epoch <= cache[h][h].epoch
                /\ booting[h] => <<h, req'[h].now>> \in hasty'
    PROVE EpochsOK'
  <1> SUFFICES ASSUME inst.kind = "epoch"
               PROVE RecordsOK' /\ \A h \in Node : OwnRecordOK(h)' /\ BootOK(h)' /\ AskerOK(h)'
    BY DEF EpochsOK
  <1>0. RecordsOK /\ \A h \in Node : OwnRecordOK(h) /\ BootOK(h) /\ AskerOK(h)
    BY DEF EpochsOK
  <1>1. record' = record /\ published' = published /\ cache' = cache /\ booting' = booting
    BY DEF RecordsSame
  <1>2. inst.duration \in Nat /\ \A h \in Node : /\ clock[h] \in Nat /\ clock'[h] \in Nat
                                                /\ minProposed[h] \in Nat /\ minProposed'[h] \in Nat
    BY Constants DEF TypeOK
  <1>3. \A h \in Node : record[h] \in Record /\ cache[h][h] \in Record /\ published[h] \in Seq(Record)
    BY DEF TypeOK
  <1>4. \A l \in Leases' : l.holder \in Node /\ l.epoch \in Nat /\ l.prop \in Nat
    <2>1. \A l \in {log'[i] : i \in 1..Len(log')} : l \in Lease
      BY DEF TypeOK
    <2>2. \A c \in flying' : c.lease \in Lease
      BY DEF TypeOK, Command
    <2>3. \A l \in Leases' : l \in Lease
      BY <2>1, <2>2 DEF Leases
    <2> QED
      BY <2>3 DEF Lease
  <1>5. \A h \in Node : \A v \in Record : Ended(h, v) => Ended(h, v)'
    <2> TAKE h \in Node
    <2> TAKE v \in Record
    <2>1. SUFFICES ASSUME Ended(h, v), v.epoch < record[h].epoch PROVE \E p \in Node : v.exp <= clock'[p]
      BY <1>1 DEF Ended
    <2>2. PICK p \in Node : v.exp <= clock[p]
      BY <2>1 DEF Ended
    <2>3. v.exp \in Nat /\ clock[p] <= clock'[p]
      BY DEF Record
    <2>4. v.exp <= clock'[p]
      BY <1>2, <2>2, <2>3
    <2> QED
      BY <2>4
  <1>6. RecordsOK'
    <2>1. \A h \in Node : record[h].exp <= clock'[h] + inst.duration
      <3> TAKE h \in Node
      <3>1. record[h].exp \in Nat /\ record[h].exp <= clock[h] + inst.duration /\ clock[h] <= clock'[h]
        BY <1>0, <1>3 DEF RecordsOK, Record
      <3> QED
        BY <1>2, <3>1
    <2>2. ASSUME NEW l \in Leases' PROVE l.epoch <= record[l.holder].epoch
      <3>1. CASE l \in Leases
        BY <1>0, <3>1 DEF RecordsOK
      <3> QED
        BY <3>1
    <2>3. \A k, h \in Node : Known(h, cache[k][h])'
      BY <1>0, <1>1 DEF RecordsOK, Known
    <2>4. \A h \in Node : \A i \in 1..Len(published[h]) : Known(h, published[h][i])'
      BY <1>0, <1>1 DEF RecordsOK, Known
    <2> QED
      BY <1>1, <2>1, <2>2, <2>3, <2>4 DEF RecordsOK
  <1>7. ASSUME NEW h \in Node PROVE OwnRecordOK(h)'
    <2>1. SUFFICES ASSUME asleep[h] = 0, ~ booting[h]
                   PROVE /\ Ended(h, cache[h][h])'
                         /\ \A i \in 1..Len(published[h]) :
                               Newer(published[h][i], cache[h][h]) => Ended(h, published[h][i])'
                         /\ \A l \in Leases' : l.holder = h => l.epoch <= cache[h][h].epoch
                         /\ req'[h] # Idle /\ req'[h].to = h => req'[h].epoch <= cache[h][h].epoch
      BY <1>1 DEF OwnRecordOK
    <2>2. /\ Ended(h, cache[h][h])
          /\ \A i \in 1..Len(published[h]) : Newer(published[h][i], cache[h][h]) => Ended(h, published[h][i])
          /\ \A l \in Leases : l.holder = h => l.epoch <= cache[h][h].epoch
      BY <1>0, <2>1 DEF OwnRecordOK
    <2>a. \A l \in Leases' : l.holder = h => l.epoch <= cache[h][h].epoch
      BY <2>1, <2>2
    <2>b. req'[h] # Idle /\ req'[h].to = h => req'[h].epoch <= cache[h][h].epoch
      BY <1>0, <2>1 DEF OwnRecordOK
    <2>3. Ended(h, cache[h][h])'
      BY <1>1, <1>3, <1>5, <2>2
    <2>4. \A i \in 1..Len(published[h]) : Newer(published[h][i], cache[h][h]) => Ended(h, published[h][i])'
      <3>1. \A i \in 1..Len(published[h]) : published[h][i] \in Record
        BY <1>3
      <3> QED
        BY <1>1, <1>5, <2>2, <3>1
    <2> QED
      BY <2>1, <2>a, <2>b, <2>3, <2>4
  <1>8. ASSUME NEW h \in Node PROVE BootOK(h)'
    <2>1. SUFFICES ASSUME asleep[h] = 0, booting[h], NEW l \in Leases', l.holder = h, ~ Hasty(l)'
                   PROVE l.prop < minProposed'[h]
      BY <1>1 DEF BootOK
    <2>2. l.prop < minProposed[h]
      BY <1>0, <2>1 DEF BootOK, Hasty
    <2> QED
      BY <1>2, <1>4, <2>2
  <1>9. ASSUME NEW h \in Node PROVE AskerOK(h)'
    <2>1. CASE req'[h] = Idle
      BY <2>1 DEF AskerOK
    <2>2. CASE req'[h] = req[h] /\ req[h] # Idle
      BY <1>0, <1>1, <2>2 DEF AskerOK
    <2>3. CASE req'[h] # Idle /\ req'[h] # req[h]
      <3>1. Known(h, cache[h][h])
        BY <1>0 DEF RecordsOK
      <3>2. cache[h][h].epoch \in Nat /\ record[h].epoch \in Nat
        BY <1>3 DEF Record
      <3>3. cache[h][h].epoch <= record[h].epoch
        BY <3>1, <3>2 DEF Known
      <3>4. req'[h] \in Request \cup {Idle}
        BY DEF TypeOK
      <3>5. req'[h].epoch \in Nat
        BY <2>3, <3>4, IdleIsNoRequest
      <3>6. /\ asleep[h] = 0 /\ (booting[h] => <<h, req'[h].now>> \in hasty')
            /\ req'[h].to = h => req'[h].epoch <= cache[h][h].epoch
        BY <2>3
      <3>7. req'[h].to = h => req'[h].epoch <= record[h].epoch
        BY <3>2, <3>3, <3>5, <3>6
      <3> QED
        BY <1>1, <3>6, <3>7 DEF AskerOK
    <2> QED
      BY <2>1, <2>2, <2>3
  <1> QED
    BY <1>6, <1>7, <1>8, <1>9

LEMMA TickFacts ==
    ASSUME TypeOK, NEW n \in Node, Tick(n), n \in inst.steady
    PROVE LET new == record'[n] IN
          /\ new.epoch = record[n].epoch /\ new.exp = clock[n] + 1 + inst.duration /\ new \in Record
          /\ published'[n] = <<new>>
          /\ \A h \in Node \ {n} : record'[h] = record[h] /\ published'[h] = published[h]
          /\ \A k \in Node : cache'[k][n] = IF asleep[k] = 0 THEN new ELSE cache[k][n]
          /\ \A k \in Node : \A h \in Node \ {n} : cache'[k][h] = cache[k][h]
  <1> DEFINE new == [record[n] EXCEPT !.exp = clock[n] + 1 + inst.duration]
  <1>0. inst.duration \in Nat /\ clock[n] \in Nat /\ record[n] \in Record
    BY Constants DEF TypeOK
  <1>1. new \in Record /\ new.epoch = record[n].epoch /\ new.exp = clock[n] + 1 + inst.duration
    BY <1>0, RecordExp
  <1>2. /\ record' = [record EXCEPT ![n] = new]
        /\ published' = [published EXCEPT ![n] = <<new>>]
        /\ cache' = [m \in Node |-> IF asleep[m] = 0 THEN [cache[m] EXCEPT ![n] = new] ELSE cache[m]]
    BY DEF Tick
  <1> HIDE DEF new
  <1>3. record \in [Node -> Record] /\ published \in [Node -> Seq(Record)] /\ cache \in [Node -> [Node -> Record]]
    BY DEF TypeOK
  <1>4. record'[n] = new /\ published'[n] = <<new>>
    BY <1>2, <1>3
  <1>5. \A h \in Node \ {n} : record'[h] = record[h] /\ published'[h] = published[h]
    BY <1>2, <1>3
  <1>6. \A k \in Node : cache'[k] = IF asleep[k] = 0 THEN [cache[k] EXCEPT ![n] = new] ELSE cache[k]
    BY <1>2
  <1>7. \A k \in Node : cache'[k][n] = IF asleep[k] = 0 THEN new ELSE cache[k][n]
    BY <1>3, <1>6
  <1>8. \A k \in Node : \A h \in Node \ {n} : cache'[k][h] = cache[k][h]
    BY <1>3, <1>6
  <1> QED
    BY <1>1, <1>4, <1>5, <1>7, <1>8

\* A tick of a steady node is also its heartbeat.
LEMMA EpochsTick ==
    ASSUME BaseInv, EpochsOK, NEW n \in Node, Tick(n)
    PROVE EpochsOK' /\ \A h \in Node : record[h].epoch <= record'[h].epoch
  <1>0. TypeOK /\ TypeOK'
    BY TickType DEF BaseInv
  <1>1. /\ \A m \in Node : clock[m] <= clock'[m]
        /\ UNCHANGED <<asleep, booting, req, inst, tscache, reads, retired, hasty, restarts>> /\ LeasesSame
    BY BaseTick
  <1>2. clock' = [clock EXCEPT ![n] = clock[n] + 1]
    BY DEF Tick
  <1>3. \A h \in Node : /\ minProposed[h] <= minProposed'[h] /\ clock[h] \in Nat /\ clock'[h] \in Nat
                        /\ record[h].epoch \in Nat
    <2>1. \A h \in Node : minProposed[h] \in Nat /\ clock[h] \in Nat /\ clock'[h] \in Nat /\ record[h] \in Record
      BY <1>0 DEF TypeOK
    <2> QED
      BY <1>1, <2>1 DEF LeasesSame, Record
  <1>4. Leases' = Leases
    BY <1>1 DEF Leases, LeasesSame
  <1>5. CASE n \notin inst.steady
    <2>1. RecordsSame
      BY <1>1, <1>5 DEF Tick, RecordsSame
    <2>3. EpochsOK'
      BY <1>0, <1>1, <1>3, <1>4, <2>1, EpochsQuiet
    <2> QED
      BY <1>3, <2>1, <2>3 DEF RecordsSame
  <1>6. CASE n \in inst.steady
    <2> DEFINE new == record'[n]
    <2>1. /\ new.epoch = record[n].epoch /\ new.exp = clock[n] + 1 + inst.duration /\ new \in Record
          /\ published'[n] = <<new>>
          /\ \A h \in Node \ {n} : record'[h] = record[h] /\ published'[h] = published[h]
          /\ \A k \in Node : cache'[k][n] = IF asleep[k] = 0 THEN new ELSE cache[k][n]
          /\ \A k \in Node : \A h \in Node \ {n} : cache'[k][h] = cache[k][h]
      BY <1>0, <1>6, TickFacts
    <2> HIDE DEF new
    <2>2. SUFFICES ASSUME inst.kind = "epoch"
                   PROVE RecordsOK' /\ \A h \in Node : OwnRecordOK(h)' /\ BootOK(h)' /\ AskerOK(h)'
      BY <1>1, <1>3, <2>1 DEF EpochsOK, new
    <2>3. RecordsOK /\ \A h \in Node : OwnRecordOK(h) /\ BootOK(h) /\ AskerOK(h)
      BY <2>2 DEF EpochsOK
    <2>4. inst.duration \in Nat /\ clock'[n] = clock[n] + 1 /\ \A h \in Node \ {n} : clock'[h] = clock[h]
      <3>1. clock \in [Node -> Nat] /\ inst.duration \in Nat
        BY <1>0, Constants DEF TypeOK
      <3> QED
        BY <1>2, <3>1
    <2>5. \A h \in Node : record[h] \in Record /\ \A k \in Node : cache[k][h] \in Record
      BY <1>0 DEF TypeOK
    <2>6. AtMost(record[n], new)
      <3>1. record[n].exp <= clock[n] + inst.duration
        BY <2>3 DEF RecordsOK
      <3>2. record[n].exp <= new.exp
        BY <1>3, <2>1, <2>4, <2>5, <3>1 DEF Record
      <3> QED
        BY <2>1, <3>2 DEF AtMost
    <2>7. RecordsOK'
      <3>1. \A h \in Node : record'[h].exp <= clock'[h] + inst.duration
        <4>1. new.exp <= clock'[n] + inst.duration
          BY <1>3, <2>1, <2>4
        <4> QED
          BY <2>1, <2>3, <2>4, <4>1 DEF RecordsOK, new
      <3>2. \A k \in Node : AtMost(cache'[k][n], new)
        <4> TAKE k \in Node
        <4>1. AtMost(cache[k][n], record[n])
          BY <1>0, <2>3, KnownFacts DEF RecordsOK
        <4>2. AtMost(cache[k][n], new) /\ AtMost(new, new)
          BY <2>1, <2>5, <2>6, <4>1, AtMostFacts
        <4> QED
          BY <2>1, <4>2
      <3>3. \A k, h \in Node : Known(h, cache[k][h])'
        <4> TAKE k, h \in Node
        <4>1. CASE h = n
          BY <3>2, <4>1 DEF Known, AtMost, new
        <4>2. CASE h # n
          BY <2>1, <2>3, <4>2 DEF Known, RecordsOK
        <4> QED
          BY <4>1, <4>2
      <3>4. \A h \in Node : \A i \in 1..Len(published'[h]) : Known(h, published[h][i])'
        <4> TAKE h \in Node
        <4>1. CASE h = n
          <5>1. \A i \in 1..Len(published'[n]) : published'[n][i] = new
            BY <2>1
          <5>2. AtMost(new, new)
            BY <2>1, AtMostFacts
          <5> QED
            BY <4>1, <5>1, <5>2 DEF Known, AtMost, new
        <4>2. CASE h # n
          BY <2>1, <2>3, <4>2 DEF Known, RecordsOK
        <4> QED
          BY <4>1, <4>2
      <3>5. \A l \in Leases' : l.epoch <= record'[l.holder].epoch
        <4>1. \A l \in Leases : l.holder \in Node
          BY <1>0, LeasesType DEF Lease
        <4> QED
          BY <1>4, <2>1, <2>3, <4>1 DEF RecordsOK, new
      <3> QED
        BY <1>1, <3>1, <3>3, <3>4, <3>5 DEF RecordsOK
    <2>8. ASSUME NEW h \in Node PROVE OwnRecordOK(h)'
      <3>1. SUFFICES ASSUME asleep[h] = 0, ~ booting[h]
                     PROVE  /\ Ended(h, cache[h][h])'
                            /\ \A i \in 1..Len(published'[h]) :
                                  Newer(published'[h][i], cache'[h][h]) => Ended(h, published[h][i])'
                            /\ \A l \in Leases : l.holder = h => l.epoch <= cache'[h][h].epoch
                            /\ req[h] # Idle /\ req[h].to = h => req[h].epoch <= cache'[h][h].epoch
        BY <1>1, <1>4 DEF OwnRecordOK
      <3>2. /\ Ended(h, cache[h][h])
            /\ \A i \in 1..Len(published[h]) : Newer(published[h][i], cache[h][h]) => Ended(h, published[h][i])
            /\ \A l \in Leases : l.holder = h => l.epoch <= cache[h][h].epoch
            /\ req[h] # Idle /\ req[h].to = h => req[h].epoch <= cache[h][h].epoch
        BY <2>3, <3>1 DEF OwnRecordOK
      <3>3. CASE h = n
        <4>1. cache'[h][h] = new /\ record'[h] = new
          BY <2>1, <3>1, <3>3 DEF new
        <4>2. \A i \in 1..Len(published'[h]) : published'[h][i] = new
          BY <2>1, <3>3
        <4>3. ~ Newer(new, new) /\ new.epoch \in Nat
          BY <2>1 DEF Newer, Record
        <4>4. cache[h][h].epoch <= new.epoch /\ cache[h][h].epoch \in Nat
          <5>1. AtMost(cache[h][h], record[h])
            BY <1>0, <2>3, KnownFacts DEF RecordsOK
          <5> QED
            BY <2>1, <2>5, <3>3, <5>1, AtMostFacts
        <4>5. \A l \in Leases : l.epoch \in Nat
          BY <1>0, LeasesType DEF Lease
        <4>6. req[h] # Idle => req[h].epoch \in Nat
          <5>1. req[h] \in Request \cup {Idle}
            BY <1>0 DEF TypeOK
          <5> QED
            BY <5>1, IdleIsNoRequest
        <4>7. Ended(h, cache[h][h])'
          BY <4>1, <4>3 DEF Ended
        <4>8. \A l \in Leases : l.holder = h => l.epoch <= new.epoch
          BY <3>2, <4>3, <4>4, <4>5
        <4>9. req[h] # Idle /\ req[h].to = h => req[h].epoch <= new.epoch
          BY <3>2, <4>3, <4>4, <4>6
        <4> QED
          BY <4>1, <4>2, <4>3, <4>7, <4>8, <4>9
      <3>4. CASE h # n
        <4>1. record'[h] = record[h] /\ published'[h] = published[h] /\ cache'[h][h] = cache[h][h]
          BY <2>1, <3>4
        <4>2. ASSUME NEW v \in Record, Ended(h, v)
              PROVE v.epoch < record[h].epoch => \E p \in Node : v.exp <= clock'[p]
          <5>1. SUFFICES ASSUME v.epoch < record[h].epoch PROVE \E p \in Node : v.exp <= clock'[p]
            OBVIOUS
          <5>2. PICK p \in Node : v.exp <= clock[p]
            BY <4>2, <5>1 DEF Ended
          <5>3. v.exp <= clock'[p]
            BY <1>1, <1>3, <5>2 DEF Record
          <5> QED
            BY <5>3
        <4>3. published[h] \in Seq(Record)
          BY <1>0 DEF TypeOK
        <4>4. \A i \in 1..Len(published[h]) : published[h][i] \in Record
          BY <4>3
        <4>5. Ended(h, cache[h][h])'
          BY <2>5, <3>2, <4>1, <4>2 DEF Ended
        <4>6. \A i \in 1..Len(published[h]) : Newer(published[h][i], cache[h][h]) => Ended(h, published[h][i])'
          BY <3>2, <4>1, <4>2, <4>4 DEF Ended
        <4> QED
          BY <3>2, <4>1, <4>5, <4>6
      <3> QED
        BY <3>3, <3>4
    <2>9. \A h \in Node : BootOK(h)'
      BY <1>1, <1>4, <2>3 DEF BootOK, LeasesSame, Hasty
    <2>10. \A h \in Node : AskerOK(h)'
      BY <1>1, <2>1, <2>3 DEF AskerOK, new
    <2> QED
      BY <2>7, <2>8, <2>9, <2>10
  <1> QED
    BY <1>5, <1>6

LEMMA EpochsCrash ==
    ASSUME TypeOK, EpochsOK, NEW n \in Node, Crash(n)
    PROVE EpochsOK'
  <1>1. /\ TypeOK' /\ LeasesSame /\ asleep' = [asleep EXCEPT ![n] = clock[n] + MaxOffset + 1]
        /\ cache' = [cache EXCEPT ![n] = [m \in Node |-> NoRecord]]
        /\ req'[n] = Idle /\ \A m \in Node \ {n} : req'[m] = req[m]
        /\ UNCHANGED <<clock, record, published, booting, inst, reads, hasty>>
    BY CrashFacts
  <1>2. asleep'[n] # 0 /\ \A m \in Node \ {n} : asleep'[m] = asleep[m]
    <2>1. asleep \in [Node -> Nat] /\ clock[n] \in Nat /\ MaxOffset \in Nat
      BY Constants DEF TypeOK
    <2> QED
      BY <1>1, <2>1
  <1>3. (\A h \in Node : cache'[n][h] = NoRecord) /\ \A m \in Node \ {n} : cache'[m] = cache[m]
    <2>1. cache \in [Node -> [Node -> Record]]
      BY DEF TypeOK
    <2> QED
      BY <1>1, <2>1
  <1>4. Leases' = Leases
    BY <1>1 DEF Leases, LeasesSame
  <1> SUFFICES ASSUME inst.kind = "epoch"
               PROVE RecordsOK' /\ \A h \in Node : OwnRecordOK(h)' /\ BootOK(h)' /\ AskerOK(h)'
    BY <1>1 DEF EpochsOK
  <1>5. RecordsOK /\ \A h \in Node : OwnRecordOK(h) /\ BootOK(h) /\ AskerOK(h)
    BY DEF EpochsOK
  <1>6. \A h \in Node : Known(h, NoRecord)
    <2>1. \A h \in Node : record[h] \in Record
      BY DEF TypeOK
    <2> QED
      BY <2>1 DEF Known, NoRecord, Record
  <1>7. RecordsOK'
    <2>1. \A k, h \in Node : Known(h, cache[k][h])'
      <3> TAKE k, h \in Node
      <3>1. CASE k = n
        BY <1>1, <1>3, <1>6, <3>1 DEF Known
      <3>2. CASE k # n
        BY <1>1, <1>3, <1>5, <3>2 DEF Known, RecordsOK
      <3> QED
        BY <3>1, <3>2
    <2> QED
      BY <1>1, <1>4, <1>5, <2>1 DEF RecordsOK, Known
  <1>8. \A h \in Node : OwnRecordOK(h)'
    <2> TAKE h \in Node
    <2>1. CASE h = n
      BY <1>2, <2>1 DEF OwnRecordOK
    <2>2. CASE h # n
      BY <1>1, <1>2, <1>3, <1>4, <1>5, <2>2 DEF OwnRecordOK, Ended
    <2> QED
      BY <2>1, <2>2
  <1>9. \A h \in Node : BootOK(h)'
    BY <1>1, <1>2, <1>4, <1>5 DEF BootOK, LeasesSame, Hasty
  <1>10. \A h \in Node : AskerOK(h)'
    BY <1>1, <1>2, <1>5 DEF AskerOK
  <1> QED
    BY <1>7, <1>8, <1>9, <1>10

LEMMA EpochsStart ==
    ASSUME TypeOK, EpochsOK, NEW n \in Node, Start(n)
    PROVE EpochsOK'
  <1>1. /\ TypeOK' /\ NewReading(n)
        /\ asleep' = [asleep EXCEPT ![n] = 0] /\ booting' = [booting EXCEPT ![n] = TRUE]
        /\ minProposed' = [minProposed EXCEPT ![n] = clock[n]]
        /\ asleep[n] # 0 /\ UNCHANGED <<clock, record, published, cache, log, applied, flying, req, inst, hasty>>
    BY StartFacts
  <1>2. /\ asleep'[n] = 0 /\ booting'[n] = TRUE /\ minProposed'[n] = clock[n]
        /\ \A m \in Node \ {n} : /\ asleep'[m] = asleep[m] /\ booting'[m] = booting[m]
                                 /\ minProposed'[m] = minProposed[m]
    BY <1>1 DEF TypeOK
  <1>4. Leases' = Leases
    BY <1>1 DEF Leases
  <1> SUFFICES ASSUME inst.kind = "epoch"
               PROVE RecordsOK' /\ \A h \in Node : OwnRecordOK(h)' /\ BootOK(h)' /\ AskerOK(h)'
    BY <1>1 DEF EpochsOK
  <1>5. RecordsOK /\ \A h \in Node : OwnRecordOK(h) /\ BootOK(h) /\ AskerOK(h)
    BY DEF EpochsOK
  <1>6. RecordsOK'
    BY <1>1, <1>4, <1>5 DEF RecordsOK, Known
  <1>7. \A h \in Node : OwnRecordOK(h)'
    BY <1>1, <1>2, <1>4, <1>5 DEF OwnRecordOK, Ended
  <1>8. \A h \in Node : BootOK(h)'
    BY <1>1, <1>2, <1>4, <1>5, ReadingFacts DEF BootOK, Hasty
  <1>9. \A h \in Node : AskerOK(h)'
    BY <1>1, <1>2, <1>5 DEF AskerOK
  <1> QED
    BY <1>6, <1>7, <1>8, <1>9

LEMMA HandedStable ==
    ASSUME TypeOK, TypeOK', Forward, UNCHANGED log, HandedOver
    PROVE HandedOver'
  <1>1. \A i \in 1..Len(log) : log[i] \in Leases /\ log[i] \in Lease
    BY LogTypes DEF Leases
  <1>2. \A i \in 1..Len(log) : Over(log[i]) => Over(log[i])'
    <2> TAKE i \in 1..Len(log)
    <2>1. PICK l : l = log[i]
      OBVIOUS
    <2>2. Over(l) => Over(l)'
      BY <1>1, <2>1, OverStable
    <2> QED
      BY <2>1, <2>2 DEF Over
  <1>3. \A i \in 1..Len(log) : Done(log[i]) => Done(log[i])'
    <2> TAKE i \in 1..Len(log)
    <2>1. PICK l : l = log[i]
      OBVIOUS
    <2>2. Done(l) => Done(l)'
      BY <1>1, <2>1, DoneStable
    <2> QED
      BY <2>1, <2>2 DEF Over, Done
  <1>4. \A s, t : NoneHasty(s, t)' => NoneHasty(s, t)
    BY DEF NoneHasty, Hasty, Forward
  <1> QED
    BY <1>2, <1>3, <1>4 DEF HandedOver, Behind

LEMMA CommandOverStable ==
    ASSUME TypeOK, TypeOK', Forward, UNCHANGED log, NEW c, CommandOver(c)
    PROVE CommandOver(c)'
  <1>1. \A k \in 1..Len(log) : Over(log[k]) => Over(log[k])'
    <2> TAKE k \in 1..Len(log)
    <2>1. PICK l : l = log[k]
      OBVIOUS
    <2>2. l \in Lease
      BY <2>1, LogTypes
    <2>3. Over(l) => Over(l)'
      BY <2>2, OverStable
    <2> QED
      BY <2>1, <2>3 DEF Over
  <1>2. ~ Hasty(c.lease)' => ~ Hasty(c.lease)
    BY DEF Hasty, Forward
  <1> QED
    BY <1>1, <1>2 DEF CommandOver, Behind

LEMMA RequestOverStable ==
    ASSUME TypeOK, TypeOK', Forward, UNCHANGED log, NEW n \in Node, RequestOver(n),
           req'[n] = Idle \/ req'[n] = req[n]
    PROVE RequestOver(n)'
  <1>1. CASE req'[n] = Idle
    BY <1>1 DEF RequestOver
  <1>2. CASE req'[n] = req[n] /\ req[n] # Idle
    <2>1. PICK r : r = req[n]
      OBVIOUS
    <2>2. r \in Request \cup {Idle}
      BY <2>1 DEF TypeOK
    <2>3. r.prev \in Lease /\ r.prev.holder \in Node /\ r.rec \in Record /\ r.rec.epoch \in Nat
      BY <1>2, <2>1, <2>2, IdleIsNoRequest DEF Lease, Record
    <2>4. Over(r.prev) => Over(r.prev)'
      <3>1. PICK l : l = r.prev
        OBVIOUS
      <3>2. Over(l) => Over(l)'
        BY <2>3, <3>1, OverStable
      <3> QED
        BY <3>1, <3>2 DEF Over
    <2>5. r.rec.epoch <= record[r.prev.holder].epoch => r.rec.epoch <= record'[r.prev.holder].epoch
      <3>1. record[r.prev.holder].epoch \in Nat /\ record'[r.prev.holder].epoch \in Nat
        BY <2>3 DEF TypeOK, Record
      <3>2. record[r.prev.holder].epoch <= record'[r.prev.holder].epoch
        BY <2>3 DEF Forward
      <3> QED
        BY <2>3, <3>1, <3>2
    <2>6. <<n, r.now>> \notin hasty' => <<n, r.now>> \notin hasty
      BY DEF Forward
    <2> QED
      BY <1>2, <2>1, <2>4, <2>5, <2>6 DEF RequestOver, Over
  <1> QED
    BY <1>1, <1>2

LEMMA KindsSame ==
    ASSUME KindsOK, UNCHANGED <<inst, hasty>>, \A l \in Leases' : l \in Leases, flying' \subseteq flying,
           \A h \in Node : req'[h] # Idle => req[h] # Idle /\ SameRequest(req[h], req'[h])
    PROVE KindsOK'
  BY DEF KindsOK, SameRequest

LEMMA ServerAssemble ==
    ASSUME ServerInv, BaseInv', Forward, UNCHANGED <<log, inst>>, EpochsOK', KindsOK',
           \A n \in Node : RequestOver(n)', \A c \in flying' : c \in flying \/ CommandOver(c)'
    PROVE ServerInv'
  <1>1. TypeOK /\ TypeOK' /\ HandedOver /\ Uniform
    BY DEF ServerInv, BaseInv
  <1>2. HandedOver'
    BY <1>1, HandedStable
  <1>3. \A c \in flying' : CommandOver(c)'
    BY <1>1, CommandOverStable DEF ServerInv
  <1>4. Uniform'
    BY <1>1 DEF Uniform
  <1> QED
    BY <1>2, <1>3, <1>4 DEF ServerInv

\* Steps that leave leases and clocks alone.
LEMMA ForwardRecord ==
    ASSUME TypeOK, TypeOK', NEW n \in Node, NEW m \in Node, RecordStep(n, m),
           UNCHANGED <<minProposed, clock, asleep, hasty>>
    PROVE Forward
  <1>1. \A h \in Node : record[h].epoch <= record'[h].epoch
    BY RecordsGrow
  <1>2. \A h \in Node : clock[h] \in Nat /\ minProposed[h] \in Nat
    BY DEF TypeOK
  <1> QED
    BY <1>1, <1>2 DEF Forward

LEMMA ServerLiveness ==
    ASSUME ServerInv, BaseInv', NEW n \in Node,
           Heartbeat(n) \/ \E m \in Node : Gossip(n, m) \/ IncrementElsewhere(n, m)
    PROVE ServerInv'
  <1>0. TypeOK /\ TypeOK' /\ EpochsOK /\ KindsOK
    BY DEF ServerInv, BaseInv
  <1>1. LeasesSame /\ UNCHANGED <<clock, asleep, req, inst, hasty>>
    BY <1>0, LivenessStepType
  <1>2. PICK m \in Node : RecordStep(n, m)
    BY <1>0, LivenessSteps
  <1>3. \A h \in Node : req'[h] # Idle => req[h] # Idle /\ SameRequest(req[h], req'[h])
    BY <1>1 DEF SameRequest
  <1>4. Forward
    BY <1>0, <1>1, <1>2, ForwardRecord DEF LeasesSame
  <1>5. EpochsOK'
    BY <1>0, <1>1, <1>2, <1>3, EpochsRecord DEF LeasesSame
  <1>6. KindsOK'
    BY <1>0, <1>1, <1>3, KindsSame DEF LeasesSame, Leases
  <1>7. \A h \in Node : RequestOver(h)'
    BY <1>0, <1>1, <1>4, RequestOverStable DEF ServerInv, LeasesSame
  <1> QED
    BY <1>1, <1>4, <1>5, <1>6, <1>7, ServerAssemble DEF LeasesSame

LEMMA ServerProgress ==
    ASSUME ServerInv, BaseInv', NEW n \in Node,
           Cancel(n) \/ Promote(n) \/ Revive(n) \/ Invalidate(n)
    PROVE ServerInv'
  <1>0. TypeOK /\ TypeOK' /\ EpochsOK /\ KindsOK /\ RequestOver(n)
    BY DEF ServerInv, BaseInv
  <1>1. /\ LeasesSame /\ GoesOn(n) /\ req[n] # Idle
        /\ UNCHANGED <<clock, asleep, booting, inst, hasty>>
    BY <1>0, ProgressFacts
  <1>2. PICK m \in Node : RecordStep(n, m)
    BY <1>0, RequestSteps
  <1>3. \A h \in Node : req'[h] # Idle => req[h] # Idle /\ SameRequest(req[h], req'[h])
    BY <1>1 DEF SameRequest, GoesOn
  <1>4. Forward
    BY <1>0, <1>1, <1>2, ForwardRecord DEF LeasesSame
  <1>5. EpochsOK'
    BY <1>0, <1>1, <1>2, <1>3, EpochsRecord DEF LeasesSame
  <1>6. KindsOK'
    BY <1>0, <1>1, <1>3, KindsSame DEF LeasesSame, Leases
  <1>7. \A h \in Node \ {n} : RequestOver(h)'
    BY <1>0, <1>1, <1>4, RequestOverStable DEF ServerInv, LeasesSame, GoesOn
  <1>8. RequestOver(n)'
    <2> DEFINE r == req[n]
               q == req'[n]
    <2>1. SUFFICES ASSUME q # Idle, q.to = n PROVE RequestOver(n)'
      BY DEF RequestOver
    <2>2. q.prev = r.prev /\ q.to = r.to /\ q.epoch = r.epoch /\ q.now = r.now
      BY <1>3, <2>1 DEF SameRequest
    <2>3. /\ r.prev \in Lease /\ r.prev.holder \in Node /\ r.prev.epoch \in Nat
          /\ r.rec \in Record /\ r.rec.epoch \in Nat
      <3>1. r \in Request \cup {Idle}
        BY <1>0 DEF TypeOK
      <3>2. r.prev \in Lease /\ r.rec \in Record
        BY <1>1, <3>1, IdleIsNoRequest
      <3> QED
        BY <3>2 DEF Lease, Record
    <2>4. <<n, q.now>> \notin hasty =>
            \A i, k \in 1..Len(log) : i <= k /\ log[k] = q.prev /\ log[i].holder = n => log[i].epoch <= q.epoch
      BY <1>0, <1>1, <2>1, <2>2 DEF RequestOver
    <2>5. r.prev.epoch # 0 /\ r.prev.holder # n => q.pc = "send" /\ record'[r.prev.holder].epoch > r.prev.epoch
      <3>1. SUFFICES ASSUME r.prev.epoch # 0, r.prev.holder # n
                     PROVE q.pc = "send" /\ record'[r.prev.holder].epoch > r.prev.epoch
        OBVIOUS
      <3>2. /\ r.pc \in {"expired", "send"}
            /\ r.pc = "expired" => r.prev.epoch <= r.rec.epoch /\ r.rec.epoch <= record[r.prev.holder].epoch
        BY <1>0, <1>1, <2>1, <2>2, <2>3, <3>1 DEF RequestOver
      <3>3. ~ Cancel(n) /\ ~ Promote(n) /\ ~ Revive(n)
        <4>1. ~ Cancel(n)
          <5>1. GiveUp(n) => q = Idle
            BY <1>0, GiveUpType
          <5> QED
            BY <2>1, <5>1 DEF Cancel
        <4> QED
          BY <2>1, <2>2, <3>1, <3>2, <4>1 DEF Promote, Revive
      <3>4. Invalidate(n)
        BY <3>3
      <3>5. Proceed(n) /\ r.pc = "expired"
        <4>1. ~ GiveUp(n)
          BY <1>0, <2>1, GiveUpType
        <4> QED
          BY <3>4, <4>1 DEF Invalidate, AfterMissed
      <3>6. q.pc = "send"
        BY <1>0, <1>1, <3>5, ProceedFacts
      <3>7. record'[r.prev.holder].epoch \in Nat /\ record[r.prev.holder].epoch \in Nat
            /\ record[r.prev.holder].epoch <= record'[r.prev.holder].epoch
        <4>1. record'[r.prev.holder] \in Record /\ record[r.prev.holder] \in Record
          BY <1>0, <2>3 DEF TypeOK
        <4> QED
          BY <1>4, <2>3, <4>1 DEF Forward, Record
      <3>8. CASE r.rec.epoch # r.prev.epoch
        BY <2>3, <3>2, <3>5, <3>6, <3>7, <3>8
      <3>9. CASE r.rec.epoch = r.prev.epoch
        <4>1. ~ GiveUp(n)
          BY <1>0, <2>1, GiveUpType
        <4>2. /\ Incrementable(n, r.rec) /\ Found(n, r.prev.holder, r.rec) = r.rec
              /\ Put(n, r.prev.holder, Incremented(r.rec)) /\ booting' = booting
          BY <1>1, <3>4, <3>9, <4>1 DEF Invalidate, AfterMissed
        <4>3. record'[r.prev.holder].epoch = r.rec.epoch + 1
          BY <1>0, <2>3, <4>2, IncrementFacts
        <4> QED
          BY <2>3, <3>6, <3>7, <3>9, <4>3
      <3> QED
        BY <3>8, <3>9
    <2> QED
      BY <1>1, <2>1, <2>2, <2>4, <2>5 DEF RequestOver, Over, LeasesSame
  <1> QED
    BY <1>1, <1>4, <1>5, <1>6, <1>7, <1>8, ServerAssemble DEF LeasesSame

\* Steps that leave the records alone too, and start no request.
LEMMA ServerQuiet ==
    ASSUME ServerInv, BaseInv', RecordsSame, UNCHANGED <<log, minProposed, inst, asleep, hasty>>, flying' \subseteq flying,
           \A h \in Node : clock[h] <= clock'[h], \A h \in Node : req'[h] = Idle \/ req'[h] = req[h]
    PROVE ServerInv'
  <1>0. TypeOK /\ TypeOK' /\ EpochsOK /\ KindsOK
    BY DEF ServerInv, BaseInv
  <1>1. \A h \in Node : record[h].epoch \in Nat /\ minProposed[h] \in Nat
    BY <1>0 DEF TypeOK, Record
  <1>2. Forward
    BY <1>1 DEF Forward, RecordsSame
  <1>3. \A l \in Leases' : l \in Leases
    BY DEF Leases
  <1>4. \A h \in Node : req'[h] # Idle => req[h] # Idle /\ SameRequest(req[h], req'[h])
    BY DEF SameRequest
  <1>5. EpochsOK'
    <2>1. \A h \in Node : minProposed[h] <= minProposed'[h]
      BY <1>1
    <2> QED
      BY <1>0, <1>3, <2>1, EpochsQuiet
  <1>6. KindsOK'
    BY <1>0, <1>3, <1>4, KindsSame
  <1>7. \A h \in Node : RequestOver(h)'
    BY <1>0, <1>2, RequestOverStable DEF ServerInv
  <1> QED
    BY <1>2, <1>5, <1>6, <1>7, ServerAssemble

LEMMA ServerTick ==
    ASSUME ServerInv, BaseInv', NEW n \in Node, Tick(n)
    PROVE ServerInv'
  <1>0. TypeOK /\ TypeOK' /\ EpochsOK /\ KindsOK /\ BaseInv
    BY DEF ServerInv, BaseInv
  <1>1. /\ \A m \in Node : clock[m] <= clock'[m]
        /\ UNCHANGED <<asleep, booting, req, inst, hasty>> /\ LeasesSame
    BY <1>0, BaseTick
  <1>2. EpochsOK' /\ \A h \in Node : record[h].epoch <= record'[h].epoch
    BY <1>0, EpochsTick
  <1>3. Forward
    <2>1. \A h \in Node : minProposed[h] \in Nat
      BY <1>0 DEF TypeOK
    <2> QED
      BY <1>1, <1>2, <2>1 DEF Forward, LeasesSame
  <1>4. KindsOK'
    BY <1>0, <1>1, KindsSame DEF LeasesSame, Leases, SameRequest
  <1>5. \A h \in Node : RequestOver(h)'
    BY <1>0, <1>1, <1>3, RequestOverStable DEF ServerInv, LeasesSame
  <1> QED
    BY <1>1, <1>2, <1>3, <1>4, <1>5, ServerAssemble DEF LeasesSame

LEMMA ServerCrash ==
    ASSUME ServerInv, BaseInv', NEW n \in Node, Crash(n)
    PROVE ServerInv'
  <1>0. TypeOK /\ TypeOK' /\ EpochsOK /\ KindsOK
    BY DEF ServerInv, BaseInv
  <1>1. /\ LeasesSame /\ asleep' = [asleep EXCEPT ![n] = clock[n] + MaxOffset + 1]
        /\ req'[n] = Idle /\ \A m \in Node \ {n} : req'[m] = req[m]
        /\ UNCHANGED <<clock, record, inst, hasty>>
    BY <1>0, CrashFacts
  <1>2. asleep'[n] # 0 /\ \A m \in Node \ {n} : asleep'[m] = asleep[m]
    <2>1. asleep \in [Node -> Nat] /\ clock[n] \in Nat /\ MaxOffset \in Nat
      BY <1>0, Constants DEF TypeOK
    <2> QED
      BY <1>1, <2>1
  <1>3. Forward
    <2>1. \A h \in Node : minProposed[h] \in Nat /\ clock[h] \in Nat /\ record[h].epoch \in Nat
      BY <1>0 DEF TypeOK, Record
    <2> QED
      BY <1>1, <1>2, <2>1 DEF Forward, LeasesSame
  <1>4. \A h \in Node : req'[h] = Idle \/ req'[h] = req[h]
    BY <1>1
  <1>5. KindsOK'
    BY <1>0, <1>1, <1>4, KindsSame DEF LeasesSame, Leases, SameRequest
  <1>6. \A h \in Node : RequestOver(h)'
    BY <1>0, <1>1, <1>3, <1>4, RequestOverStable DEF ServerInv, LeasesSame
  <1>7. EpochsOK'
    BY <1>0, EpochsCrash
  <1> QED
    BY <1>1, <1>3, <1>5, <1>6, <1>7, ServerAssemble DEF LeasesSame

LEMMA ServerStart ==
    ASSUME ServerInv, BaseInv', NEW n \in Node, Start(n)
    PROVE ServerInv'
  <1>0. TypeOK /\ TypeOK' /\ EpochsOK /\ KindsOK /\ ClocksOK
    BY DEF ServerInv, BaseInv
  <1>1. /\ NewReading(n) /\ asleep' = [asleep EXCEPT ![n] = 0]
        /\ minProposed' = [minProposed EXCEPT ![n] = clock[n]]
        /\ UNCHANGED <<clock, record, log, flying, req, inst, hasty>>
    BY <1>0, StartFacts
  <1>2. /\ minProposed'[n] = clock[n]
        /\ \A m \in Node \ {n} : asleep'[m] = asleep[m] /\ minProposed'[m] = minProposed[m]
    BY <1>0, <1>1 DEF TypeOK
  <1>3. Forward
    <2>1. \A h \in Node : /\ minProposed[h] \in Nat /\ clock[h] \in Nat /\ record[h].epoch \in Nat
                          /\ minProposed[h] <= clock[h]
      BY <1>0 DEF TypeOK, Record, ClocksOK
    <2>2. \A l \in Leases : l.holder = n => l.prop < clock[n]
      BY <1>0, <1>1, ReadingFacts
    <2> QED
      BY <1>1, <1>2, <2>1, <2>2 DEF Forward
  <1>4. KindsOK'
    BY <1>0, <1>1, KindsSame DEF Leases, SameRequest
  <1>5. \A h \in Node : RequestOver(h)'
    BY <1>0, <1>1, <1>3, RequestOverStable DEF ServerInv
  <1>6. EpochsOK'
    BY <1>0, EpochsStart
  <1> QED
    BY <1>1, <1>3, <1>4, <1>5, <1>6, ServerAssemble

LEMMA ServerRequest ==
    ASSUME ServerInv, BaseInv', NEW n \in Node, asleep[n] = 0, RequestLease(n) \/ TransferLease(n)
    PROVE ServerInv'
  <1>0. TypeOK /\ TypeOK' /\ EpochsOK /\ KindsOK /\ Uniform
    BY DEF ServerInv, BaseInv
  <1>1. /\ LeasesSame /\ RecordsSame /\ UNCHANGED <<clock, asleep, inst>>
        /\ hasty \subseteq hasty' /\ (inst.kind = "expiration" => hasty' = hasty)
        /\ inst.kind = "epoch" /\ ~ inst.mayTransfer /\ booting[n] => <<n, clock[n]>> \in hasty'
    BY <1>0, RequestFacts
  <1>2. PICK r \in Request : req' = [req EXCEPT ![n] = r] /\ NewRequest(n, r)
    BY <1>0, RequestFacts
  <1>3. req'[n] = r /\ r # Idle /\ \A h \in Node \ {n} : req'[h] = req[h]
    <2>1. r # Idle
      <3>1. r.pc \in {"promote", "expired", "send"}
        BY DEF Request
      <3> QED
        BY <3>1, NotIdle
    <2> QED
      BY <1>0, <1>2, <2>1 DEF TypeOK
  <1>4. Forward
    <2>1. \A h \in Node : minProposed[h] \in Nat /\ clock[h] \in Nat /\ record[h].epoch \in Nat
      BY <1>0 DEF TypeOK, Record
    <2> QED
      BY <1>1, <2>1 DEF Forward, LeasesSame, RecordsSame
  <1>5. Leases' = Leases /\ flying' = flying
    BY <1>1 DEF Leases, LeasesSame
  <1>a. LeaseOf(n) \in Leases /\ LeaseOf(n) \in Lease /\ LeaseOf(n) = log[applied[n]] /\ applied[n] \in 1..Len(log)
    BY <1>0, LogTypes DEF TypeOK, Leases, LeaseOf
  <1>b. inst.kind \in {"epoch", "expiration"}
    BY <1>0, Constants DEF TypeOK, Kind
  <1>6. /\ (r.epoch = 0) <=> (inst.kind = "expiration")
        /\ r.to # n => inst.kind = "expiration"
    BY <1>0, <1>2, <1>b DEF NewRequest, Uniform
  <1>7. KindsOK'
    BY <1>0, <1>1, <1>3, <1>5, <1>6 DEF KindsOK
  <1>8. inst.kind = "epoch" /\ booting[n] => <<n, r.now>> \in hasty'
    BY <1>0, <1>1, <1>2 DEF NewRequest, Uniform
  <1>9. r.to = n /\ inst.kind = "epoch" => r.epoch = cache[n][n].epoch
    BY <1>2 DEF NewRequest
  <1>10. EpochsOK'
    <2>1. inst.kind = "epoch" => \A h \in Node : req'[h] \in {Idle, req[h]} \/
                /\ asleep[h] = 0
                /\ req'[h].to = h => req'[h].epoch <= cache[h][h].epoch
                /\ booting[h] => <<h, req'[h].now>> \in hasty'
      <3>1. \A h \in Node : cache[h][h].epoch \in Nat
        BY <1>0 DEF TypeOK, Record
      <3> QED
        BY <1>3, <1>8, <1>9, <3>1
    <2>2. \A h \in Node : clock[h] <= clock'[h] /\ minProposed[h] <= minProposed'[h]
      BY <1>4 DEF Forward
    <2> QED
      BY <1>0, <1>1, <1>5, <2>1, <2>2, EpochsQuiet
  <1>11. \A h \in Node \ {n} : RequestOver(h)'
    BY <1>0, <1>1, <1>3, <1>4, RequestOverStable DEF ServerInv, LeasesSame
  <1>12. RequestOver(n)'
    <2> DEFINE l == LeaseOf(n)
    <2>1. SUFFICES ASSUME r.to = n PROVE RequestOver(n)'
      BY <1>3 DEF RequestOver
    <2>2. /\ r.prev = l /\ ~ Unknown(n, l)
          /\ l.epoch # 0 => /\ r.pc \in {"expired", "send"}
                            /\ l.holder # n => r.pc = "expired"
                            /\ r.pc = "expired" => r.rec = cache[n][l.holder]
      BY <1>2, <2>1 DEF NewRequest
    <2>3. l.holder \in Node /\ l.epoch \in Nat
      BY <1>a DEF Lease
    <2>4. l.epoch # 0 => inst.kind = "epoch"
      BY <1>0, <1>a, <1>b DEF KindsOK
    <2>5. l.epoch # 0 /\ l.holder # n =>
            /\ r.pc = "expired" /\ r.rec = cache[n][l.holder]
            /\ r.rec.epoch >= l.epoch /\ r.rec.epoch <= record[l.holder].epoch
      <3>1. SUFFICES ASSUME l.epoch # 0, l.holder # n
                     PROVE /\ r.pc = "expired" /\ r.rec = cache[n][l.holder]
                           /\ r.rec.epoch >= l.epoch /\ r.rec.epoch <= record[l.holder].epoch
        OBVIOUS
      <3>2. cache[n][l.holder] \in Record /\ record[l.holder] \in Record
        BY <1>0, <2>3 DEF TypeOK
      <3>3. cache[n][l.holder].epoch >= l.epoch
        BY <2>2, <2>3, <3>1, <3>2 DEF Unknown, Record
      <3>4. Known(l.holder, cache[n][l.holder])
        BY <1>0, <2>3, <2>4, <3>1 DEF EpochsOK, RecordsOK
      <3>5. cache[n][l.holder].epoch <= record[l.holder].epoch
        BY <3>2, <3>4 DEF Known, Record
      <3> QED
        BY <2>2, <3>1, <3>3, <3>5
    <2>6. ASSUME <<n, r.now>> \notin hasty', NEW i \in 1..Len(log), log[i].holder = n
          PROVE log[i].epoch <= r.epoch
      <3>1. log[i] \in Leases /\ log[i].epoch \in Nat /\ r.epoch \in Nat
        BY <1>0, LogTypes DEF Leases, Lease, Request
      <3>2. CASE inst.kind = "epoch"
        BY <1>0, <1>8, <1>9, <2>1, <2>6, <3>1, <3>2 DEF EpochsOK, OwnRecordOK
      <3>3. CASE inst.kind # "epoch"
        BY <1>0, <1>b, <3>1, <3>3 DEF KindsOK
      <3> QED
        BY <3>2, <3>3
    <2> QED
      BY <1>1, <1>3, <2>2, <2>5, <2>6 DEF RequestOver, Over, LeasesSame, RecordsSame
  <1> QED
    BY <1>1, <1>4, <1>5, <1>7, <1>10, <1>11, <1>12, ServerAssemble DEF LeasesSame

\* A command is evaluated with the very lease the request was made for.
LEMMA EvaluatedWith ==
    ASSUME BaseInv, NEW n \in Node, req[n] # Idle, NEW c, NewRequestCommand(n, c)
    PROVE /\ req[n].prev = LeaseOf(n)
          /\ \A k \in 1..Len(log) : log[k].seq = c.prev /\ log[k].prop = c.prop => k = applied[n]
  <1>0. TypeOK /\ LogOK /\ RequestOK(n)
    BY DEF BaseInv
  <1>1. /\ c.prev = LeaseOf(n).seq /\ c.prop = LeaseOf(n).prop
        /\ LeaseOf(n).seq = req[n].prev.seq /\ LeaseOf(n).prop = req[n].prev.prop
    BY DEF NewRequestCommand
  <1>2. applied[n] \in 1..Len(log) /\ LeaseOf(n) = log[applied[n]]
    BY <1>0, AppliedFacts
  <1>3. PICK k \in 1..applied[n] : req[n].prev = log[k]
    BY <1>0 DEF RequestOK
  <1>4. k \in 1..Len(log)
    BY <1>0, AppliedFacts
  <1>5. k = applied[n]
    BY <1>0, <1>1, <1>2, <1>3, <1>4, SameEntry
  <1>6. \A j \in 1..Len(log) : log[j].seq = c.prev /\ log[j].prop = c.prop => j = applied[n]
    BY <1>0, <1>1, <1>2, SameEntry
  <1> QED
    BY <1>2, <1>3, <1>5, <1>6

LEMMA ServerSendRequest ==
    ASSUME ServerInv, BaseInv', NEW n \in Node, asleep[n] = 0, SendRequest(n)
    PROVE ServerInv'
  <1>0. TypeOK /\ TypeOK' /\ EpochsOK /\ KindsOK /\ BaseInv /\ RequestOver(n) /\ RequestOK(n) /\ ClocksOK
    BY DEF ServerInv, BaseInv
  <1>1. /\ RecordsSame /\ req[n] # Idle /\ req[n].pc = "send" /\ req[n].to = n
        /\ req'[n] = Idle /\ \A m \in Node \ {n} : req'[m] = req[m]
        /\ UNCHANGED <<log, applied, minProposed, clock, asleep, inst, tscache, reads, retired, hasty, restarts>>
    <2>1. LeaseOf(n) \in Leases
      BY <1>0, LogTypes DEF Leases, LeaseOf, TypeOK
    <2>2. req[n] # Idle
      BY <1>0, SendRequestFacts
    <2>3. (LeaseOf(n).epoch = 0) <=> (req[n].epoch = 0)
      BY <1>0, <2>1, <2>2 DEF KindsOK
    <2> QED
      BY <1>0, <2>3, SendRequestFacts
  <1>2. \A h \in Node : clock[h] \in Nat /\ minProposed[h] \in Nat /\ record[h].epoch \in Nat
    BY <1>0 DEF TypeOK, Record
  <1>3. CASE flying' = flying
    BY <1>1, <1>2, <1>3, ServerQuiet
  <1>4. ASSUME NEW c \in Command, NewRequestCommand(n, c), flying' = flying \cup {c}
        PROVE ServerInv'
    <2> DEFINE l == LeaseOf(n)
               r == req[n]
               k == c.lease
    <2>1. /\ r.prev = l /\ \A j \in 1..Len(log) : log[j].seq = c.prev /\ log[j].prop = c.prop => j = applied[n]
      BY <1>0, <1>1, <1>4, EvaluatedWith
    <2>2. /\ c.kind = "request" /\ k.holder = n /\ k.prop = r.now /\ k.epoch = r.epoch
          /\ l.holder = n /\ r.epoch = 0 => k.exp = Latest(r.exp, l.exp)
          /\ l.holder # n => k.start = AcquisitionStart(l, r.now) /\ (l.epoch = 0 => l.exp <= k.start)
      BY <1>4 DEF NewRequestCommand
    <2>3. applied[n] \in 1..Len(log) /\ l = log[applied[n]] /\ l \in Leases /\ l \in Lease /\ l.exp \in Nat
          /\ l.epoch \in Nat /\ l.prop \in Nat
      BY <1>0, LogTypes DEF TypeOK, Leases, Lease, LeaseOf
    <2>4. r.now \in Nat /\ r.exp \in Nat /\ r.epoch \in Nat
      <3>1. r \in Request \cup {Idle}
        BY <1>0 DEF TypeOK
      <3> QED
        BY <1>1, <3>1, IdleIsNoRequest
    <2>5. (r.epoch = 0) <=> (inst.kind = "expiration")
      BY <1>0, <1>1 DEF KindsOK
    <2>6. (l.epoch = 0) <=> (inst.kind = "expiration")
      BY <1>0, <2>3 DEF KindsOK
    <2>7. \A x \in Leases' : x \in Leases \/ x = k
      BY <1>1, <1>4 DEF Leases
    <2>8. r.now <= clock[n] /\ (l.holder = n => l.prop < r.now)
      BY <1>0, <1>1, <2>1 DEF RequestOK
    <2> HIDE DEF l, r, k
    <2>9. Forward
      BY <1>1, <1>2 DEF Forward, RecordsSame
    <2>10. KindsOK'
      BY <1>0, <1>1, <1>4, <2>2, <2>5, <2>7 DEF KindsOK
    <2>11. EpochsOK'
      <3>1. inst.kind = "epoch" => /\ booting[n] => <<n, r.now>> \in hasty
                                   /\ ~ booting[n] => r.epoch <= cache[n][n].epoch
                                   /\ r.epoch <= record[n].epoch
        BY <1>0, <1>1 DEF AskerOK, EpochsOK, OwnRecordOK, r
      <3>2. inst.kind = "epoch" => \A x \in Leases' : x \in Leases \/
                /\ booting[x.holder] => Hasty(x)'
                /\ asleep[x.holder] = 0 /\ ~ booting[x.holder] => x.epoch <= cache[x.holder][x.holder].epoch
                /\ x.epoch <= record[x.holder].epoch
        BY <1>1, <2>2, <2>7, <3>1 DEF Hasty
      <3>3. inst.kind = "epoch" => \A h \in Node : req'[h] \in {Idle, req[h]}
        BY <1>1
      <3>4. \A h \in Node : clock[h] <= clock'[h] /\ minProposed[h] <= minProposed'[h]
        BY <1>1, <1>2
      <3> QED
        BY <1>0, <1>1, <3>2, <3>3, <3>4, EpochsQuiet
    <2>12. \A h \in Node : RequestOver(h)'
      BY <1>0, <1>1, <2>9, RequestOverStable DEF ServerInv
    <2>13. CommandOver(c)
      <3>1. l.holder # n => Over(l)
        <4>1. SUFFICES ASSUME l.holder # n PROVE Over(l)
          OBVIOUS
        <4>2. CASE l.epoch = 0
          <5>1. l.exp <= r.now
            BY <2>2, <2>3, <2>4, <4>1, <4>2 DEF AcquisitionStart, Earliest
          <5>2. l.exp <= clock[n]
            BY <1>2, <2>3, <2>4, <2>8, <5>1
          <5> QED
            BY <4>2, <5>2 DEF Over
        <4>3. CASE l.epoch # 0
          BY <1>0, <1>1, <2>1, <4>1, <4>3 DEF RequestOver, r, l
        <4> QED
          BY <4>2, <4>3
      <3>2. l.holder = n => Behind(l, k)
        BY <2>2, <2>3, <2>4, <2>5, <2>6, <2>8 DEF Behind, Latest
      <3>3. ~ Hasty(k) => \A i \in 1..applied[n] : log[i].holder = n => log[i].epoch <= k.epoch
        <4>1. \A i \in 1..applied[n] : i \in 1..Len(log) /\ i <= applied[n]
          BY <1>0, <2>3, LogTypes
        <4>2. ~ Hasty(k) => <<n, r.now>> \notin hasty
          BY <2>2 DEF Hasty
        <4> QED
          BY <1>0, <1>1, <2>1, <2>2, <2>3, <4>1, <4>2 DEF RequestOver, r
      <3> QED
        BY <2>1, <2>2, <2>3, <3>1, <3>2, <3>3 DEF CommandOver, k
    <2>14. CommandOver(c)'
      BY <1>0, <1>1, <2>9, <2>13, CommandOverStable
    <2>15. \A d \in flying' : d \in flying \/ CommandOver(d)'
      BY <1>4, <2>14
    <2> QED
      BY <1>1, <2>9, <2>10, <2>11, <2>12, <2>15, ServerAssemble
  <1> QED
    BY <1>0, <1>3, <1>4, SendRequestFacts

LEMMA ServerSendTransfer ==
    ASSUME ServerInv, BaseInv', NEW n \in Node, SendTransfer(n)
    PROVE ServerInv'
  <1>0. TypeOK /\ TypeOK' /\ KindsOK /\ ClocksOK
    BY DEF ServerInv, BaseInv
  <1>1. /\ RecordsSame /\ req[n] # Idle /\ req[n].to # n
        /\ req'[n] = Idle /\ \A m \in Node \ {n} : req'[m] = req[m]
        /\ minProposed' = [minProposed EXCEPT ![n] = Revoked(n, req[n].prev.seq)]
        /\ UNCHANGED <<log, applied, clock, asleep, inst, hasty>>
        /\ flying' = flying \/ \E c \in Command : NewTransferCommand(n, c) /\ flying' = flying \cup {c}
    BY <1>0, SendTransferFacts
  <1>2. inst.kind = "expiration"
    BY <1>0, <1>1 DEF KindsOK
  <1>3. Forward
    <2>1. \A h \in Node : /\ minProposed[h] \in Nat /\ clock[h] \in Nat /\ record[h].epoch \in Nat
                          /\ minProposed[h] <= clock[h]
      BY <1>0 DEF TypeOK, Record, ClocksOK
    <2>2. minProposed'[n] \in {minProposed[n], clock[n]} /\ \A m \in Node \ {n} : minProposed'[m] = minProposed[m]
      BY <1>0, <1>1 DEF TypeOK, Revoked
    <2> QED
      BY <1>1, <2>1, <2>2 DEF Forward, RecordsSame
  <1>4. EpochsOK'
    BY <1>1, <1>2 DEF EpochsOK
  <1>5. KindsOK'
    <2>1. \A c \in flying' : c \in flying \/ (c.kind = "transfer" /\ c.lease.epoch = 0)
      BY <1>1 DEF NewTransferCommand
    <2>2. \A l \in Leases' : l \in Leases \/ l.epoch = 0
      BY <1>1, <2>1 DEF Leases
    <2> QED
      BY <1>0, <1>1, <1>2, <2>1, <2>2 DEF KindsOK
  <1>6. \A h \in Node : RequestOver(h)'
    BY <1>0, <1>1, <1>3, RequestOverStable DEF ServerInv
  <1>7. \A c \in flying' : c \in flying \/ CommandOver(c)'
    BY <1>1 DEF CommandOver, NewTransferCommand
  <1> QED
    BY <1>1, <1>3, <1>4, <1>5, <1>6, <1>7, ServerAssemble

\* The holder of a lease that was retired does not use it, nor any it extends.
LEMMA RetiredIsDone ==
    ASSUME BaseInv, Final.seq \in retired
    PROVE asleep[Final.holder] # 0 \/ Final.prop < minProposed[Final.holder]
  <1>0. TypeOK /\ LogOK /\ Len(log) \in 1..Len(log) /\ Final = log[Len(log)]
    BY LogTypes DEF BaseInv, Final
  <1>1. PICK h \in Node : \E i \in 1..applied[h] :
                /\ log[i].seq = Final.seq /\ log[i].holder = h
                /\ Final.seq < LeaseOf(h).seq \/ asleep[h] # 0 \/ Barred(h, Final.seq)
    BY DEF BaseInv, RetiredOK
  <1>2. PICK i \in 1..applied[h] :
                /\ log[i].seq = Final.seq /\ log[i].holder = h
                /\ Final.seq < LeaseOf(h).seq \/ asleep[h] # 0 \/ Barred(h, Final.seq)
    BY <1>1
  <1>3. i \in 1..Len(log) /\ LeaseOf(h).seq <= Final.seq /\ LeaseOf(h).seq \in Nat /\ Final.seq \in Nat
    BY <1>0, AppliedFacts
  <1>4. h = Final.holder
    BY <1>0, <1>2, <1>3, SameSeq
  <1>5. asleep[h] # 0 \/ Barred(h, Final.seq)
    BY <1>2, <1>3
  <1> QED
    BY <1>0, <1>4, <1>5 DEF Barred

\* What the next lease of the log finds of those before it.
LEMMA NextInLine ==
    ASSUME ServerInv, NEW c \in flying, c.prev = Final.seq, c.kind = "request" => c.prop = Final.prop,
           NEW i \in 1..Len(log), NoneHasty(log[i].seq, Final.seq), ~ Hasty(c.lease)
    PROVE /\ log[i].holder # c.lease.holder =>
                Done(log[i]) /\ (log[i].epoch # 0 => Over(log[i]))
          /\ log[i].holder = c.lease.holder =>
                (Done(log[i]) \/ Behind(log[i], c.lease)) /\ log[i].epoch <= c.lease.epoch
  <1> DEFINE N == Len(log)
             e == log[i]
             k == c.lease
  <1>0. /\ TypeOK /\ BaseInv /\ KindsOK /\ HandedOver /\ CommandOver(c) /\ CommandOK(c) /\ c \in Command
        /\ N \in Nat /\ N \in 1..N /\ Final = log[N]
    BY LogTypes DEF ServerInv, BaseInv, TypeOK, Final
  <1>1. e \in Lease /\ Final \in Lease /\ k \in Lease /\ e \in Leases /\ Final \in Leases /\ k \in Leases
    BY <1>0, LogTypes DEF Command, Leases
  <1>2. /\ e.prop \in Nat /\ e.exp \in Nat /\ e.epoch \in Nat /\ e.holder \in Node
        /\ Final.prop \in Nat /\ Final.exp \in Nat /\ Final.epoch \in Nat /\ Final.holder \in Node
        /\ k.prop \in Nat /\ k.exp \in Nat /\ k.epoch \in Nat
    BY <1>1 DEF Lease
  <1>3. /\ (e.epoch = 0 <=> Final.epoch = 0) /\ (e.epoch = 0 <=> k.epoch = 0)
        /\ (e.epoch = 0) <=> (inst.kind = "expiration")
    BY <1>0, <1>1 DEF KindsOK
  <1>4. /\ i = N \/ i < N
        /\ i < N => /\ e.holder # Final.holder => Done(e) /\ (e.epoch # 0 => Over(e))
                    /\ e.holder = Final.holder => (Done(e) \/ Behind(e, Final)) /\ e.epoch <= Final.epoch
        /\ i = N => e = Final
    BY <1>0 DEF HandedOver
  <1>5. \A h \in Node : record[h].epoch \in Nat /\ clock[h] \in Nat /\ minProposed[h] \in Nat
    BY <1>0 DEF TypeOK, Record
  <1>a. ~ Hasty(k)
    OBVIOUS
  <1> HIDE DEF e, k, N
  <1>6. CASE c.kind = "transfer"
    <2>1. e.epoch = 0 /\ Final.seq \in retired
      BY <1>0, <1>3, <1>6 DEF KindsOK, CommandOK
    <2>2. asleep[Final.holder] # 0 \/ Final.prop < minProposed[Final.holder]
      BY <1>0, <2>1, RetiredIsDone
    <2>3. Done(e)
      BY <1>2, <1>4, <1>5, <2>2 DEF Done, Behind
    <2> QED
      BY <1>2, <2>1, <2>3 DEF e, k
  <1>7. CASE c.kind = "request"
    <2>1. /\ Final.holder # k.holder => Over(Final)
          /\ Final.holder = k.holder => Behind(Final, k)
          /\ e.holder = k.holder => e.epoch <= k.epoch
      BY <1>0, <1>a, <1>7 DEF CommandOver, e, k, N
    <2>2. CASE Final.holder # k.holder
      <3>1. Done(e) /\ (e.epoch # 0 => Over(e))
        <4>1. CASE i = N \/ e.holder # Final.holder
          BY <1>4, <2>1, <2>2, <4>1 DEF Done
        <4>2. CASE e.holder = Final.holder /\ i < N /\ e.epoch # 0
          <5>1. record[Final.holder].epoch > Final.epoch /\ e.epoch <= Final.epoch
            BY <1>3, <1>4, <2>1, <2>2, <4>2 DEF Over
          <5>2. Over(e)
            BY <1>2, <1>5, <4>2, <5>1 DEF Over
          <5> QED
            BY <5>2 DEF Done
        <4>3. CASE e.holder = Final.holder /\ i < N /\ e.epoch = 0
          <5>1. PICK p \in Node : Final.exp <= clock[p]
            BY <1>3, <2>1, <2>2, <4>3 DEF Over
          <5>2. Behind(e, Final) => e.exp <= clock[p]
            BY <1>2, <1>5, <4>3, <5>1 DEF Behind
          <5> QED
            BY <1>4, <4>3, <5>2 DEF Done, Over
        <4> QED
          BY <1>4, <4>1, <4>2, <4>3
      <3> QED
        BY <2>1, <3>1 DEF e, k
    <2>3. CASE Final.holder = k.holder
      <3>1. Behind(e, Final) => Behind(e, k)
        BY <1>2, <1>3, <2>1, <2>3 DEF Behind
      <3> QED
        BY <1>4, <2>1, <2>3, <3>1 DEF e, k
    <2> QED
      BY <2>2, <2>3
  <1> QED
    BY <1>0, <1>6, <1>7 DEF Command

LEMMA ServerCommit ==
    ASSUME ServerInv, BaseInv', NEW c \in flying, Commit(c)
    PROVE ServerInv'
  <1>0. TypeOK /\ TypeOK' /\ EpochsOK /\ KindsOK /\ BaseInv /\ HandedOver /\ Uniform
    BY DEF ServerInv, BaseInv
  <1>1. /\ RecordsSame /\ flying' = flying \ {c} /\ c \in Command
        /\ UNCHANGED <<applied, minProposed, clock, asleep, req, inst, tscache, reads, retired, hasty, restarts>>
        /\ log' = log \/ (~ Mismatch(Final, c) /\ Appended(c.lease))
    BY <1>0, CommitFacts
  <1>2. \A h \in Node : clock[h] \in Nat /\ minProposed[h] \in Nat /\ record[h].epoch \in Nat
    BY <1>0 DEF TypeOK, Record
  <1>3. CASE log' = log
    <2>1. flying' \subseteq flying /\ \A h \in Node : clock[h] <= clock'[h]
      BY <1>1, <1>2
    <2> QED
      BY <1>1, <1>3, <2>1, ServerQuiet
  <1>4. CASE ~ Mismatch(Final, c) /\ Appended(c.lease)
    <2> DEFINE N == Len(log)
               k == c.lease
    <2>1. /\ LogOK' /\ c.prev = Final.seq /\ Final.seq <= k.seq
          /\ c.kind = "request" => c.prop = Final.prop
      BY <1>0, <1>1, <1>4, AppendedLog
    <2>a. \A i, j \in 1..Len(log') : i < j /\ log'[i].seq = log'[j].seq => log'[i].prop < log'[j].prop
      BY <2>1 DEF LogOK, Extends
    <2>2. /\ Len(log') = N + 1 /\ log'[N + 1] = k /\ (\A i \in 1..N : log'[i] = log[i]) /\ N \in Nat \ {0}
          /\ N \in 1..N /\ \A i \in 1..(N + 1) : i \in 1..N \/ i = N + 1
      BY <1>0, <1>4, LogTypes DEF Appended
    <2>3. \A l \in Leases' : l \in Leases
      BY <1>1, <2>2 DEF Leases
    <2>4. KindsOK'
      BY <1>0, <1>1, <2>3, KindsSame DEF SameRequest
    <2>5. EpochsOK'
      <3>1. \A h \in Node : clock[h] <= clock'[h] /\ minProposed[h] <= minProposed'[h]
        BY <1>1, <1>2
      <3> QED
        BY <1>0, <1>1, <2>3, <3>1, EpochsQuiet
    <2>b. \A i, j \in 1..Len(log') : i <= j => log'[i].seq <= log'[j].seq
      BY <2>1 DEF LogOK
    <2>c. ASSUME NEW i \in 1..N, NoneHasty(log[i].seq, k.seq)'
          PROVE NoneHasty(log[i].seq, Final.seq) /\ ~ Hasty(k)
      <3>0. log[i].seq \in Nat /\ Final.seq \in Nat /\ k.seq \in Nat
        BY <1>0, <1>1, <2>2, LogTypes DEF Command, Lease, Final
      <3>1. i \in 1..(N + 1) /\ N + 1 \in 1..(N + 1) /\ i <= N + 1
        BY <2>2
      <3>2. log[i].seq <= k.seq /\ log'[i].seq = log[i].seq
        <4>1. log'[i].seq <= log'[N + 1].seq
          BY <2>2, <2>b, <3>1
        <4> QED
          BY <2>2, <4>1
      <3>4. k.seq \in log[i].seq..k.seq
        BY <3>0, <3>2
      <3>5. ~ Hasty(k)
        BY <1>1, <2>2, <2>c, <3>1, <3>2, <3>4 DEF NoneHasty, Hasty
      <3>6. \A x \in log[i].seq..Final.seq : x \in log[i].seq..k.seq
        BY <2>1, <3>0
      <3>7. NoneHasty(log[i].seq, Final.seq)
        BY <1>1, <2>2, <2>c, <3>2, <3>6 DEF NoneHasty, Hasty
      <3> QED
        BY <3>5, <3>7
    <2>6. \A i \in 1..N : NoneHasty(log[i].seq, k.seq)' =>
             /\ log'[i].holder # k.holder => Done(log[i]) /\ (log'[i].epoch # 0 => Over(log[i]))
             /\ log'[i].holder = k.holder =>
                   (Done(log[i]) \/ Behind(log[i], k)) /\ log'[i].epoch <= k.epoch
      BY <2>1, <2>2, <2>c, NextInLine
    <2>7. \A i \in 1..N : (Done(log[i]) => Done(log[i])') /\ (Over(log[i]) => Over(log[i])')
      BY <1>1, <2>2 DEF Done, Over, RecordsSame
    <2>8. HandedOver'
      <3> SUFFICES ASSUME NEW i \in 1..(N + 1), NEW j \in 1..(N + 1), i < j,
                          NoneHasty(log[i].seq, log[j].seq)'
                   PROVE /\ log'[i].holder # log'[j].holder =>
                              Done(log[i])' /\ (log'[i].epoch # 0 => Over(log[i])')
                         /\ log'[i].holder = log'[j].holder =>
                              (Done(log[i])' \/ Behind(log[i], log[j])') /\ log'[i].epoch <= log'[j].epoch
        BY <2>2 DEF HandedOver
      <3>1. i \in 1..N
        BY <2>2
      <3>2. CASE j \in 1..N
        <4>1. NoneHasty(log[i].seq, log[j].seq)
          <5>1. log'[i].seq = log[i].seq /\ log'[j].seq = log[j].seq
            BY <2>2, <3>1, <3>2
          <5> QED
            BY <1>1, <2>2, <5>1 DEF NoneHasty, Hasty
        <4> QED
          BY <1>0, <2>2, <2>7, <3>1, <3>2, <4>1 DEF HandedOver, Behind
      <3>3. CASE j = N + 1
        BY <2>2, <2>6, <2>7, <3>1, <3>3 DEF Behind
      <3> QED
        BY <2>2, <3>2, <3>3
    <2>9. ASSUME NEW n \in Node PROVE RequestOver(n)'
      <3>1. SUFFICES ASSUME req[n] # Idle, req[n].to = n PROVE RequestOver(n)'
        BY <1>1 DEF RequestOver
      <3>2. RequestOver(n) /\ RequestOK(n)
        BY <1>0 DEF ServerInv, BaseInv
      <3>3. PICK j \in 1..applied[n] : req[n].prev = log[j]
        BY <3>1, <3>2 DEF RequestOK
      <3>4. j \in 1..N /\ j \in 1..(N + 1) /\ N + 1 \in 1..(N + 1) /\ j < N + 1
        BY <1>0, <2>2, AppliedFacts DEF BaseInv
      <3>5. k # req[n].prev
        <4>1. k.prop \in Nat /\ log[j].prop \in Nat
          BY <1>0, <1>1, <3>4, LogTypes DEF Command, Lease
        <4>2. k.seq = log[j].seq => log[j].prop < k.prop
          BY <2>a, <2>2, <3>4
        <4> QED
          BY <3>3, <4>1, <4>2
      <3>6. <<n, req[n].now>> \notin hasty =>
              \A i, m \in 1..(N + 1) : i <= m /\ log'[m] = req[n].prev /\ log'[i].holder = n =>
                 log'[i].epoch <= req[n].epoch
        <4> SUFFICES ASSUME <<n, req[n].now>> \notin hasty, NEW i \in 1..(N + 1), NEW m \in 1..(N + 1),
                            i <= m, log'[m] = req[n].prev, log'[i].holder = n
                     PROVE log'[i].epoch <= req[n].epoch
          OBVIOUS
        <4>1. m \in 1..N /\ i \in 1..N
          BY <2>2, <3>5
        <4> QED
          BY <2>2, <3>1, <3>2, <4>1 DEF RequestOver
      <3>7. Over(req[n].prev) => Over(req[n].prev)'
        BY <1>1 DEF Over, RecordsSame
      <3> QED
        BY <1>1, <2>2, <3>2, <3>6, <3>7 DEF RequestOver, RecordsSame
    <2>10. ASSUME NEW d \in flying' PROVE CommandOver(d)'
      <3>1. CommandOK(d) /\ d \in Command /\ CommandOver(d)
        BY <1>0, <1>1 DEF ServerInv, BaseInv, TypeOK
      <3>2. SUFFICES ASSUME d.kind = "request" PROVE CommandOver(d)'
        BY DEF CommandOver
      <3>3. PICK j \in 1..N : log[j].seq = d.prev /\ log[j].prop = d.prop
        BY <3>1, <3>2 DEF CommandOK
      <3>4. j \in 1..(N + 1) /\ j < N + 1 /\ N + 1 \in 1..(N + 1)
        BY <2>2
      <3>5. k.seq = d.prev => k.prop # d.prop
        <4>1. k.prop \in Nat /\ log[j].prop \in Nat
          BY <1>0, <1>1, LogTypes DEF Command, Lease
        <4>2. k.seq = log[j].seq => log[j].prop < k.prop
          BY <2>a, <2>2, <3>4
        <4> QED
          BY <3>3, <4>1, <4>2
      <3>6. \A m \in 1..(N + 1) : log'[m].seq = d.prev /\ log'[m].prop = d.prop =>
               /\ m \in 1..N /\ log'[m] = log[m] /\ \A i \in 1..m : log'[i] = log[i]
               /\ log[m].holder # d.lease.holder => Over(log[m])
               /\ log[m].holder = d.lease.holder => Behind(log[m], d.lease)
               /\ ~ Hasty(d.lease) =>
                     \A i \in 1..m : log[i].holder = d.lease.holder => log[i].epoch <= d.lease.epoch
        <4> SUFFICES ASSUME NEW m \in 1..(N + 1), log'[m].seq = d.prev, log'[m].prop = d.prop
                     PROVE /\ m \in 1..N /\ log'[m] = log[m] /\ \A i \in 1..m : log'[i] = log[i]
                           /\ log[m].holder # d.lease.holder => Over(log[m])
                           /\ log[m].holder = d.lease.holder => Behind(log[m], d.lease)
                           /\ ~ Hasty(d.lease) =>
                                 \A i \in 1..m : log[i].holder = d.lease.holder => log[i].epoch <= d.lease.epoch
          OBVIOUS
        <4>1. m \in 1..N
          BY <2>2, <3>5
        <4>2. \A i \in 1..m : i \in 1..N
          BY <2>2, <4>1
        <4> QED
          BY <2>2, <3>1, <3>2, <4>1, <4>2 DEF CommandOver
      <3> QED
        BY <1>1, <2>2, <2>7, <3>6 DEF CommandOver, Behind, Hasty
    <2>11. Uniform'
      BY <1>0, <1>1 DEF Uniform
    <2> QED
      BY <2>4, <2>5, <2>8, <2>9, <2>10, <2>11 DEF ServerInv
  <1> QED
    BY <1>1, <1>3, <1>4

LEMMA ServerStep ==
    ASSUME ServerInv, [Next]_vars
    PROVE ServerInv'
  <1>0. TypeOK /\ BaseInv
    BY DEF ServerInv, BaseInv
  <1>a. BaseInv'
    BY <1>0, BaseStep
  <1>b. \A h \in Node : clock[h] \in Nat
    BY <1>0 DEF TypeOK
  <1>1. CASE UNCHANGED vars
    <2>1. Unchanged
      BY <1>1, StutterFacts
    <2>2. RecordsSame /\ \A h \in Node : clock[h] <= clock'[h]
      BY <1>b, <2>1 DEF RecordsSame, Unchanged
    <2> QED
      BY <1>a, <2>1, <2>2, ServerQuiet DEF Unchanged
  <1>2. ASSUME NEW n \in Node, Tick(n) \/ Start(n) PROVE ServerInv'
    BY <1>a, <1>2, ServerTick, ServerStart
  <1>3. ASSUME NEW n \in Node,
               Heartbeat(n) \/ \E m \in Node : Gossip(n, m) \/ IncrementElsewhere(n, m)
        PROVE ServerInv'
    BY <1>a, <1>3, ServerLiveness
  <1>4. ASSUME NEW n \in Node, Read(n) PROVE ServerInv'
    <2>1. RecordsSame /\ LeasesSame /\ UNCHANGED <<clock, asleep, req, inst, hasty>>
      BY <1>0, <1>4, ReadType
    <2>2. \A h \in Node : clock[h] <= clock'[h]
      BY <1>b, <2>1
    <2> QED
      BY <1>a, <2>1, <2>2, ServerQuiet DEF LeasesSame
  <1>5. ASSUME NEW n \in Node, asleep[n] = 0, RequestLease(n) \/ TransferLease(n) PROVE ServerInv'
    BY <1>a, <1>5, ServerRequest
  <1>6. ASSUME NEW n \in Node, Cancel(n) \/ Promote(n) \/ Revive(n) \/ Invalidate(n) PROVE ServerInv'
    BY <1>a, <1>6, ServerProgress
  <1>7. ASSUME NEW n \in Node, asleep[n] = 0, SendRequest(n) PROVE ServerInv'
    BY <1>a, <1>7, ServerSendRequest
  <1>8. ASSUME NEW n \in Node, SendTransfer(n) PROVE ServerInv'
    BY <1>a, <1>8, ServerSendTransfer
  <1>9. ASSUME NEW n \in Node, Apply(n) PROVE ServerInv'
    <2>1. RecordsSame /\ UNCHANGED <<log, minProposed, flying, asleep, req, inst, hasty>>
      BY <1>0, <1>9, ApplyFacts
    <2>2. \A h \in Node : clock[h] <= clock'[h]
      BY <1>0, <1>9, ApplyClock
    <2> QED
      BY <1>a, <2>1, <2>2, ServerQuiet
  <1>10. ASSUME NEW n \in Node, Crash(n) PROVE ServerInv'
    BY <1>a, <1>10, ServerCrash
  <1>11. ASSUME NEW c \in flying, Commit(c) PROVE ServerInv'
    BY <1>a, <1>11, ServerCommit
  <1>12. ASSUME NEW c \in flying, Drop(c) PROVE ServerInv'
    <2>1. RecordsSame /\ flying' \subseteq flying /\ UNCHANGED <<log, minProposed, clock, asleep, req, inst, hasty>>
      BY <1>0, <1>12, DropFacts
    <2>2. \A h \in Node : clock[h] <= clock'[h]
      BY <1>b, <2>1
    <2> QED
      BY <1>a, <2>1, <2>2, ServerQuiet
  <1> QED
    BY <1>1, <1>2, <1>3, <1>4, <1>5, <1>6, <1>7, <1>8, <1>9, <1>10, <1>11, <1>12, Steps

LEMMA InitServer == Init /\ Uniform => ServerInv
  <1> SUFFICES ASSUME Init, Uniform PROVE ServerInv
    OBVIOUS
  <1>0. TypeOK /\ BaseInv /\ Len(log) = 1 /\ flying = {} /\ log[1].holder = First /\ First \in Node
    BY InitFacts, InitBase, Constants DEF TypeOK
  <1>1. log[1].epoch = (IF inst.firstKind = "epoch" THEN 1 ELSE 0) /\ inst.kind \in {"epoch", "expiration"}
    BY <1>0, InitFacts, Constants DEF TypeOK, Kind
  <1>2. \A n \in Node : /\ req[n] = Idle /\ booting[n] = FALSE /\ asleep[n] = 0
                        /\ clock[n] = inst.firstTime
    BY InitFacts
  <1>3. \A i \in 1..Len(log) : i = 1
    BY <1>0
  <1>4. \A l \in Leases : l = log[1]
    BY <1>0, <1>3 DEF Leases
  <1>5. KindsOK
    <2>1. hasty = {}
      BY DEF Init
    <2> QED
      BY <1>0, <1>1, <1>2, <1>4, <2>1 DEF KindsOK, Uniform
  <1>6. HandedOver /\ (\A n \in Node : RequestOver(n)) /\ \A c \in flying : CommandOver(c)
    BY <1>0, <1>2, <1>3 DEF HandedOver, RequestOver
  <1>7. EpochsOK
    <2>1. /\ inst.duration \in Nat /\ inst.firstTime \in Nat
      BY InitFacts
    <2>2. \A h \in Node : /\ record[h].epoch = 1 /\ record[h].exp <= inst.firstTime + inst.duration
                          /\ record[h].exp \in Nat
      BY <2>1 DEF Init
    <2>3. \A n, h \in Node : cache[n][h] = record[h]
      BY DEF Init
    <2>4. \A h \in Node : \A i \in 1..Len(published[h]) : published[h][i] = record[h]
      <3> TAKE h \in Node
      <3>1. published[h] = <<record[h]>>
        BY DEF Init
      <3> QED
        BY <3>1
    <2>5. RecordsOK
      BY <1>0, <1>1, <1>2, <1>4, <2>2, <2>3, <2>4 DEF RecordsOK, Known
    <2>6. \A h \in Node : OwnRecordOK(h) /\ BootOK(h) /\ AskerOK(h)
      BY <1>0, <1>1, <1>2, <1>4, <2>2, <2>3, <2>4 DEF OwnRecordOK, BootOK, AskerOK, Ended
    <2> QED
      BY <2>5, <2>6 DEF EpochsOK
  <1> QED
    BY <1>0, <1>5, <1>6, <1>7 DEF ServerInv

\* Who may serve under a lease has not been succeeded.
LEMMA ServingIsNotDone ==
    ASSUME ServerInv, NEW n \in Node, NEW c \in Node, NEW ts \in Nat, clock[c] <= ts, CanServe(n, ts),
           ~ Hasty(LeaseOf(n))
    PROVE /\ ~ Done(LeaseOf(n)) /\ LeaseOf(n).holder = n /\ asleep[n] = 0
          /\ ts + MaxOffset < Expiration(n, LeaseOf(n))
          /\ inst.kind = "epoch" => ~ booting[n] /\ cache[n][n].epoch = LeaseOf(n).epoch
  <1> DEFINE l == LeaseOf(n)
  <1>0. TypeOK /\ ClocksOK /\ KindsOK /\ EpochsOK
    BY DEF ServerInv, BaseInv
  <1>1. asleep[n] = 0 /\ l.holder = n /\ LeaseStatus(n, l, ts) = "VALID"
    BY DEF CanServe
  <1>2. /\ ~ Unknown(n, l) /\ ~ Expired(n, l) /\ ~ Proscribed(n, l)
        /\ ~ (Stasis(Expiration(n, l)) <= ts)
    BY <1>1, StatusFacts
  <1>3. l \in Lease /\ l \in Leases /\ l.exp \in Nat /\ l.epoch \in Nat
    BY <1>0, LogTypes DEF TypeOK, Leases, Lease, LeaseOf
  <1>4. /\ MaxOffset \in Nat /\ inst.kind \in {"epoch", "expiration"}
        /\ \A p \in Node : clock[p] \in Nat /\ clock[p] <= clock[c] + MaxOffset
    BY <1>0, Constants DEF TypeOK, ClocksOK, Kind
  <1>5. cache[n][n].epoch \in Nat /\ cache[n][n].exp \in Nat /\ record[n].epoch \in Nat
    BY <1>0 DEF TypeOK, Record
  <1>c. ~ Hasty(l)
    OBVIOUS
  <1> HIDE DEF l
  <1>6. ~ (l.prop < minProposed[n])
    BY <1>1, <1>2 DEF Proscribed
  <1>a. Expiration(n, l) \in Nat /\ ts + MaxOffset < Expiration(n, l) /\ clock[c] + MaxOffset < Expiration(n, l)
    BY <1>1, <1>2, <1>3, <1>4, <1>5 DEF Expiration, Stasis
  <1>b. inst.kind = "epoch" => ~ booting[n] /\ cache[n][n].epoch = l.epoch
    <2> SUFFICES ASSUME inst.kind = "epoch" PROVE ~ booting[n] /\ cache[n][n].epoch = l.epoch
      OBVIOUS
    <2>1. l.epoch # 0
      BY <1>0, <1>3 DEF KindsOK
    <2>2. ~ booting[n]
      BY <1>0, <1>1, <1>3, <1>c, <1>6 DEF EpochsOK, BootOK
    <2>3. cache[n][n].epoch = l.epoch
      BY <1>1, <1>2, <1>3, <1>5, <2>1 DEF Unknown, Expired
    <2> QED
      BY <2>2, <2>3
  <1>7. ~ Over(l)
    <2> SUFFICES ASSUME Over(l) PROVE FALSE
      OBVIOUS
    <2>1. CASE l.epoch = 0
      BY <1>3, <1>4, <1>a, <2>1 DEF Over, Expiration
    <2>2. CASE l.epoch # 0
      <3>1. inst.kind = "epoch" /\ record[n].epoch > l.epoch
        BY <1>0, <1>1, <1>3, <1>4, <2>2 DEF Over, KindsOK
      <3>2. Ended(n, cache[n][n]) /\ cache[n][n].epoch = l.epoch
        BY <1>0, <1>1, <1>b, <3>1 DEF EpochsOK, OwnRecordOK
      <3>3. PICK p \in Node : cache[n][n].exp <= clock[p]
        BY <3>1, <3>2 DEF Ended
      <3>4. Expiration(n, l) = cache[n][n].exp
        BY <1>1, <2>2 DEF Expiration
      <3> QED
        BY <1>4, <1>5, <1>a, <3>3, <3>4
    <2> QED
      BY <2>1, <2>2
  <1> QED
    BY <1>1, <1>6, <1>7, <1>a, <1>b DEF Done, l

LEMMA ServerInvServes == ServerInv => OneServerUnlessHasty
  <1> SUFFICES ASSUME ServerInv, NEW n \in Node, NEW m \in Node, n # m,
                      LeaseOf(n).seq <= LeaseOf(m).seq, NoneHasty(LeaseOf(n).seq, LeaseOf(m).seq),
                      NEW c \in Node, NEW d \in Node, CanServe(n, clock[c]), CanServe(m, clock[d])
               PROVE FALSE
    BY DEF OneServerUnlessHasty, BothServe
  <1>1. LeaseOf(n).holder = n /\ LeaseOf(m).holder = m
    BY DEF CanServe
  <1>2. TypeOK /\ LogOK /\ HandedOver /\ Len(log) \in Nat
    BY LogTypes DEF ServerInv, BaseInv
  <1>3. /\ applied[n] \in 1..Len(log) /\ applied[m] \in 1..Len(log)
        /\ LeaseOf(n) = log[applied[n]] /\ LeaseOf(m) = log[applied[m]]
        /\ LeaseOf(n).seq \in Nat /\ LeaseOf(m).seq \in Nat
    BY <1>2, LogTypes DEF TypeOK, LeaseOf, Lease
  <1>4. ~ Hasty(LeaseOf(n)) /\ ~ Hasty(LeaseOf(m))
    <2>1. /\ LeaseOf(n).seq \in LeaseOf(n).seq..LeaseOf(m).seq
          /\ LeaseOf(m).seq \in LeaseOf(n).seq..LeaseOf(m).seq
      BY <1>3
    <2> QED
      BY <1>3, <2>1 DEF NoneHasty
  <1>5. ~ Done(LeaseOf(n)) /\ ~ Done(LeaseOf(m))
    <2>1. clock[c] \in Nat /\ clock[d] \in Nat
      BY <1>2 DEF TypeOK
    <2>2. clock[c] <= clock[c] /\ clock[d] <= clock[d]
      BY <2>1
    <2> QED
      BY <1>4, <2>1, <2>2, ServingIsNotDone
  <1>6. applied[n] # applied[m]
    BY <1>1, <1>3
  <1>7. CASE applied[n] < applied[m]
    BY <1>1, <1>2, <1>3, <1>5, <1>7 DEF HandedOver
  <1>8. CASE applied[m] < applied[n]
    <2>1. LeaseOf(m).seq <= LeaseOf(n).seq
      BY <1>2, <1>3, <1>8 DEF LogOK
    <2>2. NoneHasty(LeaseOf(m).seq, LeaseOf(n).seq)
      BY <1>3, <2>1 DEF NoneHasty
    <2> QED
      BY <1>1, <1>2, <1>3, <1>5, <1>8, <2>2 DEF HandedOver
  <1> QED
    BY <1>2, <1>3, <1>6, <1>7, <1>8

\* At no moment can two replicas both serve, at whichever clock's present time, unless
\* one of their leases or one between them was requested by a restarted node before its
\* first heartbeat: a lease is succeeded only when its holder does not use it any more,
\* because it has expired by some clock and the stasis period covers the difference to
\* the others, or its epoch was ended after the record had expired, or minLeaseProposedTS
\* has moved above it, or its holder is down.  Uniform: all leases are of the type the
\* range should have.
THEOREM OneServerAtATime == Spec /\ Uniform => []OneServerUnlessHasty
  <1>1. Init /\ Uniform => ServerInv
    BY InitServer
  <1>2. ServerInv /\ [Next]_vars => ServerInv'
    BY ServerStep
  <1>3. ServerInv => OneServerUnlessHasty
    BY ServerInvServes
  <1> QED
    BY <1>1, <1>2, <1>3, PTL DEF Spec

\* No restarted node makes requests for epoch-based leases.
NoneRestarted ==
    \/ inst.kind = "expiration"
    \/ inst.maxRestarts = 0 /\ hasty = {} /\ \A n \in Node : asleep[n] = 0 /\ ~ booting[n]

LEMMA NoneRestartedStep ==
    ASSUME ServerInv, NoneRestarted, [Next]_vars
    PROVE NoneRestarted'
  <1> DEFINE Same == UNCHANGED <<inst, asleep, booting, hasty>>
  <1>0. TypeOK /\ KindsOK
    BY DEF ServerInv, BaseInv
  <1>1. CASE Same
    BY <1>1 DEF NoneRestarted
  <1>2. CASE UNCHANGED vars
    BY <1>1, <1>2, StutterFacts DEF Unchanged
  <1>3. ASSUME NEW n \in Node, Tick(n) PROVE NoneRestarted'
    <2>1. Same
      BY <1>3 DEF Tick, history
    <2> QED
      BY <1>1, <2>1
  <1>4. ASSUME NEW n \in Node, Start(n) PROVE NoneRestarted'
    BY <1>0, <1>4, StartFacts DEF NoneRestarted
  <1>5. ASSUME NEW n \in Node,
               Heartbeat(n) \/ \E m \in Node : Gossip(n, m) \/ IncrementElsewhere(n, m)
        PROVE NoneRestarted'
    <2>1. UNCHANGED <<inst, asleep, hasty>>
      BY <1>0, <1>5, LivenessStepType
    <2>2. booting' = booting \/ booting' = [booting EXCEPT ![n] = FALSE]
      BY <1>5 DEF Heartbeat, Gossip, IncrementElsewhere
    <2>3. \A m \in Node : ~ booting[m] => ~ booting'[m]
      BY <1>0, <2>2 DEF TypeOK
    <2> QED
      BY <2>1, <2>3 DEF NoneRestarted
  <1>6. ASSUME NEW n \in Node, Read(n) PROVE NoneRestarted'
    BY <1>0, <1>1, <1>6, ReadType DEF RecordsSame
  <1>7. ASSUME NEW n \in Node, RequestLease(n) \/ TransferLease(n) PROVE NoneRestarted'
    <2>1. /\ UNCHANGED <<inst, asleep, booting>>
          /\ inst.kind = "expiration" \/ ~ booting[n] => hasty' = hasty
      BY <1>0, <1>7, RequestFacts DEF RecordsSame
    <2> QED
      BY <2>1 DEF NoneRestarted
  <1>8. ASSUME NEW n \in Node, Cancel(n) \/ Promote(n) \/ Revive(n) \/ Invalidate(n) PROVE NoneRestarted'
    <2>1. UNCHANGED <<inst, asleep, hasty>>
      BY <1>0, <1>8, ProgressFacts
    <2>2. booting' = booting
      BY <1>8 DEF Cancel, Promote, Revive, Invalidate, HeartbeatFor, liveness
    <2> QED
      BY <1>1, <2>1, <2>2
  <1>9. ASSUME NEW n \in Node, SendRequest(n) PROVE NoneRestarted'
    <2>1. LeaseOf(n) \in Leases
      BY <1>0, LogTypes DEF Leases, LeaseOf, TypeOK
    <2>2. req[n] # Idle
      BY <1>0, <1>9, SendRequestFacts
    <2>3. (LeaseOf(n).epoch = 0) <=> (req[n].epoch = 0)
      BY <1>0, <2>1, <2>2 DEF KindsOK
    <2> QED
      BY <1>0, <1>1, <1>9, <2>3, SendRequestFacts DEF RecordsSame
  <1>10. ASSUME NEW n \in Node, SendTransfer(n) PROVE NoneRestarted'
    BY <1>0, <1>1, <1>10, SendTransferFacts DEF RecordsSame
  <1>11. ASSUME NEW n \in Node, Apply(n) PROVE NoneRestarted'
    BY <1>0, <1>1, <1>11, ApplyFacts DEF RecordsSame
  <1>12. ASSUME NEW n \in Node, Crash(n) PROVE NoneRestarted'
    BY <1>0, <1>12, CrashFacts DEF NoneRestarted
  <1>13. ASSUME NEW c \in flying, Commit(c) PROVE NoneRestarted'
    BY <1>0, <1>1, <1>13, CommitFacts DEF RecordsSame
  <1>14. ASSUME NEW c \in flying, Drop(c) PROVE NoneRestarted'
    BY <1>0, <1>1, <1>14, DropFacts DEF RecordsSame
  <1> QED
    BY <1>2, <1>3, <1>4, <1>5, <1>6, <1>7, <1>8, <1>9, <1>10, <1>11, <1>12, <1>13, <1>14, Steps

\* With expiration-based leases, transfers and restarts included, and with epoch-based
\* leases as long as no node restarts, two replicas never serve at the same time, without
\* a further hypothesis.
THEOREM OneServerUnconditionally ==
    Spec /\ Uniform /\ (inst.kind = "expiration" \/ inst.maxRestarts = 0) => []OneServer
  <1> DEFINE Safe == inst.kind = "expiration" \/ inst.maxRestarts = 0
  <1>1. Init /\ Uniform /\ Safe => ServerInv /\ NoneRestarted
    <2>1. Init /\ Safe => NoneRestarted
      BY InitFacts DEF NoneRestarted, Init
    <2> QED
      BY <2>1, InitServer
  <1>2. ServerInv /\ NoneRestarted /\ [Next]_vars => ServerInv' /\ NoneRestarted'
    BY ServerStep, NoneRestartedStep
  <1>3. ServerInv /\ NoneRestarted => OneServer
    <2> SUFFICES ASSUME ServerInv, NoneRestarted, NEW n \in Node, NEW m \in Node, n # m, BothServe(n, m)
                 PROVE FALSE
      BY DEF OneServer
    <2>1. hasty = {}
      BY DEF ServerInv, KindsOK, NoneRestarted
    <2>2. \A s, t : NoneHasty(s, t)
      BY <2>1 DEF NoneHasty, Hasty
    <2>3. LeaseOf(n).seq \in Nat /\ LeaseOf(m).seq \in Nat
      BY LogTypes DEF ServerInv, BaseInv, TypeOK, LeaseOf, Lease
    <2>4. BothServe(m, n)
      BY DEF BothServe
    <2>5. OneServerUnlessHasty
      BY ServerInvServes
    <2> QED
      BY <2>2, <2>3, <2>4, <2>5 DEF OneServerUnlessHasty
  <1> QED
    BY <1>1, <1>2, <1>3, PTL DEF Spec

-----------------------------------------------------------------------------
(* No write slips under a read.                                            *)

\* Reads ahead of the present are not combined with restarts.
Prudent == inst.lead = 0 \/ inst.maxRestarts = 0
ReadOf(l) == reads[l.seq]
\* Only what is in the log and was applied by its holder was read under.
OnlyApplied ==
    /\ \A s \in 1..inst.maxLeases : reads[s] = 0 \/ \E i \in 1..Len(log) : log[i].seq = s
    /\ \A i \in 1..Len(log) : log[i].seq > LeaseOf(log[i].holder).seq => ReadOf(log[i]) = 0
\* A holder protects what was read under its lease and before, and wakes up above it;
\* here and below, as far back as no lease was requested too early.
Protected(n) ==
    LeaseOf(n).holder = n =>
      \A i \in 1..Len(log) : log[i].seq <= LeaseOf(n).seq /\ NoneHasty(log[i].seq, LeaseOf(n).seq) =>
        /\ asleep[n] = 0 => ReadOf(log[i]) <= tscache[n]
        /\ inst.lead = 0 => ReadOf(log[i]) <= clock[n]
        /\ asleep[n] # 0 => ReadOf(log[i]) + MaxOffset + 1 <= asleep[n]
\* A new holder's lease covers what was read before.
CoveredBy(t, l) == t <= l.sum /\ (inst.lead = 0 => t <= l.start)
LeasesCover ==
    \A i, j \in 1..Len(log) :
        (j > 1 /\ log[i].seq < log[j].seq /\ log[j - 1].holder # log[j].holder /\ NoneHasty(log[i].seq, log[j].seq))
        => CoveredBy(ReadOf(log[i]), log[j])
Alive(c) == c.prev = Final.seq /\ (c.kind = "request" => c.prop = Final.prop)
CommandCovers(c) ==
    /\ c.kind = "transfer" => \A i \in 1..Len(log) : log[i].seq = c.prev => log[i].holder # c.lease.holder
    /\ Alive(c) /\ c.lease.holder # Final.holder =>
          /\ \A i \in 1..Len(log) : NoneHasty(log[i].seq, Final.seq) => CoveredBy(ReadOf(log[i]), c.lease)
          /\ c.lease.epoch = 0 => c.lease.sum <= c.lease.exp
\* Expiration-based leases: the present one expires above all reads, and a transfer that
\* is requested gives the new lease an expiration above what can be read until then.
Near(t) == \A m \in Node : t <= clock[m] + inst.duration
NearOK ==
    /\ \A n \in Node : Near(tscache[n])
    /\ \A l \in Leases : Near(l.sum) /\ \E p \in Node : l.exp <= clock[p] + inst.duration
    /\ \A n \in Node : req[n] # Idle => req[n].exp <= req[n].now + inst.duration
TransferFits(n) ==
    (req[n] # Idle /\ req[n].to # n /\ LeaseOf(n).seq = req[n].prev.seq) =>
        /\ tscache[n] <= req[n].exp
        /\ \A j \in 1..Len(log) : log[j].seq = req[n].prev.seq => log[j].exp <= req[n].exp + MaxOffset
        /\ \A c \in flying : c.prev = req[n].prev.seq /\ c.lease.seq = c.prev =>
              c.lease.exp <= req[n].exp + MaxOffset
ExpirationsOK ==
    inst.kind = "expiration" =>
      /\ \A i \in 1..Len(log) : ReadOf(log[i]) <= Final.exp
      /\ NearOK /\ \A n \in Node : TransferFits(n)
\* Epoch-based leases: what was read under an epoch is below the record's expiration
\* while the epoch lasts, and below every clock afterwards.
Settled(t) == \A m \in Node : t <= clock[m]
SettledFor(l) ==
    /\ l.epoch = record[l.holder].epoch => ReadOf(l) = 0 \/ ReadOf(l) + MaxOffset < record[l.holder].exp
    /\ l.epoch < record[l.holder].epoch => Settled(ReadOf(l))
    /\ asleep[l.holder] = 0 /\ booting[l.holder] => Settled(ReadOf(l))
SettledOK ==
    inst.kind = "epoch" => \A i \in 1..Len(log) : NoneHasty(log[i].seq, log[i].seq) => SettledFor(log[i])
\* A request that has found the lease expired starts above what was read under it.
RequestCovers(n) ==
    LET r == req[n] IN
    (inst.kind = "epoch" /\ r # Idle /\ r.prev.holder # n) =>
      /\ r.pc = "expired" /\ r.rec.epoch = r.prev.epoch => r.rec.exp <= r.now
      /\ \A i \in 1..Len(log) :
            /\ log[i].seq <= r.prev.seq /\ NoneHasty(log[i].seq, r.prev.seq)
            /\ log[i].holder # r.prev.holder \/ r.pc = "send" \/ log[i].epoch < r.rec.epoch
            => ReadOf(log[i]) <= r.now
\* A node's clock is above what it served, and it wakes up above it.
OwnReads(n) ==
    /\ asleep[n] # 0 => MaxOffset < asleep[n]
    /\ \A i \in 1..Len(log) : log[i].holder = n =>
          /\ inst.lead = 0 => ReadOf(log[i]) <= clock[n]
          /\ asleep[n] # 0 => ReadOf(log[i]) + MaxOffset + 1 <= asleep[n]
ReadInv ==
    /\ ServerInv /\ Prudent /\ OnlyApplied /\ LeasesCover /\ ExpirationsOK /\ SettledOK
    /\ \A n \in Node : Protected(n) /\ RequestCovers(n) /\ OwnReads(n)
    /\ \A c \in flying : CommandCovers(c)

\* Types of what is read.
LEMMA ReadTypes ==
    ASSUME BaseInv
    PROVE /\ TypeOK /\ MaxOffset \in Nat /\ inst.duration \in Nat /\ inst.lead \in Nat /\ MaxOffset < inst.duration
          /\ \A i \in 1..Len(log) : ReadOf(log[i]) \in Nat /\ log[i].seq \in 1..inst.maxLeases /\ log[i].seq \in Nat
          /\ \A s \in 1..inst.maxLeases : reads[s] \in Nat
          /\ \A n \in Node : /\ clock[n] \in Nat /\ tscache[n] \in Nat /\ asleep[n] \in Nat
                             /\ minProposed[n] \in Nat /\ record[n].epoch \in Nat /\ record[n].exp \in Nat
          /\ \A l \in Leases : /\ l \in Lease /\ l.seq \in Nat /\ l.start \in Nat /\ l.sum \in Nat /\ l.exp \in Nat
                               /\ l.prop \in Nat /\ l.epoch \in Nat /\ l.holder \in Node
          /\ \A i \in 1..Len(log) : log[i] \in Leases
          /\ Final \in Leases /\ \A c \in flying : c.lease \in Leases
  <1>1. TypeOK /\ LogOK
    BY DEF BaseInv
  <1>2. MaxOffset \in Nat /\ inst.duration \in Nat /\ inst.lead \in Nat /\ MaxOffset < inst.duration
    BY <1>1, Constants DEF TypeOK
  <1>3. \A n \in Node : /\ clock[n] \in Nat /\ tscache[n] \in Nat /\ asleep[n] \in Nat
                        /\ minProposed[n] \in Nat /\ record[n].epoch \in Nat /\ record[n].exp \in Nat
    BY <1>1 DEF TypeOK, Record
  <1>4. \A l \in Leases : /\ l \in Lease /\ l.seq \in Nat /\ l.start \in Nat /\ l.sum \in Nat /\ l.exp \in Nat
                          /\ l.prop \in Nat /\ l.epoch \in Nat /\ l.holder \in Node
    BY <1>1, LeasesType DEF Lease
  <1>5. /\ \A i \in 1..Len(log) : log[i] \in Leases
        /\ Final \in Leases /\ \A c \in flying : c.lease \in Leases
    BY <1>1, LogTypes DEF Leases, Final
  <1>6. \A i \in 1..Len(log) : log[i].seq \in 1..inst.maxLeases /\ log[i].seq \in Nat
    <2>1. \A i \in 1..Len(log) : log[i].seq \in 1..i
      BY <1>1 DEF LogOK
    <2>2. Len(log) \in Nat /\ inst.maxLeases \in Nat /\ Len(log) <= inst.maxLeases
      BY <1>1, LogTypes, Constants DEF TypeOK
    <2> QED
      BY <2>1, <2>2
  <1>7. \A s \in 1..inst.maxLeases : reads[s] \in Nat
    BY <1>1 DEF TypeOK
  <1> QED
    BY <1>1, <1>2, <1>3, <1>4, <1>5, <1>6, <1>7 DEF ReadOf

LEMMA NarrowHasty ==
    ASSUME NEW s \in Nat, NEW t \in Nat, NoneHasty(s, t), NEW v \in Nat, NEW w \in Nat, s <= v, w <= t
    PROVE NoneHasty(v, w)
  <1>1. \A x \in v..w : x \in s..t
    OBVIOUS
  <1> QED
    BY <1>1 DEF NoneHasty

\* The lease that a replica may serve under is the last one of another's view, too.
LEMMA NotSucceeded ==
    ASSUME ServerInv, NEW n \in Node, LeaseOf(n).holder = n, ~ Done(LeaseOf(n))
    PROVE /\ \A j \in 1..Len(log) : applied[n] <= j /\ NoneHasty(LeaseOf(n).seq, log[j].seq) =>
                /\ log[j].holder = n /\ ~ Done(log[j])
                /\ LeaseOf(n).epoch = 0 => LeaseOf(n).exp <= log[j].exp
          /\ \A j \in 1..Len(log) : log[j].seq >= LeaseOf(n).seq /\ NoneHasty(LeaseOf(n).seq, log[j].seq) =>
                log[j].holder = n /\ (log[j].epoch # 0 => ~ Over(log[j]))
  <1>0. BaseInv /\ TypeOK /\ LogOK /\ HandedOver /\ KindsOK
    BY DEF ServerInv, BaseInv
  <1> DEFINE l == LeaseOf(n)
             a == applied[n]
  <1>1. a \in 1..Len(log) /\ l = log[a] /\ Len(log) \in Nat
    BY <1>0, AppliedFacts, LogTypes
  <1>2. \A j \in 1..Len(log) : /\ log[j] \in Leases /\ log[j].exp \in Nat /\ log[j].prop \in Nat
                               /\ log[j].epoch \in Nat /\ log[j].seq \in Nat
    BY <1>0, ReadTypes
  <1>3. l.exp \in Nat /\ l.prop \in Nat /\ l.epoch \in Nat /\ l.seq \in Nat
    BY <1>1, <1>2
  <1>4. /\ \A p \in Node : clock[p] \in Nat /\ minProposed[p] \in Nat /\ record[p].epoch \in Nat
    BY <1>0, ReadTypes
  <1>5. l.holder = n /\ ~ Done(l)
    OBVIOUS
  <1>a. \A j \in 1..Len(log) : a < j /\ NoneHasty(l.seq, log[j].seq) =>
          /\ l.holder # log[j].holder => Done(l)
          /\ l.holder = log[j].holder => (Done(l) \/ Behind(l, log[j])) /\ l.epoch <= log[j].epoch
    BY <1>0, <1>1 DEF HandedOver
  <1> HIDE DEF l, a
  <1>6. ASSUME NEW j \in 1..Len(log), a <= j, NoneHasty(l.seq, log[j].seq)
        PROVE /\ log[j].holder = n /\ ~ Done(log[j])
              /\ l.epoch = 0 => l.exp <= log[j].exp
    <2>1. CASE a = j
      BY <1>1, <1>3, <1>5, <2>1
    <2>2. CASE a < j
      <3>1. log[j].holder = n /\ Behind(l, log[j]) /\ l.epoch <= log[j].epoch
        BY <1>5, <1>6, <1>a, <2>2
      <3>2. l.epoch = 0 <=> log[j].epoch = 0
        BY <1>0, <1>1, <1>2 DEF KindsOK
      <3>3. ~ Over(log[j])
        <4>1. CASE l.epoch = 0
          BY <1>2, <1>3, <1>4, <1>5, <3>1, <3>2, <4>1 DEF Over, Done, Behind
        <4>2. CASE l.epoch # 0
          BY <1>2, <1>3, <1>4, <1>5, <3>1, <3>2, <4>2 DEF Over, Done
        <4> QED
          BY <4>1, <4>2
      <3>4. ~ (log[j].prop < minProposed[n]) /\ asleep[n] = 0
        BY <1>2, <1>3, <1>4, <1>5, <3>1 DEF Done, Behind
      <3> QED
        BY <3>1, <3>3, <3>4 DEF Done, Behind
    <2> QED
      BY <1>1, <1>6, <2>1, <2>2
  <1>7. ASSUME NEW j \in 1..Len(log), log[j].seq >= l.seq, NoneHasty(l.seq, log[j].seq)
        PROVE log[j].holder = n /\ (log[j].epoch # 0 => ~ Over(log[j]))
    <2>1. CASE a <= j
      BY <1>6, <1>7, <2>1 DEF Done
    <2>2. CASE j < a
      <3>1. log[j].seq = l.seq
        BY <1>0, <1>1, <1>2, <1>3, <1>7, <2>2 DEF LogOK
      <3>2. log[j].holder = n /\ log[j].epoch = l.epoch
        BY <1>0, <1>1, <1>5, <3>1, SameSeq
      <3> QED
        BY <1>5, <3>2 DEF Done, Over
    <2> QED
      BY <1>1, <2>1, <2>2
  <1> QED
    BY <1>6, <1>7 DEF l, a

LEMMA NoSuccessorUnderWay ==
    ASSUME ServerInv, NEW n \in Node, LeaseOf(n).holder = n, ~ Done(LeaseOf(n)), NEW c \in flying, Alive(c),
           NoneHasty(LeaseOf(n).seq, Final.seq)
    PROVE c.lease.holder = Final.holder /\ Final.holder = n
  <1>0. BaseInv /\ TypeOK /\ CommandOver(c) /\ CommandOK(c) /\ c \in Command
    BY DEF ServerInv, BaseInv, TypeOK
  <1>1. Len(log) \in 1..Len(log) /\ Final = log[Len(log)] /\ applied[n] <= Len(log)
    BY <1>0, LogTypes DEF Final, TypeOK
  <1>2. Final.holder = n /\ ~ Done(Final)
    BY <1>1, NotSucceeded
  <1>3. CASE c.kind = "transfer"
    <2>1. Final.seq \in retired
      BY <1>0, <1>3 DEF CommandOK, Alive
    <2> QED
      BY <1>0, <1>2, <2>1, RetiredIsDone DEF Done
  <1>4. CASE c.kind = "request"
    <2>1. Final.holder # c.lease.holder => Over(Final)
      BY <1>0, <1>1, <1>4 DEF CommandOver, Alive
    <2> QED
      BY <1>2, <2>1 DEF Done
  <1> QED
    BY <1>0, <1>3, <1>4 DEF Command

-----------------------------------------------------------------------------
(* What stays when the log and the reads do.                               *)

LogReadsSame == UNCHANGED <<log, reads, inst>> /\ hasty \subseteq hasty'
Later == \A n \in Node : clock[n] <= clock'[n]

LEMMA StillNoneHasty ==
    ASSUME log' = log, hasty \subseteq hasty'
    PROVE \A i, j : /\ NoneHasty(log[i].seq, log[j].seq)' => NoneHasty(log[i].seq, log[j].seq)
                   /\ \A n : NoneHasty(log[i].seq, req[n].prev.seq)' => NoneHasty(log[i].seq, req'[n].prev.seq)
  BY DEF NoneHasty, Hasty
LEMMA ServerTypes ==
    ASSUME ServerInv
    PROVE BaseInv /\ TypeOK /\ LogOK /\ ClocksOK
  BY DEF ServerInv, BaseInv
LEMMA ProtectedSame ==
    ASSUME ServerInv, ServerInv', LogReadsSame, Later, NEW n \in Node, Protected(n), applied'[n] = applied[n],
           asleep'[n] = asleep[n], tscache[n] <= tscache'[n]
    PROVE Protected(n)'
  <1>1. /\ \A i \in 1..Len(log) : ReadOf(log[i]) \in Nat /\ log[i].seq \in Nat
        /\ clock[n] \in Nat /\ tscache[n] \in Nat /\ asleep[n] \in Nat /\ MaxOffset \in Nat
    BY ServerTypes, ReadTypes
  <1>2. TypeOK'
    BY DEF ServerInv, BaseInv
  <1>3. clock'[n] \in Nat /\ tscache'[n] \in Nat
    BY <1>2 DEF TypeOK
  <1>4. SUFFICES ASSUME LeaseOf(n)'.holder = n, NEW i \in 1..Len(log), log[i].seq <= LeaseOf(n).seq,
                        NoneHasty(log[i].seq, LeaseOf(n).seq)
                 PROVE /\ asleep[n] = 0 => ReadOf(log[i]) <= tscache'[n]
                       /\ inst.lead = 0 => ReadOf(log[i]) <= clock'[n]
                       /\ asleep[n] # 0 => ReadOf(log[i]) + MaxOffset + 1 <= asleep[n]
    BY DEF Protected, LogReadsSame, ReadOf, LeaseOf, NoneHasty, Hasty
  <1>5. /\ asleep[n] = 0 => ReadOf(log[i]) <= tscache[n]
        /\ inst.lead = 0 => ReadOf(log[i]) <= clock[n]
        /\ asleep[n] # 0 => ReadOf(log[i]) + MaxOffset + 1 <= asleep[n]
    BY <1>4 DEF Protected, LeaseOf, LogReadsSame
  <1> QED
    BY <1>1, <1>3, <1>5 DEF Later
LEMMA OwnReadsSame ==
    ASSUME ServerInv, ServerInv', LogReadsSame, Later, NEW n \in Node, OwnReads(n), asleep'[n] = asleep[n]
    PROVE OwnReads(n)'
  <1>1. (\A i \in 1..Len(log) : ReadOf(log[i]) \in Nat) /\ clock[n] \in Nat /\ TypeOK'
    BY ServerTypes, ReadTypes DEF ServerInv, BaseInv
  <1>2. clock'[n] \in Nat /\ clock[n] <= clock'[n]
    BY <1>1 DEF TypeOK, Later
  <1>3. UNCHANGED <<log, reads, inst>>
    BY DEF LogReadsSame
  <1>4. \A i \in 1..Len(log) : log[i].holder = n =>
            /\ inst.lead = 0 => ReadOf(log[i]) <= clock'[n]
            /\ asleep[n] # 0 => ReadOf(log[i]) + MaxOffset + 1 <= asleep[n]
    BY <1>1, <1>2 DEF OwnReads
  <1> QED
    BY <1>3, <1>4 DEF OwnReads, ReadOf
LEMMA OnlyAppliedSame ==
    ASSUME OnlyApplied, LogReadsSame, UNCHANGED applied
    PROVE OnlyApplied'
  BY DEF OnlyApplied, LogReadsSame, ReadOf, LeaseOf
LEMMA LeasesCoverSame ==
    ASSUME LeasesCover, LogReadsSame
    PROVE LeasesCover'
  BY DEF LeasesCover, LogReadsSame, ReadOf, CoveredBy, NoneHasty, Hasty
LEMMA CommandCoversSame ==
    ASSUME LogReadsSame, NEW c, CommandCovers(c)
    PROVE CommandCovers(c)'
  BY DEF CommandCovers, LogReadsSame, ReadOf, CoveredBy, Alive, Final, NoneHasty, Hasty
LEMMA RequestCoversSame ==
    ASSUME LogReadsSame, NEW n \in Node, RequestCovers(n), req'[n] = Idle \/ req'[n] = req[n]
    PROVE RequestCovers(n)'
  BY DEF RequestCovers, LogReadsSame, ReadOf, NoneHasty, Hasty
LEMMA NearSame ==
    ASSUME ServerInv, ServerInv', Later, UNCHANGED inst, NEW t \in Nat, Near(t)
    PROVE Near(t)'
  <1>1. TypeOK /\ TypeOK' /\ inst.duration \in Nat
    BY ServerTypes, ReadTypes DEF ServerInv, BaseInv
  <1>2. \A m \in Node : clock[m] \in Nat /\ clock'[m] \in Nat
    BY <1>1 DEF TypeOK
  <1> QED
    BY <1>1, <1>2 DEF Near, Later
LEMMA LeaseNear ==
    ASSUME ServerInv, ServerInv', Later, UNCHANGED inst, NearOK, NEW l \in Leases
    PROVE Near(l.sum)' /\ \E p \in Node : l.exp <= clock'[p] + inst.duration
  <1>1. TypeOK /\ TypeOK' /\ inst.duration \in Nat /\ l.sum \in Nat /\ l.exp \in Nat
    BY ServerTypes, ReadTypes DEF ServerInv, BaseInv
  <1>2. \A m \in Node : clock[m] \in Nat /\ clock'[m] \in Nat
    BY <1>1 DEF TypeOK
  <1>3. Near(l.sum) /\ \E p \in Node : l.exp <= clock[p] + inst.duration
    BY DEF NearOK
  <1>4. PICK p \in Node : l.exp <= clock[p] + inst.duration
    BY <1>3
  <1>5. l.exp <= clock'[p] + inst.duration
    BY <1>1, <1>2, <1>4 DEF Later
  <1> QED
    BY <1>1, <1>3, <1>5, NearSame
\* No timestamp runs away from the clocks.
LEMMA NearQuiet ==
    ASSUME ServerInv, ServerInv', Later, UNCHANGED inst, NearOK,
           \A n \in Node : tscache'[n] = tscache[n] \/ Near(tscache[n])',
           \A l \in Leases' : l \in Leases \/ (Near(l.sum)' /\ \E p \in Node : l.exp <= clock'[p] + inst.duration),
           \A n \in Node : req'[n] # Idle =>
                \/ req[n] # Idle /\ SameRequest(req[n], req'[n])
                \/ req'[n].exp <= req'[n].now + inst.duration
    PROVE NearOK'
  <1>1. \A n \in Node : tscache[n] \in Nat
    BY ServerTypes, ReadTypes
  <1>2. \A n \in Node : Near(tscache[n])'
    <2> SUFFICES ASSUME NEW n \in Node, tscache'[n] = tscache[n] PROVE Near(tscache[n])'
      OBVIOUS
    <2>1. Near(tscache[n]) /\ tscache[n] \in Nat
      BY <1>1 DEF NearOK
    <2>2. \A m \in Node : clock[m] \in Nat /\ clock'[m] \in Nat /\ clock[m] <= clock'[m] /\ inst.duration \in Nat
      BY ServerTypes, ReadTypes DEF Later, ServerInv, BaseInv, TypeOK
    <2>3. \A m \in Node : tscache'[n] <= clock'[m] + inst.duration
      BY <2>1, <2>2 DEF Near
    <2> QED
      BY <2>3 DEF Near
  <1>3. \A l \in Leases' : Near(l.sum)' /\ \E p \in Node : l.exp <= clock'[p] + inst.duration
    BY LeaseNear
  <1>4. \A n \in Node : req'[n] # Idle => req'[n].exp <= req'[n].now + inst.duration
    BY DEF NearOK, SameRequest
  <1> QED
    BY <1>2, <1>3, <1>4 DEF NearOK
LEMMA TransferFitsSame ==
    ASSUME ServerInv, ServerInv', UNCHANGED log, NEW n \in Node, TransferFits(n),
           applied'[n] = applied[n], tscache'[n] <= tscache[n],
           \A c \in flying' : c.prev = c.lease.seq /\ c.prev = req[n].prev.seq => c \in flying,
           req'[n] # Idle => req[n] # Idle /\ SameRequest(req[n], req'[n])
    PROVE TransferFits(n)'
  <1>1. TypeOK /\ TypeOK'
    BY DEF ServerInv, BaseInv
  <1>2. tscache[n] \in Nat /\ tscache'[n] \in Nat
    BY <1>1 DEF TypeOK
  <1>3. SUFFICES ASSUME req'[n] # Idle, req'[n].to # n, LeaseOf(n)'.seq = req'[n].prev.seq
                 PROVE /\ tscache'[n] <= req'[n].exp
                       /\ \A j \in 1..Len(log) : log[j].seq = req'[n].prev.seq => log[j].exp <= req'[n].exp + MaxOffset
                       /\ \A c \in flying' : c.prev = req'[n].prev.seq /\ c.lease.seq = c.prev =>
                             c.lease.exp <= req'[n].exp + MaxOffset
    BY DEF TransferFits, LeaseOf
  <1>4. req[n] # Idle /\ SameRequest(req[n], req'[n]) /\ req[n] \in Request \cup {Idle}
    BY <1>1, <1>3 DEF TypeOK
  <1>5. req[n].exp \in Nat
    BY <1>4, IdleIsNoRequest
  <1>6. /\ tscache[n] <= req[n].exp
        /\ \A j \in 1..Len(log) : log[j].seq = req[n].prev.seq => log[j].exp <= req[n].exp + MaxOffset
        /\ \A c \in flying : c.prev = req[n].prev.seq /\ c.lease.seq = c.prev =>
              c.lease.exp <= req[n].exp + MaxOffset
    BY <1>3, <1>4 DEF TransferFits, LeaseOf, SameRequest
  <1>7. req'[n].exp = req[n].exp /\ req'[n].prev = req[n].prev
    BY <1>4 DEF SameRequest
  <1>8. tscache'[n] <= req[n].exp
    BY <1>2, <1>5, <1>6
  <1> QED
    BY <1>6, <1>7, <1>8
\* Steps that read nothing, add nothing to the log, and let requests and commands only go on.
LEMMA ReadQuiet ==
    ASSUME ReadInv, ServerInv', LogReadsSame, Later, UNCHANGED <<applied, tscache, asleep>>,
           flying' \subseteq flying,
           \A n \in Node : req'[n] # Idle => req[n] # Idle /\ SameRequest(req[n], req'[n]),
           SettledOK', \A n \in Node : RequestCovers(n)'
    PROVE ReadInv'
  <1>1. ServerInv /\ Prudent /\ OnlyApplied /\ LeasesCover /\ ExpirationsOK
    BY DEF ReadInv
  <1>2. Prudent' /\ OnlyApplied' /\ LeasesCover' /\ UNCHANGED <<log, inst>>
    BY <1>1, OnlyAppliedSame, LeasesCoverSame DEF Prudent, LogReadsSame
  <1>3. \A n \in Node : Protected(n)'
    <2>1. \A n \in Node : tscache[n] \in Nat
      BY <1>1, ServerTypes, ReadTypes
    <2>2. \A n \in Node : tscache[n] <= tscache'[n]
      BY <2>1
    <2> QED
      BY <1>1, <2>2, ProtectedSame DEF ReadInv
  <1>a. \A n \in Node : OwnReads(n)'
    BY <1>1, OwnReadsSame DEF ReadInv
  <1>4. \A c \in flying' : CommandCovers(c)'
    BY CommandCoversSame DEF ReadInv
  <1>5. ExpirationsOK'
    <2>1. SUFFICES ASSUME inst.kind = "expiration"
                   PROVE /\ (\A i \in 1..Len(log) : ReadOf(log[i]) <= Final.exp)'
                         /\ NearOK' /\ \A n \in Node : TransferFits(n)'
      BY <1>2 DEF ExpirationsOK
    <2>2. /\ \A i \in 1..Len(log) : ReadOf(log[i]) <= Final.exp
          /\ NearOK /\ \A n \in Node : TransferFits(n)
      BY <1>1, <2>1 DEF ExpirationsOK
    <2>3. (\A i \in 1..Len(log) : ReadOf(log[i]) <= Final.exp)'
      BY <1>2, <2>2 DEF ReadOf, Final, LogReadsSame
    <2>4. NearOK'
      <3>1. \A l \in Leases' : l \in Leases
        BY <1>2 DEF Leases
      <3> QED
        BY <1>1, <1>2, <2>2, <3>1, NearQuiet
    <2>5. \A n \in Node : TransferFits(n)'
      <3>1. \A n \in Node : tscache'[n] <= tscache[n]
        BY <1>1, ServerTypes, ReadTypes
      <3> QED
        BY <1>1, <1>2, <2>2, <3>1, TransferFitsSame
    <2> QED
      BY <2>3, <2>4, <2>5
  <1> QED
    BY <1>1, <1>2, <1>3, <1>4, <1>5, <1>a DEF ReadInv

-----------------------------------------------------------------------------
(* What was read under an epoch is settled when the epoch ends.            *)

RecordForward(h) ==
    \/ record'[h].epoch = record[h].epoch /\ record[h].exp <= record'[h].exp
    \/ /\ record'[h].epoch = record[h].epoch + 1
       /\ (asleep[h] = 0 /\ booting[h]) \/ \E p \in Node : record[h].exp <= clock[p]
LEMMA SettledStep ==
    ASSUME ServerInv, ServerInv', LogReadsSame, Later, SettledOK,
           inst.kind = "epoch" => \A h \in Node : RecordForward(h),
           inst.kind = "epoch" => \A h \in Node : asleep'[h] = 0 /\ booting'[h] =>
                \/ asleep[h] = 0 /\ booting[h]
                \/ \A i \in 1..Len(log) : log[i].holder = h /\ NoneHasty(log[i].seq, log[i].seq) => Settled(ReadOf(log[i]))
    PROVE SettledOK'
  <1>a. SUFFICES ASSUME inst'.kind = "epoch", NEW i \in 1..Len(log'), NoneHasty(log[i].seq, log[i].seq)'
                 PROVE SettledFor(log[i])'
    BY DEF SettledOK
  <1>1. inst.kind = "epoch" /\ i \in 1..Len(log) /\ NoneHasty(log[i].seq, log[i].seq)
    BY <1>a, StillNoneHasty DEF LogReadsSame
  <1>2. TypeOK' /\ RecordsOK /\ ClocksOK /\ UNCHANGED <<log, reads, inst>> /\ SettledFor(log[i])
    BY <1>1 DEF ServerInv, BaseInv, EpochsOK, LogReadsSame, SettledOK
  <1> DEFINE l == log[i]
             h == l.holder
             t == ReadOf(l)
  <1>3. l \in Leases /\ h \in Node /\ t \in Nat /\ l.epoch \in Nat /\ MaxOffset \in Nat
    BY <1>1, ServerTypes, ReadTypes
  <1>4. record[h].epoch \in Nat /\ record[h].exp \in Nat /\ record'[h].epoch \in Nat /\ record'[h].exp \in Nat
    BY <1>2, <1>3, ServerTypes, ReadTypes DEF TypeOK, Record
  <1>5. \A m \in Node : clock[m] \in Nat /\ clock'[m] \in Nat /\ clock[m] <= clock'[m]
    BY <1>2, ServerTypes, ReadTypes DEF TypeOK, Later
  <1>6. l.epoch <= record[h].epoch /\ RecordForward(h)
    BY <1>1, <1>2, <1>3 DEF RecordsOK
  <1>7. /\ l.epoch = record[h].epoch => t = 0 \/ t + MaxOffset < record[h].exp
        /\ l.epoch < record[h].epoch => Settled(t)
        /\ asleep[h] = 0 /\ booting[h] => Settled(t)
    BY <1>2 DEF SettledFor
  <1>8. ReadOf(l)' = t /\ l' = l
    BY <1>2 DEF ReadOf
  <1>9. asleep'[h] = 0 /\ booting'[h] => (asleep[h] = 0 /\ booting[h]) \/ Settled(t)
    BY <1>1, <1>3
  <1>10. SUFFICES /\ l.epoch = record'[h].epoch => t = 0 \/ t + MaxOffset < record'[h].exp
                  /\ (l.epoch < record'[h].epoch \/ (asleep'[h] = 0 /\ booting'[h])) => \A m \in Node : t <= clock'[m]
    BY <1>8 DEF SettledFor, Settled
  <1>11. \A m, p \in Node : clock[m] <= clock[p] + MaxOffset
    BY <1>2 DEF ClocksOK
  <1> HIDE DEF l, h, t
  <1>12. Settled(t) => \A m \in Node : t <= clock'[m]
    BY <1>3, <1>5 DEF Settled
  <1>13. l.epoch = record'[h].epoch => t = 0 \/ t + MaxOffset < record'[h].exp
    BY <1>3, <1>4, <1>6, <1>7 DEF RecordForward
  <1>14. ASSUME l.epoch < record'[h].epoch PROVE \A m \in Node : t <= clock'[m]
    <2>1. CASE l.epoch < record[h].epoch \/ (asleep[h] = 0 /\ booting[h])
      BY <1>7, <1>12, <2>1
    <2>2. CASE l.epoch = record[h].epoch /\ ~ (asleep[h] = 0 /\ booting[h])
      <3>1. PICK p \in Node : record[h].exp <= clock[p]
        BY <1>3, <1>4, <1>6, <1>14, <2>2 DEF RecordForward
      <3>2. t = 0 \/ t + MaxOffset < clock[p]
        BY <1>3, <1>4, <1>5, <1>7, <2>2, <3>1
      <3>3. \A m \in Node : t <= clock[m]
        BY <1>3, <1>5, <1>11, <3>2
      <3> QED
        BY <1>3, <1>5, <3>3
    <2> QED
      BY <1>3, <1>4, <1>6, <2>1, <2>2
  <1> QED
    BY <1>7, <1>9, <1>12, <1>13, <1>14
LEMMA SettledSame ==
    ASSUME ServerInv, ServerInv', LogReadsSame, Later, SettledOK, UNCHANGED <<record, asleep, booting>>
    PROVE SettledOK'
  <1>1. \A h \in Node : RecordForward(h)
    BY ServerTypes, ReadTypes DEF RecordForward
  <1> QED
    BY <1>1, SettledStep
LEMMA SettledRecord ==
    ASSUME ServerInv, ServerInv', LogReadsSame, UNCHANGED <<clock, asleep>>, SettledOK,
           NEW n \in Node, NEW m \in Node, RecordStep(n, m), asleep[n] = 0
    PROVE SettledOK'
  <1>1. \A h \in Node : record[h].epoch \in Nat /\ record[h].exp \in Nat /\ clock[h] \in Nat
    BY ServerTypes, ReadTypes
  <1>2. \A h \in Node \ {m} : RecordForward(h)
    BY <1>1 DEF RecordForward, RecordStep
  <1>3. RecordForward(m)
    <2>1. CASE Learns(n, m)
      BY <1>1, <2>1 DEF RecordForward, Learns
    <2>2. CASE Writes(n, m)
      BY <1>1, <2>2 DEF RecordForward, Writes
    <2> QED
      BY <2>1, <2>2 DEF RecordStep
  <1>4. \A h \in Node : booting'[h] => booting[h]
    <2>1. booting \in [Node -> BOOLEAN]
      BY ServerTypes DEF TypeOK
    <2>2. CASE booting' = booting
      BY <2>2
    <2>3. CASE booting' = [booting EXCEPT ![n] = FALSE]
      BY <2>1, <2>3
    <2> QED
      BY <2>2, <2>3 DEF RecordStep
  <1>5. Later
    BY <1>1 DEF Later
  <1> QED
    BY <1>2, <1>3, <1>4, <1>5, SettledStep
LEMMA ReadTick ==
    ASSUME ReadInv, ServerInv', NEW n \in Node, Tick(n)
    PROVE ReadInv'
  <1>0. ServerInv /\ BaseInv /\ TypeOK /\ EpochsOK /\ SettledOK
    BY DEF ReadInv, ServerInv, BaseInv
  <1>1. Later /\ LeasesSame /\ UNCHANGED <<asleep, booting, req, inst, tscache, reads, retired, hasty, restarts>>
    BY <1>0, BaseTick DEF Later
  <1>2. LogReadsSame
    BY <1>1 DEF LeasesSame, LogReadsSame
  <1>3. inst.kind = "epoch" => \A h \in Node : RecordForward(h)
    <2>1. SUFFICES ASSUME inst.kind = "epoch", NEW h \in Node PROVE RecordForward(h)
      OBVIOUS
    <2>2. /\ record[h].epoch \in Nat /\ record[h].exp \in Nat /\ clock[h] \in Nat /\ inst.duration \in Nat
          /\ record[h].exp <= clock[h] + inst.duration
      BY <1>0, <2>1, ReadTypes DEF EpochsOK, RecordsOK
    <2>3. CASE n \in inst.steady
      <3>1. CASE h = n
        BY <1>0, <2>2, <2>3, <3>1, TickFacts DEF RecordForward
      <3>2. CASE h # n
        BY <1>0, <2>2, <2>3, <3>2, TickFacts DEF RecordForward
      <3> QED
        BY <3>1, <3>2
    <2>4. CASE n \notin inst.steady
      BY <2>2, <2>4 DEF RecordForward, Tick
    <2> QED
      BY <2>3, <2>4
  <1>4. SettledOK'
    BY <1>0, <1>1, <1>2, <1>3, SettledStep
  <1>5. \A m \in Node : RequestCovers(m)'
    BY <1>1, <1>2, RequestCoversSame DEF ReadInv
  <1> QED
    BY <1>1, <1>2, <1>4, <1>5, ReadQuiet DEF LeasesSame, SameRequest
LEMMA ReadLiveness ==
    ASSUME ReadInv, ServerInv', NEW n \in Node, asleep[n] = 0,
           Heartbeat(n) \/ \E m \in Node : Gossip(n, m) \/ IncrementElsewhere(n, m)
    PROVE ReadInv'
  <1>0. ServerInv /\ TypeOK /\ SettledOK
    BY DEF ReadInv, ServerInv, BaseInv
  <1>1. LeasesSame /\ UNCHANGED <<clock, asleep, req, inst, tscache, reads, retired, hasty, restarts>>
    BY <1>0, LivenessStepType
  <1>2. LogReadsSame /\ Later
    BY <1>0, <1>1 DEF LeasesSame, LogReadsSame, Later, TypeOK
  <1>3. PICK m \in Node : RecordStep(n, m)
    BY <1>0, LivenessSteps
  <1>4. SettledOK'
    BY <1>0, <1>1, <1>2, <1>3, SettledRecord
  <1>5. \A h \in Node : RequestCovers(h)'
    BY <1>1, <1>2, RequestCoversSame DEF ReadInv
  <1> QED
    BY <1>1, <1>2, <1>4, <1>5, ReadQuiet DEF LeasesSame, SameRequest
\* Earlier leases of the holder have no later epoch.
LEMMA EarlierEpochs ==
    ASSUME ServerInv, NEW n \in Node, req[n] # Idle, NEW i \in 1..Len(log),
           log[i].seq <= req[n].prev.seq, log[i].holder = req[n].prev.holder, NoneHasty(log[i].seq, req[n].prev.seq)
    PROVE log[i].epoch <= req[n].prev.epoch /\ log[i].epoch \in Nat
  <1>0. BaseInv /\ TypeOK /\ LogOK /\ HandedOver /\ RequestOK(n)
    BY DEF ServerInv, BaseInv
  <1>1. PICK k \in 1..applied[n] : req[n].prev = log[k]
    BY <1>0 DEF RequestOK
  <1>2. k \in 1..Len(log)
    BY <1>0, <1>1, AppliedFacts
  <1>3. log[i].epoch \in Nat /\ log[k].epoch \in Nat /\ log[i].seq \in Nat /\ log[k].seq \in Nat
    BY <1>0, <1>2, ReadTypes
  <1>4. CASE i < k
    BY <1>0, <1>1, <1>2, <1>3, <1>4 DEF HandedOver
  <1>5. CASE i = k
    BY <1>1, <1>3, <1>5
  <1>6. CASE k < i
    <2>1. log[k].seq <= log[i].seq
      BY <1>0, <1>2, <1>6 DEF LogOK
    <2>2. log[i].seq = log[k].seq
      BY <1>1, <1>3, <2>1
    <2> QED
      BY <1>0, <1>1, <1>2, <1>3, <2>2, SameSeq
  <1> QED
    BY <1>2, <1>4, <1>5, <1>6
\* A request for another's epoch-based lease goes on once all reads under it are settled.
LEMMA ProgressCovers ==
    ASSUME ReadInv, ServerInv', NEW n \in Node, Cancel(n) \/ Promote(n) \/ Revive(n) \/ Invalidate(n)
    PROVE RequestCovers(n)'
  <1> DEFINE r == req[n]
             q == req'[n]
             m == r.prev.holder
  <1>0. ServerInv /\ BaseInv /\ TypeOK /\ KindsOK /\ RequestOver(n) /\ RequestOK(n) /\ RequestCovers(n) /\ SettledOK
    BY DEF ReadInv, ServerInv, BaseInv
  <1>1. LeasesSame /\ GoesOn(n) /\ r # Idle /\ UNCHANGED <<inst, reads, hasty>>
    BY <1>0, ProgressFacts
  <1>2. log' = log /\ reads' = reads /\ inst' = inst /\ hasty' = hasty
    BY <1>1 DEF LeasesSame
  <1>3. SUFFICES ASSUME inst.kind = "epoch", q # Idle, q.prev.holder # n
                 PROVE /\ q.pc = "send"
                       /\ \A i \in 1..Len(log) : log[i].seq <= q.prev.seq /\ NoneHasty(log[i].seq, q.prev.seq) =>
                             ReadOf(log[i]) <= q.now
    BY <1>2, StillNoneHasty DEF RequestCovers, ReadOf
  <1>4. q.prev = r.prev /\ q.now = r.now /\ q.to = r.to
    BY <1>1, <1>3 DEF GoesOn, SameRequest
  <1>5. /\ r.prev \in Lease /\ m \in Node /\ r.prev.epoch \in Nat /\ r.now \in Nat /\ r.prev.seq \in Nat
        /\ r.rec \in Record /\ r.rec.epoch \in Nat /\ r.rec.exp \in Nat
    <2>1. r \in Request \cup {Idle}
      BY <1>0 DEF TypeOK
    <2>2. r.prev \in Lease /\ r.rec \in Record /\ r.now \in Nat
      BY <1>1, <2>1, IdleIsNoRequest
    <2> QED
      BY <2>2 DEF Lease, Record
  <1>6. r.to = n /\ r.prev.epoch # 0
    <2>1. r.to = n
      BY <1>0, <1>1, <1>3 DEF KindsOK
    <2>2. PICK k \in 1..applied[n] : r.prev = log[k]
      BY <1>0, <1>1 DEF RequestOK
    <2>3. r.prev \in Leases
      BY <1>0, <2>2, AppliedFacts, ReadTypes DEF BaseInv
    <2> QED
      BY <1>0, <1>3, <2>1, <2>3 DEF KindsOK
  <1>7. /\ r.pc \in {"expired", "send"}
        /\ r.pc = "expired" => r.rec.epoch >= r.prev.epoch
    BY <1>0, <1>1, <1>3, <1>4, <1>6 DEF RequestOver
  <1>8. Invalidate(n) /\ ~ GiveUp(n)
    <2>1. ~ GiveUp(n)
      BY <1>0, <1>3, GiveUpType
    <2> QED
      BY <1>3, <1>4, <1>6, <1>7, <2>1 DEF Cancel, Promote, Revive
  <1>9. Proceed(n) /\ r.pc = "expired"
    BY <1>8 DEF Invalidate, AfterMissed
  <1>10. q.pc = "send"
    BY <1>0, <1>1, <1>9, ProceedFacts
  <1>11. ASSUME NEW i \in 1..Len(log), log[i].seq <= r.prev.seq, NoneHasty(log[i].seq, r.prev.seq)
         PROVE ReadOf(log[i]) <= r.now
    <2>1. /\ r.rec.epoch = r.prev.epoch => r.rec.exp <= r.now
          /\ log[i].holder # m \/ log[i].epoch < r.rec.epoch => ReadOf(log[i]) <= r.now
      BY <1>0, <1>1, <1>3, <1>4, <1>9, <1>11 DEF RequestCovers
    <2>2. CASE log[i].holder # m
      BY <2>1, <2>2
    <2>3. CASE log[i].holder = m
      <3>1. log[i].epoch <= r.prev.epoch /\ log[i].epoch \in Nat
        BY <1>0, <1>1, <1>11, <2>3, EarlierEpochs
      <3>2. CASE r.rec.epoch # r.prev.epoch
        BY <1>5, <1>7, <1>9, <2>1, <3>1, <3>2
      <3>3. CASE r.rec.epoch = r.prev.epoch
        <4>1. Found(n, m, r.rec) = r.rec
          BY <1>8, <3>3 DEF Invalidate, AfterMissed
        <4>2. record[m] = r.rec
          BY <4>1 DEF Found
        <4>3. ReadOf(log[i]) \in Nat /\ MaxOffset \in Nat
          BY <1>0, ReadTypes
        <4>4. CASE log[i].epoch < r.rec.epoch
          BY <2>1, <4>4
        <4>5. CASE log[i].epoch = r.rec.epoch
          <5>1. ReadOf(log[i]) = 0 \/ ReadOf(log[i]) + MaxOffset < record[m].exp
            <6>1. NoneHasty(log[i].seq, log[i].seq)
              BY <1>0, <1>5, <1>11, ReadTypes, NarrowHasty
            <6> QED
              BY <1>0, <1>3, <2>3, <4>2, <4>5, <6>1 DEF SettledOK, SettledFor
          <5> QED
            BY <1>5, <2>1, <3>3, <4>2, <4>3, <5>1
        <4> QED
          BY <1>5, <3>1, <3>3, <4>4, <4>5
      <3> QED
        BY <3>2, <3>3
    <2> QED
      BY <2>2, <2>3
  <1> QED
    BY <1>4, <1>10, <1>11
LEMMA ReadProgress ==
    ASSUME ReadInv, ServerInv', NEW n \in Node, asleep[n] = 0,
           Cancel(n) \/ Promote(n) \/ Revive(n) \/ Invalidate(n)
    PROVE ReadInv'
  <1>0. ServerInv /\ TypeOK /\ SettledOK
    BY DEF ReadInv, ServerInv, BaseInv
  <1>1. LeasesSame /\ GoesOn(n) /\ UNCHANGED <<clock, asleep, booting, inst, tscache, reads, retired, hasty, restarts>>
    BY <1>0, ProgressFacts
  <1>2. LogReadsSame /\ Later
    BY <1>0, <1>1 DEF LeasesSame, LogReadsSame, Later, TypeOK
  <1>3. PICK m \in Node : RecordStep(n, m)
    BY <1>0, RequestSteps
  <1>4. SettledOK'
    BY <1>0, <1>1, <1>2, <1>3, SettledRecord
  <1>5. \A h \in Node : RequestCovers(h)'
    BY <1>1, <1>2, RequestCoversSame, ProgressCovers DEF ReadInv, GoesOn
  <1>6. \A h \in Node : req'[h] # Idle => req[h] # Idle /\ SameRequest(req[h], req'[h])
    BY <1>1 DEF SameRequest, GoesOn
  <1> QED
    BY <1>1, <1>2, <1>4, <1>5, <1>6, ReadQuiet DEF LeasesSame
LEMMA ReadDrop ==
    ASSUME ReadInv, ServerInv', UNCHANGED <<record, booting, log, applied, clock, asleep, req, inst, tscache, reads, hasty>>,
           flying' \subseteq flying
    PROVE ReadInv'
  <1>0. ServerInv /\ TypeOK /\ SettledOK
    BY DEF ReadInv, ServerInv, BaseInv
  <1>1. LogReadsSame /\ Later
    BY <1>0 DEF LogReadsSame, Later, TypeOK
  <1>2. SettledOK'
    BY <1>0, <1>1, SettledSame
  <1>3. \A h \in Node : RequestCovers(h)'
    BY <1>1, RequestCoversSame DEF ReadInv
  <1> QED
    BY <1>1, <1>2, <1>3, ReadQuiet DEF SameRequest

-----------------------------------------------------------------------------
(* A read: nobody but the reader depends on the lease that it is served    *)
(* under.                                                                  *)

ReadAt(n, ts) ==
    /\ ts \in Nat /\ clock[n] <= ts /\ (inst.lead = 0 => ts = clock[n])
    /\ LeaseOf(n).holder = n /\ asleep[n] = 0 /\ reads[LeaseOf(n).seq] < ts
    /\ ~ Hasty(LeaseOf(n)) =>
          /\ ~ Done(LeaseOf(n))
          /\ inst.kind = "expiration" => ts + MaxOffset < LeaseOf(n).exp
          /\ inst.kind = "epoch" => /\ ts + MaxOffset < cache[n][n].exp
                                    /\ ~ booting[n] /\ cache[n][n].epoch = LeaseOf(n).epoch
    /\ tscache' = [tscache EXCEPT ![n] = Latest(@, ts)]
    /\ \A i \in 1..Len(log) : ReadOf(log[i])' = IF log[i].seq = LeaseOf(n).seq THEN ts ELSE ReadOf(log[i])
    /\ \A s \in 1..inst.maxLeases : s # LeaseOf(n).seq => reads'[s] = reads[s]
    /\ UNCHANGED <<clock, asleep, booting, record, log, applied, flying, req, inst, hasty>>
LEMMA ReadAtFacts ==
    ASSUME ServerInv, NEW n \in Node, Read(n)
    PROVE \E ts \in Nat : ReadAt(n, ts)
  <1>0. BaseInv /\ TypeOK /\ LogOK /\ KindsOK
    BY DEF ServerInv, BaseInv
  <1> DEFINE l == LeaseOf(n)
  <1>1. PICK ts \in Nat :
                /\ ts \in {clock[n], clock[n] + inst.lead} /\ CanServe(n, ts)
                /\ reads' = [reads EXCEPT ![l.seq] = ts]
                /\ tscache' = [tscache EXCEPT ![n] = Latest(@, ts)]
                /\ reads[l.seq] < ts
    BY <1>0, ReadType
  <1>2. LeasesSame /\ RecordsSame /\ UNCHANGED <<clock, asleep, req, inst, hasty>>
    BY <1>0, ReadType
  <1>3. clock[n] \in Nat /\ inst.lead \in Nat /\ inst.kind \in {"epoch", "expiration"}
    BY <1>0, ReadTypes, Constants DEF TypeOK, Kind
  <1>4. clock[n] <= ts /\ (inst.lead = 0 => ts = clock[n])
    BY <1>1, <1>3
  <1>a. l.holder = n /\ asleep[n] = 0
    BY <1>1 DEF CanServe
  <1>5. ~ Hasty(l) =>
          /\ ~ Done(l) /\ ts + MaxOffset < Expiration(n, l)
          /\ inst.kind = "epoch" => ~ booting[n] /\ cache[n][n].epoch = l.epoch
    BY <1>1, <1>4, ServingIsNotDone
  <1>6. applied[n] \in 1..Len(log) /\ l = log[applied[n]]
    BY <1>0, AppliedFacts
  <1>7. (l.epoch = 0) <=> (inst.kind = "expiration")
    BY <1>0, <1>6, ReadTypes DEF KindsOK
  <1>8. ~ Hasty(l) =>
          /\ inst.kind = "expiration" => ts + MaxOffset < l.exp
          /\ inst.kind = "epoch" => ts + MaxOffset < cache[n][n].exp
    BY <1>3, <1>5, <1>7, <1>a DEF Expiration
  <1>9. /\ \A s \in 1..inst.maxLeases : reads'[s] = IF s = l.seq THEN ts ELSE reads[s]
        /\ \A i \in 1..Len(log) : log[i].seq \in 1..inst.maxLeases
    BY <1>0, <1>1, ReadTypes DEF TypeOK
  <1>10. \A i \in 1..Len(log) : ReadOf(log[i])' = IF log[i].seq = l.seq THEN ts ELSE ReadOf(log[i])
    BY <1>2, <1>9 DEF ReadOf, LeasesSame
  <1>11. UNCHANGED <<clock, asleep, booting, record, log, applied, flying, req, inst, hasty>>
    BY <1>2 DEF LeasesSame, RecordsSame
  <1> QED
    BY <1>1, <1>4, <1>5, <1>8, <1>9, <1>10, <1>11, <1>a DEF ReadAt
LEMMA ReadUnmarked ==
    ASSUME ServerInv, NEW n \in Node, NEW t \in Nat, LeaseOf(n).seq <= t, NoneHasty(LeaseOf(n).seq, t)
    PROVE ~ Hasty(LeaseOf(n))
  <1>1. applied[n] \in 1..Len(log) /\ LeaseOf(n) = log[applied[n]] /\ LeaseOf(n).seq \in Nat
    BY ServerTypes, AppliedFacts, ReadTypes
  <1> QED
    BY <1>1 DEF NoneHasty
LEMMA ReadSettled ==
    ASSUME ReadInv, NEW n \in Node, NEW ts, ReadAt(n, ts)
    PROVE SettledOK'
  <1> DEFINE l == LeaseOf(n)
  <1>0. ServerInv /\ BaseInv /\ TypeOK /\ LogOK /\ KindsOK /\ SettledOK /\ EpochsOK
    BY DEF ReadInv, ServerInv, BaseInv
  <1>1. /\ UNCHANGED <<clock, asleep, booting, record, log, applied, flying, req, inst, hasty>>
        /\ l.holder = n /\ ts \in Nat
    BY DEF ReadAt
  <1>2. SUFFICES ASSUME inst.kind = "epoch", NEW i \in 1..Len(log), NoneHasty(log[i].seq, log[i].seq)
                 PROVE SettledFor(log[i])'
    BY <1>1, StillNoneHasty DEF SettledOK
  <1>3. SettledFor(log[i]) /\ RecordsOK /\ ReadOf(log[i])' = IF log[i].seq = l.seq THEN ts ELSE ReadOf(log[i])
    BY <1>0, <1>2 DEF SettledOK, EpochsOK, ReadAt
  <1>4. CASE log[i].seq # l.seq
    BY <1>1, <1>3, <1>4 DEF SettledFor, Settled
  <1>5. CASE log[i].seq = l.seq
    <2>1. applied[n] \in 1..Len(log) /\ l = log[applied[n]]
      BY <1>0, AppliedFacts
    <2>2. log[i].holder = n /\ log[i].epoch = l.epoch
      BY <1>0, <1>1, <1>5, <2>1, SameSeq
    <2>a. ~ Hasty(l)
      BY <1>0, <1>2, <1>5, <2>1, ReadTypes, ReadUnmarked
    <2>3. l \in Leases /\ l.epoch \in Nat /\ record[n].epoch \in Nat /\ record[n].exp \in Nat /\ MaxOffset \in Nat
      BY <1>0, <2>1, ReadTypes
    <2>4. l.epoch # 0
      BY <1>0, <1>2, <2>3 DEF KindsOK
    <2>5. record[n].epoch = l.epoch
      <3>1. l.epoch <= record[n].epoch
        BY <1>1, <1>3, <2>3 DEF RecordsOK
      <3>2. ~ (record[n].epoch > l.epoch)
        BY <1>1, <2>4, <2>a DEF Done, Over, ReadAt
      <3> QED
        BY <2>3, <3>1, <3>2
    <2>6. ts + MaxOffset < cache[n][n].exp /\ ~ booting[n] /\ cache[n][n].epoch = l.epoch
      BY <1>2, <2>a DEF ReadAt
    <2>7. cache[n][n].exp \in Nat
      BY <1>0 DEF TypeOK, Record
    <2>8. cache[n][n].exp <= record[n].exp
      <3>1. Known(n, cache[n][n])
        BY <1>3 DEF RecordsOK
      <3> QED
        BY <2>3, <2>5, <2>6, <3>1 DEF Known
    <2>9. ts + MaxOffset < record[n].exp
      BY <1>1, <2>3, <2>6, <2>7, <2>8
    <2> QED
      BY <1>1, <1>3, <1>5, <2>2, <2>3, <2>5, <2>6, <2>9 DEF SettledFor
  <1> QED
    BY <1>4, <1>5
LEMMA ReadExpirations ==
    ASSUME ReadInv, ServerInv', NEW n \in Node, NEW ts, ReadAt(n, ts)
    PROVE ExpirationsOK'
  <1> DEFINE l == LeaseOf(n)
  <1>0. ServerInv /\ BaseInv /\ TypeOK /\ LogOK /\ ClocksOK /\ ExpirationsOK /\ KindsOK
    BY DEF ReadInv, ServerInv, BaseInv
  <1>1. /\ UNCHANGED <<clock, asleep, booting, record, log, applied, flying, req, inst>>
        /\ l.holder = n /\ ts \in Nat /\ tscache' = [tscache EXCEPT ![n] = Latest(@, ts)]
    BY DEF ReadAt
  <1>2. SUFFICES ASSUME inst.kind = "expiration"
                 PROVE /\ (\A i \in 1..Len(log) : ReadOf(log[i]) <= Final.exp)'
                       /\ NearOK' /\ \A m \in Node : TransferFits(m)'
    BY <1>1 DEF ExpirationsOK
  <1>3. /\ \A i \in 1..Len(log) : ReadOf(log[i]) <= Final.exp
        /\ NearOK /\ \A m \in Node : TransferFits(m)
    BY <1>0, <1>2 DEF ExpirationsOK
  <1>a. hasty = {}
    BY <1>0, <1>2 DEF KindsOK
  <1>4. ts + MaxOffset < l.exp /\ ~ Done(l)
    BY <1>2, <1>a DEF ReadAt, Hasty
  <1>5. applied[n] \in 1..Len(log) /\ l = log[applied[n]] /\ Len(log) \in 1..Len(log) /\ applied[n] <= Len(log)
    BY <1>0, AppliedFacts, LogTypes
  <1>6. l \in Leases /\ l.exp \in Nat /\ Final.exp \in Nat /\ MaxOffset \in Nat /\ inst.duration \in Nat
    BY <1>0, <1>5, ReadTypes
  <1>7. l.exp <= Final.exp
    <2>1. l.epoch = 0
      BY <1>0, <1>2, <1>6 DEF KindsOK
    <2> QED
      BY <1>0, <1>1, <1>4, <1>5, <1>a, <2>1, NotSucceeded DEF Final, NoneHasty, Hasty
  <1>8. ts <= Final.exp
    BY <1>1, <1>4, <1>6, <1>7
  <1>9. (\A i \in 1..Len(log) : ReadOf(log[i]) <= Final.exp)'
    <2>1. \A i \in 1..Len(log) : ReadOf(log[i])' <= Final.exp
      BY <1>3, <1>8 DEF ReadAt
    <2>2. Final' = Final
      BY <1>1 DEF Final
    <2> QED
      BY <1>1, <2>1, <2>2
  <1>10. \A m \in Node : clock[m] \in Nat /\ tscache[m] \in Nat
    BY <1>0, ReadTypes
  <1>11. \A m \in Node : tscache'[m] = IF m = n THEN Latest(tscache[n], ts) ELSE tscache[m]
    BY <1>0, <1>1 DEF TypeOK
  <1>12. NearOK'
    <2>1. PICK p \in Node : l.exp <= clock[p] + inst.duration
      BY <1>3, <1>6 DEF NearOK
    <2>2. \A m \in Node : ts <= clock[m] + inst.duration
      <3>1. \A m \in Node : clock[p] <= clock[m] + MaxOffset
        BY <1>0 DEF ClocksOK
      <3> QED
        BY <1>1, <1>4, <1>6, <1>10, <2>1, <3>1
    <2>3. \A m \in Node : tscache[n] <= clock[m] + inst.duration
      BY <1>3 DEF NearOK, Near
    <2>4. Near(tscache[n])'
      BY <1>1, <1>11, <2>2, <2>3 DEF Near, Latest
    <2>5. Later /\ Leases' = Leases
      BY <1>1, <1>10 DEF Later, Leases
    <2> QED
      BY <1>0, <1>1, <1>3, <1>11, <2>4, <2>5, NearQuiet DEF SameRequest
  <1>13. ASSUME NEW m \in Node PROVE TransferFits(m)'
    <2>1. CASE m # n
      <3>1. tscache'[m] <= tscache[m]
        BY <1>10, <1>11, <2>1
      <3> QED
        BY <1>0, <1>1, <1>3, <3>1, TransferFitsSame DEF SameRequest
    <2>2. CASE m = n
      <3>1. SUFFICES ASSUME req[n] # Idle, req[n].to # n, l.seq = req[n].prev.seq
                     PROVE tscache'[n] <= req[n].exp
        BY <1>1, <1>3, <2>2 DEF TransferFits, LeaseOf
      <3>2. tscache[n] <= req[n].exp /\ l.exp <= req[n].exp + MaxOffset
        BY <1>3, <1>5, <3>1 DEF TransferFits
      <3>3. req[n].exp \in Nat
        BY <1>0, <3>1, IdleIsNoRequest DEF TypeOK
      <3>4. ts <= req[n].exp
        BY <1>1, <1>4, <1>6, <3>2, <3>3
      <3> QED
        BY <1>11, <3>2, <3>4 DEF Latest
    <2> QED
      BY <2>1, <2>2
  <1> QED
    BY <1>9, <1>12, <1>13
LEMMA ReadRequests ==
    ASSUME ReadInv, NEW n \in Node, NEW ts, ReadAt(n, ts), NEW m \in Node
    PROVE RequestCovers(m)'
  <1> DEFINE l == LeaseOf(n)
             r == req[m]
  <1>0. /\ ServerInv /\ BaseInv /\ TypeOK /\ LogOK /\ KindsOK
        /\ RequestOver(m) /\ RequestOK(m) /\ RequestCovers(m)
    BY DEF ReadInv, ServerInv, BaseInv
  <1>1. UNCHANGED <<clock, asleep, booting, record, log, applied, flying, req, inst, hasty>> /\ l.holder = n
    BY DEF ReadAt
  <1>2. SUFFICES ASSUME inst.kind = "epoch", r # Idle, r.prev.holder # m, NEW i \in 1..Len(log),
                        log[i].seq <= r.prev.seq, NoneHasty(log[i].seq, r.prev.seq),
                        log[i].holder # r.prev.holder \/ r.pc = "send" \/ log[i].epoch < r.rec.epoch,
                        log[i].seq = l.seq
                 PROVE FALSE
    <2>1. \A i \in 1..Len(log) : ReadOf(log[i])' = IF log[i].seq = l.seq THEN ts ELSE ReadOf(log[i])
      BY DEF ReadAt
    <2> QED
      BY <1>0, <1>1, <2>1 DEF RequestCovers, NoneHasty, Hasty
  <1>3. PICK k \in 1..applied[m] : r.prev = log[k]
    BY <1>0, <1>2 DEF RequestOK
  <1>4. k \in 1..Len(log) /\ log[k] \in Leases /\ log[i] \in Leases
    BY <1>0, <1>3, AppliedFacts, ReadTypes
  <1>5. /\ log[k].seq \in Nat /\ l.seq \in Nat /\ log[i].epoch \in Nat /\ log[k].epoch \in Nat
        /\ record[n].epoch \in Nat
    BY <1>0, <1>4, ReadTypes, AppliedFacts
  <1>6. log[k].epoch # 0 /\ log[i].epoch # 0 /\ r.to = m
    BY <1>0, <1>2, <1>4 DEF KindsOK
  <1>7. log[k].holder = n /\ ~ Over(log[k]) /\ log[i].holder = n /\ ~ Over(log[i])
    <2>1. log[k].seq >= l.seq /\ log[i].seq >= l.seq
      BY <1>2, <1>3, <1>5
    <2>2. NoneHasty(l.seq, log[k].seq) /\ NoneHasty(l.seq, log[i].seq)
      BY <1>2, <1>3, <1>5, <2>1, NarrowHasty
    <2>3. ~ Done(l)
      BY <1>0, <1>5, <2>1, <2>2, ReadUnmarked DEF ReadAt
    <2> QED
      BY <1>0, <1>1, <1>4, <1>6, <2>1, <2>2, <2>3, NotSucceeded
  <1>8. /\ r.pc \in {"expired", "send"} /\ (r.pc = "send" => Over(r.prev))
        /\ r.pc = "expired" => r.rec.epoch <= record[r.prev.holder].epoch
    BY <1>0, <1>2, <1>3, <1>6 DEF RequestOver
  <1>9. r.pc = "expired" /\ r.rec.epoch <= record[n].epoch /\ log[i].epoch < r.rec.epoch
    BY <1>2, <1>3, <1>7, <1>8
  <1>10. r.rec.epoch \in Nat
    BY <1>0, <1>2, IdleIsNoRequest DEF TypeOK, Record
  <1>11. ~ (record[n].epoch > log[i].epoch)
    BY <1>6, <1>7 DEF Over
  <1> QED
    BY <1>5, <1>9, <1>10, <1>11
LEMMA ReadRead ==
    ASSUME ReadInv, ServerInv', NEW n \in Node, Read(n)
    PROVE ReadInv'
  <1> DEFINE l == LeaseOf(n)
  <1>0. ServerInv /\ BaseInv /\ TypeOK /\ LogOK /\ OnlyApplied /\ LeasesCover /\ Prudent
    BY DEF ReadInv, ServerInv, BaseInv
  <1>1. PICK ts \in Nat : ReadAt(n, ts)
    BY <1>0, ReadAtFacts
  <1>2. /\ UNCHANGED <<clock, asleep, booting, record, log, applied, flying, req, inst, hasty>>
        /\ l.holder = n /\ tscache' = [tscache EXCEPT ![n] = Latest(@, ts)]
        /\ asleep[n] = 0 /\ (inst.lead = 0 => ts = clock[n])
        /\ \A i \in 1..Len(log) : ReadOf(log[i])' = IF log[i].seq = l.seq THEN ts ELSE ReadOf(log[i])
        /\ \A s \in 1..inst.maxLeases : s # l.seq => reads'[s] = reads[s]
    BY <1>1 DEF ReadAt
  <1>3. /\ applied[n] \in 1..Len(log) /\ l = log[applied[n]] /\ l.seq \in Nat
        /\ \A m \in Node : applied[m] \in 1..Len(log) /\ LeaseOf(m) = log[applied[m]]
        /\ \A m \in Node : LeaseOf(m)' = LeaseOf(m)
    BY <1>0, <1>2, AppliedFacts DEF LeaseOf
  <1>4. \A i \in 1..Len(log) : log[i].seq \in Nat /\ ReadOf(log[i]) \in Nat /\ log[i].holder \in Node
    BY <1>0, ReadTypes
  <1>a. ASSUME NEW t \in Nat, l.seq <= t, NoneHasty(l.seq, t) PROVE ~ Done(l)
    BY <1>0, <1>1, <1>a, ReadUnmarked DEF ReadAt
  <1>5. /\ \A j \in 1..Len(log) : applied[n] <= j /\ NoneHasty(l.seq, log[j].seq) => log[j].holder = n
        /\ \A j \in 1..Len(log) : log[j].seq >= l.seq /\ NoneHasty(l.seq, log[j].seq) => log[j].holder = n
    <2>1. \A j \in 1..Len(log) : applied[n] <= j => l.seq <= log[j].seq
      BY <1>0, <1>3, <1>4, LogTypes DEF LogOK
    <2> QED
      BY <1>0, <1>2, <1>4, <1>a, <2>1, NotSucceeded
  <1>b. \A i \in 1..Len(log) : log[i].seq = l.seq => log[i].holder = n
    BY <1>0, <1>2, <1>3, SameSeq
  <1>6. OnlyApplied'
    <2>1. ASSUME NEW s \in 1..inst.maxLeases, reads'[s] # 0
          PROVE \E i \in 1..Len(log) : log[i].seq = s
      <3>1. CASE s = l.seq
        BY <1>3, <3>1
      <3>2. CASE s # l.seq
        BY <1>0, <1>2, <2>1, <3>2 DEF OnlyApplied
      <3> QED
        BY <3>1, <3>2
    <2>2. ASSUME NEW i \in 1..Len(log), log[i].seq > LeaseOf(log[i].holder).seq
          PROVE ReadOf(log[i])' = 0
      <3>1. ReadOf(log[i]) = 0
        BY <1>0, <2>2 DEF OnlyApplied
      <3>2. log[i].seq # l.seq
        BY <1>3, <1>4, <1>b, <2>2
      <3> QED
        BY <1>2, <3>1, <3>2
    <2>3. \A i \in 1..Len(log) : LeaseOf(log[i].holder)' = LeaseOf(log[i].holder)
      BY <1>2 DEF LeaseOf
    <2> QED
      BY <1>2, <2>1, <2>2, <2>3 DEF OnlyApplied
  <1>7. LeasesCover'
    <2>1. SUFFICES ASSUME NEW i \in 1..Len(log), NEW j \in 1..Len(log), j > 1, log[i].seq < log[j].seq,
                          log[j - 1].holder # log[j].holder, NoneHasty(log[i].seq, log[j].seq)
                   PROVE log[i].seq # l.seq
      BY <1>0, <1>2, StillNoneHasty DEF LeasesCover, CoveredBy
    <2>2. SUFFICES ASSUME log[i].seq = l.seq PROVE FALSE
      OBVIOUS
    <2>3. log[j].holder = n
      <3>1. log[j].seq >= l.seq /\ NoneHasty(l.seq, log[j].seq)
        BY <1>3, <1>4, <2>1, <2>2
      <3> QED
        BY <1>5, <2>1, <3>1
    <2>4. applied[n] < j
      <3>1. j <= applied[n] => log[j].seq <= l.seq
        BY <1>0, <1>3 DEF LogOK
      <3> QED
        BY <1>3, <1>4, <2>1, <2>2, <3>1
    <2>5. j - 1 \in 1..Len(log) /\ applied[n] <= j - 1
      BY <1>0, <1>3, <2>1, <2>4, LogTypes
    <2>6. log[j - 1].seq \in Nat /\ log[j - 1].seq <= log[j].seq
      BY <1>0, <1>4, <2>1, <2>5 DEF LogOK
    <2>7. NoneHasty(l.seq, log[j - 1].seq)
      BY <1>3, <1>4, <2>1, <2>2, <2>6, NarrowHasty
    <2> QED
      BY <1>5, <2>1, <2>3, <2>5, <2>7
  <1>8. ASSUME NEW m \in Node PROVE Protected(m)'
    <2>1. Protected(m)
      BY DEF ReadInv
    <2>2. SUFFICES ASSUME LeaseOf(m).holder = m, NEW i \in 1..Len(log), log[i].seq <= LeaseOf(m).seq,
                          NoneHasty(log[i].seq, LeaseOf(m).seq)
                   PROVE /\ asleep[m] = 0 => ReadOf(log[i])' <= tscache'[m]
                         /\ inst.lead = 0 => ReadOf(log[i])' <= clock[m]
                         /\ asleep[m] # 0 => ReadOf(log[i])' + MaxOffset + 1 <= asleep[m]
      BY <1>2, <1>3 DEF Protected, NoneHasty, Hasty
    <2>3. /\ asleep[m] = 0 => ReadOf(log[i]) <= tscache[m]
          /\ inst.lead = 0 => ReadOf(log[i]) <= clock[m]
          /\ asleep[m] # 0 => ReadOf(log[i]) + MaxOffset + 1 <= asleep[m]
      BY <2>1, <2>2 DEF Protected
    <2>4. clock[m] \in Nat /\ tscache[m] \in Nat
      BY <1>0, ReadTypes
    <2>5. tscache'[m] = IF m = n THEN Latest(tscache[n], ts) ELSE tscache[m]
      BY <1>0, <1>2 DEF TypeOK
    <2>6. CASE m = n
      BY <1>2, <1>4, <2>3, <2>4, <2>5, <2>6 DEF Latest
    <2>7. CASE m # n
      <3>1. log[i].seq # l.seq
        BY <1>3, <1>4, <1>5, <2>2, <2>7
      <3> QED
        BY <1>2, <2>3, <2>5, <2>7, <3>1
    <2> QED
      BY <2>6, <2>7
  <1>9. ASSUME NEW c \in flying PROVE CommandCovers(c)'
    <2>1. CommandCovers(c)
      BY DEF ReadInv
    <2>2. Alive(c) /\ NoneHasty(l.seq, Final.seq) => c.lease.holder = Final.holder
      <3>1. Final.seq \in Nat /\ l.seq <= Final.seq
        BY <1>0, AppliedFacts
      <3> QED
        BY <1>0, <1>2, <1>a, <3>1, NoSuccessorUnderWay
    <2>3. (Alive(c)' <=> Alive(c)) /\ Final' = Final
      BY <1>2 DEF Alive, Final
    <2>4. \A i \in 1..Len(log) : NoneHasty(log[i].seq, Final.seq)' => NoneHasty(log[i].seq, Final.seq)
      BY <1>2, <2>3 DEF NoneHasty, Hasty
    <2>5. SUFFICES ASSUME Alive(c), c.lease.holder # Final.holder, NEW i \in 1..Len(log), NoneHasty(log[i].seq, Final.seq)
                   PROVE log[i].seq # l.seq
      BY <1>2, <2>1, <2>3, <2>4 DEF CommandCovers, CoveredBy
    <2> QED
      BY <2>2, <2>5
  <1>10. SettledOK' /\ ExpirationsOK' /\ \A m \in Node : RequestCovers(m)'
    BY <1>1, ReadSettled, ReadExpirations, ReadRequests
  <1>11. Prudent'
    BY <1>0, <1>2 DEF Prudent
  <1>12. ASSUME NEW m \in Node PROVE OwnReads(m)'
    <2>1. OwnReads(m) /\ clock[m] \in Nat
      BY <1>0, ReadTypes DEF ReadInv
    <2>2. \A i \in 1..Len(log) : log[i].holder = m =>
              /\ inst.lead = 0 => ReadOf(log[i])' <= clock[m]
              /\ asleep[m] # 0 => ReadOf(log[i])' + MaxOffset + 1 <= asleep[m]
      BY <1>2, <1>b, <2>1 DEF OwnReads
    <2> QED
      BY <1>2, <2>1, <2>2 DEF OwnReads
  <1> QED
    BY <1>2, <1>6, <1>7, <1>8, <1>9, <1>10, <1>11, <1>12 DEF ReadInv

-----------------------------------------------------------------------------
(* Requests and what they propose.                                         *)

LEMMA ReadAssemble ==
    ASSUME ReadInv, ServerInv', UNCHANGED <<log, reads, inst, applied, tscache, asleep, clock, record, booting>>, hasty \subseteq hasty',
           \A c \in flying' : c \in flying \/ CommandCovers(c)',
           \A n \in Node : req'[n] = Idle \/ req'[n] = req[n] \/ RequestCovers(n)',
           inst.kind = "expiration" => NearOK' /\ \A n \in Node : TransferFits(n)'
    PROVE ReadInv'
  <1>1. ServerInv /\ Prudent /\ OnlyApplied /\ LeasesCover /\ ExpirationsOK /\ SettledOK
    BY DEF ReadInv
  <1>2. LogReadsSame /\ Later
    BY <1>1, ServerTypes, ReadTypes DEF LogReadsSame, Later
  <1>3. Prudent' /\ OnlyApplied' /\ LeasesCover' /\ SettledOK'
    BY <1>1, <1>2, OnlyAppliedSame, LeasesCoverSame, SettledSame DEF Prudent
  <1>4. \A n \in Node : Protected(n)'
    <2>1. \A n \in Node : tscache[n] <= tscache'[n]
      BY <1>1, ServerTypes, ReadTypes
    <2> QED
      BY <1>1, <1>2, <2>1, ProtectedSame DEF ReadInv
  <1>a. \A n \in Node : OwnReads(n)'
    BY <1>1, <1>2, OwnReadsSame DEF ReadInv
  <1>5. \A c \in flying' : CommandCovers(c)'
    BY <1>2, CommandCoversSame DEF ReadInv
  <1>6. \A n \in Node : RequestCovers(n)'
    BY <1>2, RequestCoversSame DEF ReadInv
  <1>7. ExpirationsOK'
    <2>1. inst.kind = "expiration" => \A i \in 1..Len(log) : ReadOf(log[i]) <= Final.exp
      BY <1>1 DEF ExpirationsOK
    <2>2. inst.kind = "expiration" => (\A i \in 1..Len(log) : ReadOf(log[i]) <= Final.exp)'
      BY <2>1 DEF ReadOf, Final
    <2> QED
      BY <2>2 DEF ExpirationsOK
  <1> QED
    BY <1>3, <1>4, <1>5, <1>6, <1>7, <1>a DEF ReadInv
\* What was read under a lease whose epoch is over is below the present.
LEMMA OverIsSettled ==
    ASSUME ReadInv, inst.kind = "epoch", NEW i \in 1..Len(log), log[i].epoch < record[log[i].holder].epoch,
           NoneHasty(log[i].seq, log[i].seq), NEW n \in Node
    PROVE ReadOf(log[i]) <= clock[n]
  BY DEF ReadInv, SettledOK, SettledFor, Settled
LEMMA NewRequestCovers ==
    ASSUME ReadInv, NEW n \in Node, NEW r, NewRequest(n, r), req' = [req EXCEPT ![n] = r],
           UNCHANGED <<log, reads, inst>>, hasty \subseteq hasty'
    PROVE RequestCovers(n)'
  <1> DEFINE l == LeaseOf(n)
             a == applied[n]
  <1>0. ServerInv /\ BaseInv /\ TypeOK /\ LogOK /\ HandedOver /\ KindsOK /\ Uniform /\ EpochsOK
    BY DEF ReadInv, ServerInv, BaseInv
  <1>1. req'[n] = r
    BY <1>0 DEF TypeOK
  <1>2. SUFFICES ASSUME inst.kind = "epoch", r.prev.holder # n
                 PROVE /\ r.pc = "expired" /\ (r.rec.epoch = r.prev.epoch => r.rec.exp <= r.now)
                       /\ \A i \in 1..Len(log) :
                             /\ log[i].seq <= r.prev.seq /\ NoneHasty(log[i].seq, r.prev.seq)
                             /\ log[i].holder # r.prev.holder \/ log[i].epoch < r.rec.epoch
                             => ReadOf(log[i]) <= r.now
    BY <1>1, StillNoneHasty DEF RequestCovers, ReadOf
  <1>3. r.prev = l /\ r.now = clock[n] /\ r.to = n
    BY <1>0, <1>2 DEF NewRequest, Uniform
  <1>4. a \in 1..Len(log) /\ l = log[a] /\ a \in Nat
    BY <1>0, AppliedFacts
  <1>5. l \in Leases /\ l.epoch \in Nat /\ l.holder \in Node /\ l.seq \in Nat /\ l.epoch # 0
    BY <1>0, <1>2, <1>4, ReadTypes DEF KindsOK
  <1>6. r.pc = "expired" /\ r.rec = cache[n][l.holder] /\ Expired(n, l)
    BY <1>2, <1>3, <1>5 DEF NewRequest
  <1>7. r.rec.epoch \in Nat /\ record[l.holder].epoch \in Nat
    <2>1. cache[n][l.holder] \in Record /\ record[l.holder] \in Record
      BY <1>0, <1>5 DEF TypeOK
    <2> QED
      BY <1>6, <2>1 DEF Record
  <1>8. r.rec.epoch = l.epoch => r.rec.exp <= clock[n]
    BY <1>5, <1>6, <1>7 DEF Expired, Expiration
  <1>9. ASSUME NEW i \in 1..Len(log), log[i].seq <= l.seq, NoneHasty(log[i].seq, l.seq),
               log[i].holder # l.holder \/ log[i].epoch < r.rec.epoch
        PROVE ReadOf(log[i]) <= clock[n]
    <2>1. log[i].epoch \in Nat /\ log[i].epoch # 0 /\ log[i].seq \in Nat
      BY <1>0, <1>2, ReadTypes DEF KindsOK
    <2>a. NoneHasty(log[i].seq, log[i].seq)
      BY <1>5, <1>9, <2>1, NarrowHasty
    <2>2. CASE log[i].holder # l.holder
      <3>1. ~ (a < i)
        <4>1. SUFFICES ASSUME a < i PROVE FALSE
          OBVIOUS
        <4>2. l.seq <= log[i].seq
          BY <1>0, <1>4, <4>1 DEF LogOK
        <4>3. l.seq = log[i].seq
          BY <1>5, <1>9, <2>1, <4>2
        <4> QED
          BY <1>0, <1>4, <2>2, <4>3, SameSeq
      <3>2. i < a
        BY <1>4, <2>2, <3>1
      <3>3. Over(log[i])
        BY <1>0, <1>4, <1>9, <2>1, <2>2, <3>2 DEF HandedOver
      <3>4. record[log[i].holder].epoch > log[i].epoch
        BY <2>1, <3>3 DEF Over
      <3> QED
        BY <1>2, <2>a, <3>4, OverIsSettled
    <2>3. CASE log[i].holder = l.holder /\ log[i].epoch < r.rec.epoch
      <3>1. Known(l.holder, r.rec)
        BY <1>0, <1>2, <1>5, <1>6 DEF EpochsOK, RecordsOK
      <3>2. log[i].epoch < record[log[i].holder].epoch
        BY <1>7, <2>1, <2>3, <3>1 DEF Known
      <3> QED
        BY <1>2, <2>a, <3>2, OverIsSettled
    <2> QED
      BY <1>9, <2>2, <2>3
  <1> QED
    BY <1>3, <1>6, <1>8, <1>9
LEMMA ReadRequest ==
    ASSUME ReadInv, ServerInv', NEW n \in Node, RequestLease(n) \/ TransferLease(n)
    PROVE ReadInv'
  <1>0. ServerInv /\ BaseInv /\ TypeOK /\ ClocksOK /\ ExpirationsOK /\ Uniform
    BY DEF ReadInv, ServerInv, BaseInv
  <1>1. /\ UNCHANGED <<log, reads, inst, applied, tscache, asleep, clock, record, booting, flying>>
        /\ hasty \subseteq hasty'
    BY <1>0, RequestFacts DEF LeasesSame, RecordsSame
  <1>2. PICK r \in Request : req' = [req EXCEPT ![n] = r] /\ NewRequest(n, r)
    BY <1>0, RequestFacts
  <1>3. req'[n] = r /\ \A m \in Node \ {n} : req'[m] = req[m]
    BY <1>0, <1>2 DEF TypeOK
  <1>4. RequestCovers(n)'
    BY <1>1, <1>2, NewRequestCovers
  <1>5. ASSUME inst.kind = "expiration" PROVE NearOK' /\ \A m \in Node : TransferFits(m)'
    <2>1. NearOK /\ \A m \in Node : TransferFits(m)
      BY <1>0, <1>5 DEF ExpirationsOK
    <2>2. /\ \A m \in Node : clock[m] \in Nat /\ tscache[m] \in Nat /\ clock[m] <= clock[n] + MaxOffset
          /\ inst.duration \in Nat /\ MaxOffset \in Nat
      BY <1>0, ReadTypes DEF ClocksOK
    <2>3. r.exp = clock[n] + inst.duration /\ r.now = clock[n] /\ r.prev = LeaseOf(n)
      BY <1>2, <1>5 DEF NewRequest
    <2>4. Later /\ Leases' = Leases
      BY <1>1, <2>2 DEF Later, Leases
    <2>5. NearOK'
      <3>1. \A m \in Node : req'[m] # Idle =>
                \/ req[m] # Idle /\ SameRequest(req[m], req'[m])
                \/ req'[m].exp <= req'[m].now + inst.duration
        BY <1>3, <2>2, <2>3 DEF SameRequest
      <3> QED
        BY <1>0, <1>1, <2>1, <2>4, <3>1, NearQuiet
    <2>6. \A m \in Node \ {n} : TransferFits(m)'
      BY <1>0, <1>1, <1>3, <2>1, <2>2, TransferFitsSame DEF SameRequest
    <2>7. TransferFits(n)'
      <3>1. \A l \in Leases : l.exp <= r.exp + MaxOffset
        <4>1. SUFFICES ASSUME NEW l \in Leases PROVE l.exp <= r.exp + MaxOffset
          OBVIOUS
        <4>2. PICK p \in Node : l.exp <= clock[p] + inst.duration
          BY <2>1, <4>1 DEF NearOK
        <4>3. l.exp \in Nat
          BY <1>0, ReadTypes
        <4> QED
          BY <2>2, <2>3, <4>2, <4>3
      <3>2. tscache[n] <= r.exp
        BY <2>1, <2>3 DEF NearOK, Near
      <3>3. \A i \in 1..Len(log) : log[i] \in Leases
        BY <1>0, ReadTypes
      <3>4. \A c \in flying : c.lease \in Leases
        BY DEF Leases
      <3> QED
        BY <1>1, <1>3, <3>1, <3>2, <3>3, <3>4 DEF TransferFits
    <2> QED
      BY <2>5, <2>6, <2>7
  <1> QED
    BY <1>1, <1>3, <1>4, <1>5, ReadAssemble
\* An acquisition starts above what was read before it.
LEMMA AcquisitionCovers ==
    ASSUME ReadInv, NEW n \in Node, req[n] # Idle, req[n].pc = "send", req[n].to = n, NEW c, NewRequestCommand(n, c)
    PROVE CommandCovers(c)
  <1> DEFINE l == LeaseOf(n)
             r == req[n]
             k == c.lease
  <1>0. /\ ServerInv /\ BaseInv /\ TypeOK /\ LogOK /\ KindsOK /\ RequestCovers(n) /\ ExpirationsOK
        /\ c \in Command /\ c.kind = "request" /\ k.holder = n
    BY DEF ReadInv, ServerInv, BaseInv, NewRequestCommand
  <1>1. SUFFICES ASSUME Alive(c), n # Final.holder
                 PROVE /\ \A i \in 1..Len(log) : NoneHasty(log[i].seq, Final.seq) => CoveredBy(ReadOf(log[i]), k)
                       /\ k.epoch = 0 => k.sum <= k.exp
    BY <1>0 DEF CommandCovers
  <1>2. Len(log) \in 1..Len(log) /\ applied[n] \in 1..Len(log) /\ l = log[applied[n]]
    BY <1>0, LogTypes, AppliedFacts
  <1>3. l = Final /\ r.prev = l
    BY <1>0, <1>1, <1>2, EvaluatedWith DEF Alive, Final
  <1>4. l \in Leases /\ l.exp \in Nat /\ l.epoch \in Nat
    BY <1>0, <1>3, ReadTypes
  <1>5. k.exp \in Nat /\ k.start \in Nat /\ k.sum \in Nat /\ r.now \in Nat
    <2>1. k \in Lease /\ r \in Request \cup {Idle}
      BY <1>0 DEF Command, TypeOK
    <2>2. k.exp \in Nat /\ k.start \in Nat /\ k.sum \in Nat
      BY <2>1 DEF Lease
    <2> QED
      BY <2>1, <2>2, IdleIsNoRequest
  <1>6. /\ k.sum = k.start /\ k.epoch = r.epoch /\ k.start = AcquisitionStart(l, r.now)
        /\ l.epoch = 0 => l.exp <= k.start
        /\ r.epoch = 0 => k.start < k.exp
    BY <1>1, <1>3 DEF NewRequestCommand
  <1>7. inst.kind \in {"epoch", "expiration"} /\ ((l.epoch = 0) <=> (inst.kind = "expiration"))
    BY <1>0, <1>4, Constants DEF KindsOK, TypeOK, Kind
  <1>8. \A i \in 1..Len(log) : NoneHasty(log[i].seq, Final.seq) => ReadOf(log[i]) <= k.start
    <2>1. CASE inst.kind = "expiration"
      <3>1. k.start = l.exp
        BY <1>4, <1>5, <1>6, <1>7, <2>1 DEF AcquisitionStart, Earliest
      <3> QED
        BY <1>0, <1>3, <2>1, <3>1 DEF ExpirationsOK
    <2>2. CASE inst.kind = "epoch"
      <3>1. k.start = r.now
        BY <1>6, <1>7, <2>2 DEF AcquisitionStart
      <3>2. \A i \in 1..Len(log) : log[i].seq <= r.prev.seq
        BY <1>0, <1>2, <1>3, AppliedFacts
      <3> QED
        BY <1>0, <1>1, <1>3, <2>2, <3>1, <3>2 DEF RequestCovers
    <2> QED
      BY <1>7, <2>1, <2>2
  <1> QED
    BY <1>5, <1>6, <1>8 DEF CoveredBy
LEMMA ReadSendRequest ==
    ASSUME ReadInv, ServerInv', NEW n \in Node, SendRequest(n)
    PROVE ReadInv'
  <1>0. ServerInv /\ BaseInv /\ TypeOK /\ LogOK /\ ClocksOK /\ ExpirationsOK /\ KindsOK
    BY DEF ReadInv, ServerInv, BaseInv
  <1>1. /\ UNCHANGED <<log, reads, inst, applied, tscache, asleep, clock, record, booting>>
        /\ req[n] # Idle /\ req[n].pc = "send" /\ req[n].to = n
        /\ req'[n] = Idle /\ \A m \in Node \ {n} : req'[m] = req[m]
        /\ flying' = flying \/ \E c \in Command : NewRequestCommand(n, c) /\ flying' = flying \cup {c}
    BY <1>0, SendRequestFacts DEF RecordsSame
  <1>a. hasty' = hasty
    BY <1>0, <1>1, SendRequestFacts, AppliedFacts, ReadTypes DEF KindsOK
  <1>2. CASE flying' = flying
    <2>1. \A m \in Node : req'[m] # Idle => req[m] # Idle /\ SameRequest(req[m], req'[m])
      BY <1>1 DEF SameRequest
    <2>2. LogReadsSame /\ Later
      BY <1>0, <1>1, <1>a, ReadTypes DEF LogReadsSame, Later
    <2>3. SettledOK' /\ \A m \in Node : RequestCovers(m)'
      BY <1>0, <1>1, <2>2, SettledSame, RequestCoversSame DEF ReadInv
    <2> QED
      BY <1>1, <1>2, <2>1, <2>2, <2>3, ReadQuiet
  <1>3. ASSUME NEW c \in Command, NewRequestCommand(n, c), flying' = flying \cup {c}
        PROVE ReadInv'
    <2> DEFINE l == LeaseOf(n)
               r == req[n]
               k == c.lease
    <2>1. CommandCovers(c)'
      BY <1>1, <1>3, <1>a, AcquisitionCovers, CommandCoversSame DEF LogReadsSame
    <2>2. ASSUME inst.kind = "expiration" PROVE NearOK' /\ \A m \in Node : TransferFits(m)'
      <3>1. NearOK /\ \A m \in Node : TransferFits(m)
        BY <1>0, <2>2 DEF ExpirationsOK
      <3>2. /\ \A m \in Node : clock[m] \in Nat /\ tscache[m] \in Nat /\ clock[n] <= clock[m] + MaxOffset
            /\ inst.duration \in Nat /\ MaxOffset \in Nat /\ MaxOffset < inst.duration
            /\ minProposed[n] \in Nat /\ minProposed[n] <= clock[n]
        BY <1>0, ReadTypes DEF ClocksOK
      <3>3. applied[n] \in 1..Len(log) /\ l = log[applied[n]] /\ l \in Leases
        BY <1>0, AppliedFacts, ReadTypes
      <3>4. l.exp \in Nat /\ l.start \in Nat /\ l.epoch = 0 /\ r.epoch = 0
        BY <1>0, <1>1, <2>2, <3>3, ReadTypes DEF KindsOK
      <3>5. k.exp \in Nat /\ k.start \in Nat /\ k.sum \in Nat /\ r.now \in Nat /\ r.exp \in Nat
        <4>1. k \in Lease /\ r \in Request \cup {Idle}
          BY <1>0, <1>3 DEF Command, TypeOK
        <4>2. k.exp \in Nat /\ k.start \in Nat /\ k.sum \in Nat
          BY <4>1 DEF Lease
        <4> QED
          BY <1>1, <4>1, <4>2, IdleIsNoRequest
      <3>6. r.now <= clock[n] /\ r.exp <= r.now + inst.duration
        BY <1>0, <1>1, <3>1 DEF BaseInv, RequestOK, NearOK
      <3>7. k.sum <= clock[n]
        BY <1>3, <3>2, <3>4, <3>5, <3>6
           DEF NewRequestCommand, AcquisitionStart, ExtensionStart, Earliest, Latest
      <3>8. Near(k.sum)'
        <4>1. \A m \in Node : k.sum <= clock[m] + inst.duration
          BY <3>2, <3>5, <3>7
        <4> QED
          BY <1>1, <4>1 DEF Near
      <3>9. \E p \in Node : k.exp <= clock'[p] + inst.duration
        <4>1. PICK p \in Node : l.exp <= clock[p] + inst.duration
          BY <3>1, <3>3 DEF NearOK
        <4>2. r.exp <= clock[n] + inst.duration
          BY <3>2, <3>5, <3>6
        <4>3. k.exp = r.exp \/ k.exp = l.exp
          BY <1>3, <3>4 DEF NewRequestCommand, Latest
        <4> QED
          BY <1>1, <4>1, <4>2, <4>3
      <3>10. NearOK'
        <4>1. Later /\ \A x \in Leases' : x \in Leases \/ x = k
          BY <1>1, <1>3, <3>2 DEF Later, Leases
        <4>2. \A m \in Node : req'[m] # Idle => req[m] # Idle /\ SameRequest(req[m], req'[m])
          BY <1>1 DEF SameRequest
        <4>3. \A x \in Leases' : x \in Leases \/ (Near(x.sum)' /\ \E p \in Node : x.exp <= clock'[p] + inst.duration)
          BY <3>8, <3>9, <4>1
        <4> QED
          BY <1>0, <1>1, <3>1, <4>1, <4>2, <4>3, NearQuiet
      <3>11. ASSUME NEW m \in Node PROVE TransferFits(m)'
        <4>1. SUFFICES ASSUME m # n, req[m] # Idle, req[m].to # m PROVE TransferFits(m)'
          BY <1>1 DEF TransferFits
        <4>2. ~ (c.prev = k.seq /\ c.prev = req[m].prev.seq)
          <5>1. SUFFICES ASSUME c.prev = k.seq, c.prev = req[m].prev.seq PROVE FALSE
            OBVIOUS
          <5>2. PICK i \in 1..applied[m] : req[m].prev = log[i] /\ log[i].holder = m
            BY <1>0, <4>1 DEF BaseInv, RequestOK
          <5>3. i \in 1..Len(log)
            BY <1>0, <5>2, AppliedFacts
          <5>4. k.holder = n /\ c.prev = l.seq /\ k.seq = IF Equivalent(l, k) THEN l.seq ELSE l.seq + 1
            BY <1>3 DEF NewRequestCommand
          <5>5. l.seq \in Nat
            BY <1>0, AppliedFacts
          <5>6. l.holder = n
            <6>1. l.seq # l.seq + 1
              BY <5>5
            <6>2. Equivalent(l, k)
              BY <5>1, <5>4, <6>1
            <6> QED
              BY <5>4, <6>2 DEF Equivalent
          <5>7. log[i].holder = l.holder
            BY <1>0, <3>3, <5>1, <5>2, <5>3, <5>4, SameSeq
          <5> QED
            BY <4>1, <5>2, <5>6, <5>7
        <4>3. tscache'[m] <= tscache[m]
          BY <1>1, <3>2
        <4> QED
          BY <1>0, <1>1, <1>3, <3>1, <4>1, <4>2, <4>3, TransferFitsSame DEF SameRequest
      <3> QED
        BY <3>10, <3>11
    <2> QED
      BY <1>1, <1>3, <1>a, <2>1, <2>2, ReadAssemble
  <1> QED
    BY <1>1, <1>2, <1>3
\* A transfer hands on what was read, and what was read fits below its expiration.
LEMMA TransferCovers ==
    ASSUME ReadInv, NEW n \in Node, asleep[n] = 0, req[n] # Idle, req[n].to # n, NEW c, NewTransferCommand(n, c)
    PROVE CommandCovers(c)
  <1> DEFINE l == LeaseOf(n)
             r == req[n]
             k == c.lease
  <1>0. /\ ServerInv /\ BaseInv /\ TypeOK /\ LogOK /\ KindsOK /\ Protected(n) /\ ExpirationsOK /\ RequestOK(n)
        /\ c \in Command /\ c.kind = "transfer" /\ k.holder = r.to /\ c.prev = r.prev.seq
    BY DEF ReadInv, ServerInv, BaseInv, NewTransferCommand
  <1>1. PICK q \in 1..applied[n] : r.prev = log[q] /\ log[q].holder = n
    BY <1>0 DEF RequestOK
  <1>2. q \in 1..Len(log) /\ log[q].seq <= l.seq /\ applied[n] \in 1..Len(log) /\ l = log[applied[n]]
    BY <1>0, <1>1, AppliedFacts
  <1>3. \A i \in 1..Len(log) : log[i].seq = c.prev => log[i].holder # k.holder
    BY <1>0, <1>1, <1>2, SameSeq
  <1>4. ASSUME Alive(c), k.holder # Final.holder
        PROVE /\ \A i \in 1..Len(log) : NoneHasty(log[i].seq, Final.seq) => CoveredBy(ReadOf(log[i]), k)
              /\ k.epoch = 0 => k.sum <= k.exp
    <2>1. l.seq <= Final.seq /\ l.seq \in Nat /\ Final.seq \in Nat /\ \A i \in 1..Len(log) : log[i].seq <= Final.seq
      BY <1>0, AppliedFacts
    <2>2. l.seq = Final.seq /\ l.seq = r.prev.seq
      BY <1>0, <1>1, <1>2, <1>4, <2>1 DEF Alive
    <2>3. l.holder = n
      BY <1>0, <1>1, <1>2, <2>2, SameSeq
    <2>4. \A i \in 1..Len(log) : NoneHasty(log[i].seq, Final.seq) =>
              ReadOf(log[i]) <= tscache[n] /\ (inst.lead = 0 => ReadOf(log[i]) <= clock[n])
      BY <1>0, <2>1, <2>2, <2>3 DEF Protected
    <2>5. tscache[n] <= r.exp
      <3>1. TransferFits(n)
        BY <1>0 DEF ExpirationsOK, KindsOK
      <3> QED
        BY <2>2, <3>1 DEF TransferFits
    <2>6. /\ k.start = Latest(r.now, clock[n]) /\ k.start < k.exp /\ k.exp = r.exp
          /\ k.sum = Latest(k.start, tscache[n])
      BY DEF NewTransferCommand
    <2>7. /\ k.exp \in Nat /\ k.start \in Nat /\ k.sum \in Nat /\ r.now \in Nat
          /\ clock[n] \in Nat /\ tscache[n] \in Nat
          /\ \A i \in 1..Len(log) : ReadOf(log[i]) \in Nat
      <3>1. k \in Lease /\ r \in Request \cup {Idle}
        BY <1>0 DEF Command, TypeOK
      <3>2. k.exp \in Nat /\ k.start \in Nat /\ k.sum \in Nat
        BY <3>1 DEF Lease
      <3> QED
        BY <1>0, <3>1, <3>2, IdleIsNoRequest, ReadTypes
    <2>8. clock[n] <= k.start /\ tscache[n] <= k.sum /\ k.sum <= k.exp
      BY <2>5, <2>6, <2>7 DEF Latest
    <2> QED
      BY <2>4, <2>7, <2>8 DEF CoveredBy
  <1> QED
    BY <1>0, <1>3, <1>4 DEF CommandCovers
LEMMA ReadSendTransfer ==
    ASSUME ReadInv, ServerInv', NEW n \in Node, asleep[n] = 0, SendTransfer(n)
    PROVE ReadInv'
  <1>0. ServerInv /\ BaseInv /\ TypeOK /\ LogOK /\ ClocksOK /\ ExpirationsOK /\ KindsOK
    BY DEF ReadInv, ServerInv, BaseInv
  <1>1. /\ UNCHANGED <<log, reads, inst, applied, tscache, asleep, clock, record, booting>>
        /\ req[n] # Idle /\ req[n].pc = "send" /\ req[n].to # n
        /\ req'[n] = Idle /\ \A m \in Node \ {n} : req'[m] = req[m]
        /\ flying' = flying \/ \E c \in Command : NewTransferCommand(n, c) /\ flying' = flying \cup {c}
    BY <1>0, SendTransferFacts DEF RecordsSame
  <1>a. hasty' = hasty
    BY <1>0, SendTransferFacts
  <1>2. CASE flying' = flying
    <2>1. \A m \in Node : req'[m] # Idle => req[m] # Idle /\ SameRequest(req[m], req'[m])
      BY <1>1 DEF SameRequest
    <2>2. LogReadsSame /\ Later
      BY <1>0, <1>1, <1>a, ReadTypes DEF LogReadsSame, Later
    <2>3. SettledOK' /\ \A m \in Node : RequestCovers(m)'
      BY <1>0, <1>1, <2>2, SettledSame, RequestCoversSame DEF ReadInv
    <2> QED
      BY <1>1, <1>2, <2>1, <2>2, <2>3, ReadQuiet
  <1>3. ASSUME NEW c \in Command, NewTransferCommand(n, c), flying' = flying \cup {c}
        PROVE ReadInv'
    <2> DEFINE r == req[n]
               k == c.lease
    <2>1. CommandCovers(c)'
      BY <1>1, <1>3, <1>a, TransferCovers, CommandCoversSame DEF LogReadsSame
    <2>2. ASSUME inst.kind = "expiration" PROVE NearOK' /\ \A m \in Node : TransferFits(m)'
      <3>1. NearOK /\ \A m \in Node : TransferFits(m)
        BY <1>0, <2>2 DEF ExpirationsOK
      <3>2. /\ \A m \in Node : clock[m] \in Nat /\ tscache[m] \in Nat /\ clock[n] <= clock[m] + MaxOffset
            /\ inst.duration \in Nat /\ MaxOffset \in Nat /\ MaxOffset < inst.duration
        BY <1>0, ReadTypes DEF ClocksOK
      <3>3. k.exp \in Nat /\ k.start \in Nat /\ k.sum \in Nat /\ r.now \in Nat /\ r.exp \in Nat
        <4>1. k \in Lease /\ r \in Request \cup {Idle}
          BY <1>0, <1>3 DEF Command, TypeOK
        <4>2. k.exp \in Nat /\ k.start \in Nat /\ k.sum \in Nat
          BY <4>1 DEF Lease
        <4> QED
          BY <1>1, <4>1, <4>2, IdleIsNoRequest
      <3>4. r.now <= clock[n] /\ r.exp <= r.now + inst.duration
        BY <1>0, <1>1, <3>1 DEF BaseInv, RequestOK, NearOK
      <3>5. /\ k.start = Latest(r.now, clock[n]) /\ k.exp = r.exp
            /\ k.sum = Latest(k.start, tscache[n])
        BY <1>3 DEF NewTransferCommand
      <3>6. k.sum = clock[n] \/ k.sum = tscache[n]
        BY <3>2, <3>3, <3>4, <3>5 DEF Latest
      <3>7. Near(k.sum)'
        <4>1. \A m \in Node : tscache[n] <= clock[m] + inst.duration
          BY <3>1 DEF NearOK, Near
        <4>2. \A m \in Node : k.sum <= clock[m] + inst.duration
          BY <3>2, <3>3, <3>6, <4>1
        <4> QED
          BY <1>1, <4>2 DEF Near
      <3>8. k.exp <= clock'[n] + inst.duration
        BY <1>1, <3>2, <3>3, <3>4, <3>5
      <3>9. NearOK'
        <4>1. Later /\ \A x \in Leases' : x \in Leases \/ x = k
          BY <1>1, <1>3, <3>2 DEF Later, Leases
        <4>2. \A m \in Node : req'[m] # Idle => req[m] # Idle /\ SameRequest(req[m], req'[m])
          BY <1>1 DEF SameRequest
        <4>3. \A x \in Leases' : x \in Leases \/ (Near(x.sum)' /\ \E p \in Node : x.exp <= clock'[p] + inst.duration)
          BY <3>7, <3>8, <4>1
        <4> QED
          BY <1>0, <1>1, <3>1, <4>1, <4>2, <4>3, NearQuiet
      <3>10. \A m \in Node : TransferFits(m)'
        <4>1. c.prev # k.seq
          <5>1. CommandOK(c)' /\ c.kind = "transfer"
            BY <1>3 DEF ServerInv, BaseInv, NewTransferCommand
          <5>2. k.seq > c.prev /\ k.seq \in Nat /\ c.prev \in Nat
            BY <1>3, <5>1 DEF CommandOK, Command, Lease
          <5> QED
            BY <5>2
        <4>2. \A m \in Node : tscache'[m] <= tscache[m]
          BY <1>1, <3>2
        <4>3. \A m \in Node : req'[m] # Idle => req[m] # Idle /\ SameRequest(req[m], req'[m])
          BY <1>1 DEF SameRequest
        <4> QED
          BY <1>0, <1>1, <1>3, <3>1, <4>1, <4>2, <4>3, TransferFitsSame
      <3> QED
        BY <3>9, <3>10
    <2> QED
      BY <1>1, <1>3, <1>a, <2>1, <2>2, ReadAssemble
  <1> QED
    BY <1>1, <1>2, <1>3

-----------------------------------------------------------------------------
(* A lease takes effect.                                                   *)

\* The entry is the present lease, extended, or one that nobody read under yet.
TakesEffect(c) ==
    LET k == c.lease
        N == Len(log)
    IN
    /\ N \in Nat \ {0} /\ Len(log') = N + 1 /\ log'[N + 1] = k /\ \A i \in 1..N : log'[i] = log[i]
    /\ Final' = k /\ \A m \in Node : LeaseOf(m)' = LeaseOf(m)
    /\ Alive(c) /\ k \in Leases /\ c \in flying /\ flying' = flying \ {c}
    /\ Final.seq \in Nat /\ k.seq \in Nat /\ Final.seq <= k.seq
    /\ \A i \in 1..N : log[i].seq \in Nat /\ log[i].seq <= Final.seq
    /\ \/ /\ k.seq = Final.seq /\ c.kind = "request" /\ k.holder = Final.holder /\ k.epoch = Final.epoch
          /\ Final.prop < k.prop
       \/ k.seq = Final.seq + 1 /\ reads[k.seq] = 0
    /\ UNCHANGED <<record, booting, applied, clock, asleep, req, inst, tscache, reads, hasty>>
LEMMA CommitTakesEffect ==
    ASSUME ReadInv, ServerInv', NEW c \in flying, Commit(c), log' # log
    PROVE TakesEffect(c)
  <1> DEFINE k == c.lease
             N == Len(log)
  <1>0. ServerInv /\ BaseInv /\ TypeOK /\ LogOK /\ OnlyApplied /\ TypeOK' /\ LogOK'
    BY DEF ReadInv, ServerInv, BaseInv
  <1>1. /\ RecordsSame /\ flying' = flying \ {c} /\ ~ Mismatch(Final, c) /\ Appended(k)
        /\ UNCHANGED <<applied, clock, asleep, req, inst, tscache, reads, hasty>>
    BY <1>0, CommitFacts
  <1>2. N \in Nat \ {0} /\ Len(log') = N + 1 /\ log'[N + 1] = k /\ \A i \in 1..N : log'[i] = log[i]
    BY <1>0, <1>1, LogTypes DEF Appended
  <1>3. /\ c.prev = Final.seq /\ Final.seq <= k.seq /\ k.seq <= Final.seq + 1
        /\ k.seq = Final.seq => c.kind = "request" /\ Extends(Final, k)
        /\ c.kind = "request" => c.prop = Final.prop
    BY <1>0, <1>1, AppendedLog
  <1>4. k \in Leases /\ k.seq \in Nat
    BY <1>0, ReadTypes
  <1>5. Final.seq \in Nat /\ \A i \in 1..N : log[i].seq \in Nat /\ log[i].seq <= Final.seq
    BY <1>0, LeaseAssumption, AppliedFacts, ReadTypes
  <1>6. Final' = k
    BY <1>2 DEF Final
  <1>7. \A m \in Node : LeaseOf(m)' = LeaseOf(m)
    BY <1>0, <1>1, <1>2, AppliedFacts DEF LeaseOf
  <1>8. ASSUME k.seq # Final.seq PROVE k.seq = Final.seq + 1 /\ reads[k.seq] = 0
    <2>1. k.seq = Final.seq + 1
      BY <1>3, <1>4, <1>5, <1>8
    <2>2. k.seq \in 1..inst.maxLeases
      <3>1. Len(log') <= inst.maxLeases /\ inst.maxLeases \in Nat
        BY <1>0, <1>1, Constants DEF TypeOK
      <3>2. log'[N + 1].seq \in 1..(N + 1)
        BY <1>0, <1>2 DEF LogOK
      <3> QED
        BY <1>2, <3>1, <3>2
    <2>3. \A i \in 1..N : log[i].seq # k.seq
      BY <1>5, <2>1
    <2> QED
      BY <1>0, <2>1, <2>2, <2>3 DEF OnlyApplied
  <1> QED
    BY <1>1, <1>2, <1>3, <1>4, <1>5, <1>6, <1>7, <1>8 DEF TakesEffect, Alive, Extends, RecordsSame
\* A lease that is not marked after it was not marked before.
LEMMA EffectHasty ==
    ASSUME NEW c, TakesEffect(c), NEW i \in 1..Len(log')
    PROVE /\ NoneHasty(log[i].seq, log[i].seq)' => NoneHasty(log'[i].seq, log'[i].seq)
          /\ \A j \in 1..Len(log) : NoneHasty(log[i].seq, log[j].seq)' => NoneHasty(log'[i].seq, log[j].seq)
          /\ NoneHasty(log[i].seq, Final.seq)' => NoneHasty(log'[i].seq, Final.seq)
          /\ \A j \in 1..Len(log') : log'[j] = c.lease /\ NoneHasty(log[i].seq, log[j].seq)' =>
                NoneHasty(log'[i].seq, Final.seq)
          /\ \A m \in Node : NoneHasty(log[i].seq, LeaseOf(m).seq)' => NoneHasty(log'[i].seq, LeaseOf(m).seq)
          /\ \A m \in Node : NoneHasty(log[i].seq, req[m].prev.seq)' => NoneHasty(log'[i].seq, req[m].prev.seq)
  <1>1. /\ \A j \in 1..Len(log) : log'[j] = log[j] /\ j \in 1..Len(log')
        /\ Final' = c.lease /\ \A m \in Node : LeaseOf(m)' = LeaseOf(m)
        /\ hasty' = hasty /\ req' = req /\ Final.seq \in Nat /\ c.lease.seq \in Nat /\ Final.seq <= c.lease.seq
        /\ \A j \in 1..Len(log) : log[j].seq \in Nat
    BY DEF TakesEffect
  <1>2. log'[i].seq \in Nat
    <2>1. i \in 1..Len(log) \/ log'[i] = c.lease
      BY DEF TakesEffect
    <2> QED
      BY <1>1, <2>1
  <1>3. \A t : NoneHasty(log[i].seq, t)' => NoneHasty(log'[i].seq, t)
    BY <1>1 DEF NoneHasty, Hasty
  <1>4. \A t \in Nat : Final.seq <= t /\ NoneHasty(log'[i].seq, t) => NoneHasty(log'[i].seq, Final.seq)
    BY <1>1, <1>2, NarrowHasty
  <1>5. NoneHasty(log[i].seq, log[i].seq)' => NoneHasty(log'[i].seq, log'[i].seq)
    BY <1>1 DEF NoneHasty, Hasty
  <1>6. \A j \in 1..Len(log) : NoneHasty(log[i].seq, log[j].seq)' => NoneHasty(log'[i].seq, log[j].seq)
    BY <1>1 DEF NoneHasty, Hasty
  <1>7. NoneHasty(log[i].seq, Final.seq)' => NoneHasty(log'[i].seq, c.lease.seq)
    BY <1>1 DEF NoneHasty, Hasty
  <1>8. \A j \in 1..Len(log') : log'[j] = c.lease /\ NoneHasty(log[i].seq, log[j].seq)' =>
            NoneHasty(log'[i].seq, c.lease.seq)
    BY <1>1 DEF NoneHasty, Hasty
  <1>9. /\ \A m \in Node : NoneHasty(log[i].seq, LeaseOf(m).seq)' => NoneHasty(log'[i].seq, LeaseOf(m).seq)
        /\ \A m \in Node : NoneHasty(log[i].seq, req[m].prev.seq)' => NoneHasty(log'[i].seq, req[m].prev.seq)
    BY <1>1 DEF NoneHasty, Hasty
  <1> QED
    BY <1>1, <1>4, <1>5, <1>6, <1>7, <1>8, <1>9
LEMMA CommitCommands ==
    ASSUME ReadInv, NEW c, TakesEffect(c), NEW d \in flying
    PROVE CommandCovers(d)'
  <1> DEFINE k == c.lease
             N == Len(log)
             e == d.lease
  <1>0. BaseInv /\ TypeOK /\ LogOK /\ CommandOK(d) /\ CommandCovers(d) /\ d \in Command
    BY DEF ReadInv, ServerInv, BaseInv, TypeOK
  <1>1. /\ N \in Nat \ {0} /\ Len(log') = N + 1 /\ log'[N + 1] = k /\ \A i \in 1..N : log'[i] = log[i]
        /\ Final' = k /\ Final.seq \in Nat /\ k.seq \in Nat /\ Final.seq <= k.seq
        /\ \A i \in 1..N : log[i].seq \in Nat /\ log[i].seq <= Final.seq
        /\ UNCHANGED <<inst, reads>>
        /\ \/ k.seq = Final.seq /\ k.holder = Final.holder /\ Final.prop < k.prop
           \/ k.seq = Final.seq + 1 /\ reads[k.seq] = 0
    BY DEF TakesEffect
  <1>2. N \in 1..N /\ Final = log[N]
    BY <1>1 DEF Final
  <1>a. \A i \in 1..Len(log') : i \in 1..N \/ i = N + 1
    BY <1>1
  <1>3. PICK q \in 1..N : log[q].seq = d.prev /\ (d.kind = "request" => log[q].prop = d.prop)
    BY <1>0 DEF CommandOK
  <1>4. d.prev = k.seq => k.seq = Final.seq /\ k.holder = Final.holder /\ Final.prop < k.prop
    BY <1>1, <1>3
  <1>5. ASSUME d.kind = "transfer", NEW i \in 1..Len(log'), log'[i].seq = d.prev
        PROVE log'[i].holder # e.holder
    <2>1. CASE i \in 1..N
      BY <1>0, <1>1, <1>5, <2>1 DEF CommandCovers
    <2>2. CASE i = N + 1
      BY <1>0, <1>1, <1>2, <1>4, <1>5, <2>2 DEF CommandCovers
    <2> QED
      BY <1>5, <1>a, <2>1, <2>2
  <1>6. ASSUME Alive(d)', e.holder # k.holder
        PROVE /\ \A i \in 1..Len(log') : NoneHasty(log'[i].seq, Final.seq) => CoveredBy(reads[log'[i].seq], e)
              /\ e.epoch = 0 => e.sum <= e.exp
    <2>1. d.prev = k.seq /\ (d.kind = "request" => d.prop = k.prop)
      BY <1>1, <1>6 DEF Alive
    <2>2. k.seq = Final.seq /\ k.holder = Final.holder /\ Final.prop < k.prop
      BY <1>4, <2>1
    <2>3. d.kind # "request"
      <3>1. SUFFICES ASSUME d.kind = "request" PROVE FALSE
        OBVIOUS
      <3>2. log[q].seq = Final.seq /\ log[q].prop = k.prop
        BY <1>3, <2>1, <2>2, <3>1
      <3>3. q < N => log[q].prop < log[N].prop
        BY <1>0, <1>2, <3>2 DEF LogOK, Extends
      <3>4. log[q].prop \in Nat /\ log[N].prop \in Nat
        BY <1>0, <1>2, ReadTypes
      <3>5. q < N \/ q = N
        BY <1>1, <1>3
      <3> QED
        BY <1>2, <2>2, <3>2, <3>3, <3>4, <3>5
    <2>4. Alive(d) /\ e.holder # Final.holder
      BY <1>6, <2>1, <2>2, <2>3 DEF Alive
    <2>5. /\ \A i \in 1..N : NoneHasty(log[i].seq, Final.seq) => CoveredBy(ReadOf(log[i]), e)
          /\ e.epoch = 0 => e.sum <= e.exp
      BY <1>0, <2>4 DEF CommandCovers
    <2>6. ASSUME NEW i \in 1..Len(log'), NoneHasty(log'[i].seq, Final.seq) PROVE CoveredBy(reads[log'[i].seq], e)
      <3>1. CASE i \in 1..N
        BY <1>1, <2>5, <2>6, <3>1 DEF ReadOf
      <3>2. CASE i = N + 1
        BY <1>1, <1>2, <2>2, <2>5, <2>6, <3>2 DEF ReadOf
      <3> QED
        BY <1>a, <2>6, <3>1, <3>2
    <2> QED
      BY <2>5, <2>6
  <1>7. (\A i \in 1..Len(log') : NoneHasty(log'[i].seq, Final.seq) => CoveredBy(reads[log'[i].seq], e))
        => (\A i \in 1..Len(log) : NoneHasty(log[i].seq, Final.seq) => CoveredBy(ReadOf(log[i]), e))'
    BY <1>1, EffectHasty DEF CoveredBy, ReadOf
  <1> QED
    BY <1>1, <1>5, <1>6, <1>7 DEF CommandCovers
LEMMA CommitExpirations ==
    ASSUME ReadInv, ServerInv', NEW c, TakesEffect(c)
    PROVE ExpirationsOK'
  <1> DEFINE k == c.lease
             N == Len(log)
  <1>0. /\ ServerInv /\ BaseInv /\ TypeOK /\ LogOK /\ KindsOK /\ ExpirationsOK
        /\ c \in flying /\ CommandOver(c) /\ CommandCovers(c) /\ c \in Command
    BY DEF ReadInv, ServerInv, BaseInv, TypeOK, TakesEffect
  <1>1. /\ N \in Nat \ {0} /\ Len(log') = N + 1 /\ log'[N + 1] = k /\ \A i \in 1..N : log'[i] = log[i]
        /\ Final' = k /\ Final.seq \in Nat /\ k.seq \in Nat /\ Final.seq <= k.seq
        /\ \A m \in Node : LeaseOf(m)' = LeaseOf(m)
        /\ Alive(c) /\ k \in Leases /\ flying' = flying \ {c}
        /\ \A i \in 1..N : log[i].seq \in Nat /\ log[i].seq <= Final.seq
        /\ UNCHANGED <<applied, clock, req, inst, tscache, reads>>
        /\ \/ k.seq = Final.seq /\ k.holder = Final.holder
           \/ k.seq = Final.seq + 1 /\ reads[k.seq] = 0
    BY DEF TakesEffect
  <1>2. N \in 1..N /\ Final = log[N]
    BY <1>1 DEF Final
  <1>a. \A i \in 1..Len(log') : i \in 1..N \/ i = N + 1
    BY <1>1
  <1>3. SUFFICES ASSUME inst.kind = "expiration"
                 PROVE /\ \A i \in 1..Len(log') : reads[log'[i].seq] <= k.exp
                       /\ NearOK' /\ \A m \in Node : TransferFits(m)'
    BY <1>1 DEF ExpirationsOK, ReadOf
  <1>4. /\ \A i \in 1..N : ReadOf(log[i]) <= Final.exp
        /\ NearOK /\ \A m \in Node : TransferFits(m)
    BY <1>0, <1>3 DEF ExpirationsOK
  <1>5. k.epoch = 0 /\ Final.epoch = 0 /\ k.exp \in Nat /\ Final.exp \in Nat /\ k.sum \in Nat
    BY <1>0, <1>1, <1>3, ReadTypes DEF KindsOK
  <1>6. \A i \in 1..N : ReadOf(log[i]) \in Nat
    BY <1>0, ReadTypes
  <1>7. \A i \in 1..N : ReadOf(log[i]) <= k.exp
    <2>1. CASE k.holder = Final.holder
      <3>1. c.kind = "request"
        <4>1. c.kind # "transfer"
          BY <1>0, <1>1, <1>2, <2>1 DEF CommandCovers, Alive
        <4> QED
          BY <1>0, <4>1 DEF Command
      <3>2. Behind(Final, k)
        BY <1>0, <1>1, <1>2, <2>1, <3>1 DEF CommandOver, Alive
      <3>3. Final.exp <= k.exp
        BY <1>5, <3>2 DEF Behind
      <3> QED
        BY <1>4, <1>5, <1>6, <3>3
    <2>2. CASE k.holder # Final.holder
      <3>1. \A i \in 1..N : NoneHasty(log[i].seq, Final.seq)
        BY <1>0, <1>3 DEF KindsOK, NoneHasty, Hasty
      <3>2. k.sum <= k.exp /\ \A i \in 1..N : ReadOf(log[i]) <= k.sum
        BY <1>0, <1>1, <1>5, <2>2, <3>1 DEF CommandCovers, CoveredBy
      <3> QED
        BY <1>5, <1>6, <3>2
    <2> QED
      BY <2>1, <2>2
  <1>8. ASSUME NEW i \in 1..Len(log') PROVE reads[log'[i].seq] <= k.exp
    <2>1. CASE i \in 1..N
      BY <1>1, <1>7, <2>1 DEF ReadOf
    <2>2. CASE i = N + 1
      BY <1>1, <1>2, <1>5, <1>7, <2>2 DEF ReadOf
    <2> QED
      BY <1>8, <1>a, <2>1, <2>2
  <1>9. \A l \in Leases' : l \in Leases
    <2>1. \A i \in 1..Len(log') : log'[i] \in Leases
      <3>1. \A i \in 1..N : log[i] \in Leases
        BY DEF Leases
      <3> QED
        BY <1>1, <1>a, <3>1
    <2>2. \A d \in flying' : d.lease \in Leases
      BY <1>1 DEF Leases
    <2> QED
      BY <2>1, <2>2 DEF Leases
  <1>10. NearOK'
    <2>1. Later
      BY <1>0, <1>1, ReadTypes DEF Later
    <2> QED
      BY <1>0, <1>1, <1>4, <1>9, <2>1, NearQuiet DEF SameRequest
  <1>11. ASSUME NEW m \in Node PROVE TransferFits(m)'
    <2>1. SUFFICES ASSUME req[m] # Idle, req[m].to # m, LeaseOf(m).seq = req[m].prev.seq,
                          k.seq = req[m].prev.seq
                   PROVE k.exp <= req[m].exp + MaxOffset
      <3>1. TransferFits(m)
        BY <1>4
      <3> QED
        BY <1>1, <1>a, <3>1 DEF TransferFits
    <2>2. LeaseOf(m).seq <= Final.seq /\ LeaseOf(m).seq \in Nat
      BY <1>0, AppliedFacts
    <2>3. c.prev = req[m].prev.seq /\ k.seq = c.prev
      BY <1>1, <2>1, <2>2 DEF Alive
    <2> QED
      BY <1>0, <1>4, <2>1, <2>3 DEF TransferFits
  <1> QED
    BY <1>8, <1>10, <1>11
LEMMA ReadCommit ==
    ASSUME ReadInv, ServerInv', NEW c \in flying, Commit(c)
    PROVE ReadInv'
  <1> DEFINE k == c.lease
             N == Len(log)
  <1>0. /\ ServerInv /\ BaseInv /\ TypeOK /\ LogOK /\ OnlyApplied /\ LeasesCover /\ SettledOK /\ Prudent
        /\ CommandCovers(c)
    BY DEF ReadInv, ServerInv, BaseInv
  <1>1. CASE log' = log
    BY <1>0, <1>1, CommitFacts, ReadDrop DEF RecordsSame
  <1>2. CASE log' # log
    <2>1. TakesEffect(c)
      BY <1>2, CommitTakesEffect
    <2>2. /\ N \in Nat \ {0} /\ Len(log') = N + 1 /\ log'[N + 1] = k /\ \A i \in 1..N : log'[i] = log[i]
          /\ Final' = k /\ Final.seq \in Nat /\ k.seq \in Nat /\ Final.seq <= k.seq
          /\ \A m \in Node : LeaseOf(m)' = LeaseOf(m)
          /\ Alive(c) /\ k \in Leases /\ flying' = flying \ {c}
          /\ \A i \in 1..N : log[i].seq \in Nat /\ log[i].seq <= Final.seq
          /\ UNCHANGED <<record, booting, applied, clock, asleep, req, inst, tscache, reads, hasty>>
          /\ \/ k.seq = Final.seq /\ k.holder = Final.holder /\ k.epoch = Final.epoch
             \/ k.seq = Final.seq + 1 /\ reads[k.seq] = 0
      BY <2>1 DEF TakesEffect
    <2>3. N \in 1..N /\ Final = log[N]
      BY <2>2 DEF Final
    <2>4. \A i \in 1..Len(log') : i \in 1..N \/ i = N + 1
      BY <2>2
    <2>5. k.holder \in Node /\ \A i \in 1..N : log[i].holder \in Node
      BY <1>0, ReadTypes
    <2>6. OnlyApplied'
      <3>1. ASSUME NEW s \in 1..inst.maxLeases, reads[s] # 0 PROVE \E i \in 1..Len(log') : log'[i].seq = s
        <4>1. PICK i \in 1..N : log[i].seq = s
          BY <1>0, <3>1 DEF OnlyApplied
        <4>2. i \in 1..Len(log') /\ log'[i].seq = s
          BY <2>2, <4>1
        <4> QED
          BY <4>2
      <3>2. ASSUME NEW i \in 1..Len(log'), log'[i].seq > LeaseOf(log'[i].holder).seq
            PROVE reads[log'[i].seq] = 0
        <4>1. CASE i \in 1..N
          BY <1>0, <2>2, <3>2, <4>1 DEF OnlyApplied, ReadOf
        <4>2. CASE i = N + 1
          BY <1>0, <2>2, <2>3, <3>2, <4>2 DEF OnlyApplied, ReadOf
        <4> QED
          BY <2>4, <3>2, <4>1, <4>2
      <3>3. \A i \in 1..Len(log') : log'[i].holder \in Node
        BY <2>2, <2>4, <2>5
      <3>4. \A i \in 1..Len(log') : LeaseOf(log[i].holder)' = LeaseOf(log'[i].holder)
        <4>1. \A i \in 1..Len(log') : applied[log'[i].holder] \in 1..N
          BY <1>0, <3>3 DEF TypeOK
        <4> QED
          BY <2>2, <4>1 DEF LeaseOf
      <3>5. (\A i \in 1..Len(log) : log[i].seq > LeaseOf(log[i].holder).seq => ReadOf(log[i]) = 0)'
        BY <2>2, <3>2, <3>4 DEF ReadOf
      <3> QED
        BY <2>2, <3>1, <3>5 DEF OnlyApplied
    <2>7. LeasesCover'
      <3>0. inst' = inst /\ reads' = reads
        BY <2>2
      <3>1. SUFFICES ASSUME NEW i \in 1..Len(log'), NEW j \in 1..Len(log'),
                            j > 1, log'[i].seq < log'[j].seq, log'[j - 1].holder # log'[j].holder,
                            NoneHasty(log[i].seq, log[j].seq)'
                     PROVE /\ reads[log'[i].seq] <= log'[j].sum
                           /\ inst.lead = 0 => reads[log'[i].seq] <= log'[j].start
        BY <3>0 DEF LeasesCover, CoveredBy, ReadOf
      <3>2. i \in 1..N
        <4>1. i = N + 1 => log'[i].seq = k.seq
          BY <2>2
        <4>2. log'[j].seq <= k.seq /\ log'[j].seq \in Nat
          <5>1. j \in 1..N => log'[j].seq = log[j].seq /\ log[j].seq <= Final.seq /\ log[j].seq \in Nat
            BY <2>2
          <5>2. j = N + 1 => log'[j].seq = k.seq
            BY <2>2
          <5>3. k.seq \in Nat /\ Final.seq \in Nat /\ Final.seq <= k.seq
            BY <2>2
          <5> QED
            BY <2>4, <5>1, <5>2, <5>3
        <4>3. k.seq \in Nat
          BY <2>2
        <4> QED
          BY <2>4, <3>1, <4>1, <4>2, <4>3
      <3>3. log'[i] = log[i]
        BY <2>2, <3>2
      <3>4. CASE j \in 1..N
        <4>1. j - 1 \in 1..N /\ log'[j] = log[j] /\ log'[j - 1] = log[j - 1]
          BY <2>2, <3>1, <3>4
        <4>2. NoneHasty(log[i].seq, log[j].seq)
          BY <2>1, <3>1, <3>3, <3>4, EffectHasty
        <4> QED
          BY <1>0, <3>1, <3>2, <3>3, <3>4, <4>1, <4>2 DEF LeasesCover, ReadOf, CoveredBy
      <3>5. CASE j = N + 1
        <4>1. log'[j - 1] = Final /\ log'[j] = k
          BY <2>2, <2>3, <3>5
        <4>2. k.holder # Final.holder
          BY <3>1, <4>1
        <4>3. NoneHasty(log[i].seq, Final.seq)
          BY <2>1, <3>1, <3>3, <4>1, EffectHasty
        <4> QED
          BY <1>0, <2>2, <3>2, <3>3, <4>1, <4>2, <4>3 DEF CommandCovers, ReadOf, CoveredBy
      <3> QED
        BY <2>4, <3>4, <3>5
    <2>8. ASSUME NEW m \in Node PROVE Protected(m)'
      <3>1. SUFFICES ASSUME LeaseOf(m).holder = m, NEW i \in 1..Len(log'), log'[i].seq <= LeaseOf(m).seq,
                            NoneHasty(log'[i].seq, LeaseOf(m).seq)
                     PROVE /\ asleep[m] = 0 => reads[log'[i].seq] <= tscache[m]
                           /\ inst.lead = 0 => reads[log'[i].seq] <= clock[m]
                           /\ asleep[m] # 0 => reads[log'[i].seq] + MaxOffset + 1 <= asleep[m]
        BY <2>1, <2>2, EffectHasty DEF Protected, ReadOf
      <3>2. Protected(m) /\ LeaseOf(m).seq <= Final.seq /\ LeaseOf(m).seq \in Nat
        BY <1>0, AppliedFacts DEF ReadInv
      <3>3. CASE i \in 1..N
        BY <2>2, <3>1, <3>2, <3>3 DEF Protected, ReadOf
      <3>4. CASE i = N + 1
        <4>1. k.seq = Final.seq /\ Final.seq <= LeaseOf(m).seq
          BY <2>2, <3>1, <3>2, <3>4
        <4> QED
          BY <2>2, <2>3, <3>1, <3>2, <3>4, <4>1 DEF Protected, ReadOf
      <3> QED
        BY <2>4, <3>3, <3>4
    <2>9. SettledOK'
      <3>1. SUFFICES ASSUME inst.kind = "epoch", NEW i \in 1..Len(log'), NoneHasty(log'[i].seq, log'[i].seq)
                     PROVE SettledFor(log[i])'
        BY <2>1, <2>2, EffectHasty DEF SettledOK
      <3>2. \A j \in 1..N : NoneHasty(log[j].seq, log[j].seq) => SettledFor(log[j])
        BY <1>0, <3>1 DEF SettledOK
      <3>3. CASE i \in 1..N
        BY <2>2, <3>1, <3>2, <3>3 DEF SettledFor, Settled, ReadOf
      <3>4. CASE i = N + 1
        <4>1. CASE k.seq = Final.seq /\ k.holder = Final.holder /\ k.epoch = Final.epoch
          <5>1. SettledFor(Final)
            BY <2>2, <2>3, <3>1, <3>2, <3>4, <4>1
          <5> QED
            BY <2>2, <3>4, <4>1, <5>1 DEF SettledFor, Settled, ReadOf
        <4>2. CASE reads[k.seq] = 0
          <5>1. \A m \in Node : 0 <= clock[m]
            BY <1>0, ReadTypes
          <5> QED
            BY <2>2, <3>4, <4>2, <5>1 DEF SettledFor, Settled, ReadOf
        <4> QED
          BY <2>2, <4>1, <4>2
      <3> QED
        BY <2>4, <3>3, <3>4
    <2>10. ASSUME NEW m \in Node PROVE RequestCovers(m)'
      <3> DEFINE r == req[m]
      <3>0. RequestCovers(m)
        BY DEF ReadInv
      <3>1. SUFFICES ASSUME inst.kind = "epoch", r # Idle, r.prev.holder # m, NEW i \in 1..Len(log'),
                            log'[i].seq <= r.prev.seq, NoneHasty(log'[i].seq, r.prev.seq),
                            log'[i].holder # r.prev.holder \/ r.pc = "send" \/ log'[i].epoch < r.rec.epoch
                     PROVE reads[log'[i].seq] <= r.now
        BY <2>1, <2>2, <3>0, EffectHasty DEF RequestCovers, ReadOf
      <3>2. CASE i \in 1..N
        BY <2>2, <3>0, <3>1, <3>2 DEF RequestCovers, ReadOf
      <3>3. CASE i = N + 1
        <4>1. PICK q \in 1..applied[m] : r.prev = log[q]
          BY <1>0, <3>1 DEF BaseInv, RequestOK
        <4>2. q \in 1..N
          BY <1>0, <4>1, AppliedFacts
        <4>3. k.seq = Final.seq /\ k.holder = Final.holder /\ k.epoch = Final.epoch /\ Final.seq <= r.prev.seq
          BY <2>2, <3>1, <3>3, <4>1, <4>2
        <4> QED
          BY <2>2, <2>3, <3>0, <3>1, <3>3, <4>3 DEF RequestCovers, ReadOf
      <3> QED
        BY <2>4, <3>2, <3>3
    <2>11. \A d \in flying' : CommandCovers(d)'
      BY <2>1, <2>2, CommitCommands
    <2>12. ExpirationsOK' /\ Prudent'
      BY <1>0, <2>1, <2>2, CommitExpirations DEF Prudent
    <2>13. ASSUME NEW m \in Node PROVE OwnReads(m)'
      <3>1. \A i \in 1..N : log[i].holder = m =>
                /\ inst.lead = 0 => reads[log[i].seq] <= clock[m]
                /\ asleep[m] # 0 => reads[log[i].seq] + MaxOffset + 1 <= asleep[m]
        BY DEF ReadInv, OwnReads, ReadOf
      <3>2. MaxOffset \in Nat /\ clock[m] \in Nat /\ asleep[m] \in Nat
        BY <1>0, ReadTypes
      <3>3. asleep[m] # 0 => MaxOffset < asleep[m]
        BY DEF ReadInv, OwnReads
      <3>4. ASSUME NEW i \in 1..Len(log'), log'[i].holder = m
            PROVE /\ inst.lead = 0 => reads[log'[i].seq] <= clock[m]
                  /\ asleep[m] # 0 => reads[log'[i].seq] + MaxOffset + 1 <= asleep[m]
        <4>1. CASE i \in 1..N
          BY <2>2, <3>1, <3>4, <4>1
        <4>2. CASE i = N + 1
          BY <2>2, <2>3, <3>1, <3>2, <3>3, <3>4, <4>2
        <4> QED
          BY <2>4, <3>4, <4>1, <4>2
      <3> QED
        BY <2>2, <3>3, <3>4 DEF OwnReads, ReadOf
    <2> QED
      BY <2>6, <2>7, <2>8, <2>9, <2>10, <2>11, <2>12, <2>13 DEF ReadInv
  <1> QED
    BY <1>1, <1>2
LEMMA ReadApply ==
    ASSUME ReadInv, ServerInv', NEW n \in Node, asleep[n] = 0, Apply(n)
    PROVE ReadInv'
  <1> DEFINE l == LeaseOf(n)
             a == applied[n]
             x == log[a + 1]
  <1>0. /\ ServerInv /\ BaseInv /\ TypeOK /\ LogOK /\ OnlyApplied /\ LeasesCover /\ SettledOK /\ Prudent
        /\ ExpirationsOK /\ TypeOK'
    BY DEF ReadInv, ServerInv, BaseInv
  <1>1. /\ RecordsSame /\ a + 1 \in 1..Len(log) /\ LeaseOf(n)' = x
        /\ applied' = [applied EXCEPT ![n] = a + 1]
        /\ \A m \in Node \ {n} : LeaseOf(m)' = LeaseOf(m)
        /\ tscache' = [tscache EXCEPT ![n] = IF Takes(n) THEN Latest(@, x.sum) ELSE @]
        /\ clock' = [clock EXCEPT ![n] = IF Takes(n) THEN Latest(@, x.start) ELSE @]
        /\ UNCHANGED <<log, flying, asleep, req, inst, reads, hasty>>
    BY <1>0, ApplyFacts
  <1>2. LogReadsSame /\ Later
    BY <1>0, <1>1, ApplyClock DEF LogReadsSame, Later
  <1>3. a \in 1..Len(log) /\ l = log[a] /\ a \in Nat /\ Len(log) \in Nat
    BY <1>0, AppliedFacts, LogTypes
  <1>4. /\ l \in Leases /\ x \in Leases /\ l.seq \in Nat /\ x.seq \in Nat /\ x.sum \in Nat /\ x.start \in Nat
        /\ \A m \in Node : tscache[m] \in Nat /\ clock[m] \in Nat
        /\ \A i \in 1..Len(log) : log[i].seq \in Nat /\ ReadOf(log[i]) \in Nat /\ log[i].holder \in Node
    BY <1>0, <1>1, <1>3, ReadTypes
  <1>5. l.seq <= x.seq /\ x.seq <= l.seq + 1
    BY <1>0, <1>1, <1>3 DEF LogOK
  <1>6. /\ tscache'[n] = IF Takes(n) THEN Latest(tscache[n], x.sum) ELSE tscache[n]
        /\ clock'[n] = IF Takes(n) THEN Latest(clock[n], x.start) ELSE clock[n]
        /\ \A m \in Node \ {n} : tscache'[m] = tscache[m] /\ applied'[m] = applied[m]
    BY <1>0, <1>1 DEF TypeOK
  <1>7. OnlyApplied'
    <2>1. \A m \in Node : LeaseOf(m).seq \in Nat
      BY <1>0, AppliedFacts
    <2>2. ASSUME NEW i \in 1..Len(log), log[i].seq > LeaseOf(log[i].holder)'.seq PROVE ReadOf(log[i]) = 0
      <3>1. LeaseOf(log[i].holder)'.seq \in Nat /\ LeaseOf(log[i].holder).seq <= LeaseOf(log[i].holder)'.seq
        <4>1. CASE log[i].holder = n
          BY <1>1, <1>4, <1>5, <4>1
        <4>2. CASE log[i].holder # n
          BY <1>1, <1>4, <2>1, <4>2
        <4> QED
          BY <4>1, <4>2
      <3>2. log[i].seq > LeaseOf(log[i].holder).seq
        BY <1>4, <2>1, <2>2, <3>1
      <3> QED
        BY <1>0, <3>2 DEF OnlyApplied
    <2>3. (\A i \in 1..Len(log) : log[i].seq > LeaseOf(log[i].holder).seq => ReadOf(log[i]) = 0)'
      <3>1. \A i \in 1..Len(log) : LeaseOf(log[i].holder)' = log[applied'[log[i].holder]]
        BY <1>1 DEF LeaseOf
      <3> QED
        BY <1>1, <2>2, <3>1 DEF ReadOf, LeaseOf
    <2> QED
      BY <1>0, <1>1, <2>3 DEF OnlyApplied
  <1>8. ASSUME NEW m \in Node PROVE Protected(m)'
    <2>1. Protected(m)
      BY DEF ReadInv
    <2>2. CASE m # n
      <3>1. tscache[m] <= tscache'[m]
        BY <1>4, <1>6, <2>2
      <3> QED
        BY <1>0, <1>1, <1>2, <1>6, <2>1, <2>2, <3>1, ProtectedSame
    <2>3. CASE m = n
      <3>a. \A i \in 1..Len(log) : NoneHasty(log[i].seq, LeaseOf(n).seq)' => NoneHasty(log[i].seq, x.seq)
        BY <1>1 DEF NoneHasty, Hasty
      <3>1. SUFFICES ASSUME x.holder = n, NEW i \in 1..Len(log), log[i].seq <= x.seq, NoneHasty(log[i].seq, x.seq)
                     PROVE ReadOf(log[i]) <= tscache'[n] /\ (inst.lead = 0 => ReadOf(log[i]) <= clock'[n])
        BY <1>1, <2>3, <3>a DEF Protected, ReadOf
      <3>b. NoneHasty(log[i].seq, l.seq)
        BY <1>4, <1>5, <3>1, NarrowHasty
      <3>2. l.holder = n /\ log[i].seq <= l.seq =>
               ReadOf(log[i]) <= tscache[n] /\ (inst.lead = 0 => ReadOf(log[i]) <= clock[n])
        BY <2>1, <2>3, <3>b DEF Protected
      <3>3. CASE ~ Takes(n)
        <4>1. x.seq = l.seq
          BY <3>1, <3>3 DEF Takes
        <4>2. l.holder = n
          BY <1>0, <1>1, <1>3, <3>1, <4>1, SameSeq
        <4> QED
          BY <1>6, <3>1, <3>2, <3>3, <4>1, <4>2
      <3>4. CASE Takes(n)
        <4>1. x.seq # l.seq
          BY <3>4 DEF Takes
        <4>2. /\ tscache[n] <= tscache'[n] /\ x.sum <= tscache'[n] /\ tscache'[n] \in Nat
              /\ clock[n] <= clock'[n] /\ x.start <= clock'[n] /\ clock'[n] \in Nat
          BY <1>4, <1>6, <3>4 DEF Latest
        <4>3. CASE log[i].seq = x.seq
          <5>1. log[i].holder = n
            BY <1>0, <1>1, <3>1, <4>3, SameSeq
          <5>2. log[i].seq > LeaseOf(n).seq
            BY <1>4, <1>5, <4>1, <4>3
          <5>3. ReadOf(log[i]) = 0
            BY <1>0, <5>1, <5>2 DEF OnlyApplied
          <5> QED
            BY <4>2, <5>3
        <4>4. CASE log[i].seq # x.seq /\ l.holder = n
          <5>1. log[i].seq <= l.seq
            BY <1>4, <1>5, <3>1, <4>4
          <5>2. ReadOf(log[i]) <= tscache[n] /\ (inst.lead = 0 => ReadOf(log[i]) <= clock[n])
            BY <3>2, <4>4, <5>1
          <5>3. ReadOf(log[i]) \in Nat /\ tscache[n] \in Nat /\ clock[n] \in Nat
            BY <1>4
          <5> QED
            BY <4>2, <5>2, <5>3
        <4>5. CASE log[i].seq # x.seq /\ l.holder # n
          <5>1. log[i].seq < x.seq
            BY <1>4, <3>1, <4>5
          <5>2. a + 1 > 1 /\ log[(a + 1) - 1] = l
            BY <1>3
          <5>3. CoveredBy(ReadOf(log[i]), x)
            BY <1>0, <1>1, <3>1, <4>5, <5>1, <5>2 DEF LeasesCover
          <5> QED
            BY <1>4, <4>2, <5>3 DEF CoveredBy
        <4> QED
          BY <4>3, <4>4, <4>5
      <3> QED
        BY <3>3, <3>4
    <2> QED
      BY <2>2, <2>3
  <1>9. ExpirationsOK'
    <2>1. SUFFICES ASSUME inst.kind = "expiration"
                   PROVE NearOK' /\ \A m \in Node : TransferFits(m)'
      <3>1. inst.kind = "expiration" => (\A i \in 1..Len(log) : ReadOf(log[i]) <= Final.exp)'
        BY <1>0, <1>1 DEF ExpirationsOK, ReadOf, Final
      <3> QED
        BY <1>1, <3>1 DEF ExpirationsOK
    <2>2. NearOK /\ \A m \in Node : TransferFits(m)
      BY <1>0, <2>1 DEF ExpirationsOK
    <2>3. NearOK'
      <3>2. tscache'[n] = x.sum \/ tscache'[n] = tscache[n]
        BY <1>6 DEF Latest
      <3>3. \A m \in Node : tscache'[m] = tscache[m] \/ Near(tscache[m])'
        <4>1. ASSUME NEW t, t = x.sum PROVE \A p \in Node : t <= clock'[p] + inst.duration
          <5>1. \A y \in Leases : Near(y.sum)'
            BY <1>0, <1>1, <1>2, <2>2, LeaseNear
          <5>2. \A y \in Leases : \A p \in Node : y.sum <= clock'[p] + inst'.duration
            BY <5>1 DEF Near
          <5> QED
            BY <1>1, <1>4, <4>1, <5>2
        <4>2. tscache'[n] = x.sum => Near(tscache[n])'
          BY <1>1, <4>1 DEF Near
        <4> QED
          BY <1>6, <3>2, <4>2
      <3>4. Leases' = Leases
        BY <1>1 DEF Leases
      <3> QED
        BY <1>0, <1>1, <1>2, <2>2, <3>3, <3>4, NearQuiet DEF SameRequest
    <2>4. \A m \in Node \ {n} : TransferFits(m)'
      BY <1>0, <1>1, <1>4, <1>6, <2>2, TransferFitsSame DEF SameRequest
    <2>5. TransferFits(n)'
      <3>1. CASE Takes(n)
        <4>1. SUFFICES ASSUME req[n] # Idle, x.seq = req[n].prev.seq PROVE FALSE
          BY <1>1 DEF TransferFits
        <4>2. PICK q \in 1..a : req[n].prev = log[q]
          BY <1>0, <4>1 DEF BaseInv, RequestOK
        <4>3. log[q].seq <= l.seq
          BY <1>0, <4>2, AppliedFacts
        <4>4. x.seq # l.seq
          BY <3>1 DEF Takes
        <4> QED
          BY <1>4, <1>5, <4>1, <4>2, <4>3, <4>4
      <3>2. CASE ~ Takes(n)
        <4>1. tscache'[n] = tscache[n]
          BY <1>6, <3>2
        <4>2. SUFFICES ASSUME req[n] # Idle, req[n].to # n, x.seq = req[n].prev.seq PROVE l.seq = x.seq
          BY <1>1, <2>2, <4>1 DEF TransferFits
        <4>3. PICK q \in 1..a : req[n].prev = log[q]
          BY <1>0, <4>2 DEF BaseInv, RequestOK
        <4>4. log[q].seq <= l.seq
          BY <1>0, <4>3, AppliedFacts
        <4> QED
          BY <1>4, <1>5, <4>2, <4>3, <4>4
      <3> QED
        BY <3>1, <3>2
    <2> QED
      BY <2>3, <2>4, <2>5
  <1>10. LeasesCover' /\ SettledOK' /\ Prudent'
    BY <1>0, <1>1, <1>2, LeasesCoverSame, SettledSame DEF Prudent, RecordsSame
  <1>11. /\ \A m \in Node : RequestCovers(m)'
         /\ \A c \in flying' : CommandCovers(c)'
    BY <1>1, <1>2, RequestCoversSame, CommandCoversSame DEF ReadInv
  <1>12. \A m \in Node : OwnReads(m)'
    BY <1>0, <1>1, <1>2, OwnReadsSame DEF ReadInv
  <1> QED
    BY <1>7, <1>8, <1>9, <1>10, <1>11, <1>12 DEF ReadInv
LEMMA ReadCrash ==
    ASSUME ReadInv, ServerInv', NEW n \in Node, asleep[n] = 0, Crash(n)
    PROVE ReadInv'
  <1>0. /\ ServerInv /\ BaseInv /\ TypeOK /\ OnlyApplied /\ LeasesCover /\ SettledOK /\ Prudent /\ ExpirationsOK
        /\ TypeOK'
    BY DEF ReadInv, ServerInv, BaseInv
  <1>1. /\ UNCHANGED <<log, applied, flying, clock, record, booting, inst, reads, hasty>>
        /\ asleep' = [asleep EXCEPT ![n] = clock[n] + MaxOffset + 1]
        /\ tscache' = [tscache EXCEPT ![n] = 0]
        /\ req'[n] = Idle /\ \A m \in Node \ {n} : req'[m] = req[m]
    BY <1>0, CrashFacts DEF LeasesSame
  <1>2. inst.lead = 0
    <2>1. inst.maxRestarts # 0
      BY <1>0, CrashFacts
    <2> QED
      BY <1>0, <2>1 DEF Prudent
  <1>3. \A m \in Node : clock[m] \in Nat /\ tscache[m] \in Nat /\ inst.duration \in Nat /\ MaxOffset \in Nat
    BY <1>0, ReadTypes
  <1>4. /\ asleep'[n] = clock[n] + MaxOffset + 1 /\ tscache'[n] = 0
        /\ \A m \in Node \ {n} : asleep'[m] = asleep[m] /\ tscache'[m] = tscache[m]
    BY <1>0, <1>1 DEF TypeOK
  <1>5. LogReadsSame /\ Later
    BY <1>1, <1>3 DEF LogReadsSame, Later
  <1>6. ASSUME NEW m \in Node PROVE Protected(m)'
    <2>1. Protected(m)
      BY DEF ReadInv
    <2>2. CASE m # n
      BY <1>0, <1>1, <1>3, <1>4, <1>5, <2>1, <2>2, ProtectedSame
    <2>3. CASE m = n
      <3>1. SUFFICES ASSUME LeaseOf(n).holder = n, NEW i \in 1..Len(log), log[i].seq <= LeaseOf(n).seq,
                            NoneHasty(log[i].seq, LeaseOf(n).seq)
                     PROVE /\ asleep'[n] # 0 /\ ReadOf(log[i]) <= clock[n]
                           /\ ReadOf(log[i]) + MaxOffset + 1 <= asleep'[n]
        BY <1>1, <2>3 DEF Protected, ReadOf, LeaseOf, NoneHasty, Hasty
      <3>2. ReadOf(log[i]) <= clock[n] /\ ReadOf(log[i]) \in Nat
        BY <1>0, <1>2, <2>1, <2>3, <3>1, ReadTypes DEF Protected
      <3> QED
        BY <1>3, <1>4, <3>2
    <2> QED
      BY <2>2, <2>3
  <1>7. SettledOK'
    <2>1. \A h \in Node : RecordForward(h)
      BY <1>0, <1>1, ReadTypes DEF RecordForward
    <2>2. \A h \in Node : asleep'[h] = 0 /\ booting'[h] => asleep[h] = 0 /\ booting[h]
      BY <1>1, <1>4
    <2> QED
      BY <1>0, <1>5, <2>1, <2>2, SettledStep
  <1>8. ExpirationsOK'
    <2>1. SUFFICES ASSUME inst.kind = "expiration"
                   PROVE NearOK' /\ \A m \in Node : TransferFits(m)'
      <3>1. inst.kind = "expiration" => (\A i \in 1..Len(log) : ReadOf(log[i]) <= Final.exp)'
        BY <1>0, <1>1 DEF ExpirationsOK, ReadOf, Final
      <3> QED
        BY <1>1, <3>1 DEF ExpirationsOK
    <2>2. NearOK /\ \A m \in Node : TransferFits(m)
      BY <1>0, <2>1 DEF ExpirationsOK
    <2>3. \A m \in Node : req'[m] # Idle => req[m] # Idle /\ SameRequest(req[m], req'[m])
      BY <1>1 DEF SameRequest
    <2>4. NearOK'
      <3>1. Near(tscache[n])'
        BY <1>1, <1>3, <1>4 DEF Near
      <3>2. Leases' = Leases
        BY <1>1 DEF Leases
      <3> QED
        BY <1>0, <1>1, <1>4, <1>5, <2>2, <2>3, <3>1, <3>2, NearQuiet
    <2>5. \A m \in Node : TransferFits(m)'
      <3>1. \A m \in Node : tscache'[m] <= tscache[m]
        BY <1>3, <1>4
      <3> QED
        BY <1>0, <1>1, <2>2, <2>3, <3>1, TransferFitsSame
    <2> QED
      BY <2>4, <2>5
  <1>9. OnlyApplied' /\ LeasesCover' /\ Prudent'
    BY <1>0, <1>1, <1>5, OnlyAppliedSame, LeasesCoverSame DEF Prudent
  <1>10. /\ \A m \in Node : RequestCovers(m)'
         /\ \A c \in flying' : CommandCovers(c)'
    BY <1>1, <1>5, RequestCoversSame, CommandCoversSame DEF ReadInv
  <1>11. ASSUME NEW m \in Node PROVE OwnReads(m)'
    <2>1. OwnReads(m)
      BY DEF ReadInv
    <2>2. CASE m # n
      BY <1>0, <1>4, <1>5, <2>1, <2>2, OwnReadsSame
    <2>3. CASE m = n
      <3>1. \A i \in 1..Len(log) : ReadOf(log[i]) \in Nat /\ (log[i].holder = n => ReadOf(log[i]) <= clock[n])
        BY <1>0, <1>2, <2>1, <2>3, ReadTypes DEF OwnReads
      <3>2. /\ MaxOffset < asleep'[n]
            /\ \A i \in 1..Len(log) : log[i].holder = n =>
                  ReadOf(log[i]) <= clock[n] /\ ReadOf(log[i]) + MaxOffset + 1 <= asleep'[n]
        BY <1>3, <1>4, <3>1
      <3> QED
        BY <1>1, <2>3, <3>2 DEF OwnReads, ReadOf
    <2> QED
      BY <2>2, <2>3
  <1> QED
    BY <1>6, <1>7, <1>8, <1>9, <1>10, <1>11 DEF ReadInv
\* A node that starts has slept long enough.
LEMMA SleptLongEnough ==
    ASSUME ReadInv, NEW n \in Node, asleep[n] # 0, asleep[n] <= clock[n], NEW i \in 1..Len(log)
    PROVE /\ /\ LeaseOf(n).holder = n /\ log[i].seq <= LeaseOf(n).seq
             /\ NoneHasty(log[i].seq, LeaseOf(n).seq)
             => ReadOf(log[i]) + MaxOffset + 1 <= clock[n]
          /\ log[i].holder = n => Settled(ReadOf(log[i]))
  <1>0. BaseInv /\ ClocksOK /\ Protected(n) /\ OwnReads(n)
    BY DEF ReadInv, ServerInv, BaseInv
  <1>1. /\ ReadOf(log[i]) \in Nat /\ MaxOffset \in Nat /\ asleep[n] \in Nat
        /\ \A m \in Node : clock[m] \in Nat /\ clock[n] <= clock[m] + MaxOffset
    BY <1>0, ReadTypes DEF ClocksOK
  <1>2. ASSUME ReadOf(log[i]) + MaxOffset + 1 <= asleep[n]
        PROVE ReadOf(log[i]) + MaxOffset + 1 <= clock[n] /\ Settled(ReadOf(log[i]))
    BY <1>1, <1>2 DEF Settled
  <1> QED
    BY <1>0, <1>2 DEF Protected, OwnReads
LEMMA ReadStart ==
    ASSUME ReadInv, ServerInv', NEW n \in Node, req[n] = Idle, Start(n)
    PROVE ReadInv'
  <1>0. /\ ServerInv /\ BaseInv /\ TypeOK /\ ClocksOK /\ OnlyApplied /\ LeasesCover /\ SettledOK /\ Prudent
        /\ ExpirationsOK /\ TypeOK'
    BY DEF ReadInv, ServerInv, BaseInv
  <1>1. /\ asleep[n] # 0 /\ asleep[n] <= clock[n]
        /\ asleep' = [asleep EXCEPT ![n] = 0] /\ booting' = [booting EXCEPT ![n] = TRUE]
        /\ tscache' = [tscache EXCEPT ![n] = clock[n]]
        /\ UNCHANGED <<clock, record, log, applied, flying, req, inst, reads, hasty>>
    BY <1>0, StartFacts
  <1>3. /\ \A m \in Node : clock[m] \in Nat /\ tscache[m] \in Nat /\ clock[n] <= clock[m] + MaxOffset
        /\ inst.duration \in Nat /\ MaxOffset \in Nat /\ MaxOffset < inst.duration
    BY <1>0, ReadTypes DEF ClocksOK
  <1>4. /\ asleep'[n] = 0 /\ tscache'[n] = clock[n]
        /\ \A m \in Node \ {n} : asleep'[m] = asleep[m] /\ tscache'[m] = tscache[m] /\ booting'[m] = booting[m]
    BY <1>0, <1>1 DEF TypeOK
  <1>5. LogReadsSame /\ Later
    BY <1>1, <1>3 DEF LogReadsSame, Later
  <1>6. ASSUME NEW m \in Node PROVE Protected(m)'
    <2>1. Protected(m)
      BY DEF ReadInv
    <2>2. CASE m # n
      BY <1>0, <1>1, <1>3, <1>4, <1>5, <2>1, <2>2, ProtectedSame
    <2>3. CASE m = n
      <3>1. SUFFICES ASSUME LeaseOf(n).holder = n, NEW i \in 1..Len(log), log[i].seq <= LeaseOf(n).seq,
                            NoneHasty(log[i].seq, LeaseOf(n).seq)
                     PROVE ReadOf(log[i]) <= clock[n]
        BY <1>1, <1>4, <2>3 DEF Protected, ReadOf, LeaseOf, NoneHasty, Hasty
      <3>2. ReadOf(log[i]) + MaxOffset + 1 <= clock[n] /\ ReadOf(log[i]) \in Nat
        BY <1>0, <1>1, <3>1, SleptLongEnough, ReadTypes
      <3> QED
        BY <1>3, <3>2
    <2> QED
      BY <2>2, <2>3
  <1>7. SettledOK'
    <2>1. \A h \in Node : RecordForward(h)
      BY <1>0, <1>1, ReadTypes DEF RecordForward
    <2>2. inst.kind = "epoch" => \A h \in Node : asleep'[h] = 0 /\ booting'[h] =>
                \/ asleep[h] = 0 /\ booting[h]
                \/ \A i \in 1..Len(log) : log[i].holder = h /\ NoneHasty(log[i].seq, log[i].seq) =>
                      Settled(ReadOf(log[i]))
      BY <1>1, <1>4, SleptLongEnough
    <2> QED
      BY <1>0, <1>5, <2>1, <2>2, SettledStep
  <1>8. ExpirationsOK'
    <2>1. SUFFICES ASSUME inst.kind = "expiration"
                   PROVE NearOK' /\ \A m \in Node : TransferFits(m)'
      <3>1. inst.kind = "expiration" => (\A i \in 1..Len(log) : ReadOf(log[i]) <= Final.exp)'
        BY <1>0, <1>1 DEF ExpirationsOK, ReadOf, Final
      <3> QED
        BY <1>1, <3>1 DEF ExpirationsOK
    <2>2. NearOK /\ \A m \in Node : TransferFits(m)
      BY <1>0, <2>1 DEF ExpirationsOK
    <2>3. NearOK'
      <3>1. Near(tscache[n])'
        BY <1>1, <1>3, <1>4 DEF Near
      <3>2. Leases' = Leases
        BY <1>1 DEF Leases
      <3> QED
        BY <1>0, <1>1, <1>4, <1>5, <2>2, <3>1, <3>2, NearQuiet DEF SameRequest
    <2>4. TransferFits(n)'
      BY <1>1 DEF TransferFits
    <2>5. \A m \in Node \ {n} : TransferFits(m)'
      BY <1>0, <1>1, <1>3, <1>4, <2>2, TransferFitsSame DEF SameRequest
    <2> QED
      BY <2>3, <2>4, <2>5
  <1>9. OnlyApplied' /\ LeasesCover' /\ Prudent'
    BY <1>0, <1>1, <1>5, OnlyAppliedSame, LeasesCoverSame DEF Prudent
  <1>10. /\ \A m \in Node : RequestCovers(m)'
         /\ \A c \in flying' : CommandCovers(c)'
    BY <1>1, <1>5, RequestCoversSame, CommandCoversSame DEF ReadInv
  <1>11. ASSUME NEW m \in Node PROVE OwnReads(m)'
    <2>1. OwnReads(m)
      BY DEF ReadInv
    <2>2. CASE m # n
      BY <1>0, <1>4, <1>5, <2>1, <2>2, OwnReadsSame
    <2>3. CASE m = n
      BY <1>1, <1>4, <2>1, <2>3 DEF OwnReads, ReadOf
    <2> QED
      BY <2>2, <2>3
  <1> QED
    BY <1>6, <1>7, <1>8, <1>9, <1>10, <1>11 DEF ReadInv

\* Who sleeps requests nothing.
SleepersIdle == \A n \in Node : asleep[n] # 0 => req[n] = Idle
LEMMA SleepersStep ==
    ASSUME TypeOK, SleepersIdle, [Next]_vars
    PROVE SleepersIdle'
  <1>1. CASE UNCHANGED vars
    BY <1>1, StutterFacts DEF Unchanged, SleepersIdle
  <1>2. ASSUME NEW n \in Node, Tick(n) PROVE SleepersIdle'
    BY <1>2 DEF Tick, SleepersIdle
  <1>3. ASSUME NEW n \in Node, Start(n) PROVE SleepersIdle'
    <2>1. asleep' = [asleep EXCEPT ![n] = 0] /\ req' = req /\ asleep \in [Node -> Nat]
      BY <1>3, StartFacts DEF TypeOK
    <2> QED
      BY <2>1 DEF SleepersIdle
  <1>4. ASSUME NEW n \in Node,
               Heartbeat(n) \/ \E m \in Node : Gossip(n, m) \/ IncrementElsewhere(n, m)
        PROVE SleepersIdle'
    BY <1>4, LivenessStepType DEF SleepersIdle
  <1>5. ASSUME NEW n \in Node, Read(n) PROVE SleepersIdle'
    BY <1>5, ReadType DEF SleepersIdle
  <1>6. ASSUME NEW n \in Node, asleep[n] = 0, RequestLease(n) \/ TransferLease(n) PROVE SleepersIdle'
    <2>1. asleep' = asleep /\ \A m \in Node \ {n} : req'[m] = req[m]
      BY <1>6, RequestFacts DEF TypeOK
    <2> QED
      BY <1>6, <2>1 DEF SleepersIdle
  <1>7. ASSUME NEW n \in Node, Cancel(n) \/ Promote(n) \/ Revive(n) \/ Invalidate(n) PROVE SleepersIdle'
    BY <1>7, ProgressFacts DEF SleepersIdle, GoesOn
  <1>8. ASSUME NEW n \in Node, SendRequest(n) \/ SendTransfer(n) PROVE SleepersIdle'
    BY <1>8, SendRequestFacts, SendTransferFacts DEF SleepersIdle
  <1>9. ASSUME NEW n \in Node, Apply(n) PROVE SleepersIdle'
    BY <1>9, ApplyFacts DEF SleepersIdle
  <1>10. ASSUME NEW n \in Node, Crash(n) PROVE SleepersIdle'
    <2>1. /\ req'[n] = Idle /\ \A m \in Node \ {n} : req'[m] = req[m]
          /\ asleep' = [asleep EXCEPT ![n] = clock[n] + MaxOffset + 1]
      BY <1>10, CrashFacts
    <2>2. \A m \in Node \ {n} : asleep'[m] = asleep[m]
      BY <2>1 DEF TypeOK
    <2> QED
      BY <2>1, <2>2 DEF SleepersIdle
  <1>11. ASSUME NEW c \in flying, Commit(c) \/ Drop(c) PROVE SleepersIdle'
    BY <1>11, CommitFacts, DropFacts DEF SleepersIdle
  <1> QED
    BY <1>1, <1>2, <1>3, <1>4, <1>5, <1>6, <1>7, <1>8, <1>9, <1>10, <1>11, Steps

-----------------------------------------------------------------------------
LEMMA ReadStep ==
    ASSUME ReadInv, SleepersIdle, ServerInv', [Next]_vars
    PROVE ReadInv'
  <1>0. TypeOK
    BY DEF ReadInv, ServerInv, BaseInv
  <1>1. CASE UNCHANGED vars
    BY <1>1, StutterFacts, ReadDrop DEF Unchanged
  <1>2. ASSUME NEW n \in Node, Tick(n) PROVE ReadInv'
    BY <1>2, ReadTick
  <1>3. ASSUME NEW n \in Node, Start(n) PROVE ReadInv'
    BY <1>0, <1>3, StartFacts, ReadStart DEF SleepersIdle
  <1>4. ASSUME NEW n \in Node, asleep[n] = 0,
               Heartbeat(n) \/ \E m \in Node : Gossip(n, m) \/ IncrementElsewhere(n, m)
        PROVE ReadInv'
    BY <1>4, ReadLiveness
  <1>5. ASSUME NEW n \in Node, Read(n) PROVE ReadInv'
    BY <1>5, ReadRead
  <1>6. ASSUME NEW n \in Node, RequestLease(n) \/ TransferLease(n) PROVE ReadInv'
    BY <1>6, ReadRequest
  <1>7. ASSUME NEW n \in Node, asleep[n] = 0, Cancel(n) \/ Promote(n) \/ Revive(n) \/ Invalidate(n)
        PROVE ReadInv'
    BY <1>7, ReadProgress
  <1>8. ASSUME NEW n \in Node, SendRequest(n) PROVE ReadInv'
    BY <1>8, ReadSendRequest
  <1>9. ASSUME NEW n \in Node, asleep[n] = 0, SendTransfer(n) PROVE ReadInv'
    BY <1>9, ReadSendTransfer
  <1>10. ASSUME NEW n \in Node, asleep[n] = 0, Apply(n) PROVE ReadInv'
    BY <1>10, ReadApply
  <1>11. ASSUME NEW n \in Node, asleep[n] = 0, Crash(n) PROVE ReadInv'
    BY <1>11, ReadCrash
  <1>12. ASSUME NEW c \in flying, Commit(c) PROVE ReadInv'
    BY <1>12, ReadCommit
  <1>13. ASSUME NEW c \in flying, Drop(c) PROVE ReadInv'
    <2>1. UNCHANGED <<record, booting, log, applied, clock, asleep, req, inst, tscache, reads, hasty>> /\ flying' \subseteq flying
      BY <1>0, <1>13, DropFacts DEF RecordsSame
    <2> QED
      BY <2>1, ReadDrop
  <1> QED
    BY <1>1, <1>2, <1>3, <1>4, <1>5, <1>6, <1>7, <1>8, <1>9, <1>10, <1>11, <1>12, <1>13, Steps
LEMMA InitRead == Init /\ Uniform /\ Prudent => ReadInv /\ SleepersIdle
  <1> SUFFICES ASSUME Init, Uniform, Prudent PROVE ReadInv /\ SleepersIdle
    OBVIOUS
  <1>1. ServerInv /\ BaseInv /\ TypeOK
    BY InitServer DEF ServerInv, BaseInv
  <1>2. /\ Len(log) = 1 /\ flying = {} /\ inst.firstTime \in Nat /\ inst.duration \in Nat
        /\ log[1].sum = inst.firstTime
        /\ log[1].exp = IF inst.firstKind = "epoch" THEN 0 ELSE inst.firstTime + inst.duration
        /\ \A n \in Node : /\ clock[n] = inst.firstTime /\ req[n] = Idle /\ asleep[n] = 0 /\ booting[n] = FALSE
                           /\ tscache[n] = inst.firstTime
    BY InitFacts
  <1>3. /\ \A s \in 1..inst.maxLeases : reads[s] = 0
        /\ \A i \in 1..Len(log) : ReadOf(log[i]) = 0 /\ i = 1
    <2>1. \A s \in 1..inst.maxLeases : reads[s] = 0
      BY DEF Init
    <2>2. \A i \in 1..Len(log) : log[i].seq \in 1..inst.maxLeases /\ i = 1
      BY <1>1, <1>2, ReadTypes
    <2> QED
      BY <2>1, <2>2 DEF ReadOf
  <1>4. MaxOffset \in Nat /\ Final.exp \in Nat /\ \A n \in Node : clock[n] \in Nat
    BY <1>1, ReadTypes
  <1>5. OnlyApplied /\ LeasesCover /\ SleepersIdle
    BY <1>2, <1>3 DEF OnlyApplied, LeasesCover, SleepersIdle
  <1>6. ExpirationsOK
    <2>1. SUFFICES ASSUME inst.kind = "expiration"
                   PROVE /\ \A i \in 1..Len(log) : ReadOf(log[i]) <= Final.exp
                         /\ NearOK /\ \A n \in Node : TransferFits(n)
      BY DEF ExpirationsOK
    <2>2. inst.firstKind = "expiration"
      BY <2>1 DEF Uniform
    <2>3. \A l \in Leases : l = log[1]
      BY <1>2, <1>3 DEF Leases
    <2>4. Near(inst.firstTime)
      BY <1>2 DEF Near
    <2>5. First \in Node
      BY LeaseAssumption
    <2>6. \E p \in Node : log[1].exp <= clock[p] + inst.duration
      BY <1>2, <2>2, <2>5
    <2>7. NearOK
      BY <1>2, <2>3, <2>4, <2>6 DEF NearOK
    <2> QED
      BY <1>2, <1>3, <1>4, <2>7 DEF TransferFits
  <1>7. SettledOK
    <2>1. Settled(0)
      BY <1>4 DEF Settled
    <2> QED
      BY <1>3, <2>1 DEF SettledOK, SettledFor
  <1>8. \A n \in Node : Protected(n) /\ RequestCovers(n) /\ OwnReads(n)
    BY <1>2, <1>3, <1>4 DEF Protected, RequestCovers, OwnReads
  <1> QED
    BY <1>1, <1>2, <1>5, <1>6, <1>7, <1>8 DEF ReadInv
LEMMA ReadInvCovers == ReadInv => ReadsCoveredUnlessHasty
  <1> SUFFICES ASSUME ReadInv, NEW n \in Node, MayServe(n), NEW s \in 1..LeaseOf(n).seq, NoneHasty(s, LeaseOf(n).seq)
               PROVE reads[s] <= tscache[n]
    BY DEF ReadsCoveredUnlessHasty
  <1>0. BaseInv /\ TypeOK /\ LogOK /\ OnlyApplied /\ Protected(n) /\ asleep[n] = 0 /\ LeaseOf(n).holder = n
    BY DEF ReadInv, ServerInv, BaseInv, MayServe
  <1>1. LeaseOf(n).seq \in 1..inst.maxLeases /\ tscache[n] \in Nat /\ inst.maxLeases \in Nat
    BY <1>0, AppliedFacts, ReadTypes, Constants DEF TypeOK
  <1>2. s \in 1..inst.maxLeases
    BY <1>1
  <1>3. CASE reads[s] = 0
    BY <1>1, <1>3
  <1>4. CASE reads[s] # 0
    <2>1. PICK i \in 1..Len(log) : log[i].seq = s
      BY <1>0, <1>2, <1>4 DEF OnlyApplied
    <2>2. log[i].seq <= LeaseOf(n).seq
      BY <1>1, <2>1
    <2>3. ReadOf(log[i]) <= tscache[n]
      BY <1>0, <2>1, <2>2 DEF Protected
    <2> QED
      BY <2>1, <2>3 DEF ReadOf
  <1> QED
    BY <1>3, <1>4
LEMMA ReadInvStep ==
    ASSUME ReadInv, SleepersIdle, [Next]_vars
    PROVE ReadInv' /\ SleepersIdle'
  <1>1. ServerInv /\ TypeOK
    BY DEF ReadInv, ServerInv, BaseInv
  <1>2. ServerInv'
    BY <1>1, ServerStep
  <1> QED
    BY <1>1, <1>2, ReadStep, SleepersStep

\* No write slips under a read of a previous leaseholder: a replica that may serve has
\* in its timestamp cache every read that was ever served under its lease or an earlier
\* one, unless one of the leases from that one to its own was requested too early.  A
\* lease acquired from another starts at or above those reads, since they are below the
\* old lease's expiration or, for an epoch, below the expiration that the record had when
\* it was incremented; a transfer carries them in its summary; a node that restarts
\* sleeps until its clock has passed what it served.  The last argument is about the
\* present: reads ahead of it are excluded where nodes restart (Prudent).
THEOREM ReadsAreCovered == Spec /\ Uniform /\ Prudent => []ReadsCoveredUnlessHasty
  <1>1. Init /\ Uniform /\ Prudent => ReadInv /\ SleepersIdle
    BY InitRead
  <1>2. ReadInv /\ SleepersIdle /\ [Next]_vars => ReadInv' /\ SleepersIdle'
    BY ReadInvStep
  <1>3. ReadInv => ReadsCoveredUnlessHasty
    BY ReadInvCovers
  <1> QED
    BY <1>1, <1>2, <1>3, PTL DEF Spec

\* For expiration-based leases, transfers and restarts included, and for epoch-based ones
\* while no node restarts, every read is covered, without exception.
THEOREM ReadsAreCoveredUnconditionally ==
    Spec /\ Uniform /\ Prudent /\ (inst.kind = "expiration" \/ inst.maxRestarts = 0) => []ReadsCovered
  <1> DEFINE Safe == inst.kind = "expiration" \/ inst.maxRestarts = 0
  <1>1. Init /\ Uniform /\ Prudent /\ Safe => ReadInv /\ SleepersIdle /\ NoneRestarted
    <2>1. Init /\ Safe => NoneRestarted
      BY InitFacts DEF NoneRestarted, Init
    <2> QED
      BY <2>1, InitRead
  <1>2. ReadInv /\ SleepersIdle /\ NoneRestarted /\ [Next]_vars => ReadInv' /\ SleepersIdle' /\ NoneRestarted'
    BY ReadInvStep, NoneRestartedStep DEF ReadInv
  <1>3. ReadInv /\ NoneRestarted => ReadsCovered
    <2> SUFFICES ASSUME ReadInv, NoneRestarted PROVE ReadsCovered
      OBVIOUS
    <2>1. hasty = {}
      BY DEF ReadInv, ServerInv, KindsOK, NoneRestarted
    <2>2. \A s, t : NoneHasty(s, t)
      BY <2>1 DEF NoneHasty, Hasty
    <2> QED
      BY <2>2, ReadInvCovers DEF ReadsCovered, ReadsCoveredUnlessHasty
  <1> QED
    BY <1>1, <1>2, <1>3, PTL DEF Spec

=============================================================================
