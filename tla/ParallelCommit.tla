--------------------------- MODULE ParallelCommit ---------------------------
(***************************************************************************)
(* One transaction of the key-value layer committing in parallel: its      *)
(* record, its intents, the markers the timestamp cache holds for it, its  *)
(* coordinator (TxnCoordSender, txnCommitter, DistSender) and the other    *)
(* transactions that find its intents, push it, recover it and resolve     *)
(* its intents.                                                            *)
(*                                                                         *)
(* A parallel commit sends the STAGING record and the last writes at the   *)
(* same time; the transaction is committed as soon as the record and every *)
(* write it names exist at the staging timestamp, whether or not anybody   *)
(* knows it yet.  The hard part is that everybody who finds the record has *)
(* to reach the same verdict as the coordinator, while requests are        *)
(* delayed, sent again, or answered after the coordinator stopped waiting. *)
(*                                                                         *)
(* Each element of Key is on a range of its own, apart from the record.    *)
(* Timestamps are small naturals and 0 is the empty timestamp; the         *)
(* transaction starts at MinTs, epoch 0.                                   *)
(***************************************************************************)
EXTENDS Naturals, FiniteSets, FiniteSetsExt

CONSTANTS Key,        \* the keys the transaction writes
          Pipelined,  \* those of them written before the commit batch
          Pusher,     \* other transactions that run into its intents
          MaxTs,      \* bound on timestamps
          MaxEpoch,   \* bound on epochs
          Budgets,    \* what a behaviour may use of each
          Blind       \* the keys written by a Put; the other writes also read

\* Timestamps, restarts, pushers at work at a time; and faults: failed RPCs, delayed
\* writes, readers, lease moves.
Budget == [ts : 1 .. MaxTs, restarts : 0 .. MaxEpoch, pushers : Nat, faults : Nat]

TheRecord == "record"   \* what a recovery probes besides the keys
ASSUME ParallelCommitAssumption ==
    /\ Key # {} /\ TheRecord \notin Key /\ Pipelined \subseteq Key
    /\ MaxTs \in Nat /\ MaxTs >= 1
    /\ MaxEpoch \in Nat /\ Budgets \subseteq Budget
    /\ Blind \subseteq Key

MinTs == 1
Ts    == 1 .. MaxTs
Ts0   == 0 .. MaxTs
Epoch == 0 .. MaxEpoch

\* hlc.Timestamp.Forward
Forward(s, t) == IF s >= t THEN s ELSE t

Status    == {"PENDING", "STAGING", "COMMITTED", "ABORTED"}
Finalized == {"COMMITTED", "ABORTED"}

VARIABLES
    rec,       \* the transaction record; status "none" when there is none
    tomb,      \* "set" when the tombstone marker is at or above MinTimestamp
    push,      \* timestamp of the push marker
    intent,    \* intent[k]: epoch and timestamp, timestamp 0 when there is none
    value,     \* value[k]: timestamp of the transaction's committed value, or 0
    readTs,    \* readTs[k]: timestamp cache entry of k that is not the txn's own
    pc,        \* where the coordinator is
    epoch, rts, wts,   \* Epoch, ReadTimestamp, WriteTimestamp in the coordinator
    sub,       \* sub[k]: the coordinator's request for k in the current batch
    et,        \* the coordinator's EndTxn
    built,     \* WriteTimestamp when the commit batch was built (its QueryIntents')
    net,       \* requests that may still be evaluated
    told,      \* what the client has been told
    left,      \* the budget that is left
    ppc,       \* where each pusher is
    seen,      \* the intent it found
    work,      \* the transaction it resolves or recovers
    todo,      \* the probes of its recovery that are still to be answered
    found,     \* what the probes have found so far
    promised   \* highest timestamp below which a pusher was told to read

record == <<rec, tomb, push>>
store  == <<intent, value, readTs>>
coord  == <<pc, epoch, rts, wts, sub, et, built, told>>
pusher == <<ppc, seen, work, todo, found>>
vars   == <<record, store, coord, net, pusher, promised, left>>

Rec(s, e, t)  == [status |-> s, epoch |-> e, ts |-> t]
NoRec         == Rec("none", 0, 0)
Intent(e, t)  == [epoch |-> e, ts |-> t]
NoIntent      == Intent(0, 0)
Seen(k, e, t) == [key |-> k, epoch |-> e, ts |-> t]
Call(s, a, t) == [st |-> s, att |-> a, ts |-> t]
NoCall        == Call("none", 0, 0)
Waiting(a)    == Call("wait", a, 0)

\* A request names the epoch and timestamps of the transaction it carries and
\* the attempt it is; prot is AmbiguousReplayProtection, qts the timestamp a
\* QueryIntent asks about.
Requests ==
    [op : {"put"}, key : Key, epoch : Epoch, rts : Ts, wts : Ts, att : 1 .. 2,
     prot : BOOLEAN]
    \cup [op : {"qi"}, key : Key, epoch : Epoch, rts : Ts, wts : Ts, att : 1 .. 2,
          qts : Ts]
    \cup [op : {"stage", "commit", "abort"}, epoch : Epoch, rts : Ts, wts : Ts,
          att : 1 .. 2]

PutRequest(k, t, w, a, g) ==
    [op |-> "put", key |-> k, epoch |-> epoch, rts |-> t, wts |-> w, att |-> a,
     prot |-> g]
QueryIntentRequest(k, t, w, a, q) ==
    [op |-> "qi", key |-> k, epoch |-> epoch, rts |-> t, wts |-> w, att |-> a,
     qts |-> q]
EndTxnRequest(o, t, w, a) ==
    [op |-> o, epoch |-> epoch, rts |-> t, wts |-> w, att |-> a]

CoordState == {"run", "commit", "retry", "restart", "prefix", "endtxn", "again", "done"}
CallState  == {"none", "piped", "wait", "ok", "retry", "missing", "aborted",
               "amb", "fail"}
PusherState == {"idle", "push", "probe", "recover", "resolve"}

\* Every variable stays in its range; in particular no request carries, and no
\* retry is made at, the empty timestamp.
TypeOK ==
    /\ rec \in [status : Status \cup {"none"}, epoch : Epoch, ts : Ts0]
    /\ tomb \in {"clear", "set"} /\ push \in Ts0
    /\ intent \in [Key -> [epoch : Epoch, ts : Ts0]]
    /\ value \in [Key -> Ts0] /\ readTs \in [Key -> Ts0]
    /\ pc \in CoordState /\ epoch \in Epoch /\ rts \in Ts /\ wts \in Ts
    /\ sub \in [Key -> [st : CallState, att : 0 .. 2, ts : Ts0]]
    /\ et \in [st : CallState, att : 0 .. 2, ts : Ts0]
    /\ built \in Ts0
    /\ net \subseteq Requests
    /\ told \in {"nothing", "committed", "aborted", "error"}
    /\ ppc \in [Pusher -> PusherState]
    /\ seen \in [Pusher -> [key : Key, epoch : Epoch, ts : Ts0]]
    /\ work \in [Pusher -> [status : Status \cup {"none"}, epoch : Epoch, ts : Ts0]]
    /\ todo \in [Pusher -> SUBSET (Key \cup {TheRecord})]
    /\ found \in [Pusher -> SUBSET {"missing", "changed"}]
    /\ promised \in Ts0 /\ left \in Budget

AnyKey == CHOOSE k \in Key : TRUE
Init ==
    /\ rec = NoRec /\ tomb = "clear" /\ push = 0
    /\ intent = [k \in Key |-> NoIntent]
    /\ value = [k \in Key |-> 0] /\ readTs = [k \in Key |-> 0]
    /\ pc = "run" /\ epoch = 0 /\ rts = MinTs /\ wts = MinTs
    /\ sub = [k \in Key |-> NoCall] /\ et = NoCall /\ built = 0
    /\ net = {} /\ told = "nothing"
    /\ ppc = [p \in Pusher |-> "idle"]
    /\ seen = [p \in Pusher |-> Seen(AnyKey, 0, 0)]
    /\ work = [p \in Pusher |-> NoRec]
    /\ todo = [p \in Pusher |-> {}]
    /\ found = [p \in Pusher |-> {}]
    /\ promised = 0 /\ left \in Budgets

-----------------------------------------------------------------------------
(* The timestamp cache markers of the transaction.                         *)

CanCreateTxnRecord == tomb = "clear"
MinTxnCommitTS     == push
SynthesizeTxnFromMeta(e, t) ==
    IF CanCreateTxnRecord THEN Rec("PENDING", e, Forward(t, MinTxnCommitTS))
                          ELSE Rec("ABORTED", e, t)
\* what a reader of the record sees, given the meta it asks with
Lookup(e, t) == IF rec.status = "none" THEN SynthesizeTxnFromMeta(e, t) ELSE rec

-----------------------------------------------------------------------------
(* Answers.  The answer counts only while the DistSender waits for that    *)
(* attempt: a lost answer is a request evaluated after its RPC failed.  An *)
(* error that answers a second attempt of a batch in flight with a commit  *)
(* is an AmbiguousResultError.                                             *)

Times == 1 .. left.ts
Fault == left.faults > 0 /\ left' = [left EXCEPT !.faults = @ - 1]

IsError(s)  == s # "ok"
WithCommit  == pc \in {"commit", "endtxn"}
Verdict(s, a) == IF IsError(s) /\ a = 2 /\ WithCommit THEN "amb" ELSE s

AwaitsKey(m) ==
    /\ pc \in {"commit", "prefix"}
    /\ m.op = (IF m.key \in Pipelined THEN "qi" ELSE "put")
    /\ m.epoch = epoch /\ m.rts = rts
    /\ sub[m.key] = Waiting(m.att)
AwaitsEndTxn(m) ==
    /\ pc = (IF m.op = "stage" THEN "commit" ELSE "endtxn")
    /\ m.op # "abort"
    /\ m.epoch = epoch /\ m.rts = rts
    /\ et = Waiting(m.att)

AnswerKey(m, s, t) ==
    /\ sub' = IF AwaitsKey(m)
              THEN [sub EXCEPT ![m.key] = Call(Verdict(s, m.att), m.att, t)] ELSE sub
    /\ net' = net \ {m}
    /\ UNCHANGED <<pc, epoch, rts, wts, et, built, told>>
AnswerEndTxn(m, s, t) ==
    /\ et' = IF AwaitsEndTxn(m) THEN Call(Verdict(s, m.att), m.att, t) ELSE et
    /\ net' = net \ {m}
    /\ UNCHANGED <<pc, epoch, rts, wts, sub, built, told>>

-----------------------------------------------------------------------------
(* Requests on a key.                                                      *)

HasIntent(k) == intent[k].ts # 0
\* applyTimestampCache
Bumped(k, t) == Forward(t, readTs[k] + 1)
SetIntent(k, e, t) ==
    /\ t <= left.ts
    /\ intent' = [intent EXCEPT ![k] = Intent(e, t)]
    /\ UNCHANGED <<value, readTs>>
MarkRead(k, t) ==
    /\ readTs' = [readTs EXCEPT ![k] = Forward(@, t)]
    /\ UNCHANGED <<intent, value>>

\* The write finds the transaction's own intent of the same epoch and sequence.
ReplayAllowed(m) == m.prot => Bumped(m.key, m.wts) = intent[m.key].ts
Replay(m) ==
    /\ HasIntent(m.key) /\ intent[m.key].epoch = m.epoch
    /\ Bumped(m.key, m.wts) <= left.ts
    /\ AnswerKey(m, IF ReplayAllowed(m) THEN "ok" ELSE "fail", Bumped(m.key, m.wts))
    /\ UNCHANGED store
\* put with epoch ... came after put with epoch ...
StaleEpoch(m) ==
    /\ HasIntent(m.key) /\ intent[m.key].epoch > m.epoch
    /\ AnswerKey(m, "fail", m.wts)
    /\ UNCHANGED store
\* An intent of an earlier epoch is replaced and never moves to a lower timestamp.
Rewrite(m) ==
    /\ HasIntent(m.key) /\ intent[m.key].epoch < m.epoch
    /\ SetIntent(m.key, m.epoch, Forward(Bumped(m.key, m.wts), intent[m.key].ts))
    /\ AnswerKey(m, "ok", Bumped(m.key, m.wts))
FirstWrite(m) ==
    /\ ~ HasIntent(m.key) /\ value[m.key] < m.rts
    /\ SetIntent(m.key, m.epoch, Bumped(m.key, m.wts))
    /\ AnswerKey(m, "ok", Bumped(m.key, m.wts))
\* A committed value at or above the read timestamp: a blind write leaves its
\* intent above it and the error is deferred, any other write fails.
AboveValue(m) == Forward(Bumped(m.key, m.wts), value[m.key] + 1)
FindsNewerValue(m) ==
    ~ HasIntent(m.key) /\ value[m.key] >= m.rts /\ AboveValue(m) <= left.ts
DeferWriteTooOld(m) ==
    /\ FindsNewerValue(m) /\ m.key \in Blind
    /\ SetIntent(m.key, m.epoch, AboveValue(m))
    /\ AnswerKey(m, "ok", AboveValue(m))
WriteTooOld(m) ==
    /\ FindsNewerValue(m) /\ m.key \notin Blind
    /\ AnswerKey(m, "retry", AboveValue(m))
    /\ UNCHANGED store

Put(m) ==
    /\ m.op = "put"
    /\ \/ Replay(m) \/ StaleEpoch(m) \/ Rewrite(m) \/ FirstWrite(m)
       \/ DeferWriteTooOld(m) \/ WriteTooOld(m)
    /\ UNCHANGED <<record, pusher, promised, left>>

\* QueryIntent sent by the transaction itself, with ErrorIfMissing.
QueryOwnIntent(m) ==
    /\ m.op = "qi"
    /\ LET i == intent[m.key]
           mine == i.ts # 0 /\ i.epoch = m.epoch
       IN  \/ /\ mine /\ i.ts <= Forward(m.qts, m.wts)
              /\ UNCHANGED store
              /\ AnswerKey(m, "ok", m.wts)
           \/ /\ mine /\ i.ts > Forward(m.qts, m.wts)
              /\ MarkRead(m.key, m.qts)
              /\ AnswerKey(m, "retry", i.ts)
           \/ /\ ~ mine
              /\ MarkRead(m.key, m.qts)
              /\ AnswerKey(m, "missing", m.wts)
    /\ UNCHANGED <<record, pusher, promised, left>>

\* A reader of k, or a new leaseholder's low water mark.
BumpKey(k) ==
    /\ \E t \in Times : t > readTs[k] /\ MarkRead(k, t)
    /\ UNCHANGED <<record, coord, net, pusher, promised>>
    /\ Fault
\* A new leaseholder of the record's range: both markers rise to its lease start.
MoveLease ==
    /\ tomb' = "set"
    /\ \E t \in Times : (t > push \/ (t = push /\ tomb = "clear")) /\ push' = t
    /\ UNCHANGED <<rec, store, coord, net, pusher, promised>>
    /\ Fault

-----------------------------------------------------------------------------
(* EndTxn.                                                                 *)

WriteRec(s, e, t) ==
    /\ rec' = Rec(s, e, t)
    /\ tomb' = "set"
    /\ UNCHANGED push

\* A STAGING record of an earlier epoch is not a commit that may have happened.
TreatedAsPending(m) ==
    rec.status = "PENDING" \/ (rec.status = "STAGING" /\ m.epoch > rec.epoch)
EpochRegression(m) == rec.status \in {"PENDING", "STAGING"} /\ m.epoch < rec.epoch

\* The provisional commit timestamp: pushes are accounted for unless the record
\* is STAGING, when the transaction may be committed already.
\* Mutant: a STAGING record is pushed as well.
ProvisionalTsAlwaysPushed(m) == Forward(Forward(rec.ts, m.wts), MinTxnCommitTS)
ProvisionalTs(m) ==
    IF rec.status = "none" THEN Forward(m.wts, MinTxnCommitTS)
    ELSE IF TreatedAsPending(m) THEN Forward(Forward(rec.ts, m.wts), MinTxnCommitTS)
    ELSE Forward(rec.ts, m.wts)
IsEndTxnTriggeringRetryError(m) == ProvisionalTs(m) # m.rts

EndTxnRefused(m, s) ==
    /\ AnswerEndTxn(m, s, m.wts)
    /\ UNCHANGED record
EndTxnMayCommit(m) ==
    \/ rec.status = "none" /\ CanCreateTxnRecord
    \/ rec.status \in {"PENDING", "STAGING"} /\ ~ EpochRegression(m)
CommitTxn(m) ==
    /\ m.op \in {"stage", "commit"}
    /\ \/ /\ \/ rec.status = "none" /\ ~ CanCreateTxnRecord
             \/ rec.status = "ABORTED"
          /\ EndTxnRefused(m, "aborted")
       \/ /\ rec.status = "COMMITTED" \/ EpochRegression(m)
          /\ EndTxnRefused(m, "fail")
       \/ /\ EndTxnMayCommit(m) /\ IsEndTxnTriggeringRetryError(m)
          /\ AnswerEndTxn(m, "retry", ProvisionalTs(m))
          /\ UNCHANGED record
       \/ /\ EndTxnMayCommit(m) /\ ~ IsEndTxnTriggeringRetryError(m)
          /\ WriteRec(IF m.op = "stage" THEN "STAGING" ELSE "COMMITTED",
                      m.epoch, ProvisionalTs(m))
          /\ AnswerEndTxn(m, "ok", ProvisionalTs(m))
    /\ UNCHANGED <<store, pusher, promised, left>>

\* A rollback of a STAGING record of its own epoch is an IndeterminateCommitError:
\* it is evaluated again after the recovery it starts.
RollbackIndeterminate(m) == rec.status = "STAGING" /\ rec.epoch = m.epoch
\* Mutant: the coordinator is trusted to roll back only what is not committed.
RollbackTrusted(m) == rec.status # "COMMITTED" /\ ~ EpochRegression(m)
RollbackWrites(m) ==
    \/ rec.status \in {"none", "ABORTED"}
    \/ TreatedAsPending(m) /\ ~ EpochRegression(m)
RollbackTxn(m) ==
    /\ m.op = "abort"
    /\ \/ /\ RollbackWrites(m)
          /\ IF rec.status = "ABORTED" THEN WriteRec("ABORTED", rec.epoch, rec.ts)
             ELSE WriteRec("ABORTED", m.epoch, Forward(rec.ts, m.wts))
       \/ /\ rec.status = "COMMITTED" \/ EpochRegression(m)
          /\ UNCHANGED record
    /\ net' = net \ {m}
    /\ UNCHANGED <<store, coord, pusher, promised, left>>

\* HeartbeatTxn: creates the record, or learns of a push.
HeartbeatTxn ==
    /\ \/ /\ rec.status = "none" /\ CanCreateTxnRecord
          /\ WriteRec("PENDING", epoch, Forward(wts, MinTxnCommitTS))
       \/ /\ rec.status = "PENDING"
          /\ WriteRec("PENDING", rec.epoch, Forward(rec.ts, MinTxnCommitTS))
    /\ UNCHANGED <<store, coord, net, pusher, promised, left>>

-----------------------------------------------------------------------------
(* The coordinator: writes, commit attempts, restarts.                     *)

\* A pipelined write is acknowledged before it is replicated: its proposal is
\* applied, or lost, or a copy of the request is evaluated later.
PipelineWrite(k) ==
    /\ pc = "run" /\ k \in Pipelined /\ sub[k] = NoCall /\ value[k] < rts
    /\ LET t == Bumped(k, wts)
           m == PutRequest(k, rts, wts, 1, FALSE)
       IN  /\ t <= left.ts
           /\ wts' = t
           /\ \/ SetIntent(k, epoch, Forward(t, intent[k].ts)) /\ UNCHANGED <<net, left>>
              \/ net' = net \cup {m} /\ Fault /\ UNCHANGED store
    /\ sub' = [sub EXCEPT ![k] = Call("piped", 0, 0)]
    /\ UNCHANGED <<record, pc, epoch, rts, et, built, told, pusher, promised>>

\* One request per key: a QueryIntent proves a pipelined write.
KeyRequest(k, t, q, a, g) ==
    IF k \in Pipelined THEN QueryIntentRequest(k, t, t, a, q)
                       ELSE PutRequest(k, t, t, a, g)
KeyRequests(t, q) == {KeyRequest(k, t, q, 1, FALSE) : k \in Key}

\* First attempt: refresh if needed, then stage and write in parallel.
SendParallelCommit ==
    /\ pc = "run" /\ \A k \in Pipelined : sub[k].st = "piped"
    /\ pc' = "commit"
    /\ rts' = wts /\ built' = wts
    /\ net' = net \cup KeyRequests(wts, wts) \cup {EndTxnRequest("stage", wts, wts, 1)}
    /\ sub' = [k \in Key |-> Waiting(1)] /\ et' = Waiting(1)
    /\ UNCHANGED <<record, store, epoch, wts, told, pusher, promised, left>>

\* The DistSender's RPC fails: it sends the request again, or gives up.
ResendKey(k) ==
    /\ pc \in {"commit", "prefix"} /\ sub[k] = Waiting(1)
    /\ sub' = [sub EXCEPT ![k] = Waiting(2)]
    /\ net' = net \cup {KeyRequest(k, rts, built, 2, WithCommit)}
    /\ UNCHANGED <<record, store, pc, epoch, rts, wts, et, built, told, pusher, promised>>
    /\ Fault
ResendEndTxn ==
    /\ et = Waiting(1)
    /\ et' = Waiting(2)
    /\ net' = net \cup {EndTxnRequest(IF pc = "commit" THEN "stage" ELSE "commit",
                                      rts, rts, 2)}
    /\ UNCHANGED <<record, store, pc, epoch, rts, wts, sub, built, told, pusher, promised>>
    /\ Fault
GiveUpError == IF WithCommit THEN "amb" ELSE "fail"
GiveUpKey(k) ==
    /\ pc \in {"commit", "prefix"} /\ sub[k].st = "wait"
    /\ sub' = [sub EXCEPT ![k] = Call(GiveUpError, sub[k].att, 0)]
    /\ UNCHANGED <<record, store, pc, epoch, rts, wts, et, built, net, told, pusher, promised>>
    /\ Fault
GiveUpEndTxn ==
    /\ et.st = "wait"
    /\ et' = Call(GiveUpError, et.att, 0)
    /\ UNCHANGED <<record, store, pc, epoch, rts, wts, sub, built, net, told, pusher, promised>>
    /\ Fault

ReplyTs   == Max({wts, et.ts} \cup {sub[k].ts : k \in Key})
Settled   == et.st # "wait" /\ \A k \in Key : sub[k].st # "wait"

\* TransactionAbortedError: the client starts over with a new transaction and
\* this one is rolled back asynchronously.
TellAborted ==
    /\ pc' = "done" /\ told' = "aborted"
    /\ net' = net \cup {EndTxnRequest("abort", rts, wts, 1)}
    /\ UNCHANGED wts
TellError ==
    /\ pc' = "done" /\ told' = "error"
    /\ UNCHANGED <<wts, net>>
Retry(p) ==
    /\ pc' = p /\ wts' = ReplyTs
    /\ UNCHANGED <<told, net>>
\* The commit is acknowledged and made explicit asynchronously.
TellCommitted ==
    /\ pc' = "done" /\ told' = "committed"
    /\ net' = net \cup {EndTxnRequest("commit", rts, wts, 1)}
    /\ UNCHANGED wts

\* mergeErrors: abort before non-retriable before restart.
Outcome(C) ==
    IF "aborted" \in C THEN "aborted"
    ELSE IF C \cap {"amb", "fail"} # {} THEN "error"
    ELSE IF "retry" \in C THEN "retry"
    ELSE IF "missing" \in C THEN "missing" ELSE "ok"
MainOutcome  == Outcome({et.st} \cup {sub[k].st : k \in Key \ Pipelined})
QueryOutcome == Outcome({sub[k].st : k \in Pipelined})

\* detectIntentMissingDueToIntentResolution: what the record says of a missing
\* intent when everything else of the parallel commit succeeded.
\* Mutant: a missing intent is always taken for a failed write.
DetectNothing == "missing"
Detect ==
    LET txn == Lookup(epoch, wts)
    IN  IF txn.status = "COMMITTED" THEN "ok"
        ELSE IF txn.status # "ABORTED" THEN "missing"
        ELSE IF rec.status = "ABORTED" THEN "aborted" ELSE "error"
BatchOutcome ==
    IF MainOutcome # "ok" THEN MainOutcome
    ELSE IF QueryOutcome = "missing" THEN Detect ELSE QueryOutcome

\* needTxnRetryAfterStaging
\* Mutant: the responses' timestamps are not compared.
PushIgnored == FALSE
PushedWhileStaging == et.ts < ReplyTs

ParallelCommitReplies ==
    /\ pc = "commit" /\ Settled
    /\ \/ BatchOutcome = "aborted" /\ TellAborted
       \/ BatchOutcome = "error" /\ TellError
       \/ BatchOutcome = "missing" /\ Retry("restart")
       \/ BatchOutcome = "retry" /\ Retry("retry")
       \/ BatchOutcome = "ok" /\ PushedWhileStaging /\ Retry("retry")
       \/ BatchOutcome = "ok" /\ ~ PushedWhileStaging /\ TellCommitted
    /\ sub' = [k \in Key |-> NoCall] /\ et' = NoCall
    /\ UNCHANGED <<record, store, epoch, rts, built, pusher, promised, left>>

\* txnSpanRefresher: refresh, write again, then commit with a plain EndTxn.
RefreshAndRetry ==
    /\ pc = "retry"
    /\ pc' = "prefix" /\ rts' = wts
    /\ sub' = [k \in Key |-> Waiting(1)]
    /\ net' = net \cup KeyRequests(wts, built)
    /\ UNCHANGED <<record, store, epoch, wts, et, built, told, pusher, promised, left>>
SendEndTxn(t) ==
    /\ rts' = t /\ wts' = t
    /\ et' = Waiting(1) /\ pc' = "endtxn"
    /\ net' = net \cup {EndTxnRequest("commit", t, t, 1)}
PrefixReplies ==
    /\ pc = "prefix" /\ Settled
    /\ LET out == Outcome({sub[k].st : k \in Key})
       IN  \/ out = "error" /\ TellError /\ UNCHANGED <<rts, et>>
           \/ out = "missing" /\ Retry("restart") /\ UNCHANGED <<rts, et>>
           \/ out = "retry" /\ Retry("retry") /\ UNCHANGED <<rts, et>>
           \/ out = "ok" /\ SendEndTxn(ReplyTs) /\ UNCHANGED told
           \/ out = "ok" /\ ReplyTs # rts /\ Retry("restart") /\ UNCHANGED <<rts, et>>
    /\ sub' = [k \in Key |-> NoCall]
    /\ UNCHANGED <<record, store, epoch, built, pusher, promised, left>>
EndTxnReply ==
    /\ pc = "endtxn" /\ Settled
    /\ \/ et.st = "aborted" /\ TellAborted
       \/ et.st \in {"amb", "fail"} /\ TellError
       \/ et.st = "retry" /\ Retry("again")
       \/ et.st = "ok" /\ pc' = "done" /\ told' = "committed" /\ UNCHANGED <<wts, net>>
    /\ et' = NoCall
    /\ UNCHANGED <<record, store, epoch, rts, sub, built, pusher, promised, left>>
RefreshEndTxn ==
    /\ pc = "again"
    /\ SendEndTxn(wts)
    /\ UNCHANGED <<record, store, epoch, sub, built, told, pusher, promised, left>>

\* A retry error the refresher cannot handle starts a new epoch.
Restart ==
    /\ pc \in {"retry", "restart", "again"} \/ (pc = "run" /\ rts # wts)
    /\ epoch < left.restarts
    /\ epoch' = epoch + 1 /\ pc' = "run"
    /\ \E t \in wts .. left.ts : rts' = t /\ wts' = t
    /\ sub' = [k \in Key |-> NoCall]
    /\ built' = 0
    /\ UNCHANGED <<record, store, et, net, told, pusher, promised, left>>
\* The client rolls back; also after an error that left the commit undecided.
Rollback ==
    /\ \/ pc \in {"run", "retry", "restart", "again"} /\ told' = "aborted"
       \/ pc = "done" /\ told = "error" /\ UNCHANGED told
    /\ pc' = "done"
    /\ EndTxnRequest("abort", rts, wts, 1) \notin net
    /\ net' = net \cup {EndTxnRequest("abort", rts, wts, 1)}
    /\ UNCHANGED <<record, store, epoch, rts, wts, sub, et, built, pusher, promised, left>>

-----------------------------------------------------------------------------
(* The other transactions.                                                 *)

NobodySeen == Seen(AnyKey, 0, 0)
GoIdle(p) ==
    /\ ppc' = [ppc EXCEPT ![p] = "idle"]
    /\ seen' = [seen EXCEPT ![p] = NobodySeen]
    /\ work' = [work EXCEPT ![p] = NoRec]
    /\ todo' = [todo EXCEPT ![p] = {}]
    /\ found' = [found EXCEPT ![p] = {}]
GoResolve(p, txn) ==
    /\ ppc' = [ppc EXCEPT ![p] = "resolve"]
    /\ work' = [work EXCEPT ![p] = txn]
    /\ UNCHANGED <<seen, todo, found>>
GoProbe(p, txn) ==
    /\ ppc' = [ppc EXCEPT ![p] = "probe"]
    /\ work' = [work EXCEPT ![p] = txn]
    /\ todo' = [todo EXCEPT ![p] = Key \cup {TheRecord}]
    /\ UNCHANGED <<seen, found>>

MayStart == Cardinality({p \in Pusher : ppc[p] # "idle"}) < left.pushers
Encounter(p, k) ==
    /\ ppc[p] = "idle" /\ MayStart /\ HasIntent(k)
    /\ ppc' = [ppc EXCEPT ![p] = "push"]
    /\ seen' = [seen EXCEPT ![p] = Seen(k, intent[k].epoch, intent[k].ts)]
    /\ UNCHANGED <<record, store, coord, net, work, todo, found, promised, left>>

\* The pushee as PushTxn starts with it, and with what the pusher knows of it.
Pushee(p) == Lookup(seen[p].epoch, seen[p].ts)
KnownHigher(p) == Pushee(p).ts < seen[p].ts \/ Pushee(p).epoch < seen[p].epoch
Known(p, s) == Rec(s, Forward(Pushee(p).epoch, seen[p].epoch),
                      Forward(Pushee(p).ts, seen[p].ts))
\* updateTimestampCache for a PushTxn that returned this pushee
MarkPushed(txn) ==
    /\ tomb' = IF txn.status = "ABORTED" THEN "set" ELSE tomb
    /\ push' = IF txn.status = "PENDING" THEN Forward(push, txn.ts) ELSE push

PushFinalized(p) ==
    /\ Pushee(p).status \in Finalized
    /\ MarkPushed(Pushee(p)) /\ UNCHANGED <<rec, promised>>
    /\ GoResolve(p, Pushee(p))
\* The pushee is already at the timestamp the pusher wants it at.
PushUnneeded(p, to) ==
    /\ Pushee(p).status \notin Finalized /\ to <= Pushee(p).ts
    /\ MarkPushed(Pushee(p)) /\ UNCHANGED rec
    /\ promised' = Forward(promised, to)
    /\ GoResolve(p, Pushee(p))
\* TransactionPushError: the pusher waits and tries again.
PushLoses(p) ==
    /\ Pushee(p).status \notin Finalized
    /\ GoIdle(p) /\ UNCHANGED <<record, promised>>
\* The pusher wins (by priority, force, or because the pushee is expired).
StillStaging(p) == Pushee(p).status = "STAGING" /\ ~ KnownHigher(p)
PushIndeterminate(p) ==
    /\ StillStaging(p)
    /\ GoProbe(p, Pushee(p)) /\ UNCHANGED <<record, promised>>
PushAbort(p) ==
    /\ Pushee(p).status \notin Finalized /\ ~ StillStaging(p)
    /\ rec' = IF rec.status = "none" THEN rec ELSE Known(p, "ABORTED")
    /\ MarkPushed(Known(p, "ABORTED")) /\ UNCHANGED promised
    /\ GoResolve(p, Known(p, "ABORTED"))
PushTimestamp(p, to) ==
    /\ Pushee(p).status = "PENDING" /\ to > Pushee(p).ts
    /\ LET txn == Rec("PENDING", Known(p, "PENDING").epoch, Forward(Known(p, "PENDING").ts, to))
       IN  MarkPushed(txn) /\ GoResolve(p, txn)
    /\ promised' = Forward(promised, to) /\ UNCHANGED rec

PushTxn(p) ==
    /\ ppc[p] = "push"
    /\ \/ PushFinalized(p)
       \/ PushLoses(p)
       \/ PushIndeterminate(p)
       \/ PushAbort(p)
       \/ \E to \in Times : PushUnneeded(p, to) \/ PushTimestamp(p, to)
    /\ UNCHANGED <<store, coord, net, left>>

\* mvccResolveWriteIntent
ResolveIntent(k, txn) ==
    LET i == intent[k]
        commit == txn.status = "COMMITTED" /\ i.epoch = txn.epoch /\ i.ts <= txn.ts
        inProgress == txn.status \notin Finalized /\ i.epoch >= txn.epoch
    IN  /\ value' = IF HasIntent(k) /\ commit THEN [value EXCEPT ![k] = txn.ts] ELSE value
        /\ intent' = IF ~ HasIntent(k) THEN intent
                     ELSE IF inProgress
                          THEN [intent EXCEPT ![k] = Intent(i.epoch, Forward(i.ts, txn.ts))]
                          ELSE [intent EXCEPT ![k] = NoIntent]
        /\ UNCHANGED readTs
Resolve(p) ==
    /\ ppc[p] = "resolve"
    /\ ResolveIntent(seen[p].key, work[p])
    /\ GoIdle(p)
    /\ UNCHANGED <<record, coord, net, promised, left>>
\* The intents a finalized record points at are resolved asynchronously.
ResolveFromRecord(k) ==
    /\ rec.status \in Finalized /\ HasIntent(k)
    /\ ResolveIntent(k, rec)
    /\ UNCHANGED <<record, coord, net, pusher, promised, left>>
\* A record is removed when its intents are resolved; an aborted one also by age.
GcRecord ==
    /\ \/ rec.status = "ABORTED"
       \/ rec.status = "COMMITTED" /\ \A k \in Key : value[k] # 0 \/ ~ HasIntent(k)
    /\ rec' = NoRec
    /\ UNCHANGED <<tomb, push, store, coord, net, pusher, promised, left>>

-----------------------------------------------------------------------------
(* Recovery of an indeterminate commit.                                    *)

RecoverForRollback(p) ==
    /\ ppc[p] = "idle" /\ MayStart
    /\ \E m \in net : m.op = "abort" /\ RollbackIndeterminate(m)
    /\ GoProbe(p, rec)
    /\ UNCHANGED <<record, store, coord, net, promised, left>>
\* Mutant: an intent at a higher timestamp counts as the write.
QueryIntentFindsAny(k, txn) == HasIntent(k) /\ intent[k].epoch = txn.epoch
QueryIntentFinds(k, txn) ==
    HasIntent(k) /\ intent[k].epoch = txn.epoch /\ intent[k].ts <= txn.ts
Probed(p, what, result) ==
    /\ todo' = [todo EXCEPT ![p] = @ \ {what}]
    /\ found' = [found EXCEPT ![p] = @ \cup result]
    /\ UNCHANGED <<ppc, seen, work>>
QueryIntent(p, k) ==
    /\ ppc[p] = "probe" /\ k \in todo[p]
    /\ IF QueryIntentFinds(k, work[p])
       THEN Probed(p, k, {}) /\ UNCHANGED store
       ELSE Probed(p, k, {"missing"}) /\ MarkRead(k, work[p].ts)
    /\ UNCHANGED <<record, coord, net, promised, left>>
QueryTxn(p) ==
    /\ ppc[p] = "probe" /\ TheRecord \in todo[p]
    /\ LET txn == Lookup(work[p].epoch, work[p].ts)
           changed == \/ txn.status \in Finalized
                      \/ txn.epoch > work[p].epoch
                      \/ txn.ts > work[p].ts
       IN  Probed(p, TheRecord, IF changed THEN {"changed"} ELSE {})
    /\ UNCHANGED <<record, store, coord, net, promised, left>>

\* Back to the request that found the commit indeterminate.
GoBack(p) ==
    IF seen[p].ts = 0 THEN GoIdle(p)
    ELSE /\ ppc' = [ppc EXCEPT ![p] = "push"]
         /\ work' = [work EXCEPT ![p] = NoRec]
         /\ todo' = [todo EXCEPT ![p] = {}]
         /\ found' = [found EXCEPT ![p] = {}]
         /\ UNCHANGED seen
ProbesDone(p) ==
    /\ ppc[p] = "probe" /\ todo[p] = {}
    /\ IF "changed" \in found[p]
       THEN GoBack(p)
       ELSE /\ ppc' = [ppc EXCEPT ![p] = "recover"]
            /\ UNCHANGED <<seen, work, todo, found>>
    /\ UNCHANGED <<record, store, coord, net, promised, left>>

Prevented(p) == "missing" \in found[p]
\* Mutant: a record that did not change counts as changed.
LegalChangeAtSame(p) == rec.epoch >= work[p].epoch \/ rec.ts > work[p].ts
LegalChange(p) == rec.epoch > work[p].epoch \/ rec.ts > work[p].ts
\* "programming error" returns of RecoverTxn
RecoverFails(p) ==
    \/ rec.status = "none" /\ CanCreateTxnRecord
    \/ ~ Prevented(p) /\ rec.status \in {"PENDING", "ABORTED"}
    \/ /\ ~ Prevented(p) /\ rec.status \in {"STAGING", "COMMITTED"}
       /\ rec.epoch # work[p].epoch \/ rec.ts # work[p].ts
    \/ Prevented(p) /\ rec.status = "PENDING" /\ rec.epoch <= work[p].epoch
RecoverFinalizes(p) ==
    /\ rec.status = "STAGING" /\ ~ RecoverFails(p)
    /\ Prevented(p) => ~ LegalChange(p)
RecoverTxn(p) ==
    /\ ppc[p] = "recover"
    /\ IF RecoverFinalizes(p)
       THEN WriteRec(IF Prevented(p) THEN "ABORTED" ELSE "COMMITTED", rec.epoch, rec.ts)
       ELSE UNCHANGED record
    /\ IF RecoverFails(p) THEN GoIdle(p) ELSE GoBack(p)
    /\ UNCHANGED <<store, coord, net, promised, left>>

-----------------------------------------------------------------------------
Evaluate ==
    \/ \E m \in net : Put(m)
    \/ \E m \in net : QueryOwnIntent(m)
    \/ \E m \in net : CommitTxn(m)
    \/ \E m \in net : RollbackTxn(m)
Coordinator ==
    \/ \E k \in Key : PipelineWrite(k)
    \/ SendParallelCommit
    \/ \E k \in Key : ResendKey(k)
    \/ ResendEndTxn
    \/ \E k \in Key : GiveUpKey(k)
    \/ GiveUpEndTxn
    \/ ParallelCommitReplies
    \/ RefreshAndRetry
    \/ PrefixReplies
    \/ EndTxnReply
    \/ RefreshEndTxn
    \/ Restart
    \/ Rollback
    \/ HeartbeatTxn
Others(p) ==
    \/ \E k \in Key : Encounter(p, k)
    \/ PushTxn(p)
    \/ Resolve(p)
    \/ RecoverForRollback(p)
    \/ \E k \in Key : QueryIntent(p, k)
    \/ QueryTxn(p)
    \/ ProbesDone(p)
    \/ RecoverTxn(p)
Background ==
    \/ MoveLease
    \/ \E k \in Key : BumpKey(k)
    \/ \E k \in Key : ResolveFromRecord(k)
    \/ GcRecord

Next == Evaluate \/ Coordinator \/ Background \/ \E p \in Pusher : Others(p)
Spec == Init /\ [][Next]_vars

\* A transaction that waits on an intent keeps pushing (the lock table's waiter
\* and the transaction wait queue poll), and once the coordinator's heartbeats
\* have stopped for TxnLivenessThreshold a push of any priority wins.  Nothing is
\* assumed of the coordinator or of the asynchronous tasks.
PushWins(p) ==
    /\ ppc[p] = "push"
    /\ PushFinalized(p) \/ PushIndeterminate(p) \/ PushAbort(p)
    /\ UNCHANGED <<store, coord, net, left>>
Contention(p) ==
    /\ WF_vars(\E k \in Key : Encounter(p, k))
    /\ SF_vars(PushWins(p))
    /\ WF_vars(Resolve(p))
    /\ WF_vars(\E k \in Key : QueryIntent(p, k))
    /\ WF_vars(QueryTxn(p))
    /\ WF_vars(ProbesDone(p))
    /\ WF_vars(RecoverTxn(p))
ContendedSpec == Spec /\ \A p \in Pusher : Contention(p)

-----------------------------------------------------------------------------
(* Properties.                                                             *)

\* The write the record names is there, at or below the record's timestamp.
Written(k) ==
    intent[k].ts # 0 /\ intent[k].epoch = rec.epoch /\ intent[k].ts <= rec.ts
ImplicitlyCommitted == rec.status = "STAGING" /\ \A k \in Key : Written(k)
Committed ==
    ImplicitlyCommitted \/ rec.status = "COMMITTED" \/ \E k \in Key : value[k] # 0
CommitTs ==
    IF rec.status \in {"STAGING", "COMMITTED"} THEN rec.ts
    ELSE Max({value[k] : k \in Key})

\* All of the transaction's writes become visible or none does, and all at one
\* timestamp: a committed record has a resolved value or an intent that will
\* resolve to one on every key, and a record is removed only when all are.
AtomicCommit ==
    /\ rec.status = "COMMITTED" =>
         \A k \in Key : value[k] = rec.ts \/ (value[k] = 0 /\ Written(k))
    /\ rec.status # "COMMITTED" =>
         \/ \A k \in Key : value[k] = 0
         \/ \E t \in Ts : \A k \in Key : value[k] = t

\* The coordinator never goes on with, retries or reports as aborted a
\* transaction that is committed: what TxnCoordSender calls "transaction
\* unexpectedly committed".
NotUnexpectedlyCommitted ==
    told = "aborted" \/ pc \in {"run", "retry", "restart", "prefix", "again"}
        => ~ Committed

\* RecoverTxn never meets one of its "programming error"s: "once implicitly
\* committed, the transaction should never move back to the PENDING status and it
\* should never be ABORTED", for records "that are GCed after being COMMITTED are
\* never re-written as ABORTED".
RecoveryNeverFails == \A p \in Pusher : ppc[p] = "recover" => ~ RecoverFails(p)

\* A recovery that found every in-flight write finds that commit, in the record or
\* resolved on every key.  It meets a "programming error" of RecoverTxn only when
\* the client rolled back a commit an error had left undecided: then the record may
\* have been written again as ABORTED after it was removed, and the values stand.
RecoveryFindsTheCommit ==
    \A p \in Pusher : ppc[p] = "recover" =>
        /\ ~ Prevented(p) =>
             \/ /\ rec.status \in {"STAGING", "COMMITTED"}
                /\ rec.epoch = work[p].epoch /\ rec.ts = work[p].ts
             \/ \A k \in Key : value[k] = work[p].ts
        /\ RecoverFails(p) =>
             /\ told = "error" /\ rec.status = "ABORTED"
             /\ \A k \in Key : value[k] = work[p].ts

\* After the commit was acknowledged, the EndTxn that makes it explicit is never
\* refused with a retry error, whatever happened to the record's range meanwhile:
\* what the committer logs as "unexpected retry error when making commit explicit".
ExplicitCommitSucceeds ==
    told = "committed" =>
        \A m \in net : m.op = "commit" /\ m.rts = wts /\ EndTxnMayCommit(m)
                         => ~ IsEndTxnTriggeringRetryError(m)

\* The protocol implements a transaction that commits at one instant: the moment
\* the last of the STAGING record and the writes it names is in place.
Abs == INSTANCE AtomicTransaction WITH
    commitTs <- IF Committed THEN CommitTs ELSE 0,
    floor    <- promised,
    ackTs    <- IF told = "committed" THEN wts ELSE 0
ImplementsAtomicTransaction == Abs!Spec

\* What an abandoned transaction leaves behind is cleaned up by whoever runs into
\* it, with no help from its coordinator or from the asynchronous clean-up tasks.
IntentsCleanedUp == \A k \in Key : HasIntent(k) ~> ~ HasIntent(k)
=============================================================================
