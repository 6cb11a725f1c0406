---------------------------- MODULE LatchSignal ----------------------------
(***************************************************************************)
(* spanlatch's signal and idempotentSignal: the one-shot event on which    *)
(* requests wait for a latch to be released (done) or poisoned (poison).   *)
(*                                                                         *)
(* The signal is an atomic word and an atomic pointer to a channel, which  *)
(* the first waiter allocates.  Signallers and waiters coordinate without  *)
(* a lock, so that exactly one of them closes the channel, if there is     *)
(* one.  Every step below is one atomic operation of sync/atomic, or the   *)
(* close of a channel.  A channel is named after the waiter that made it.  *)
(***************************************************************************)
EXTENDS Integers

CONSTANTS
    Signallers,     \* goroutines that call signal
    Waiters,        \* goroutines that call signalChan
    Idempotent,     \* TRUE for idempotentSignal
    nil,            \* no channel
    closedC         \* the channel that is closed at init

\* Latches are released once, and poisoned by everybody who finds out.
ASSUME SignalAssumption ==
    /\ Signallers \cap Waiters = {}
    /\ nil \notin Waiters /\ closedC \notin Waiters /\ nil # closedC
    /\ Idempotent \in BOOLEAN
    /\ Idempotent \/ \A s, t \in Signallers : s = t

Procs == Signallers \cup Waiters

VARIABLES
    a,          \* 0: noSig, 1: sig, 2: sigClosed
    c,          \* the channel, nil until a waiter makes it
    closed,     \* the channels that were closed
    panics,     \* 1 if a goroutine has panicked
    at,         \* at[p]: the atomic operation p is about to do
    ptr         \* ptr[p]: what p loaded, or returned, as the channel

signalVars == <<a, c, closed, panics, at, ptr>>

SignallerPC == {"signal", "load", "claim", "close", "returned"}
WaiterPC == {"check", "get", "install", "reget", "claim", "close", "returned"}

\* Every variable stays in its range; no channel but a waiter's is installed or
\* closed, in particular not nil.
SignalTypeOK ==
    /\ a \in 0..2 /\ c \in Waiters \cup {nil}
    /\ closed \in SUBSET Waiters /\ panics \in 0..1
    /\ at \in [Procs -> SignallerPC \cup WaiterPC]
    /\ \A s \in Signallers : at[s] \in SignallerPC
    /\ \A w \in Waiters : at[w] \in WaiterPC
    /\ ptr \in [Procs -> Waiters \cup {nil, closedC}]

SignalInit ==
    /\ a = 0 /\ c = nil /\ closed = {} /\ panics = 0
    /\ at = [p \in Procs |-> IF p \in Signallers THEN "signal" ELSE "check"]
    /\ ptr = [p \in Procs |-> nil]

Goto(p, l) == at' = [at EXCEPT ![p] = l]
Keep(p, ch) == ptr' = [ptr EXCEPT ![p] = ch]

-----------------------------------------------------------------------------
(* Closing the channel: whoever moves the word from sig to sigClosed.      *)

\* Mutant: whoever sees that it was signalled.
ClaimedSeen == a # 0
\* Mutant: whoever comes first, signalled or not.
ClaimedFirst == a # 2
Claimed == a = 1
Claim(p, ch) ==
    /\ \/ Claimed /\ a' = 2 /\ Goto(p, "close")
       \/ ~ Claimed /\ UNCHANGED a /\ Goto(p, "returned")
    /\ Keep(p, ch)
    /\ UNCHANGED <<c, closed, panics>>
\* close(c) panics if the channel is closed.
Close(p) ==
    /\ at[p] = "close" /\ Goto(p, "returned")
    /\ panics' = (IF ptr[p] \in closed THEN 1 ELSE panics)
    /\ closed' = closed \cup {ptr[p]}
    /\ UNCHANGED <<a, c, ptr>>

-----------------------------------------------------------------------------
(* signalWithChoice.                                                       *)

Signal(s) ==
    /\ at[s] = "signal"
    /\ \/ a = 0 /\ a' = 1 /\ Goto(s, "load") /\ UNCHANGED panics
       \/ a # 0 /\ Goto(s, "returned") /\ panics' = (IF Idempotent THEN panics ELSE 1)
          /\ UNCHANGED a
    /\ UNCHANGED <<c, closed, ptr>>
AfterLoad == IF c = nil THEN "returned" ELSE "claim"
LoadChan(s) ==
    /\ at[s] = "load" /\ Keep(s, c) /\ Goto(s, AfterLoad)
    /\ UNCHANGED <<a, c, closed, panics>>
ClaimBySignal(s) == at[s] = "claim" /\ Claim(s, ptr[s])

-----------------------------------------------------------------------------
(* signalChan.                                                             *)

\* signaled()
Check(w) ==
    /\ at[w] = "check"
    /\ \/ a > 0 /\ Keep(w, closedC) /\ Goto(w, "returned")
       \/ a = 0 /\ UNCHANGED ptr /\ Goto(w, "get")
    /\ UNCHANGED <<a, c, closed, panics>>
Get(w) ==
    /\ at[w] = "get" /\ Keep(w, c)
    /\ Goto(w, IF c = nil THEN "install" ELSE "returned")
    /\ UNCHANGED <<a, c, closed, panics>>
MayInstall == c = nil
\* Mutant: the waiter that installed the channel does not look at the word again.
AfterInstallReturn == "returned"
AfterInstall == "claim"
Install(w) ==
    /\ at[w] = "install"
    /\ \/ MayInstall /\ c' = w /\ Keep(w, w) /\ Goto(w, AfterInstall)
       \/ ~ MayInstall /\ UNCHANGED <<c, ptr>> /\ Goto(w, "reget")
    /\ UNCHANGED <<a, closed, panics>>
Reget(w) ==
    /\ at[w] = "reget" /\ Keep(w, c) /\ Goto(w, "returned")
    /\ UNCHANGED <<a, c, closed, panics>>
ClaimByWaiter(w) == at[w] = "claim" /\ Claim(w, ptr[w])

-----------------------------------------------------------------------------
SignallerStep(s) == Signal(s) \/ LoadChan(s) \/ ClaimBySignal(s) \/ Close(s)
WaiterStep(w) ==
    Check(w) \/ Get(w) \/ Install(w) \/ Reget(w) \/ ClaimByWaiter(w) \/ Close(w)
SignalNext ==
    \/ \E s \in Signallers : SignallerStep(s)
    \/ \E w \in Waiters : WaiterStep(w)

SignalSpec == SignalInit /\ [][SignalNext]_signalVars
\* None of the steps blocks.
FairSignalSpec ==
    /\ SignalSpec
    /\ \A s \in Signallers : WF_signalVars(SignallerStep(s))
    /\ \A w \in Waiters : WF_signalVars(WaiterStep(w))

-----------------------------------------------------------------------------
(* Properties.                                                             *)

\* The waiter has its channel, and a receive from it would not block.
Woken(w) == at[w] = "returned" /\ ptr[w] \in closed \cup {closedC}

\* Nobody closes a closed channel or signals twice: either is a panic that takes
\* the node down.
NoPanic == panics = 0

\* All waiters that must wait for the signal wait on the channel that the
\* signaller can find.
OneChannel == \A w \in Waiters : at[w] = "returned" => ptr[w] \in {c, closedC}

\* Nobody is woken before a signaller has given the signal.
NoEarlyWakeup ==
    (\E w \in Waiters : Woken(w)) => \E s \in Signallers : at[s] # "signal"

\* No wakeup is lost: when the word is set and nobody is on the way to closing
\* the channel any more, all waiters that got a channel are awake.
NoLostWakeup ==
    \/ a = 0
    \/ \E p \in Procs : at[p] \in {"load", "claim", "close"}
    \/ \A w \in Waiters : at[w] = "returned" => Woken(w)

\* Once the signal was given, every waiter is awake in the end.
SignalWakes == \A w \in Waiters : (a # 0) ~> Woken(w)

\* The inductive invariant.  InstallerOwns and LoadersAgree: who is about to claim
\* or close has the one channel there is.  SomeoneClaims: while the word is sig
\* and there is a channel, someone is still to look at both.  OneCloser: sigClosed
\* means that the channel is closed or that exactly one is about to do so.
InstallerOwns ==
    /\ \A w \in Waiters : at[w] \in {"claim", "close"} => c = w /\ ptr[w] = w
    /\ \A w \in Waiters : at[w] = "reget" => c # nil
    /\ \A w \in Waiters : at[w] = "returned" => ptr[w] = closedC \/ (ptr[w] = c /\ c # nil)
LoadersAgree ==
    /\ \A s \in Signallers : at[s] \in {"claim", "close"} => ptr[s] = c /\ c # nil
    /\ \A s \in Signallers : at[s] # "signal" => a # 0
SomeoneClaims ==
    a = 1 /\ c # nil =>
        \/ \E s \in Signallers : at[s] \in {"load", "claim"}
        \/ at[c] = "claim"
OneCloser ==
    /\ a # 2 => closed = {} /\ \A p \in Procs : at[p] # "close"
    /\ a = 2 => c # nil
    /\ a = 2 => \/ closed = {c} /\ \A p \in Procs : at[p] # "close"
                \/ closed = {} /\ \E p \in Procs : at[p] = "close" /\ \A q \in Procs : at[q] = "close" => q = p
OneSignaller ==
    /\ panics = 0
    /\ a # 0 => \E s \in Signallers : at[s] # "signal"
    /\ \A w \in Waiters : at[w] = "returned" /\ ptr[w] = closedC => a # 0
SignalIInv ==
    SignalTypeOK /\ InstallerOwns /\ LoadersAgree /\ SomeoneClaims /\ OneCloser /\ OneSignaller
=============================================================================
