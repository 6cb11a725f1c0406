-------------------------- MODULE AtomicTransaction --------------------------
(***************************************************************************)
(* What the key-value layer promises of one transaction, without records,  *)
(* intents, recovery or retries: it commits at most once, at one instant   *)
(* and one timestamp; that timestamp is not below what any contending      *)
(* transaction was told it may read at; and what the client is told is     *)
(* true when it is told and stays true.                                    *)
(***************************************************************************)
EXTENDS Naturals

CONSTANT MaxTs      \* bound on timestamps

VARIABLES
    commitTs,   \* the timestamp the transaction committed at, or 0
    floor,      \* contending transactions may read up to this timestamp
    told,       \* what the client has been told
    ackTs       \* the commit timestamp the client was told, or 0

vars == <<commitTs, floor, told, ackTs>>

Ts == 1 .. MaxTs

Init == commitTs = 0 /\ floor = 0 /\ told = "nothing" /\ ackTs = 0

\* The transaction commits, unless the client was told that it will not.
Commit(t) ==
    /\ commitTs = 0 /\ told # "aborted"
    /\ t >= floor
    /\ commitTs' = t
    /\ UNCHANGED <<floor, told, ackTs>>

\* A contending transaction is told that nothing will commit below t any more.
Promise(t) ==
    /\ t > floor
    /\ commitTs # 0 => t <= commitTs
    /\ floor' = t
    /\ UNCHANGED <<commitTs, told, ackTs>>

Acknowledge ==
    /\ commitTs # 0 /\ told = "nothing"
    /\ told' = "committed" /\ ackTs' = commitTs
    /\ UNCHANGED <<commitTs, floor>>

ReportAborted ==
    /\ commitTs = 0 /\ told = "nothing"
    /\ told' = "aborted"
    /\ UNCHANGED <<commitTs, floor, ackTs>>

\* An ambiguous result: committed or not, and it may still commit.
ReportError ==
    /\ told = "nothing" /\ told' = "error"
    /\ UNCHANGED <<commitTs, floor, ackTs>>

Next ==
    \/ \E t \in Ts : Commit(t) \/ Promise(t)
    \/ Acknowledge \/ ReportAborted \/ ReportError

Spec == Init /\ [][Next]_vars
==============================================================================
