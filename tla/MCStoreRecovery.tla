-------------------------- MODULE MCStoreRecovery --------------------------
(***************************************************************************)
(* StoreRecovery for TLC: node 1 of three, the same node redeployed as a   *)
(* two-node cluster, and the same node with automatic recovery disabled.   *)
(***************************************************************************)
EXTENDS StoreRecovery

Node1Of3 == [node |-> 1, count |-> 3, hosts |-> 1]
Node1Of2 == [node |-> 1, count |-> 2, hosts |-> 1]

MCConfig == {[topo |-> Node1Of3, auto |-> TRUE],
             [topo |-> Node1Of3, auto |-> FALSE],
             [topo |-> Node1Of2, auto |-> TRUE]}
=============================================================================
