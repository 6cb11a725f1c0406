-------------------------- MODULE MCTxnWaitQueue --------------------------
EXTENDS TxnWaitQueue, TLC

CONSTANTS c1, c2, c3, p1, p2, n1
SamePri == [t \in Txn |-> 1]
\* 1 waits for 3, 3 for 2 and 2 for 1: two of the three pushes may break it.
Cycle == {c1, c2, c3}
\* 1 and 2 wait for each other.
Pair == {p1, p2}
\* Two pushes of 1, one of them by a request that has no transaction.
SamePushee == {p2, n1}
PusherOf == c1 :> 1 @@ c2 :> 3 @@ c3 :> 2 @@ p1 :> 1 @@ p2 :> 2 @@ n1 :> NoTxn
PusheeOf == c1 :> 3 @@ c2 :> 2 @@ c3 :> 1 @@ p1 :> 2 @@ p2 :> 1 @@ n1 :> 1
\* A cycle that is left alone, and the two others, each disturbed once.
CycleAndPairs == {[pushes |-> Cycle, disturbances |-> 0], [pushes |-> Pair, disturbances |-> 1],
                  [pushes |-> SamePushee, disturbances |-> 1]}
=============================================================================
