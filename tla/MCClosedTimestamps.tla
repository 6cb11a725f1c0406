-------------------------- MODULE MCClosedTimestamps --------------------------
EXTENDS ClosedTimestamps, TLC

Setting(x, t, l, c, n, k, b, f, lc, sf) ==
    [firstExp |-> x, maxTs |-> t, maxLog |-> l, maxCmds |-> c, maxLeases |-> n,
     maxTicks |-> k, maxBatch |-> b, maxFaults |-> f, leaderChange |-> lc,
     stepFails |-> sf]
\* Two writes under one lease; a write among leases; a write among faults.
ReplicatedWrites == Setting(2, 2, 4, 2, 0, 1, 2, 0, FALSE, FALSE)
LeaseChanges == Setting(1, 3, 3, 1, 2, 0, 1, 0, FALSE, FALSE)
ReplicaFaults == Setting(2, 2, 3, 1, 1, 1, 2, 2, FALSE, TRUE)
Settings == {ReplicatedWrites, LeaseChanges, ReplicaFaults}
\* A write, and a snapshot with news of a new leader.
SnapshotSettings == {Setting(2, 2, 4, 1, 0, 0, 2, 1, TRUE, FALSE)}
\* Two writes, one of them registered by a flush that failed and refreshed twice.
RefusedSettings == {Setting(4, 3, 3, 2, 0, 2, 2, 1, FALSE, TRUE)}

Perms == Permutations(Cmd)
=============================================================================
