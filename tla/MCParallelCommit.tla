-------------------------- MODULE MCParallelCommit --------------------------
EXTENDS ParallelCommit, TLC

Use(t, r, p, f) == [ts |-> t, restarts |-> r, pushers |-> p, faults |-> f]
\* The whole protocol; the protection of replays, which takes two faults in one
\* attempt; recoveries that race; a transaction that was pushed and refreshed and is
\* pushed once more; and recoveries of a commit an error left undecided.
Restarted == Use(2, 1, 1, 1)
Replayed == Use(2, 0, 1, 2)
RecoveredTwice == Use(2, 0, 2, 0)
PushedAgain == Use(3, 0, 1, 0)
Undecided == Use(1, 0, 2, 1)
AllBudgets == {Restarted, Replayed, RecoveredTwice, PushedAgain, Undecided}
RestartedOnly == {Restarted}
AbandonedOnly == {Use(2, 0, 1, 1)}
UndecidedOnly == {Undecided}

Perms == Permutations(Pusher)
=============================================================================
