---------------------------- MODULE MCEpochLease ----------------------------
EXTENDS EpochLease

CONSTANTS a, b
\* An epoch lease whose holder misses heartbeats.
EpochBased ==
    [firstKind |-> "epoch", firstTime |-> 0, steady |-> {b}, duration |-> 2, lead |-> 0,
     kind |-> "epoch", mayTransfer |-> FALSE, otherRanges |-> TRUE,
     maxTime |-> 4, maxLeases |-> 2, maxRestarts |-> 0]
\* One whose holder restarts, and a lease for each of the nodes after that.
Restarted ==
    [EpochBased EXCEPT !.otherRanges = FALSE, !.maxTime = 3, !.maxLeases = 3, !.maxRestarts = 1]
\* Expiration leases that are extended and transferred before they expire, with
\* reads in the future.
Transferred ==
    [firstKind |-> "expiration", firstTime |-> 0, steady |-> {a, b}, duration |-> 4, lead |-> 1,
     kind |-> "expiration", mayTransfer |-> TRUE, otherRanges |-> FALSE,
     maxTime |-> 3, maxLeases |-> 3, maxRestarts |-> 0]
\* A transferred lease that is to be promoted, while another range's request may
\* increment its holder's epoch.
Promoted ==
    [firstKind |-> "expiration", firstTime |-> 2, steady |-> {b}, duration |-> 2, lead |-> 0,
     kind |-> "epoch", mayTransfer |-> FALSE, otherRanges |-> TRUE,
     maxTime |-> 4, maxLeases |-> 3, maxRestarts |-> 0]
\* An epoch lease of a range that is to have expiration leases from now on.
Demoted ==
    [firstKind |-> "epoch", firstTime |-> 0, steady |-> {b}, duration |-> 2, lead |-> 0,
     kind |-> "expiration", mayTransfer |-> FALSE, otherRanges |-> FALSE,
     maxTime |-> 3, maxLeases |-> 3, maxRestarts |-> 0]
Settings == {EpochBased, Restarted, Transferred, Promoted, Demoted}

RestartedOnly == {Restarted}
\* A holder that restarts twice while its record is live.
RestartedTwice == [Restarted EXCEPT !.duration = 8, !.maxTime = 4, !.maxRestarts = 2]
RestartedTwiceOnly == {RestartedTwice}
PromotedOnly == {Promoted}
DemotedOnly == {Demoted}
=============================================================================
