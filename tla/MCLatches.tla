----------------------------- MODULE MCLatches -----------------------------
EXTENDS Latches, TLC

CONSTANTS w1, w2, rd, op
Sp(c, k, w, t) == [scope |-> c, key |-> k, write |-> w, ts |-> t]
\* Two writes, a read and an optimistic read, at equal and at different
\* timestamps; the second write also has a local key that the read has.
MixedSpans ==
    w1 :> {Sp("global", 1, TRUE, 2)} @@
    w2 :> {Sp("global", 1, TRUE, 1), Sp("local", 1, TRUE, 0)} @@
    rd :> {Sp("global", 1, FALSE, 1), Sp("local", 1, FALSE, 0)} @@
    op :> {Sp("global", 1, FALSE, 2), Sp("global", 2, FALSE, 2)}
MixedPolicy == w1 :> "wait" @@ w2 :> "wait" @@ rd :> "error" @@ op :> "error"
=============================================================================
