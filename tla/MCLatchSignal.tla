--------------------------- MODULE MCLatchSignal ---------------------------
EXTENDS LatchSignal
=============================================================================
