-------------------------- MODULE MCLockFreeTracker --------------------------
EXTENDS LockFreeTracker
==============================================================================
