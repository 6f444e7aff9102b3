------------------------------ MODULE MCLWLock ------------------------------
EXTENDS LWLock

CONSTANT p1

\* One wakeup, of one process, from elsewhere.
OneSignal == [p \in Procs |-> IF p = p1 THEN 1 ELSE 0]
=============================================================================
