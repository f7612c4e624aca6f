------------------------------- MODULE MCLocks -------------------------------
EXTENDS Locks
CONSTANTS g, h, x, y, a, b
=============================================================================
