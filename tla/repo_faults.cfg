\* Everything may fail: three goroutines in two processes, one row, one write;
\* fair scheduling and expiry.
CONSTANTS
  n1 = n1
  n2 = n2
  c1 = c1
  c2 = c2
  c3 = c3
  Key = {k1}
  Node = {n1, n2}
  Client = {c1, c2, c3}
  Home <- HomeOfThree
  MaxVersion = 2
  Faults = {"get", "setex", "del", "load", "late", "lost", "commit", "slow", "crash"}
SPECIFICATION ExpirySpec
INVARIANTS NoDirtyRead
PROPERTIES OnlyFaultsUncover ImplementsContract ReadsReturn Settles
