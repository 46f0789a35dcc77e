\* Two goroutines of one process, two rows, written alone and together; no
\* fault and no expiry.
CONSTANTS
  n1 = n1
  n2 = n2
  c1 = c1
  c2 = c2
  c3 = c3
  Key = {k1, k2}
  Node = {n1}
  Client = {c1, c2}
  Home <- HomeOfTwo
  MaxVersion = 3
  Faults = {}
SPECIFICATION Spec
INVARIANTS StaleIsCovered BoxMatches
