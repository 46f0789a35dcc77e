\* One fault kind: late.
CONSTANTS
  n1 = n1
  n2 = n2
  c1 = c1
  c2 = c2
  c3 = c3
  Key = {k1}
  Node = {n1}
  Client = {c1, c2}
  Home <- HomeOfTwo
  MaxVersion = 2
  Faults = {"late"}
SPECIFICATION Spec
PROPERTY WritesInvalidate
