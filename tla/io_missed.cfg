\* Four functions of the project, no deeper than three.
CONSTANTS
  Parts = {"walk"}
  MaxOpen = 3
  MaxIdle = 19
  File = {root, fa, fb, fc}
  Root = root
  Syntax = {v1, v2}
  MaxImports = 4
  Function = {logic, f, g, h}
  LogicEntry = logic
  IOCall = {}
  Foreign = {}
  Depth = 3
  MaxCalls = 6
  MaxNested = 3
  MaxBraces = 3
  MaxOddities = 2
  ProtoFile = {source, pa, pb1}
  Source = source
  ImportName = {n1, n2, n3, google}
  WellKnown = {google}
  MaxStatements = 4
  Rpc = {r1, r2}
  Group = {user}
  Lowered <- TheLowered
  MaxEdits = 2
  MaxFaults = 2
  Worker = {w1, w2}
  Id = {i1, i2}
  Key = {k1, k2}
  Val = {x1, x2}
  MaxDaoCalls = 6
  GoFile = {f1, f2}
  MaxStops = 2
SPECIFICATION Spec
INVARIANT ReachesItsDepth
CHECK_DEADLOCK FALSE
