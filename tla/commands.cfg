\* One part at a time, each with the bounds that its own state space allows.
\* A command ends, and a parser may stop at an error.
CONSTANTS
  Parts = {"parser", "imports", "walk", "merge", "protos", "project", "dao", "migrate"}
  MaxOpen = 3
  MaxIdle = 19
  File = {root, fa, fb, fc}
  Root = root
  Syntax = {v1, v2}
  MaxImports = 4
  Function = {logic, f, g, io, mock}
  LogicEntry = logic
  IOCall = {io}
  Foreign = {mock}
  Depth = 2
  MaxCalls = 6
  MaxNested = 3
  MaxBraces = 3
  MaxOddities = 2
  ProtoFile = {source, pa, pb1}
  Source = source
  ImportName = {n1, n2, n3, google}
  WellKnown = {google}
  MaxStatements = 4
  Rpc = {r1, r2}
  Group = {user}
  Lowered <- TheLowered
  MaxEdits = 2
  MaxFaults = 2
  Worker = {w1, w2}
  Id = {i1, i2}
  Key = {k1, k2}
  Val = {x1, x2}
  MaxDaoCalls = 6
  GoFile = {f1, f2}
  MaxStops = 2
SPECIFICATION Spec
INVARIANTS TypesOK ParserSound CyclesRefused EachFileOnce OneSyntax ChainsAreCalls CompleteUnlessCut LossHasACause HandedToProtoc ServerFindsLogic DeletedKeepsContents MigratedWhole
CHECK_DEADLOCK FALSE
