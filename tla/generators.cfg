\* One part at a time, each with the bounds that its own state space allows.
\* A command ends, and a scanner stops at an error.
CONSTANTS
  Parts = {"scanner", "analyzer", "apigo", "format", "desc", "plan", "daosql", "model"}
  MaxUnits = 3
  TypeName = {"A", "B"}
  BodyType = {"A"}
  ServiceName = {"s", "s-api"}
  AtServer <- TheAt
  RoutePath <- ThePaths
  Handler = {"h", "k"}
  MaxDeclarations = 3
  MaxServices = 2
  Route = {r1, r2}
  Type = {"A"}
  Servers <- TheServers
  MaxApiEdits = 2
  MaxApiKills = 1
  Trees <- TheTrees
  MaxMarks = 1
  DescOp = {"Create", "Delete"}
  DescLines = 6
  MaxParams = 2
  Column = {"id", "a"}
  PrimaryKey = "id"
  MaxTerms = 2
  MaxSqlFaults = 1
  MaxSqlRuns = 2
  Caller = {c1, c2}
  Primary = {p1, p2}
  Unique = {u1, u2}
  MaxModelCalls = 3
SPECIFICATION Spec
INVARIANTS PartsTypeOK InStep SpecWellFormed AddingKeepsCompiling AddsWhatIsMissing WritesAccounted MethodsFollowSql StaleNeedsOverlap 
SYMMETRY Symmetry
CHECK_DEADLOCK FALSE
