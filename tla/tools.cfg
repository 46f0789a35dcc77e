\* One part at a time, each with the bounds that its own state space allows.
\* A command ends when it has written its report or its files.
CONSTANTS
  Parts = {"scan", "loops", "sql", "redis", "mocks", "clients", "names", "rpc", "enums", "doc"}
  LintIssue <- TheIssues
  MaxScans = 2
  MaxProblems = 1
  MaxUnready = 1
  Method <- TheMethods
  MaxSites = 2
  SqlColumn = {"deleted_at"}
  MaxChains = 2
  MaxDecls = 2
  MaxLines = 2
  Param <- TheParams
  Results <- TheResults
  MaxMethods = 2
  ApiField <- TheFields
  MaxClientChanges = 1
  NameLetter = {"a", "s", "A", "_", "1"}
  MaxLetters = 5
  ServiceName <- TheServices
  Rpc <- TheRpcs
  MaxRpcs = 2
  EnumName <- TheEnumNames
  EnumValue <- TheEnumValues
  MaxEnumLines = 6
  DocName = {"A", "B"}
  DocField <- TheDocFields
  MaxDocLines = 5
SPECIFICATION Spec
INVARIANTS ToolsTypeOK FindingsKnown ClientsKnown GeneratedFits
PROPERTIES ScanTruthful
CHECK_DEADLOCK FALSE
