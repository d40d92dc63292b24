SPECIFICATION Spec
CONSTANTS
  Lexer <- MCLexer
  MaxCaptures = 32
  Zero = "0"
  BufferSize = 2
  Limit = 3
  Absent = Absent
  Tables <- MCTables
  Fields = {"x"}
  Data = {"v"}
  NilV = "nil"
  MaxTagLoop = 3
  c1 = c1
  c2 = c2
  c3 = c3
  Classes <- MCClasses
  Methods = {"m"}
  MaxDefs = 3
  None = None
  Modules = {"m1", "m2", "m3", "math"}
  Libraries = {"math"}
  Results = {"value"}
  MaxRuns = 2
INVARIANTS MatchesAsDefined TokensAsWritten ListsKept BufferInOrder RequiredOnce AbsentMeansAbsent
PROPERTIES UsedMethodKept FailedForGood
