SPECIFICATION Spec
CONSTANTS
  MaxStack = 20
  FieldsPerFlush = 2
  StackSize = 48
  Pieces = {1, 7, 1000}
  Programs <- MCPrograms
  Compiler <- MCCompiler
  Loader <- MCLoader
  Interpreter <- MCInterpreter
  Dumped <- MCDumped
INVARIANTS RunsAsWritten CodeChecked TopKept NamesTruthful RoundTrip
