SPECIFICATION Spec
CONSTANTS
  co1 = co1
  co2 = co2
  main = main
  Main = main
  Coroutines = {co1, co2}
  MaxCCalls = 3
  Reserve = 1
  BasicCI = 2
  MaxCalls = 4
  NativeMax = 8
CONSTRAINT NativeBound
SYMMETRY Interchangeable
INVARIANTS TypeOK JumpBuffersLive CallsCounted CallInfosRun InnermostHandler StatusTruthful
