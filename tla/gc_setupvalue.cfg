SPECIFICATION DebugSpec
CONSTANTS
  reg = reg
  glob = glob
  t1 = t1
  main = main
  f1 = f1
  f2 = f2
  uv1 = uv1
  Prim = Prim
  Nil = Nil
  MainThread = main
  Registry = reg
  Globals = glob
  Slots = {0, 1}
  GlobalsSlot = 0
  Keys = {Prim}
  KeyWeak = {}
  ValueWeak = {}
  Finalizable = {}
  FixedStrings = {}
  SweepMax = 8
  Funcs = {f1, f2}
  Udatas = {}
  Upvals = {uv1}
  Strings = {}
  Threads = {main}
  Tables = {reg, glob, t1}
CONSTRAINT DebugBound
INVARIANTS UpvalueAlive
