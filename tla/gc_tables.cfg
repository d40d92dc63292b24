SPECIFICATION Spec
CONSTANTS
  reg = reg
  glob = glob
  t1 = t1
  t2 = t2
  main = main
  co = co
  f1 = f1
  f2 = f2
  u1 = u1
  u2 = u2
  uv1 = uv1
  s1 = s1
  Prim = Prim
  Nil = Nil
  MainThread = main
  Registry = reg
  Globals = glob
  Slots = {0, 1}
  GlobalsSlot = 0
  Keys = {Prim}
  KeyWeak = {}
  ValueWeak = {t2}
  Finalizable = {}
  FixedStrings = {}
  SweepMax = 4
  Funcs = {}
  Udatas = {}
  Upvals = {}
  Strings = {s1}
  Threads = {main}
  Tables = {reg, glob, t1, t2}
CONSTRAINT TablesBound
VIEW View
INVARIANTS TypeOK NoDangling TriColor GrayLists FullGCPrecise
