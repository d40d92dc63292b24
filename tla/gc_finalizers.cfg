SPECIFICATION Spec
CONSTANTS
  reg = reg
  glob = glob
  t1 = t1
  t2 = t2
  main = main
  co = co
  f1 = f1
  f2 = f2
  u1 = u1
  u2 = u2
  uv1 = uv1
  s1 = s1
  Prim = Prim
  Nil = Nil
  MainThread = main
  Registry = reg
  Globals = glob
  Slots = {0, 1}
  GlobalsSlot = 0
  Keys = {Prim, u1}
  KeyWeak = {t1}
  ValueWeak = {}
  Finalizable = {u1, u2}
  FixedStrings = {}
  SweepMax = 8
  Funcs = {}
  Udatas = {u1, u2}
  Upvals = {}
  Strings = {}
  Threads = {main}
  Tables = {reg, glob, t1}
CONSTRAINT FinalBound
VIEW View
INVARIANTS NoDangling FinalizeOnce
PROPERTIES FinalizeBeforeFree
