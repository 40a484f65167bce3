SPECIFICATION Spec
CONSTANTS
  t1 = t1
  t2 = t2
  t3 = t3
  m1 = m1
  m2 = m2
  m3 = m3
  c1 = c1
  c2 = c2
  None = None
  Threads = {t1, t2}
  Methods = {m1}
  Abstract = {}
  Callbacks = {c1, c2}
  MaxRecords = 4
  MaxOps = 4
INVARIANT HookTakesEffect
