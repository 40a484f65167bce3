SPECIFICATION Spec
CONSTANTS
  t1 = t1
  t2 = t2
  t3 = t3
  m1 = m1
  m2 = m2
  m3 = m3
  c1 = c1
  c2 = c2
  None = None
  Threads = {t1, t2, t3}
  Methods = {m1}
  Abstract = {}
  Callbacks = {c1, c2}
  MaxRecords = 6
  MaxOps = 6
SYMMETRY Symmetry
INVARIANTS
  PatchesAlternate
  CallbacksHaveBackup
  UnhookedNeverRuns
  LostOnlyWhenOvertaken
PROPERTIES
  ImplementsRegistry
