SPECIFICATION MCSpec
CONSTANTS
  m1 = m1
  m2 = m2
  c1 = c1
  b1 = b1
  b2 = b2
  t1 = t1
  t2 = t2
  None = None
  Methods = {m1, m2}
  Static = {m1}
  Classes = {c1}
  ClassOf <- OneClass
  Backups = {b1, b2}
  Threads = {t1, t2}
  Overlapping = {m2}
  Racing = {m1, m2}
SYMMETRY Symmetry
INVARIANTS
  RegistryPaired
  HookedIsPatched
  BackupRunsOriginal
  DeoptimizedInterprets
