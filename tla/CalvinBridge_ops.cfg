SPECIFICATION FairSpec
CONSTANTS
  t1 = t1
  t2 = t2
  t3 = t3
  m1 = m1
  m2 = m2
  m3 = m3
  c1 = c1
  c2 = c2
  None = None
  Threads = {t1, t2}
  Methods = {m1, m2, m3}
  Abstract = {m3}
  Callbacks = {c1}
  MaxRecords = 8
  MaxOps = 4
INVARIANTS
  RegistryAgreesWithArt
PROPERTIES
  OperationsEnd
