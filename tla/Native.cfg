SPECIFICATION MCSpec
CONSTANTS
  t1 = t1
  t2 = t2
  t3 = t3
  None = None
  Threads = {t1, t2, t3}
  Users = {t1, t2, t3}
  Pages = {1, 2, 3, 5}
  CountSpan = 4
  AddressSpan = 4
  PerPage = 2
  MaxCalls = 5
  MaxGuards = 5
  Images <- MCImages
  Replacement <- MCReplacement
  Page = 16
  Reach = 4
  ArenaBase = 304
  MaxHooks = 4
  MaxNativeCalls = 2
  Fuel = 30
  Null = Null
CHECK_DEADLOCK FALSE
INVARIANTS
  TrampolinesDistinct
  HeldIsDebuggable
  EffectsKept
  HookedEnters
  CodeIsPatched
PROPERTIES
  CallsEnd
