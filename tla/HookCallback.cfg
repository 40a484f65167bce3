SPECIFICATION MCSpec
CONSTANTS
  w1 = w1
  v1 = v1
  x1 = x1
  c1 = c1
  c2 = c2
  c3 = c3
  c4 = c4
  Null = Null
  Nothing = Nothing
  CastError = CastError
  NullError = NullError
  MaxHooks = 2
  Values = {v1, w1}
  WrongType = {w1}
  Throwables = {x1}
  Methods <- MCMethods
  BoxOf <- MCBoxOf
  ShortSpan = 4
  FieldSpan = 8
  TargetNames <- MCTargetNames
  Alphabets <- MCAlphabets
  Callbacks = {c1, c2, c3, c4}
  HalfRange = 4
  Priorities <- MCNearPriorities
  HashCodes = {1, 2, 3}
CHECK_DEADLOCK FALSE
INVARIANTS
  OutcomeIsOnion
  AftersMirrorBefores
  CodeVerifies
  ArgumentsArrive
  CallerSeesOnion
  DexIsClass
  PriorityOrder
PROPERTIES
  NeverReordered
