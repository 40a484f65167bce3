SPECIFICATION Spec
CONSTANTS
  Home = Home
  Proxy = Proxy
  None = None
  Callers = {t1}
  Activities = {a1}
  Services = {s1}
  Implicit = {s1}
  MaxBegins = 1
  MaxStarts = 1
  MaxCrashes = 0
INVARIANT
  ImplicitStarts
