SPECIFICATION ClassesSpec
CONSTANTS
  t1 = t1
  t2 = t2
  a1 = a1
  a2 = a2
  a3 = a3
  s1 = s1
  s2 = s2
  p1 = p1
  p2 = p2
  Home = Home
  Proxy = Proxy
  None = None
  Host = Host
  Callers = {t1}
  Activities = {a1, a2, a3}
  Services = {s1, s2}
  Implicit = {s2}
  Packages = {p1, p2}
  PackageOf <- MCPackageOf
  ClassName <- MCClassName
  ClassesIn <- MCClassesIn
  MaxBegins = 2
  MaxStarts = 0
  MaxCrashes = 0
INVARIANT
  ClassIsIsolated
