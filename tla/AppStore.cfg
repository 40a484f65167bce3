SPECIFICATION Spec
CONSTANTS
  p1 = p1
  p2 = p2
  v1 = v1
  v2 = v2
  manifest = manifest
  dex = dex
  lib = lib
  Torn = Torn
  Absent = Absent
  None = None
  Packages = {p1, p2}
  Versions = {v1, v2}
  Entries = {manifest, dex, lib}
  Manifest = manifest
  Apk <- MCApk
  MaxInstalls = 3
  MaxUpdates = 1
  MaxFailures = 2
INVARIANTS
  InstallIsExact
  SavedStays
